SPECIFICATION Spec
CONSTANTS
    direct = direct
    Groups = {direct}
    Ops <- MCOps
    NoGroup = NoGroup
    Hints = {s1, s2}
    SyncInGroups = FALSE
    MaxOps = 4
    MaxAfterCut = 2
    MaxIterations = 2
    MaxSessions = 1
INVARIANTS
    TypeOK
    EventsSound
    EachOnce
    LabelsKept
    WindowsAreIterations
SYMMETRY Symmetry
