SPECIFICATION Spec
CONSTANTS
    direct = direct
    Groups = {direct}
    Ops <- MCOps
    NoGroup = NoGroup
    Hints = {s1}
    SyncInGroups = TRUE
    MaxOps = 4
    MaxAfterCut = 2
    MaxIterations = 2
    MaxSessions = 0
INVARIANTS
    WindowsAreIterations
