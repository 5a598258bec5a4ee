SPECIFICATION FairSpec
CONSTANTS
    t1 = t1
    t2 = t2
    forward = forward
    backward = backward
    other = other
    Threads = {t1, t2}
    Graphs = {forward, backward, other}
    Owner <- MCOwner
    Strict <- MCStrict
    MaxCaptures = 3
    MaxReserved = 1
    MaxDepth = 2
INVARIANTS
    TypeOK
    CaptureOpen
    GraphsOwned
    ExecSound
PROPERTIES
    MallocAgain
