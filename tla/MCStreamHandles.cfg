SPECIFICATION Spec
CONSTANTS
    t1 = t1
    t2 = t2
    o1 = o1
    o2 = o2
    o3 = o3
    r1 = r1
    r2 = r2
    h1 = h1
    h2 = h2
    Threads <- MCThreads
    Objects <- MCObjects
    Raws <- MCRaws
    Handles <- MCHandles
    NullStream = NullStream
    None = None
    MaxGuards = 2
SYMMETRY Symmetry
INVARIANTS
    TypeOK
    StreamsApart
    HandlesFollowStreams
    OneHandlePerStream
