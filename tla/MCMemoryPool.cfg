SPECIFICATION FairSpec
CONSTANTS
    Threads = {t1, t2}
    Streams = {s1}
    Buffers = {i1, i2}
    Blocks = {b1, b2}
    small = small
    large = large
    Classes = {small, large}
    ClassBytes <- MCClassBytes
    Events = {e1}
    NoEvent = NoEvent
    NoThread = NoThread
    NoBlock = NoBlock
    NoClass = NoClass
    MaxFill = 2
    MaxWarmups = 1
INVARIANTS
    TypeOK
    PoolOutlivesBuffers
    ImplDiesClean
    OutstandingExact
    FreeListsSound
    BytesExact
PROPERTIES
    LostOnlyByThrow
    DropsComplete
    AbstractSpec
