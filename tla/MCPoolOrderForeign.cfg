SPECIFICATION OrderSpec
CONSTANTS
    Threads = {t1}
    Streams = {s1, s2}
    Buffers = {i1}
    Blocks = {b1}
    small = small
    Classes = {small}
    ClassBytes <- MCClassBytes
    Events <- MCEvents
    NoEvent = NoEvent
    NoThread = NoThread
    NoBlock = NoBlock
    NoClass = NoClass
    MaxFill = 1
    MaxWarmups = 0
    NullStream = NullStream
    Foreign = {s1, s2, NullStream}
    EventsFail = FALSE
    MaxOps = 2
INVARIANTS
    ReuseOrdered
