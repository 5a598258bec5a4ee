SPECIFICATION OrderFairSpec
CONSTANTS
    Threads = {t1, t2}
    Streams = {s1, s2}
    Buffers = {i1}
    Blocks = {b1}
    small = small
    Classes = {small}
    ClassBytes <- MCClassBytes
    Events <- MCEvents
    NoEvent = NoEvent
    NoThread = NoThread
    NoBlock = NoBlock
    NoClass = NoClass
    MaxFill = 1
    MaxWarmups = 0
    NullStream = NullStream
    Foreign = {}
    EventsFail = FALSE
    MaxOps = 3
INVARIANTS
    
    ReuseOrdered

    
