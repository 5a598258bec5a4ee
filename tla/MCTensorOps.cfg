SPECIFICATION Spec
CONSTANTS
    Shapes <- MCShapes
    FirstShapes <- MCFirstShapes
    MaxSteps = 3
    BlockThreads = 2
    LaneBits = 1
    TileM = 2
    TileN = 4
    GroupSizeM = 2
    WordBits = 3
    Gpus = {"sm_86", "sm_100"}
    DTypes = {"bf16", "int8"}
    Backends = {"Auto", "Custom", "CuTensor"}
    MaxModules = 3
    AlignBytes = 4
    MaxDims = 8
INVARIANTS
    TypeOK
    ViewsDenote
    ContiguousIsDense
    ModuleOncePerKernel
    
    
    
CHECK_DEADLOCK FALSE
