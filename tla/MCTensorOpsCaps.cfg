SPECIFICATION Spec
CONSTANTS
    Shapes <- MCShapes
    FirstShapes <- MCFirstShapes
    MaxSteps = 3
    BlockThreads = 2
    LaneBits = 1
    TileM = 2
    TileN = 4
    GroupSizeM = 2
    WordBits = 3
    Gpus = {"sm_86", "sm_89", "sm_100"}
    DTypes = {"bf16", "fp32", "int8"}
    Backends = {"CuDNN"}
    MaxModules = 3
    AlignBytes = 4
    MaxDims = 8
INVARIANT GeluStaysOffCuDNN
CHECK_DEADLOCK FALSE
