SPECIFICATION Spec
CONSTANTS
    b1 = b1
    b2 = b2
    Builds <- MCBuilds
    Kernels <- MCKernels
    DtypesOf <- MCDtypesOf
    MaxVersion = 2
    MaxEdits = 2
    MaxStarts = 2
    None = None
SYMMETRY Symmetry
INVARIANTS
    TypeOK
    CacheMatchesKeys
    EmbedsSources
    PruningIsSafe
CHECK_DEADLOCK FALSE
