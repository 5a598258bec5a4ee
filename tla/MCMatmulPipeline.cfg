SPECIFICATION Spec
CONSTANTS
    w1 = w1
    w2 = w2
    w3 = w3
    w4 = w4
    Warps <- MCWarps
    MaxTiles = 5
SYMMETRY Symmetry
INVARIANTS
    TypeOK
    NoRace
    ProductComplete
