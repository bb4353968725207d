SPECIFICATION Spec
CONSTANTS
    Keys = {k1, k2, k3}
    Values = {v1, v2}
    Limits = {0, 1, 2, 3}
    Nodes = {n1, n2, n3, n4}
    SizeMod = 8
    MayThrow = TRUE
    None = None
SYMMETRY Interchangeable
INVARIANTS
    TypeOK
    IndexLive
    IndexComplete
PROPERTIES
    GrowsWithinLimit
    ImplementsLRUMap
