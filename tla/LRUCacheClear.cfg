SPECIFICATION Spec
CONSTANTS
    Keys = {k1, k2}
    Values = {v1}
    Limits = {1}
    Nodes = {n1, n2, n3}
    SizeMod = 4
    MayThrow = FALSE
    None = None
INVARIANT KeepsNewest
