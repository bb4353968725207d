SPECIFICATION Spec
CONSTANTS
    Arrays = {x, y}
    Addresses = {p1, p2, p3}
    NULL = NULL
    Base = 2
    Values = {1}
    Chars = {0, 1, 2}
    MaxSize = 3
INVARIANTS BlocksOwned ReferenceLives
PROPERTY ImplementsArrayValues
SYMMETRY Symmetry
