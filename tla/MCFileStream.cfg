SPECIFICATION Spec
CONSTANTS
    Streams = {s1, s2}
    Files = {f1, f2}
    Stdout = Stdout
    Bytes = {1}
    MaxSize = 2
    MaxOffset = 1
    None = None
INVARIANTS OneCloser PositionKnown
SYMMETRY Symmetry
CHECK_DEADLOCK FALSE
