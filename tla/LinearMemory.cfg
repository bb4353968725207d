SPECIFICATION Spec
CONSTANTS
    Base = 2
    MemorySize = 8
    WCHAR_SIZE = 2
    WordBytes = 4
    LongBytes = 6
    Offsets = {0, 1, 3, 4, 6, 8, 15}
    Counts = {0, 1, 2, 5, 9}
    Chars = {0, 1, 6}
    Magnitudes = {0, 7, 8, 9, 15, 16, 31, 32, 33, 48, 63, 64}
INVARIANTS SearchesFind NumbersNarrow
PROPERTIES StaysInMemory StringsArrive
