SPECIFICATION Spec
CONSTANTS
    Threads = {t1, t2, t3}
    Contexts = {c1, c2, c3, c4}
    Versions = {2, 3, 7}
    Word = 8
    None = None
INVARIANTS
    TypeOK
    HolderSafe
    Ownership
PROPERTIES
    ImplementsSpinLock
    ImplementsContextService
    KeepsServing
    Reclaimed
