SPECIFICATION LockSpec
CONSTANTS
    Contenders = {t1, t2, t3, t4, t5}
INVARIANTS
    MutualExclusion
    FlagHasOwner
PROPERTY KeepsGranting
