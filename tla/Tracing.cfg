SPECIFICATION Spec
CONSTANTS
    Threads = {t1, t2}
    Levels = {5}
    Configured = {1, 7}
    Tuners = {t2}
    Names = {5}
    Printf = 9
    Header = 4
    LOGGER_BUFFER_SIZE = 10
    Scoping = {t1}
    MaxDepth = 1
    MaxFailed = 1
INVARIANTS MarksTellScopes FiltersAgree
PROPERTY EveryCallReturns
