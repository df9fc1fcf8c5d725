CONSTANTS
    Threads = {t1, t2, t3}
    kBitsPerWord = 2
    HaveThreadLocal = TRUE
    MaxIds = 6
SPECIFICATION Spec
CHECK_DEADLOCK FALSE
INVARIANTS TypeOK LiveIdsDiffer OneIdPerThread CacheAgrees
