SPECIFICATION Spec
CONSTANTS
    Threads = {t1, t2}
    Failover = TRUE
SYMMETRY AnyThread
INVARIANTS NoCircularWait
