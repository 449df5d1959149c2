SPECIFICATION Spec
CONSTANTS
    Threads = {t1, t2, t3}
    Failover = FALSE
SYMMETRY AnyThread
INVARIANTS NoCircularWait LockOrder
