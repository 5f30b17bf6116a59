\* A new thread that is slow to start.
CONSTANTS
    t1 = t1
    t2 = t2
    t3 = t3
    Threads = {t1, t2, t3}
    NoThread = NoThread
    SlowStart = TRUE
    CreateMayFail = FALSE
    MayZero = TRUE
SPECIFICATION Spec
INVARIANTS AllThreadsShutdown
