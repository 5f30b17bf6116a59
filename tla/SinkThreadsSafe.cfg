\* Threads that start promptly: what the hand-over of flags guarantees.
CONSTANTS
    t1 = t1
    t2 = t2
    t3 = t3
    Threads = {t1, t2, t3}
    NoThread = NoThread
    SlowStart = FALSE
    CreateMayFail = TRUE
    MayZero = TRUE
SPECIFICATION Spec
INVARIANTS TypeOK AllThreadsShutdown
PROPERTIES ImplementsSoleWorker
