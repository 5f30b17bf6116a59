\* The flag a session inherits from the one before it.
CONSTANTS
    t1 = t1
    t2 = t2
    Threads = {t1, t2}
    NoThread = NoThread
    SlowStart = FALSE
    EarlyReturn = FALSE
SPECIFICATION Spec
INVARIANTS ErrorIsOurs
