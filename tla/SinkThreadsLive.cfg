\* Threads of any speed: nothing waits for ever.
CONSTANTS
    t1 = t1
    t2 = t2
    Threads = {t1, t2}
    NoThread = NoThread
    SlowStart = TRUE
    CreateMayFail = FALSE
    MayZero = TRUE
SPECIFICATION FairSpec
INVARIANTS StartedMeansJoinable
PROPERTIES JoinEnds DisconnectHeeded
