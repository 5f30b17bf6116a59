\* One session after another, every failure but the ones that return early.
CONSTANTS
    t1 = t1
    t2 = t2
    Threads = {t1, t2}
    NoThread = NoThread
    SlowStart = FALSE
    EarlyReturn = FALSE
SPECIFICATION FairSpec
INVARIANTS TypeOK SessionCleaned ChannelInUse
PROPERTIES CrashForCause JoinEnds ErrorEndsSession
