\* The wait for room with a client that died.
CONSTANTS
    QLen = 2
    SerialMod = 3
    KeepAlivePeriod = 2
    Sync = FALSE
    MaxFrame = 2
    MaxNet = 1
    LinkMayFail = FALSE
    CallMayFail = FALSE
    ClientMayDie = TRUE
    MayZero = FALSE
SPECIFICATION FairSpec
PROPERTIES WaitEnds
CHECK_DEADLOCK FALSE
