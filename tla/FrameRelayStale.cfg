\* Which buffer is sent.
CONSTANTS
    QLen = 2
    SerialMod = 3
    KeepAlivePeriod = 2
    Sync = FALSE
    MaxFrame = 3
    MaxNet = 1
    LinkMayFail = FALSE
    CallMayFail = FALSE
    ClientMayDie = FALSE
    MayZero = FALSE
SPECIFICATION Spec
PROPERTIES SendsWhatItGot
CHECK_DEADLOCK FALSE
