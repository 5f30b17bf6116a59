\* Busy polling: the whole session, with a client that never dies.
CONSTANTS
    QLen = 2
    SerialMod = 3
    KeepAlivePeriod = 1
    Sync = FALSE
    MaxFrame = 3
    MaxNet = 1
    LinkMayFail = TRUE
    CallMayFail = TRUE
    ClientMayDie = FALSE
    MayZero = FALSE
SPECIFICATION FairSpec
INVARIANTS TypeOK OneRequest NoRequestLost AckMeansWritten WriteIsWanted
PROPERTIES FramesNeverGoBack QuitsForCause ImplementsDelivery RequestAnswered PeerGone FlagHeeded
