\* Synchronous polling with every fault: clients that die, memory that is
\* zeroed, a connection or a single call that fails.
CONSTANTS
    QLen = 2
    SerialMod = 3
    KeepAlivePeriod = 2
    Sync = TRUE
    MaxFrame = 3
    MaxNet = 1
    LinkMayFail = TRUE
    CallMayFail = TRUE
    ClientMayDie = TRUE
    MayZero = TRUE
SPECIFICATION Spec
INVARIANTS IInv RewoundWhileAwaited
CHECK_DEADLOCK FALSE
