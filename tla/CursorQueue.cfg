\* Rings of two, a queue that fills, clients that come, stall and go.
CONSTANTS
    Pointers = 2
    Shapes = 2
    Capacity = 2
    MaxSent = 3
    WireLen = 2
    FreedIntact = TRUE
    None = None
SPECIFICATION FairSpec
INVARIANTS TypeOK PositionIsFresh ImageIsReal ImageArrives
PROPERTIES SettlesOnLast
