SPECIFICATION FairSpec
CONSTANTS
    c1 = c1
    c2 = c2
    none = none
    LastId = 2
    Conns = {c1, c2}
    NoConn = none
    Opens = 2
    FaultBound = 1
CHECK_DEADLOCK FALSE
INVARIANTS
    StreamInv
    ChannelHeld
    NoListenerLeft
    RestIsSettled
PROPERTIES
    ImplementsEventFeed
    StreamSettles
