SPECIFICATION FairConnectionSpec
CONSTANTS
    Conns = {k1, k2, k3}
    NoConn = NoConn
    HasPrefetch = TRUE
    MaxOutages = 2
    MaxPolls = 0
PROPERTIES
    EventuallyUsable
CHECK_DEADLOCK FALSE
