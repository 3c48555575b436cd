SPECIFICATION FairConnectionSpec
CONSTANTS
    Conns = {k1, k2, k3}
    NoConn = NoConn
    HasPrefetch = TRUE
    MaxOutages = 1
    MaxPolls = 1
PROPERTIES
    EventuallyConsumes
CHECK_DEADLOCK FALSE
