SPECIFICATION BothSpec
CONSTANTS
    Replicas = {r1, r2}
    Messages = {m1}
    Copies = {c1, c2, c3}
    MaxConcurrency = 0
    Prefetch = 1
    Retrying = {r1, r2}
    MaxRetries = 1
    OperatorRoute <- OperatorBound
    PublishMayFail = FALSE
    MaxCrashes = 1
    RedisMayFail = TRUE
    SmtpMayFail = TRUE
    MaxFallbacks = 1
    None = None
    Conns = {k1, k2, k3, k4}
    NoConn = NoConn
    HasPrefetch = TRUE
    MaxOutages = 1
    MaxPolls = 2
INVARIANTS
    TypesOK
    EmailsBounded
    SilentLossNeedsFailure
    NoFailedMessageLost
    ConnectedMeansUsable
    GrowthBounded
PROPERTIES
    EventuallySettled
    ConnectionRecovers
CHECK_DEADLOCK FALSE
