SPECIFICATION WorkerSpec
CONSTANTS
    Replicas = {r1}
    Messages = {m1}
    Copies = {c1, c2}
    MaxConcurrency = 0
    Prefetch = 1
    Retrying = {r1}
    MaxRetries = 1
    OperatorRoute <- OperatorBound
    PublishMayFail = FALSE
    MaxCrashes = 0
    RedisMayFail = FALSE
    SmtpMayFail = TRUE
    MaxFallbacks = 0
    None = None
INVARIANTS
    NoEmailLost
CHECK_DEADLOCK FALSE
