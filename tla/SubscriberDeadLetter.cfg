SPECIFICATION Spec
CONSTANTS
    Replicas = {r1}
    Messages = {m1}
    Copies = {c1, c2}
    MaxConcurrency = 1
    Prefetch = 1
    Retrying = {r1}
    MaxRetries = 1
    OperatorRoute <- AsBuilt
    PublishMayFail = FALSE
    MaxCrashes = 0
    None = None
INVARIANTS
    NoFailedMessageLost
CHECK_DEADLOCK FALSE
