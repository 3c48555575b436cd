SPECIFICATION FairSpec
CONSTANTS
    Backends = {b1, b2}
    Clients = {a1}
    Queries = {q1, q2}
    Chunks = 2
    MaxRetries = 1
    RetryRouted = {TRUE, FALSE}
    MaxFailures = 1
    MaxLag = 1
    None = None
INVARIANTS
    StreamTypeOK
    RenderedOnce
    DoneMeansComplete
PROPERTIES
    EventuallyAnswered
CHECK_DEADLOCK FALSE
