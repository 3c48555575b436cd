SPECIFICATION AllSpec
CONSTANTS
    Requests = {q1, q2, q3}
    Backends = {b1, b2}
    MaxFailures = 2
    MaxFallbacks = 2
    None = None
    Servers = {b1, b2}
    Attempts = {q1, q2, q3, q4}
    Emails = {e1}
    MaxPerEmail = 2
    MaxPerIp = 4
    Window = 2
    Threshold = 2
    MaxTime = 2
    MaxServed = 4
    MaxOutages = 1
SYMMETRY Interchangeable
INVARIANTS
    TypesOK
    RevokedHere
    StaleKeysBounded
    UsableOnceIssued
    LoginCapped
PROPERTIES
    SessionsEndOnce
CHECK_DEADLOCK FALSE
