SPECIFICATION Spec
CONSTANTS
    Requests = {q1, q2, q3}
    Backends = {b1}
    MaxFailures = 0
    MaxFallbacks = 0
    None = None
INVARIANTS
    LogoutEndsSession
CHECK_DEADLOCK FALSE
