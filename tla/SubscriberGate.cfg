SPECIFICATION ServicesSpec
CONSTANTS
    Replicas = {r1, r2}
    Messages = {m1, m2, m3}
    Copies = {c1, c2, c3}
    MaxConcurrency = 1
    Prefetch = 3
    Retrying = {r1}
    MaxRetries = 1
    OperatorRoute <- RetriesReturn
    PublishMayFail = TRUE
    MaxCrashes = 1
    None = None
    Users = {u1, u2}
    Agents = {a1, a2}
    Changes = {s1, s2}
    Lists = {l1}
    Gone = Gone
SYMMETRY Alike
CONSTRAINT RunsCapped
INVARIANTS
    NoLostWakeup
    SettledOnce
    AccountsKept
    UserListFresh
PROPERTIES
    GateRefined
CHECK_DEADLOCK FALSE
