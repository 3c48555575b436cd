SPECIFICATION LimitSpec
CONSTANTS
    Servers = {b1}
    Attempts = {p1}
    Emails = {e1}
    MaxPerEmail = 1
    MaxPerIp = 1
    Window = 1
    Threshold = 3
    MaxTime = 3
    MaxServed = 2
    MaxOutages = 0
INVARIANT RefusedInWindow
CHECK_DEADLOCK FALSE
