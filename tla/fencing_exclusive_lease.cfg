SPECIFICATION Spec
CONSTANTS
    c1 = c1
    c2 = c2
    c3 = c3
    k1 = k1
    k2 = k2
    Keys = {k1}
    Callers = {c1, c2}
    AttemptBound = 3
    LeaseDuration = 2
    Delays = {1}
    MaxRetries = 1
    RetryLimit = 2
    Heartbeats = FALSE
CHECK_DEADLOCK FALSE
INVARIANTS
    LeaseIsExclusive
