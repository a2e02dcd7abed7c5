SPECIFICATION FairSpec
CONSTANTS
    c1 = c1
    c2 = c2
    c3 = c3
    k1 = k1
    k2 = k2
    Keys = {k1}
    Callers = {c1, c2, c3}
    AttemptBound = 3
    LeaseDuration = 2
    Delays = {0, 1}
    MaxRetries = 1
    RetryLimit = 2
    Heartbeats = TRUE
CHECK_DEADLOCK FALSE
INVARIANTS
    IInv
    ActiveIsLatest
    RunningIsRecoverable
    OneWinner
    OneOwner
    ReplayAgrees
PROPERTIES
    CompletedIsFinal
    SettledIsFinal
    OrphansSettle
    WriteOnce
