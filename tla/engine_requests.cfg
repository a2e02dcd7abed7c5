SPECIFICATION EngineSpec
CONSTANTS
    s1 = s1
    s2 = s2
    s3 = s3
    a = a
    b = b
    none = none
    r1 = r1
    x1 = x1
    Keys = {a, b}
    Slots = {s1, s2, s3}
    Compatible = {s1, s2}
    Callers <- MCCallers
    Stage <- TwoStages
    NoKey = none
    AttemptBound = 3
    LeaseDuration = 1
    Delays = {0}
    MaxRetries = 1
    RetryLimit = 2
    Heartbeats = FALSE
    Retriers = {r1}
    Cancellers = {x1}
    Faults = {"enqueue"}
    FaultBound = 1
    SlowHandlers = TRUE
SYMMETRY SlotSymmetry
CHECK_DEADLOCK FALSE
INVARIANTS
    FailureHasCause
    FailureInv
PROPERTIES
    RunEndStands
