SPECIFICATION EngineSpec
CONSTANTS
    s1 = s1
    s2 = s2
    s3 = s3
    a = a
    b = b
    none = none
    r1 = r1
    x1 = x1
    Keys = {a, b}
    Slots = {s1, s2}
    Compatible = {s1, s2}
    Callers <- MCCallers
    Stage <- OneStage
    NoKey = none
    AttemptBound = 3
    LeaseDuration = 2
    Delays = {1}
    MaxRetries = 1
    RetryLimit = 2
    Heartbeats = FALSE
    Retriers = {}
    Cancellers = {}
    Faults = {}
    FaultBound = 0
    SlowHandlers = FALSE
SYMMETRY SlotSymmetry
CHECK_DEADLOCK FALSE
INVARIANTS
    NoRunLost
