SPECIFICATION FairScan
CONSTANTS
    t1 = t1
    t2 = t2
    a1 = a1
    a2 = a2
    a3 = a3
    r1 = r1
    r2 = r2
    r3 = r3
    k1 = k1
    e1 = e1
    b1 = b1
    b2 = b2
    none = none
    nocall = nocall
    Tenants = {t1, t2}
    Capacity = 3
    RefillRate = 3
    Cost = 2
    Ttl = 2
    MaxSkew = 1
    MaxTime = 3
    Requests = {r1, r2, r3}
    Asks <- MadeCalls
    ApiKeys = {a1, a2, a3}
    TenantOf <- TwoTenantKeys
    RunKeys = {k1}
    NoKey = none
    EventIds = {e1}
    BindingsOf <- FirstTenantBindings
    NoCall = nocall
    Queueing = TRUE
    FaultBound = 1
    BatchSize = 2
CHECK_DEADLOCK FALSE
INVARIANTS
    ApiInv
    AdmissionBounded
    RepliesAgree
    EventRepliesHold
    OwnRunsOnly
    CreationsAdmitted
PROPERTIES
    PromiseKept
    EveryRunReached
