SPECIFICATION FairSpec
CONSTANTS
    r1 = r1
    r2 = r2
    r3 = r3
    a = a
    b = b
    w1 = w1
    w2 = w2
    Runs = {r1, r2, r3}
    Workers = {w1, w2}
    Passes <- MCPasses
    Partitions = {a, b}
    PartitionOf <- MCPartitionOf
    NoPartition = none
    Global = global
    GlobalLimit = 2
    KeyLimit = 1
    Ttl = 2
    Disturbances = {"overlap", "stall", "flush"}
CHECK_DEADLOCK FALSE
INVARIANTS
    TypeOK
    LimitKept
    LeasesAgree
    HeartbeatHasPass
    WithinLimit
PROPERTIES
    SlotsFreed
