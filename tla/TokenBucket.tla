------------------------------ MODULE TokenBucket ------------------------------
(***************************************************************************)
(* The rate limiter of the control API: RATE_LIMIT_LUA_SCRIPT on one Redis  *)
(* hash per tenant, and checkRateLimit, which calls it with the time of the *)
(* calling process.                                                         *)
(*                                                                          *)
(* Redis runs a script as one step.  Its expiry of keys goes by its own     *)
(* clock; what it refills goes by the callers' clocks, which differ from    *)
(* one API process to the next, and a call may wait on its way to Redis:    *)
(* the times one bucket is given can go backward.  A unit of time is what   *)
(* the smallest difference of the fractional seconds is in the code.        *)
(***************************************************************************)
EXTENDS Integers

CONSTANTS
    Tenants,
    Capacity, RefillRate, Cost,
    Ttl,         \* for how long a key outlives the last call
    MaxSkew,     \* by how much a caller's time is behind Redis's at most; Redis's
                 \* clock begins there
    MaxTime      \* bound: the last time on Redis's clock

ASSUME BucketAssumption ==
    /\ Capacity \in Nat /\ Cost \in 1..Capacity
    /\ RefillRate \in Nat \ {0}
    /\ Ttl \in Nat /\ MaxSkew \in Nat /\ MaxTime \in Nat

\* The key outlives the time that fills a bucket, as the clocks have it.  (The
\* code takes twice that time, and a minute at least.)
ASSUME TtlAssumption == Ttl >= MaxSkew /\ RefillRate * (Ttl - MaxSkew) >= Capacity

VARIABLES
    now,         \* Redis's clock, when it last ran the script
    tokens, lastRefill, \* the fields of each tenant's hash
    expires,     \* when Redis drops it
    admitted,    \* history: how many calls were allowed
    rewound,     \* history: by how much the times of successive calls went back
    promised     \* history: the time the last refusal's Retry-After names, or 0

bucketVars == <<now, tokens, lastRefill, expires, admitted, rewound, promised>>

BucketInit ==
    /\ now = MaxSkew
    /\ tokens = [t \in Tenants |-> Capacity]
    /\ lastRefill = [t \in Tenants |-> now]
    /\ expires = [t \in Tenants |-> 0]
    /\ admitted = [t \in Tenants |-> 0]
    /\ rewound = [t \in Tenants |-> 0]
    /\ promised = [t \in Tenants |-> 0]

\* Mutant: without math.max, and the sign.
Apart(a, b) == IF a > b THEN a - b ELSE b - a

Later(a, b) == IF a > b THEN a - b ELSE 0

\* current_tokens, before the call's cost is taken.
Level(t, clock, time) ==
    IF clock < expires[t]
    THEN LET filled == tokens[t] + Later(time, lastRefill[t]) * RefillRate
         IN  IF filled < Capacity THEN filled ELSE Capacity
    ELSE Capacity

\* Mutant: any token will do.
AllowsPartly(t, clock, time) == Level(t, clock, time) > 0

Allows(t, clock, time) == Level(t, clock, time) >= Cost

\* Mutant: math.floor.
RetryTooSoon(needed) == needed \div RefillRate

\* math.ceil(needed / refill_rate), in the unit of time.  The code's unit is the
\* second, and its answer is one at least: never sooner than this.
RetryAfter(needed) == (needed + RefillRate - 1) \div RefillRate

\* What Date.now() may have given the caller whose script runs at a time of Redis.
Times(clock) == (clock - MaxSkew)..clock

\* One run of the script.  A refused call leaves what was refilled, and its time.
CheckRateLimit(t, clock, time) ==
    LET level == Level(t, clock, time)
        allowed == Allows(t, clock, time)
    IN
    /\ now' = clock
    /\ tokens' = [tokens EXCEPT ![t] = IF allowed THEN level - Cost ELSE level]
    /\ lastRefill' = [lastRefill EXCEPT ![t] = time]
    /\ expires' = [expires EXCEPT ![t] = clock + Ttl]
    /\ admitted' = [admitted EXCEPT ![t] = IF allowed THEN @ + 1 ELSE @]
    /\ rewound' = [rewound EXCEPT ![t] = @ + Later(lastRefill[t], time)]
    /\ promised' = [promised EXCEPT ![t] = IF allowed THEN 0
                                           ELSE time + RetryAfter(Cost - level)]

----------------------------------------------------------------------------
BucketTypeOK ==
    /\ now \in Nat /\ now >= MaxSkew
    /\ tokens \in [Tenants -> 0..Capacity]
    /\ lastRefill \in [Tenants -> Nat] /\ expires \in [Tenants -> Nat]
    /\ admitted \in [Tenants -> Nat] /\ rewound \in [Tenants -> Nat]
    /\ promised \in [Tenants -> Nat]

\* No tenant is allowed more calls than the bucket's capacity and the time that
\* has passed pay for, except what callers' clocks that go back give it: the time
\* between is refilled once more.  Neither refusals nor a key that expired and
\* begins anew with a full bucket add to it.
AdmissionBounded ==
    \A t \in Tenants :
        Cost * admitted[t] <= Capacity + RefillRate * (now - MaxSkew + rewound[t])

\* Behind it: what a bucket holds is paid for, too, and a key that is gone was
\* left long enough to have filled.
BudgetInv ==
    \A t \in Tenants :
        /\ tokens[t] + Cost * admitted[t]
             <= Capacity + RefillRate * (lastRefill[t] - MaxSkew + rewound[t])
        /\ lastRefill[t] <= now
        /\ \/ expires[t] >= lastRefill[t] + Ttl
           \/ expires[t] = 0 /\ lastRefill[t] = MaxSkew /\ tokens[t] = Capacity

\* Behind PromiseKept: by the time that was named, what was missing is refilled.
PromiseInv ==
    \A t \in Tenants : promised[t] # 0 =>
        /\ promised[t] > lastRefill[t]
        /\ tokens[t] + RefillRate * (promised[t] - lastRefill[t]) >= Cost

\* A refused tenant whose next call comes when Retry-After says is allowed.
PromiseKept ==
    [][\A t \in Tenants :
          promised[t] # 0 /\ lastRefill'[t] >= promised[t] => promised'[t] = 0]_bucketVars
=============================================================================
