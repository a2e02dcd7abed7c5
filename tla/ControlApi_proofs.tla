--------------------------- MODULE ControlApi_proofs ---------------------------
(***************************************************************************)
(* Theorems about ControlApi and the TokenBucket it extends, for all        *)
(* tenants, requests, keys and bindings and all settings of the bucket, and  *)
(* about PendingScan, whose behaviours are ControlApi's.                    *)
(***************************************************************************)
EXTENDS PendingScan, FiniteSetTheorems, TLAPS

(***************************************************************************)
(* The token bucket.                                                        *)
(***************************************************************************)

LEMMA Distributes ==
  ASSUME NEW a \in Int, NEW b \in Int, NEW c \in Int
  PROVE  a * (b + c) = a * b + a * c
  OBVIOUS

LEMMA Monotone ==
  ASSUME NEW a \in Nat, NEW b \in Int, NEW c \in Int, b <= c
  PROVE  a * b <= a * c
<1>1. c - b \in Nat  OBVIOUS
<1>2. a * (c - b) >= 0  BY <1>1
<1>3. a * c = a * b + a * (c - b)  BY Distributes, c = b + (c - b), c - b \in Int
<1>4. a * b \in Int /\ a * c \in Int /\ a * (c - b) \in Int  OBVIOUS
<1> QED  BY <1>2, <1>3, <1>4

\* Rounding up.
LEMMA RetryAfterCovers ==
  ASSUME NEW n \in Nat \ {0}
  PROVE  RetryAfter(n) \in Nat /\ RetryAfter(n) >= 1 /\ RefillRate * RetryAfter(n) >= n
<1> DEFINE q == (n + RefillRate - 1) \div RefillRate
<1>1. RefillRate \in Nat \ {0}  BY BucketAssumption
<1>2. q \in Int /\ RefillRate * q <= n + RefillRate - 1
      /\ n + RefillRate - 1 < RefillRate * q + RefillRate  BY <1>1
<1> HIDE DEF q
<1>3. RefillRate * q \in Int  BY <1>1, <1>2
<1>4. RefillRate * q >= n  BY <1>1, <1>2, <1>3
<1>5. q >= 1
  <2> SUFFICES ASSUME q <= 0 PROVE FALSE  BY <1>2
  <2>1. RefillRate * q <= RefillRate * 0  BY <1>1, <1>2, Monotone, 0 \in Int
  <2> QED  BY <2>1, <1>1, <1>3, <1>4
<1> QED  BY <1>2, <1>4, <1>5 DEF RetryAfter, q

LEMMA TimesAre ==
  ASSUME now \in Nat, now >= MaxSkew, NEW clock \in now..MaxTime,
         NEW time \in Times(clock)
  PROVE  /\ clock \in Nat /\ clock >= now /\ clock >= MaxSkew
         /\ time \in Nat /\ time <= clock /\ time >= clock - MaxSkew
  BY BucketAssumption DEF Times

\* What a script that finds the bucket like this may count on: at most what has
\* passed since the last call, and at most the capacity.
LEMMA LevelBounds ==
  ASSUME BucketTypeOK, BudgetInv, NEW t \in Tenants,
         NEW clock \in now..MaxTime, NEW time \in Times(clock)
  PROVE  /\ Later(time, lastRefill[t]) \in Nat
         /\ RefillRate * Later(time, lastRefill[t]) \in Nat
         /\ Level(t, clock, time) \in 0..Capacity
         /\ Level(t, clock, time) <= tokens[t] + RefillRate * Later(time, lastRefill[t])
         /\ \/ Level(t, clock, time) = Capacity
            \/ Level(t, clock, time) = tokens[t] + RefillRate * Later(time, lastRefill[t])
<1> DEFINE e == Later(time, lastRefill[t])
<1>1. /\ RefillRate \in Nat \ {0} /\ Capacity \in Nat /\ Ttl \in Nat /\ MaxSkew \in Nat
      /\ now \in Nat /\ now >= MaxSkew /\ tokens[t] \in 0..Capacity
      /\ lastRefill[t] \in Nat /\ expires[t] \in Nat
  BY BucketAssumption DEF BucketTypeOK
<1>2. /\ clock \in Nat /\ clock >= now /\ time \in Nat /\ time <= clock
      /\ time >= clock - MaxSkew
  BY <1>1, TimesAre
<1>3. e \in Nat /\ e >= time - lastRefill[t]  BY <1>1, <1>2 DEF Later
<1> HIDE DEF e
<1>4. RefillRate * e \in Nat /\ e * RefillRate = RefillRate * e  BY <1>1, <1>3
<1>5. CASE clock < expires[t]
  <2>1. Level(t, clock, time) = IF tokens[t] + RefillRate * e < Capacity
                                THEN tokens[t] + RefillRate * e ELSE Capacity
    BY <1>5, <1>4 DEF Level, e
  <2> QED  BY <2>1, <1>1, <1>3, <1>4 DEF e
<1>6. CASE ~(clock < expires[t])
  <2>1. Level(t, clock, time) = Capacity  BY <1>6 DEF Level
  <2>2. tokens[t] + RefillRate * e >= Capacity
    <3>1. CASE expires[t] >= lastRefill[t] + Ttl
      <4>1. e >= Ttl - MaxSkew  BY <3>1, <1>1, <1>2, <1>3, <1>6
      <4>2. RefillRate * (Ttl - MaxSkew) <= RefillRate * e
        BY <4>1, <1>1, <1>3, Monotone, Ttl - MaxSkew \in Int
      <4> QED  BY <4>2, <1>1, <1>4, TtlAssumption, RefillRate * (Ttl - MaxSkew) \in Int
    <3>2. CASE tokens[t] = Capacity  BY <3>2, <1>1, <1>4
    <3> QED  BY <3>1, <3>2 DEF BudgetInv
  <2> QED  BY <2>1, <2>2, <1>1, <1>3, <1>4 DEF e
<1> QED  BY <1>5, <1>6

\* What one run of the script does to its tenant's bucket.
LEMMA ScriptResult ==
  ASSUME BucketTypeOK, BudgetInv, NEW t \in Tenants,
         NEW clock \in now..MaxTime, NEW time \in Times(clock),
         CheckRateLimit(t, clock, time)
  PROVE  /\ now' = clock /\ lastRefill'[t] = time /\ expires'[t] = clock + Ttl
         /\ rewound'[t] = rewound[t] + Later(lastRefill[t], time)
         /\ \/ /\ Level(t, clock, time) >= Cost
               /\ tokens'[t] = Level(t, clock, time) - Cost
               /\ admitted'[t] = admitted[t] + 1
               /\ promised'[t] = 0
            \/ /\ Level(t, clock, time) < Cost
               /\ tokens'[t] = Level(t, clock, time)
               /\ admitted'[t] = admitted[t]
               /\ promised'[t] = time + RetryAfter(Cost - Level(t, clock, time))
         /\ \A u \in Tenants \ {t} :
               /\ tokens'[u] = tokens[u] /\ lastRefill'[u] = lastRefill[u]
               /\ expires'[u] = expires[u] /\ admitted'[u] = admitted[u]
               /\ rewound'[u] = rewound[u] /\ promised'[u] = promised[u]
<1>1. /\ t \in DOMAIN tokens /\ t \in DOMAIN lastRefill /\ t \in DOMAIN expires
      /\ t \in DOMAIN admitted /\ t \in DOMAIN rewound /\ t \in DOMAIN promised
      /\ \A u \in Tenants : /\ u \in DOMAIN tokens /\ u \in DOMAIN lastRefill
                            /\ u \in DOMAIN expires /\ u \in DOMAIN admitted
                            /\ u \in DOMAIN rewound /\ u \in DOMAIN promised
  BY DEF BucketTypeOK
<1>2. Level(t, clock, time) \in 0..Capacity /\ Cost \in Nat  BY LevelBounds, BucketAssumption
<1>3. now' = clock /\ lastRefill'[t] = time /\ expires'[t] = clock + Ttl
      /\ rewound'[t] = rewound[t] + Later(lastRefill[t], time)
  BY <1>1 DEF CheckRateLimit
<1>4. \A u \in Tenants \ {t} :
         /\ tokens'[u] = tokens[u] /\ lastRefill'[u] = lastRefill[u]
         /\ expires'[u] = expires[u] /\ admitted'[u] = admitted[u]
         /\ rewound'[u] = rewound[u] /\ promised'[u] = promised[u]
  BY <1>1 DEF CheckRateLimit
<1>5. CASE Allows(t, clock, time)
  <2>1. Level(t, clock, time) >= Cost  BY <1>5 DEF Allows
  <2>2. tokens'[t] = Level(t, clock, time) - Cost
    BY <1>1, <1>5 DEF CheckRateLimit
  <2>3. admitted'[t] = admitted[t] + 1 /\ promised'[t] = 0
    BY <1>1, <1>5 DEF CheckRateLimit
  <2> QED  BY <2>1, <2>2, <2>3, <1>3, <1>4
<1>6. CASE ~Allows(t, clock, time)
  <2>1. Level(t, clock, time) < Cost  BY <1>2, <1>6 DEF Allows
  <2>2. tokens'[t] = Level(t, clock, time) /\ admitted'[t] = admitted[t]
    BY <1>1, <1>6 DEF CheckRateLimit
  <2>3. promised'[t] = time + RetryAfter(Cost - Level(t, clock, time))
    BY <1>1, <1>6 DEF CheckRateLimit
  <2> QED  BY <2>1, <2>2, <2>3, <1>3, <1>4
<1> QED  BY <1>5, <1>6

LEMMA ScriptTypes ==
  ASSUME BucketTypeOK, BudgetInv, NEW t \in Tenants,
         NEW clock \in now..MaxTime, NEW time \in Times(clock),
         CheckRateLimit(t, clock, time)
  PROVE  BucketTypeOK'
<1> DEFINE level == Level(t, clock, time)
<1>1. /\ Cost \in 1..Capacity /\ Capacity \in Nat /\ Ttl \in Nat /\ MaxSkew \in Nat
  BY BucketAssumption
<1>2. clock \in Nat /\ clock >= MaxSkew /\ time \in Nat
  BY TimesAre DEF BucketTypeOK
<1>3. level \in 0..Capacity  BY LevelBounds
<1>4. now' \in Nat /\ now' >= MaxSkew  BY <1>2 DEF CheckRateLimit
<1>5. level >= Cost => level - Cost \in 0..Capacity  BY <1>1, <1>3
<1>6. tokens' \in [Tenants -> 0..Capacity]
  BY <1>3, <1>5 DEF CheckRateLimit, BucketTypeOK, Allows
<1>7. lastRefill' \in [Tenants -> Nat]  BY <1>2 DEF CheckRateLimit, BucketTypeOK
<1>8. expires' \in [Tenants -> Nat]
  BY <1>1, <1>2, clock + Ttl \in Nat DEF CheckRateLimit, BucketTypeOK
<1>9. admitted' \in [Tenants -> Nat]  BY DEF CheckRateLimit, BucketTypeOK
<1>10. rewound' \in [Tenants -> Nat]
  <2>1. lastRefill[t] \in Nat  BY DEF BucketTypeOK
  <2>2. Later(lastRefill[t], time) \in Nat  BY <2>1, <1>2 DEF Later
  <2> QED  BY <2>2 DEF CheckRateLimit, BucketTypeOK
<1>11. promised' \in [Tenants -> Nat]
  <2>1. CASE Allows(t, clock, time)  BY <2>1 DEF CheckRateLimit, BucketTypeOK
  <2>2. CASE ~Allows(t, clock, time)
    <3>1. Cost - level \in Nat \ {0}  BY <2>2, <1>1, <1>3 DEF Allows
    <3>2. time + RetryAfter(Cost - level) \in Nat  BY <3>1, <1>2, RetryAfterCovers
    <3> QED  BY <2>2, <3>2 DEF CheckRateLimit, BucketTypeOK
  <2> QED  BY <2>1, <2>2
<1> QED  BY <1>4, <1>6, <1>7, <1>8, <1>9, <1>10, <1>11 DEF BucketTypeOK

LEMMA ScriptBudget ==
  ASSUME BucketTypeOK, BudgetInv, NEW t \in Tenants,
         NEW clock \in now..MaxTime, NEW time \in Times(clock),
         CheckRateLimit(t, clock, time)
  PROVE  BudgetInv'
<1> SUFFICES ASSUME NEW u \in Tenants
             PROVE  /\ tokens'[u] + Cost * admitted'[u]
                         <= Capacity + RefillRate * (lastRefill'[u] - MaxSkew + rewound'[u])
                    /\ lastRefill'[u] <= now'
                    /\ \/ expires'[u] >= lastRefill'[u] + Ttl
                       \/ expires'[u] = 0 /\ lastRefill'[u] = MaxSkew /\ tokens'[u] = Capacity
  BY DEF BudgetInv
<1>1. /\ Cost \in Nat /\ Capacity \in Nat /\ RefillRate \in Nat /\ Ttl \in Nat
      /\ MaxSkew \in Nat /\ now \in Nat
      /\ tokens[u] \in Nat /\ admitted[u] \in Nat /\ lastRefill[u] \in Nat
      /\ rewound[u] \in Nat /\ expires[u] \in Nat
  BY BucketAssumption DEF BucketTypeOK
<1>2. clock \in Nat /\ clock >= now /\ time \in Nat /\ time <= clock
  BY TimesAre DEF BucketTypeOK
<1>3. CASE u # t
  <2>1. /\ tokens'[u] = tokens[u] /\ admitted'[u] = admitted[u] /\ now' = clock
        /\ lastRefill'[u] = lastRefill[u] /\ rewound'[u] = rewound[u]
        /\ expires'[u] = expires[u]
    BY <1>3, ScriptResult
  <2>2. lastRefill[u] <= now  BY DEF BudgetInv
  <2>3. lastRefill'[u] <= now'  BY <2>1, <2>2, <1>1, <1>2
  <2> QED  BY <2>1, <2>3 DEF BudgetInv
<1>4. CASE u = t
  <2> DEFINE level == Level(t, clock, time)
             e == Later(time, lastRefill[t])
             s == lastRefill[t] - MaxSkew + rewound[t]
  <2>1. level \in 0..Capacity /\ e \in Nat /\ RefillRate * e \in Nat
        /\ level <= tokens[t] + RefillRate * e
    BY LevelBounds
  <2>2. /\ now' = clock /\ lastRefill'[t] = time /\ expires'[t] = clock + Ttl
        /\ rewound'[t] = rewound[t] + Later(lastRefill[t], time)
    BY ScriptResult
  <2>3. lastRefill'[t] - MaxSkew + rewound'[t] = s + e
    BY <2>2, <1>1, <1>2, <1>4 DEF Later
  <2>4. s \in Int  BY <1>1, <1>4
  <2>5. tokens[t] + Cost * admitted[t] <= Capacity + RefillRate * s  BY DEF BudgetInv
  <2> HIDE DEF e, s, level
  <2>6. RefillRate * (s + e) = RefillRate * s + RefillRate * e /\ RefillRate * s \in Int
    BY <2>1, <2>4, <1>1, Distributes
  <2>7. level + Cost * admitted[t] <= Capacity + RefillRate * (s + e)
    BY <2>1, <2>5, <2>6, <1>1, <1>4, Cost * admitted[t] \in Int
  <2>8. tokens'[t] + Cost * admitted'[t] = level + Cost * admitted[t]
    <3>1. CASE tokens'[t] = level - Cost /\ admitted'[t] = admitted[t] + 1
      <4>1. Cost * (admitted[t] + 1) = Cost * admitted[t] + Cost
        BY <1>1, <1>4, Distributes
      <4> QED  BY <3>1, <4>1, <2>1, <1>1, <1>4, Cost * admitted[t] \in Int
    <3>2. CASE tokens'[t] = level /\ admitted'[t] = admitted[t]  BY <3>2
    <3> QED  BY <3>1, <3>2, ScriptResult DEF level
  <2>9. expires'[t] >= lastRefill'[t] + Ttl  BY <2>2, <1>1, <1>2
  <2> QED  BY <2>2, <2>3, <2>7, <2>8, <2>9, <1>2, <1>4
<1> QED  BY <1>3, <1>4

LEMMA ScriptPromise ==
  ASSUME BucketTypeOK, BudgetInv, PromiseInv, NEW t \in Tenants,
         NEW clock \in now..MaxTime, NEW time \in Times(clock),
         CheckRateLimit(t, clock, time)
  PROVE  /\ PromiseInv'
         /\ \A u \in Tenants :
               promised[u] # 0 /\ lastRefill'[u] >= promised[u] => promised'[u] = 0
<1> SUFFICES ASSUME NEW u \in Tenants
             PROVE  /\ promised'[u] # 0 =>
                          /\ promised'[u] > lastRefill'[u]
                          /\ tokens'[u] + RefillRate * (promised'[u] - lastRefill'[u]) >= Cost
                    /\ promised[u] # 0 /\ lastRefill'[u] >= promised[u] => promised'[u] = 0
  BY DEF PromiseInv
<1>1. /\ Cost \in 1..Capacity /\ Capacity \in Nat /\ RefillRate \in Nat
      /\ tokens[u] \in Nat /\ lastRefill[u] \in Nat /\ promised[u] \in Nat
  BY BucketAssumption DEF BucketTypeOK
<1>2. time \in Nat  BY TimesAre DEF BucketTypeOK
<1>3. CASE u # t
  <2>1. /\ tokens'[u] = tokens[u] /\ lastRefill'[u] = lastRefill[u]
        /\ promised'[u] = promised[u]
    BY <1>3, ScriptResult
  <2>2. promised[u] # 0 => promised[u] > lastRefill[u]  BY DEF PromiseInv
  <2> QED  BY <2>1, <2>2, <1>1 DEF PromiseInv
<1>4. CASE u = t
  <2> DEFINE level == Level(t, clock, time)
             e == Later(time, lastRefill[t])
  <2>1. level \in 0..Capacity /\ e \in Nat /\ RefillRate * e \in Nat
        /\ (level = Capacity \/ level = tokens[t] + RefillRate * e)
    BY LevelBounds
  <2>2. lastRefill'[t] = time  BY ScriptResult
  <2>3. CASE level >= Cost
    <3>1. promised'[t] = 0  BY <2>3, ScriptResult, <2>1, <1>1
    <3> QED  BY <3>1, <1>4
  <2>4. CASE level < Cost
    <3> DEFINE n == Cost - level
    <3>1. n \in Nat \ {0}  BY <2>4, <2>1, <1>1
    <3>2. tokens'[t] = level /\ promised'[t] = time + RetryAfter(n)
      BY <2>4, ScriptResult, <2>1, <1>1
    <3>3. RetryAfter(n) \in Nat /\ RetryAfter(n) >= 1 /\ RefillRate * RetryAfter(n) >= n
      BY <3>1, RetryAfterCovers
    <3>4. promised'[t] - lastRefill'[t] = RetryAfter(n)  BY <3>2, <3>3, <2>2, <1>2
    <3>5. tokens'[t] + RefillRate * (promised'[t] - lastRefill'[t]) >= Cost
      BY <3>2, <3>3, <3>4, <2>1, <1>1, RefillRate * RetryAfter(n) \in Int
    <3>6. promised'[t] > lastRefill'[t]  BY <3>2, <3>3, <2>2, <1>2
    <3>7. ~(promised[t] # 0 /\ lastRefill'[t] >= promised[t])
      <4> SUFFICES ASSUME promised[t] # 0, time >= promised[t] PROVE FALSE  BY <2>2
      <4>1. promised[t] > lastRefill[t]
            /\ tokens[t] + RefillRate * (promised[t] - lastRefill[t]) >= Cost
        BY DEF PromiseInv
      <4>2. e >= promised[t] - lastRefill[t]  BY <4>1, <1>1, <1>2, <1>4 DEF Later
      <4>3. RefillRate * (promised[t] - lastRefill[t]) <= RefillRate * e
        BY <4>2, <2>1, <1>1, <1>4, Monotone, promised[t] - lastRefill[t] \in Int
      <4>4. level # Capacity  BY <2>4, <2>1, <1>1
      <4>5. level = tokens[t] + RefillRate * e  BY <2>1, <4>4
      <4> HIDE DEF level, e
      <4> QED
        BY <4>1, <4>3, <4>5, <2>1, <2>4, <1>1, <1>4,
           RefillRate * (promised[t] - lastRefill[t]) \in Int
    <3> QED  BY <3>5, <3>6, <3>7, <1>4
  <2> QED  BY <2>3, <2>4, <2>1, <1>1
<1> QED  BY <1>3, <1>4

LEMMA BudgetBoundsAdmission ==
  ASSUME BucketTypeOK, BudgetInv
  PROVE  AdmissionBounded
<1> SUFFICES ASSUME NEW t \in Tenants
             PROVE  Cost * admitted[t] <= Capacity + RefillRate * (now - MaxSkew + rewound[t])
  BY DEF AdmissionBounded
<1> DEFINE s == lastRefill[t] - MaxSkew + rewound[t]
           b == now - MaxSkew + rewound[t]
<1>1. /\ Cost \in Nat /\ Capacity \in Nat /\ RefillRate \in Nat /\ MaxSkew \in Nat
      /\ now \in Nat /\ tokens[t] \in Nat /\ admitted[t] \in Nat
      /\ lastRefill[t] \in Nat /\ rewound[t] \in Nat
  BY BucketAssumption DEF BucketTypeOK
<1>2. tokens[t] + Cost * admitted[t] <= Capacity + RefillRate * s /\ lastRefill[t] <= now
  BY DEF BudgetInv
<1>3. s \in Int /\ b \in Int /\ s <= b  BY <1>1, <1>2
<1> HIDE DEF s, b
<1>4. RefillRate * s <= RefillRate * b  BY <1>1, <1>3, Monotone
<1>5. /\ RefillRate * s \in Int /\ RefillRate * b \in Int /\ Cost * admitted[t] \in Int
  BY <1>1, <1>3
<1>6. Cost * admitted[t] <= Capacity + RefillRate * b  BY <1>1, <1>2, <1>4, <1>5
<1> QED  BY <1>6 DEF b

\* What the bucket's part of the invariant needs of any step.
BucketInv == BucketTypeOK /\ BudgetInv /\ PromiseInv

LEMMA BucketStays ==
  ASSUME BucketInv, UNCHANGED bucketVars
  PROVE  BucketInv'
<1>1. BucketTypeOK'  BY DEF BucketInv, bucketVars, BucketTypeOK
<1>2. BudgetInv'  BY DEF BucketInv, bucketVars, BudgetInv
<1>3. PromiseInv'  BY DEF BucketInv, bucketVars, PromiseInv
<1> QED  BY <1>1, <1>2, <1>3 DEF BucketInv

LEMMA BucketRuns ==
  ASSUME BucketInv, NEW t \in Tenants,
         \E clock \in now..MaxTime : \E time \in Times(clock) : CheckRateLimit(t, clock, time)
  PROVE  BucketInv'
  BY ScriptTypes, ScriptBudget, ScriptPromise DEF BucketInv

(***************************************************************************)
(* Runs, keys and calls.                                                    *)
(***************************************************************************)

LEMMA TenantIs ==
  ASSUME NEW c, Valid(c)
  PROVE  TenantOf[c.apiKey] \in Tenants
  BY ApiAssumption DEF Valid

LEMMA RunKeyIs ==
  ASSUME NEW c \in Calls, c.op = "run"
  PROVE  c.key \in RunKeys \union {NoKey}
  BY DEF Calls, RunCall, EventCall, GetCall, ListCall

LEMMA EventIdIs ==
  ASSUME NEW c \in Calls, c.op = "event"
  PROVE  c.id \in EventIds
  BY DEF Calls, RunCall, EventCall, GetCall, ListCall

LEMMA BindingKeyIs ==
  ASSUME NEW t \in Tenants, NEW b \in BindingsOf[t], NEW e \in EventIds
  PROVE  <<e, b>> \in BindingKeys /\ <<e, b>> \in Keys /\ <<e, b>> # NoKey
<1>1. BindingsOf[t] \in {BindingsOf[u] : u \in Tenants}  OBVIOUS
<1>2. b \in UNION {BindingsOf[u] : u \in Tenants}  BY <1>1
<1>3. <<e, b>> \in BindingKeys  BY <1>2 DEF BindingKeys
<1> QED  BY <1>3, ApiAssumption DEF Keys

LEMMA RunKeyIsNoBindingKey ==
  ASSUME NEW k \in RunKeys \union {NoKey}
  PROVE  k \notin BindingKeys /\ k \in Keys \union {NoKey}
  BY ApiAssumption, KeysApart DEF Keys

LEMMA RunsWithOne ==
  ASSUME KeysUnique, NEW t, NEW k, NEW x \in RunsWith(t, k)
  PROVE  RunsWith(t, k) = {x} /\ x \in runs /\ x.tenant = t /\ x.key = k
  BY DEF KeysUnique, RunsWith

LEMMA EventRunsAre ==
  ASSUME NEW r \in Requests, call[r] \in Calls, call[r].op = "event", Valid(call[r])
  PROVE  EventRuns(r) \subseteq AllRuns
<1>1. Tenant(r) \in Tenants  BY TenantIs DEF Tenant
<1>2. call[r].id \in EventIds  BY EventIdIs
<1>3. ASSUME NEW b \in BindingsOf[Tenant(r)] PROVE <<call[r].id, b>> \in Keys \union {NoKey}
  BY <1>1, <1>2, BindingKeyIs
<1> QED  BY <1>1, <1>3 DEF EventRuns, AllRuns

LEMMA CreatesAre ==
  ASSUME NEW r \in Requests, call[r] \in Calls, call[r].op \in {"run", "event"},
         Valid(call[r])
  PROVE  /\ Creates(r) \subseteq AllRuns
         /\ \A x \in Creates(r) : x.tenant = Tenant(r) /\ x.by = r
<1>1. Tenant(r) \in Tenants  BY TenantIs DEF Tenant
<1>2. CASE call[r].op = "run"
  <2>1. call[r].key \in Keys \union {NoKey}  BY <1>2, RunKeyIs, RunKeyIsNoBindingKey
  <2> QED  BY <1>1, <1>2, <2>1 DEF Creates, AllRuns
<1>3. CASE call[r].op = "event"
  BY <1>3, EventRunsAre DEF Creates, EventRuns
<1> QED  BY <1>2, <1>3

(***************************************************************************)
(* What a step does to the requests other than the one that takes it.       *)
(***************************************************************************)

\* Request r's record is changed, and no other.
Moves(r) ==
    /\ call' \in [Requests -> Calls \union {NoCall}] /\ call'[r] \in Calls
    /\ at' \in [Requests -> Phases]
    /\ status' \in [Requests -> Statuses]
    /\ named' \in [Requests -> SUBSET AllRuns]
    /\ \A q \in Requests \ {r} : /\ call'[q] = call[q] /\ at'[q] = at[q]
                                 /\ status'[q] = status[q] /\ named'[q] = named[q]

\* Its call is known, or becomes so.
Called(r) ==
    /\ call' \in [Requests -> Calls \union {NoCall}] /\ call'[r] \in Calls
    /\ \A q \in Requests \ {r} : call'[q] = call[q]

LEMMA CallKept ==
  ASSUME TypeOK, NEW r \in Requests, at[r] # "unsent", call' = call
  PROVE  Called(r) /\ call[r] \in Calls
  BY DEF TypeOK, Called

LEMMA CallSent ==
  ASSUME TypeOK, NEW r \in Requests, NEW c \in Calls, Sends(r, c)
  PROVE  Called(r) /\ call'[r] = c /\ at[r] = "unsent"
  BY DEF TypeOK, Called, Sends

LEMMA GoesMoves ==
  ASSUME TypeOK, NEW r \in Requests, Called(r), NEW phase \in Phases, Goes(r, phase)
  PROVE  Moves(r) /\ at'[r] = phase /\ status'[r] = status[r] /\ named'[r] = named[r]
  BY DEF TypeOK, Called, Moves, Goes, answerVars

LEMMA AnswersMoves ==
  ASSUME TypeOK, NEW r \in Requests, Called(r), NEW code \in Statuses,
         NEW rs \in SUBSET AllRuns, Answers(r, code, rs)
  PROVE  Moves(r) /\ at'[r] = "answered" /\ status'[r] = code /\ named'[r] = rs
<1>1. "answered" \in Phases  BY DEF Phases
<1>2. at' \in [Requests -> Phases]  BY <1>1 DEF TypeOK, Answers
<1>3. status' \in [Requests -> Statuses]  BY DEF TypeOK, Answers
<1>4. named' \in [Requests -> SUBSET AllRuns]  BY DEF TypeOK, Answers
<1>5. \A q \in Requests \ {r} : at'[q] = at[q] /\ status'[q] = status[q] /\ named'[q] = named[q]
  BY DEF TypeOK, Answers
<1>6. at'[r] = "answered" /\ status'[r] = code /\ named'[r] = rs
  BY DEF TypeOK, Answers
<1> QED  BY <1>2, <1>3, <1>4, <1>5, <1>6 DEF Called, Moves

\* Whatever a request creates is its own.
LEMMA OthersKeep ==
  ASSUME HandlersInv, OwnRunsOnly, NEW r \in Requests, Moves(r),
         runs \subseteq runs', ingested \subseteq ingested',
         \A x \in runs' \ runs : x.by = r,
         NEW q \in Requests \ {r}
  PROVE  HandlerInv(q)' /\ \A x \in named'[q] : x.tenant = Tenant(q)'
<1>1. /\ call'[q] = call[q] /\ at'[q] = at[q] /\ status'[q] = status[q] /\ named'[q] = named[q]
  BY DEF Moves
<1>2. Tenant(q)' = Tenant(q) /\ EventOf(q)' = EventOf(q)  BY <1>1 DEF Tenant, EventOf
<1>3. EventRuns(q)' = EventRuns(q)  BY <1>1, <1>2 DEF EventRuns
<1>4. Creates(q)' = Creates(q)  BY <1>1, <1>2, <1>3 DEF Creates
<1>5. MadeBy(q)' = MadeBy(q)  BY DEF MadeBy
<1>6. RunsWith(Tenant(q), call[q].key) \subseteq RunsWith(Tenant(q), call[q].key)'
  BY <1>1, <1>2 DEF RunsWith
<1>7. HandlerInv(q)  BY DEF HandlersInv
<1>8. /\ status'[q] # "none" => at'[q] = "answered"
      /\ status'[q] = "none" => named'[q] = {}
      /\ at'[q] \in {"find", "insert", "reread", "enqueue"} \/ status'[q] \in {"200", "201"} =>
            Valid(call'[q])
      /\ at'[q] \in {"insert", "enqueue"} \/ status'[q] = "201" =>
            call'[q].op \in {"run", "event"}
  BY <1>1, <1>7 DEF HandlerInv
<1>9. at'[q] = "reread" =>
            call'[q].op = "run" /\ RunsWith(Tenant(q), call[q].key)' # {}
  BY <1>1, <1>6, <1>7 DEF HandlerInv
<1>10. /\ at'[q] \in {"unsent", "find", "insert", "reread"} \/ status'[q] = "200" =>
             MadeBy(q)' = {}
       /\ at'[q] = "enqueue" \/ status'[q] = "201" => MadeBy(q)' = Creates(q)'
       /\ status'[q] = "201" => named'[q] = Creates(q)'
  BY <1>1, <1>4, <1>5, <1>7 DEF HandlerInv
<1>11. /\ status'[q] = "200" /\ call'[q].op = "run" =>
             \E x \in runs' : named'[q] = {x} /\ x.tenant = Tenant(q)' /\ x.key = call'[q].key
  BY <1>1, <1>2, <1>7 DEF HandlerInv
<1>12. /\ (at'[q] = "enqueue" \/ status'[q] \in {"200", "201"}) /\ call'[q].op = "event" =>
             EventOf(q)' \in ingested'
  BY <1>1, <1>2, <1>7 DEF HandlerInv
<1>13. HandlerInv(q)'
  BY <1>8, <1>9, <1>10, <1>11, <1>12 DEF HandlerInv
<1>14. \A x \in named'[q] : x.tenant = Tenant(q)'  BY <1>1, <1>2 DEF OwnRunsOnly
<1> QED  BY <1>13, <1>14

\* A request's step that is right for the request itself keeps the invariant.
LEMMA RequestStep ==
  ASSUME ApiInv, NEW r \in Requests, Moves(r), BucketInv',
         runs \subseteq runs', runs' \subseteq AllRuns, \A x \in runs' \ runs : x.by = r,
         ingested \subseteq ingested', ingested' \subseteq Tenants \X EventIds,
         KeysUnique', EventsWhole',
         jobs' \subseteq runs', faults' \in 0..FaultBound,
         HandlerInv(r)', \A x \in named'[r] : x.tenant = Tenant(r)'
  PROVE  ApiInv'
<1>1. \A q \in Requests : HandlerInv(q)' /\ \A x \in named'[q] : x.tenant = Tenant(q)'
  BY OthersKeep DEF ApiInv
<1>2. HandlersInv'  BY <1>1 DEF HandlersInv
<1>3. OwnRunsOnly'  BY <1>1 DEF OwnRunsOnly
<1>4. \A q \in Requests : at'[q] # "unsent" => call'[q] \in Calls
  BY DEF ApiInv, TypeOK, Moves
<1>5. TypeOK'  BY <1>4 DEF TypeOK, Moves, BucketInv
<1> QED  BY <1>2, <1>3, <1>5 DEF ApiInv, BucketInv

\* The same for one that creates nothing.
LEMMA QuietStep ==
  ASSUME ApiInv, NEW r \in Requests, Moves(r), BucketInv',
         UNCHANGED <<runs, ingested>>, jobs' \subseteq runs, faults' \in 0..FaultBound,
         HandlerInv(r)', \A x \in named'[r] : x.tenant = Tenant(r)'
  PROVE  ApiInv'
<1>1. KeysUnique' /\ EventsWhole'  BY DEF ApiInv, KeysUnique, EventsWhole, RunsWith
<1>2. runs \subseteq AllRuns /\ ingested \subseteq Tenants \X EventIds  BY DEF ApiInv, TypeOK
<1> QED  BY <1>1, <1>2, RequestStep

LEMMA ApiBucket ==
  ASSUME ApiInv
  PROVE  /\ BucketInv
         /\ UNCHANGED bucketVars => BucketInv'
         /\ UNCHANGED faults => faults' \in 0..FaultBound
         /\ Fault => faults' \in 0..FaultBound
<1>1. BucketInv  BY DEF ApiInv, TypeOK, BucketInv
<1>2. faults \in 0..FaultBound /\ FaultBound \in Nat  BY ApiAssumption DEF ApiInv, TypeOK
<1>3. Fault => faults' \in 0..FaultBound  BY <1>2 DEF Fault
<1> QED  BY <1>1, <1>2, <1>3, BucketStays

\* A request that ends with an error claims nothing.
LEMMA ErrorStep ==
  ASSUME ApiInv, NEW r \in Requests, Called(r), Answers(r, "error", {}), BucketInv',
         UNCHANGED <<runs, ingested>>, jobs' \subseteq runs, faults' \in 0..FaultBound
  PROVE  ApiInv'
<1>1. /\ Moves(r) /\ at'[r] = "answered" /\ status'[r] = "error" /\ named'[r] = {}
  BY AnswersMoves DEF ApiInv, Statuses
<1>2. HandlerInv(r)'  BY <1>1 DEF HandlerInv
<1> QED  BY <1>1, <1>2, QuietStep

(***************************************************************************)
(* The actions.                                                             *)
(***************************************************************************)

LEMMA StepUnauthorized ==
  ASSUME ApiInv, NEW r \in Requests, NEW c \in Calls, Unauthorized(r, c)
  PROVE  ApiInv'
<1>1. Called(r)  BY CallSent DEF Unauthorized, ApiInv
<1>2. BucketInv' /\ faults' \in 0..FaultBound  BY ApiBucket DEF Unauthorized
<1>3. jobs' \subseteq runs  BY DEF Unauthorized, ApiInv, TypeOK
<1> QED  BY <1>1, <1>2, <1>3, ErrorStep DEF Unauthorized

LEMMA StepLimit ==
  ASSUME ApiInv, NEW r \in Requests, NEW c \in Calls, Limit(r, c)
  PROVE  ApiInv'
<1>1. Called(r) /\ call'[r] = c /\ at[r] = "unsent"  BY CallSent DEF Limit, ApiInv
<1>2. TenantOf[c.apiKey] \in Tenants  BY TenantIs DEF Limit
<1>3. BucketInv'  BY <1>2, ApiBucket, BucketRuns DEF Limit
<1>4. faults' \in 0..FaultBound /\ jobs' \subseteq runs
  BY ApiBucket DEF Limit, ApiInv, TypeOK
<1>5. CASE Answers(r, "error", {})
  BY <1>1, <1>3, <1>4, <1>5, ErrorStep DEF Limit
<1>6. CASE Goes(r, "find")
  <2>1. /\ Moves(r) /\ at'[r] = "find" /\ status'[r] = status[r] /\ named'[r] = named[r]
    BY <1>1, <1>6, GoesMoves DEF ApiInv, Phases
  <2>2. HandlerInv(r)  BY DEF ApiInv, HandlersInv
  <2>3. /\ status[r] = "none" /\ named[r] = {} /\ MadeBy(r) = {}
    BY <1>1, <2>2 DEF HandlerInv
  <2>4. MadeBy(r)' = {}  BY <2>3 DEF MadeBy, Limit
  <2>5. HandlerInv(r)'  BY <1>1, <2>1, <2>3, <2>4 DEF HandlerInv, Limit
  <2> QED  BY <1>3, <1>4, <2>1, <2>3, <2>5, QuietStep DEF Limit
<1> QED  BY <1>5, <1>6 DEF Limit

LEMMA StepLimiterFails ==
  ASSUME ApiInv, NEW r \in Requests, NEW c \in Calls, LimiterFails(r, c)
  PROVE  ApiInv'
<1>1. Called(r)  BY CallSent DEF LimiterFails, ApiInv
<1>2. TenantOf[c.apiKey] \in Tenants  BY TenantIs DEF LimiterFails
<1>3. BucketInv'  BY <1>2, ApiBucket, BucketRuns DEF LimiterFails
<1>4. faults' \in 0..FaultBound /\ jobs' \subseteq runs
  BY ApiBucket DEF LimiterFails, ApiInv, TypeOK
<1> QED  BY <1>1, <1>3, <1>4, ErrorStep DEF LimiterFails

\* What holds of a request under way.
LEMMA UnderWay ==
  ASSUME ApiInv, NEW r \in Requests, at[r] \in {"find", "insert", "reread", "enqueue"},
         call' = call
  PROVE  /\ Called(r) /\ call[r] \in Calls /\ Valid(call[r]) /\ Tenant(r) \in Tenants
         /\ status[r] = "none" /\ named[r] = {} /\ Tenant(r)' = Tenant(r)
         /\ at[r] # "enqueue" => MadeBy(r) = {}
<1>1. Called(r) /\ call[r] \in Calls  BY CallKept DEF ApiInv
<1>2. HandlerInv(r)  BY DEF ApiInv, HandlersInv
<1>3. Valid(call[r]) /\ status[r] = "none" /\ named[r] = {}
      /\ (at[r] # "enqueue" => MadeBy(r) = {})
  BY <1>2 DEF HandlerInv
<1>4. Tenant(r) \in Tenants  BY <1>3, TenantIs DEF Tenant
<1> QED  BY <1>1, <1>3, <1>4 DEF Tenant

\* A look-up that finds a run by the key answers with it.
LEMMA AnswersExisting ==
  ASSUME ApiInv, NEW r \in Requests, at[r] \in {"find", "reread"}, call' = call,
         call[r].op = "run",
         NEW existing, existing = RunsWith(Tenant(r), call[r].key), existing # {},
         Answers(r, "200", existing), BucketInv',
         UNCHANGED <<runs, ingested>>, jobs' \subseteq runs, faults' \in 0..FaultBound
  PROVE  ApiInv'
<1>1. PICK x \in existing : TRUE  OBVIOUS
<1>2. existing = {x} /\ x \in runs /\ x.tenant = Tenant(r) /\ x.key = call[r].key
  BY <1>1, RunsWithOne DEF ApiInv
<1>3. /\ Called(r) /\ Valid(call[r]) /\ Tenant(r)' = Tenant(r) /\ MadeBy(r) = {}
  BY UnderWay
<1>4. existing \in SUBSET AllRuns  BY <1>2 DEF ApiInv, TypeOK
<1>5. /\ Moves(r) /\ at'[r] = "answered" /\ status'[r] = "200" /\ named'[r] = existing
  BY <1>3, <1>4, AnswersMoves DEF ApiInv, Statuses
<1>6. MadeBy(r)' = {}  BY <1>3 DEF MadeBy
<1>7. HandlerInv(r)'  BY <1>2, <1>3, <1>5, <1>6 DEF HandlerInv
<1> QED  BY <1>2, <1>3, <1>5, <1>7, QuietStep

\* A request that goes on to the transaction.
LEMMA GoesToInsert ==
  ASSUME ApiInv, NEW r \in Requests, at[r] = "find", call' = call,
         call[r].op \in {"run", "event"},
         Goes(r, "insert"), BucketInv',
         UNCHANGED <<runs, ingested>>, jobs' \subseteq runs, faults' \in 0..FaultBound
  PROVE  ApiInv'
<1>1. /\ Called(r) /\ Valid(call[r]) /\ MadeBy(r) = {} /\ status[r] = "none" /\ named[r] = {}
  BY UnderWay
<1>2. /\ Moves(r) /\ at'[r] = "insert" /\ status'[r] = "none" /\ named'[r] = {}
  BY <1>1, GoesMoves DEF ApiInv, Phases
<1>3. MadeBy(r)' = {}  BY <1>1 DEF MadeBy
<1>4. HandlerInv(r)'  BY <1>1, <1>2, <1>3 DEF HandlerInv
<1> QED  BY <1>2, <1>4, QuietStep

\* An event that was processed before is answered as a duplicate.
LEMMA AnswersDuplicate ==
  ASSUME ApiInv, NEW r \in Requests, at[r] \in {"find", "insert"}, call' = call,
         call[r].op = "event", EventOf(r) \in ingested,
         Answers(r, "200", {}), BucketInv',
         UNCHANGED <<runs, ingested>>, jobs' \subseteq runs, faults' \in 0..FaultBound
  PROVE  ApiInv'
<1>1. /\ Called(r) /\ Valid(call[r]) /\ Tenant(r)' = Tenant(r) /\ MadeBy(r) = {}
  BY UnderWay
<1>2. /\ Moves(r) /\ at'[r] = "answered" /\ status'[r] = "200" /\ named'[r] = {}
  BY <1>1, AnswersMoves DEF ApiInv, Statuses
<1>3. MadeBy(r)' = {} /\ EventOf(r)' = EventOf(r)  BY <1>1 DEF MadeBy, EventOf
<1>4. HandlerInv(r)'  BY <1>1, <1>2, <1>3 DEF HandlerInv
<1> QED  BY <1>2, <1>4, QuietStep

LEMMA StepFindRun ==
  ASSUME ApiInv, NEW r \in Requests, FindRun(r)
  PROVE  ApiInv'
<1> DEFINE existing == RunsWith(Tenant(r), call[r].key)
<1>1. BucketInv' /\ faults' \in 0..FaultBound /\ jobs' \subseteq runs
  BY ApiBucket DEF FindRun, ApiInv, TypeOK
<1>2. CASE existing # {}
  <2>1. Answers(r, "200", existing)  BY <1>2 DEF FindRun
  <2> HIDE DEF existing
  <2>2. existing = RunsWith(Tenant(r), call[r].key)  BY DEF existing
  <2> QED  BY <1>1, <1>2, <2>1, <2>2, AnswersExisting DEF FindRun
<1>3. CASE existing = {}
  <2>1. Goes(r, "insert")  BY <1>3 DEF FindRun
  <2> QED  BY <1>1, <2>1, GoesToInsert DEF FindRun
<1> QED  BY <1>2, <1>3

LEMMA StepRereadRun ==
  ASSUME ApiInv, NEW r \in Requests, RereadRun(r)
  PROVE  ApiInv'
<1> DEFINE existing == RunsWith(Tenant(r), call[r].key)
<1>1. BucketInv' /\ faults' \in 0..FaultBound /\ jobs' \subseteq runs
  BY ApiBucket DEF RereadRun, ApiInv, TypeOK
<1>2. HandlerInv(r)  BY DEF ApiInv, HandlersInv
<1>3. existing # {} /\ call[r].op = "run"  BY <1>2 DEF HandlerInv, RereadRun
<1>4. Answers(r, "200", existing)  BY <1>3 DEF RereadRun
<1> HIDE DEF existing
<1>5. existing = RunsWith(Tenant(r), call[r].key)  BY DEF existing
<1> QED  BY <1>1, <1>3, <1>4, <1>5, AnswersExisting DEF RereadRun

LEMMA StepFindEvent ==
  ASSUME ApiInv, NEW r \in Requests, FindEvent(r)
  PROVE  ApiInv'
<1>1. BucketInv' /\ faults' \in 0..FaultBound /\ jobs' \subseteq runs
  BY ApiBucket DEF FindEvent, ApiInv, TypeOK
<1>2. CASE EventOf(r) \in ingested
  BY <1>1, <1>2, AnswersDuplicate DEF FindEvent
<1>3. CASE EventOf(r) \notin ingested
  BY <1>1, <1>3, GoesToInsert DEF FindEvent
<1> QED  BY <1>2, <1>3

\* A transaction that creates what its request is to create.
LEMMA Creating ==
  ASSUME ApiInv, NEW r \in Requests, at[r] = "insert", call' = call,
         runs' = runs \union Creates(r), ingested \subseteq ingested',
         call[r].op = "event" => EventOf(r) \in ingested',
         ingested' \subseteq Tenants \X EventIds,
         KeysUnique', EventsWhole', Goes(r, "enqueue"),
         BucketInv', jobs' \subseteq runs, faults' \in 0..FaultBound
  PROVE  ApiInv'
<1>1. /\ Called(r) /\ call[r] \in Calls /\ Valid(call[r]) /\ MadeBy(r) = {}
      /\ Tenant(r)' = Tenant(r) /\ status[r] = "none" /\ named[r] = {}
  BY UnderWay
<1>2. HandlerInv(r)  BY DEF ApiInv, HandlersInv
<1>3. call[r].op \in {"run", "event"}  BY <1>2 DEF HandlerInv
<1>4. Creates(r) \subseteq AllRuns /\ \A x \in Creates(r) : x.tenant = Tenant(r) /\ x.by = r
  BY <1>1, <1>3, CreatesAre
<1>5. /\ Moves(r) /\ at'[r] = "enqueue" /\ status'[r] = "none" /\ named'[r] = {}
  BY <1>1, GoesMoves DEF ApiInv, Phases
<1>6. EventRuns(r)' = EventRuns(r) /\ EventOf(r)' = EventOf(r)  BY <1>1 DEF EventRuns, EventOf
<1>7. Creates(r)' = Creates(r)  BY <1>1, <1>6 DEF Creates
<1>8. MadeBy(r)' = Creates(r)  BY <1>1, <1>4 DEF MadeBy
<1>9. HandlerInv(r)'  BY <1>1, <1>3, <1>5, <1>6, <1>7, <1>8 DEF HandlerInv
<1>10. runs' \subseteq AllRuns /\ \A x \in runs' \ runs : x.by = r
  BY <1>4 DEF ApiInv, TypeOK
<1> QED  BY <1>5, <1>9, <1>10, RequestStep

LEMMA StepInsertRun ==
  ASSUME ApiInv, NEW r \in Requests, InsertRun(r)
  PROVE  ApiInv'
<1> DEFINE new == [tenant |-> Tenant(r), key |-> call[r].key, by |-> r]
<1>1. BucketInv' /\ faults' \in 0..FaultBound /\ jobs' \subseteq runs
  BY ApiBucket DEF InsertRun, ApiInv, TypeOK
<1>2. /\ Called(r) /\ call[r] \in Calls /\ Valid(call[r]) /\ MadeBy(r) = {}
      /\ Tenant(r)' = Tenant(r) /\ status[r] = "none" /\ named[r] = {}
  BY UnderWay DEF InsertRun
<1>3. CASE RunsWith(Tenant(r), call[r].key) # {}
  <2>1. Goes(r, "reread") /\ UNCHANGED <<runs, ingested>> /\ call' = call
    BY <1>3 DEF InsertRun
  <2>2. /\ Moves(r) /\ at'[r] = "reread" /\ status'[r] = "none" /\ named'[r] = {}
    BY <1>2, <2>1, GoesMoves DEF ApiInv, Phases
  <2>3. MadeBy(r)' = {} /\ RunsWith(Tenant(r), call[r].key)' # {}
    BY <1>2, <1>3, <2>1 DEF MadeBy, RunsWith
  <2>4. HandlerInv(r)'  BY <1>2, <2>1, <2>2, <2>3 DEF HandlerInv, InsertRun
  <2> QED  BY <1>1, <2>1, <2>2, <2>4, QuietStep
<1>4. CASE RunsWith(Tenant(r), call[r].key) = {}
  <2>1. /\ runs' = runs \union {new} /\ Goes(r, "enqueue") /\ UNCHANGED ingested
        /\ call' = call /\ at[r] = "insert" /\ call[r].op = "run"
    BY <1>4 DEF InsertRun
  <2>2. Creates(r) = {new}  BY <2>1 DEF Creates
  <2>3. new.tenant = Tenant(r) /\ new.key = call[r].key  OBVIOUS
  <2>4. KeysUnique'
    BY <1>4, <2>1, <2>3 DEF KeysUnique, RunsWith, ApiInv
  <2>5. call[r].key \notin BindingKeys  BY <1>2, <2>1, RunKeyIs, RunKeyIsNoBindingKey
  <2>6. EventsWhole'
    BY <2>1, <2>3, <2>5 DEF EventsWhole, RunsWith, ApiInv
  <2>7. ingested' \subseteq Tenants \X EventIds  BY <2>1 DEF ApiInv, TypeOK
  <2> HIDE DEF new
  <2> QED  BY <1>1, <2>1, <2>2, <2>4, <2>6, <2>7, Creating
<1> QED  BY <1>3, <1>4

LEMMA StepInsertEvent ==
  ASSUME ApiInv, NEW r \in Requests, InsertEvent(r)
  PROVE  ApiInv'
<1>1. BucketInv' /\ faults' \in 0..FaultBound /\ jobs' \subseteq runs
  BY ApiBucket DEF InsertEvent, ApiInv, TypeOK
<1>2. CASE EventOf(r) \in ingested
  BY <1>1, <1>2, AnswersDuplicate DEF InsertEvent
<1>3. CASE EventOf(r) \notin ingested
  <2> DEFINE t == Tenant(r)
             e == call[r].id
  <2>1. /\ runs' = runs \union EventRuns(r) /\ ingested' = ingested \union {EventOf(r)}
        /\ Goes(r, "enqueue") /\ call' = call /\ at[r] = "insert" /\ call[r].op = "event"
    BY <1>3 DEF InsertEvent
  <2>2. call[r] \in Calls /\ t \in Tenants  BY <2>1, UnderWay
  <2>3. e \in EventIds  BY <2>1, <2>2, EventIdIs
  <2>4. EventOf(r) = <<t, e>>  BY DEF EventOf
  <2>5. EventRuns(r) = {[tenant |-> t, key |-> <<e, b>>, by |-> r] : b \in BindingsOf[t]}
    BY DEF EventRuns
  <2>6. Creates(r) = EventRuns(r)  BY <2>1 DEF Creates
  <2> HIDE DEF t, e
  <2>7. \A b \in BindingsOf[t] : <<e, b>> \in BindingKeys /\ <<e, b>> # NoKey
    BY <2>2, <2>3, BindingKeyIs
  <2>8. \A x \in runs : x.tenant = t /\ x.key \in BindingKeys => x.key[1] # e
    BY <1>3, <2>4 DEF ApiInv, EventsWhole
  <2>9. \A x \in EventRuns(r) : /\ x.tenant = t /\ x.key \in BindingKeys /\ x.key[1] = e
    BY <2>5, <2>7
  <2>10. \A x \in EventRuns(r), y \in EventRuns(r) : x.key = y.key => x = y
    BY <2>5
  <2>11. KeysUnique'
    BY <2>1, <2>8, <2>9, <2>10 DEF KeysUnique, ApiInv
  <2>12. EventsWhole'
    <3>1. ASSUME NEW p \in ingested', NEW b \in BindingsOf[p[1]]
          PROVE  RunsWith(p[1], <<p[2], b>>)' # {}
      <4>1. CASE p \in ingested
        <5>1. RunsWith(p[1], <<p[2], b>>) # {}  BY <4>1 DEF ApiInv, EventsWhole
        <5> QED  BY <5>1, <2>1 DEF RunsWith
      <4>2. CASE p = <<t, e>>
        <5>1. [tenant |-> t, key |-> <<e, b>>, by |-> r] \in runs'
          BY <2>1, <2>5, <4>2
        <5> QED  BY <5>1, <2>7, <4>2 DEF RunsWith
      <4> QED  BY <4>1, <4>2, <2>1, <2>4
    <3>2. ASSUME NEW x \in runs', x.key \in BindingKeys
          PROVE  <<x.tenant, x.key[1]>> \in ingested'
      <4>1. CASE x \in runs  BY <3>2, <4>1, <2>1 DEF ApiInv, EventsWhole
      <4>2. CASE x \in EventRuns(r)  BY <4>2, <2>1, <2>4, <2>9
      <4> QED  BY <4>1, <4>2, <2>1
    <3> QED  BY <3>1, <3>2 DEF EventsWhole
  <2>13. ingested' \subseteq Tenants \X EventIds
    BY <2>1, <2>2, <2>3, <2>4 DEF ApiInv, TypeOK
  <2> QED  BY <1>1, <2>1, <2>6, <2>11, <2>12, <2>13, Creating
<1> QED  BY <1>2, <1>3

LEMMA StepEnqueue ==
  ASSUME ApiInv, NEW r \in Requests, Enqueue(r)
  PROVE  ApiInv'
<1>1. BucketInv' /\ faults' \in 0..FaultBound  BY ApiBucket DEF Enqueue
<1>2. jobs' \subseteq runs  BY DEF Enqueue, MadeBy, ApiInv, TypeOK
<1>3. /\ Called(r) /\ call[r] \in Calls /\ Valid(call[r]) /\ Tenant(r)' = Tenant(r)
  BY UnderWay DEF Enqueue
<1>4. HandlerInv(r)  BY DEF ApiInv, HandlersInv
<1>5. /\ call[r].op \in {"run", "event"} /\ MadeBy(r) = Creates(r)
      /\ call[r].op = "event" => EventOf(r) \in ingested
  BY <1>4 DEF HandlerInv, Enqueue
<1>6. Creates(r) \subseteq AllRuns /\ \A x \in Creates(r) : x.tenant = Tenant(r)
  BY <1>3, <1>5, CreatesAre
<1>7. /\ Moves(r) /\ at'[r] = "answered" /\ status'[r] = "201" /\ named'[r] = Creates(r)
  BY <1>3, <1>5, <1>6, AnswersMoves DEF ApiInv, Statuses, Enqueue
<1>8. UNCHANGED <<runs, ingested>> /\ call' = call  BY DEF Enqueue
<1>9. EventRuns(r)' = EventRuns(r) /\ EventOf(r)' = EventOf(r) /\ MadeBy(r)' = MadeBy(r)
  BY <1>3, <1>8 DEF EventRuns, EventOf, MadeBy
<1>10. Creates(r)' = Creates(r)  BY <1>3, <1>8, <1>9 DEF Creates
<1>11. HandlerInv(r)'  BY <1>3, <1>5, <1>7, <1>8, <1>9, <1>10 DEF HandlerInv
<1> QED  BY <1>1, <1>2, <1>3, <1>6, <1>7, <1>8, <1>11, QuietStep

LEMMA StepEnqueueFails ==
  ASSUME ApiInv, NEW r \in Requests, EnqueueFails(r)
  PROVE  ApiInv'
<1>1. BucketInv' /\ faults' \in 0..FaultBound  BY ApiBucket DEF EnqueueFails
<1>2. jobs' \subseteq runs  BY DEF EnqueueFails, MadeBy, ApiInv, TypeOK
<1>3. Called(r)  BY UnderWay DEF EnqueueFails
<1> QED  BY <1>1, <1>2, <1>3, ErrorStep DEF EnqueueFails

LEMMA StepBreaksOff ==
  ASSUME ApiInv, NEW r \in Requests, BreaksOff(r)
  PROVE  ApiInv'
<1>1. BucketInv' /\ faults' \in 0..FaultBound  BY ApiBucket DEF BreaksOff
<1>2. jobs' \subseteq runs  BY DEF BreaksOff, ApiInv, TypeOK
<1>3. Called(r)  BY UnderWay DEF BreaksOff
<1> QED  BY <1>1, <1>2, <1>3, ErrorStep DEF BreaksOff

LEMMA StepReadRuns ==
  ASSUME ApiInv, NEW r \in Requests, ReadRuns(r)
  PROVE  ApiInv'
<1>1. BucketInv' /\ faults' \in 0..FaultBound /\ jobs' \subseteq runs
  BY ApiBucket DEF ReadRuns, ApiInv, TypeOK
<1>2. /\ Called(r) /\ Valid(call[r]) /\ Tenant(r)' = Tenant(r) /\ MadeBy(r) = {}
  BY UnderWay DEF ReadRuns
<1>3. PICK found \in SUBSET {x \in runs : x.tenant = Tenant(r)}, code \in {"200", "error"} :
         Answers(r, code, found)
  BY DEF ReadRuns
<1>4. found \in SUBSET AllRuns /\ code \in Statuses  BY DEF ApiInv, TypeOK, Statuses
<1>5. /\ Moves(r) /\ at'[r] = "answered" /\ status'[r] = code /\ named'[r] = found
  BY <1>2, <1>3, <1>4, AnswersMoves DEF ApiInv
<1>6. MadeBy(r)' = {}  BY <1>2 DEF MadeBy, ReadRuns
<1>7. call[r].op \notin {"run", "event"} /\ call' = call  BY DEF ReadRuns
<1>8. HandlerInv(r)'  BY <1>2, <1>5, <1>6, <1>7 DEF HandlerInv
<1> QED  BY <1>1, <1>2, <1>5, <1>8, QuietStep DEF ReadRuns

LEMMA StepReconcile ==
  ASSUME ApiInv, ReconcilerAdds
  PROVE  ApiInv'
<1>1. UNCHANGED <<bucketVars, runs, ingested, call, at, status, named, faults>>
  BY DEF ReconcilerAdds, AddJobs, answerVars
<1>2. BucketInv'  BY <1>1, ApiBucket
<1>3. TypeOK'  BY <1>1, <1>2 DEF ReconcilerAdds, AddJobs, TypeOK, ApiInv, BucketInv
<1>4. KeysUnique' /\ EventsWhole'  BY <1>1 DEF ApiInv, KeysUnique, EventsWhole, RunsWith
<1>5. HandlersInv'
  <2> SUFFICES ASSUME NEW q \in Requests PROVE HandlerInv(q)'  BY DEF HandlersInv
  <2>1. Tenant(q)' = Tenant(q) /\ EventOf(q)' = EventOf(q) /\ MadeBy(q)' = MadeBy(q)
    BY <1>1 DEF Tenant, EventOf, MadeBy
  <2>2. EventRuns(q)' = EventRuns(q)  BY <1>1, <2>1 DEF EventRuns
  <2>3. Creates(q)' = Creates(q)  BY <1>1, <2>1, <2>2 DEF Creates
  <2>4. RunsWith(Tenant(q), call[q].key)' = RunsWith(Tenant(q), call[q].key)
    BY <1>1, <2>1 DEF RunsWith
  <2>5. HandlerInv(q)  BY DEF ApiInv, HandlersInv
  <2> QED  BY <1>1, <2>1, <2>3, <2>4, <2>5 DEF HandlerInv
<1>6. OwnRunsOnly'  BY <1>1 DEF ApiInv, OwnRunsOnly, Tenant
<1> QED  BY <1>2, <1>3, <1>4, <1>5, <1>6 DEF ApiInv, BucketInv

LEMMA CallsAsked ==
  ASSUME NEW c \in Asks
  PROVE  c \in Calls
<1> QED  BY AsksAssumption

LEMMA ApiInvInit == ApiInit => ApiInv
<1> SUFFICES ASSUME ApiInit PROVE ApiInv  OBVIOUS
<1> USE DEF ApiInit, BucketInit
<1>1. BucketTypeOK  BY BucketAssumption DEF BucketTypeOK
<1>2. BudgetInv
  <2> SUFFICES ASSUME NEW t \in Tenants
               PROVE  /\ Capacity + Cost * 0 <= Capacity + RefillRate * (MaxSkew - MaxSkew + 0)
                      /\ MaxSkew <= MaxSkew
    BY DEF BudgetInv
  <2>1. /\ Capacity \in Nat /\ Cost \in Nat /\ RefillRate \in Nat /\ MaxSkew \in Nat
    BY BucketAssumption
  <2>2. MaxSkew - MaxSkew + 0 = 0  BY <2>1
  <2>3. Cost * 0 = 0 /\ RefillRate * 0 = 0  BY <2>1
  <2> QED  BY <2>1, <2>2, <2>3
<1>3. PromiseInv  BY DEF PromiseInv
<1>4. TypeOK  BY <1>1, ApiAssumption DEF TypeOK, Phases, Statuses
<1>5. KeysUnique /\ EventsWhole  BY DEF KeysUnique, EventsWhole
<1>6. HandlersInv  BY DEF HandlersInv, HandlerInv, MadeBy
<1>7. OwnRunsOnly  BY DEF OwnRunsOnly
<1> QED  BY <1>2, <1>3, <1>4, <1>5, <1>6, <1>7 DEF ApiInv

LEMMA ApiInvStep == ApiInv /\ [ApiNext]_vars => ApiInv'
<1> SUFFICES ASSUME ApiInv, [ApiNext]_vars PROVE ApiInv'  OBVIOUS
<1>1. CASE ApiNext
  <2>1. ASSUME NEW r \in Requests, NEW c \in Asks, Preliminaries(r, c)
        PROVE  ApiInv'
    <3>1. c \in Calls  BY CallsAsked
    <3>2. CASE Unauthorized(r, c)  BY <3>1, <3>2, StepUnauthorized
    <3>3. CASE Limit(r, c)         BY <3>1, <3>3, StepLimit
    <3>4. CASE LimiterFails(r, c)  BY <3>1, <3>4, StepLimiterFails
    <3> QED  BY <2>1, <3>2, <3>3, <3>4 DEF Preliminaries
  <2>2. ASSUME NEW r \in Requests, FindRun(r)       PROVE ApiInv'  BY <2>2, StepFindRun
  <2>3. ASSUME NEW r \in Requests, InsertRun(r)     PROVE ApiInv'  BY <2>3, StepInsertRun
  <2>4. ASSUME NEW r \in Requests, RereadRun(r)     PROVE ApiInv'  BY <2>4, StepRereadRun
  <2>5. ASSUME NEW r \in Requests, FindEvent(r)     PROVE ApiInv'  BY <2>5, StepFindEvent
  <2>6. ASSUME NEW r \in Requests, InsertEvent(r)   PROVE ApiInv'  BY <2>6, StepInsertEvent
  <2>7. ASSUME NEW r \in Requests, Enqueue(r)       PROVE ApiInv'  BY <2>7, StepEnqueue
  <2>8. ASSUME NEW r \in Requests, EnqueueFails(r)  PROVE ApiInv'  BY <2>8, StepEnqueueFails
  <2>9. ASSUME NEW r \in Requests, BreaksOff(r)     PROVE ApiInv'  BY <2>9, StepBreaksOff
  <2>10. ASSUME NEW r \in Requests, ReadRuns(r)     PROVE ApiInv'  BY <2>10, StepReadRuns
  <2>11. CASE ReconcilerAdds  BY <2>11, StepReconcile
  <2> QED
    BY <1>1, <2>1, <2>2, <2>3, <2>4, <2>5, <2>6, <2>7, <2>8, <2>9, <2>10, <2>11
       DEF ApiNext, RequestNext
<1>2. CASE UNCHANGED vars
  <2>1. UNCHANGED <<bucketVars, runs, ingested, jobs, call, at, status, named, faults>>
    BY <1>2 DEF vars, answerVars
  <2>2. BucketInv'  BY <2>1, ApiBucket
  <2>3. TypeOK'  BY <2>1, <2>2 DEF TypeOK, ApiInv, BucketInv
  <2>4. KeysUnique' /\ EventsWhole'  BY <2>1 DEF ApiInv, KeysUnique, EventsWhole, RunsWith
  <2>5. HandlersInv'
    <3> SUFFICES ASSUME NEW q \in Requests PROVE HandlerInv(q)'  BY DEF HandlersInv
    <3>1. Tenant(q)' = Tenant(q) /\ EventOf(q)' = EventOf(q) /\ MadeBy(q)' = MadeBy(q)
      BY <2>1 DEF Tenant, EventOf, MadeBy
    <3>2. EventRuns(q)' = EventRuns(q)  BY <2>1, <3>1 DEF EventRuns
    <3>3. Creates(q)' = Creates(q)  BY <2>1, <3>1, <3>2 DEF Creates
    <3>4. RunsWith(Tenant(q), call[q].key)' = RunsWith(Tenant(q), call[q].key)
      BY <2>1, <3>1 DEF RunsWith
    <3>5. HandlerInv(q)  BY DEF ApiInv, HandlersInv
    <3> QED  BY <2>1, <3>1, <3>3, <3>4, <3>5 DEF HandlerInv
  <2>6. OwnRunsOnly'  BY <2>1 DEF ApiInv, OwnRunsOnly, Tenant
  <2> QED  BY <2>2, <2>3, <2>4, <2>5, <2>6 DEF ApiInv, BucketInv
<1> QED  BY <1>1, <1>2

(***************************************************************************)
(* The theorems.                                                            *)
(***************************************************************************)

\* The inductive invariant holds of every reachable state, whichever requests
\* overlap, fail and are sent again.
THEOREM ApiInductive == ApiSpec => []ApiInv
<1> QED  BY ApiInvInit, ApiInvStep, PTL DEF ApiSpec

\* The bucket's fields, the rows and the requests keep their types; the level of a
\* bucket stays between nothing and its capacity.
THEOREM ApiTypeCorrect == ApiSpec => []TypeOK
<1>1. ApiInv => TypeOK  BY DEF ApiInv
<1> QED  BY <1>1, ApiInductive, PTL

\* checkRateLimit: no tenant is allowed more than the capacity and the time that
\* passed pay for, but for what clocks that went back give it.
THEOREM AdmissionIsBounded == ApiSpec => []AdmissionBounded
<1>1. ApiInv => AdmissionBounded  BY BudgetBoundsAdmission DEF ApiInv, TypeOK
<1> QED  BY <1>1, ApiInductive, PTL

\* The limiter's Retry-After is long enough.
THEOREM RetryAfterIsEnough == ApiSpec => PromiseKept
<1>1. ASSUME ApiInv, [ApiNext]_vars
      PROVE  [\A t \in Tenants :
                promised[t] # 0 /\ lastRefill'[t] >= promised[t] => promised'[t] = 0]_bucketVars
  <2> SUFFICES ASSUME ~UNCHANGED bucketVars
               PROVE  \A t \in Tenants :
                        promised[t] # 0 /\ lastRefill'[t] >= promised[t] => promised'[t] = 0
    OBVIOUS
  <2>1. BucketInv  BY <1>1, ApiBucket
  <2>2. ApiNext  BY <1>1 DEF vars
  <2>3. PICK r \in Requests, c \in Asks : Limit(r, c) \/ LimiterFails(r, c)
    BY <2>2 DEF ApiNext, RequestNext, Preliminaries, Unauthorized, FindRun, InsertRun, RereadRun,
                FindEvent, InsertEvent, Enqueue, EnqueueFails, BreaksOff, ReadRuns, ReconcilerAdds,
                AddJobs
  <2>4. TenantOf[c.apiKey] \in Tenants  BY <2>3, TenantIs DEF Limit, LimiterFails
  <2>5. \E clock \in now..MaxTime : \E time \in Times(clock) :
           CheckRateLimit(TenantOf[c.apiKey], clock, time)
    BY <2>3 DEF Limit, LimiterFails
  <2> QED  BY <2>1, <2>4, <2>5, ScriptPromise DEF BucketInv
<1> QED  BY <1>1, ApiInductive, PTL DEF ApiSpec, PromiseKept

\* POST /runs: all answers to one idempotency key hold one run, which exists, and
\* one request at most is told that it created it.
THEOREM OneRunPerKey == ApiSpec => []RepliesAgree
<1>1. ASSUME ApiInv, NEW r \in Requests, Succeeded(r, "run")
      PROVE  \E x \in runs : /\ named[r] = {x}
                             /\ x.tenant = Tenant(r) /\ x.key = call[r].key
                             /\ status[r] = "201" <=> x.by = r
  <2>1. HandlerInv(r) /\ status[r] \in {"200", "201"} /\ call[r].op = "run"
    BY <1>1 DEF ApiInv, HandlersInv, Succeeded
  <2>2. CASE status[r] = "201"
    <3> DEFINE new == [tenant |-> Tenant(r), key |-> call[r].key, by |-> r]
    <3>1. named[r] = {new} /\ MadeBy(r) = {new}  BY <2>1, <2>2 DEF HandlerInv, Creates
    <3>2. new \in runs  BY <3>1 DEF MadeBy
    <3>3. new.tenant = Tenant(r) /\ new.key = call[r].key /\ new.by = r  OBVIOUS
    <3> HIDE DEF new
    <3> QED  BY <2>2, <3>1, <3>2, <3>3
  <2>3. CASE status[r] = "200"
    <3>1. PICK x \in runs : named[r] = {x} /\ x.tenant = Tenant(r) /\ x.key = call[r].key
      BY <2>1, <2>3 DEF HandlerInv
    <3>2. x.by # r  BY <2>1, <2>3 DEF HandlerInv, MadeBy
    <3> QED  BY <2>3, <3>1, <3>2
  <2> QED  BY <2>1, <2>2, <2>3
<1>2. ApiInv => RepliesAgree
  <2> SUFFICES ASSUME ApiInv, NEW r \in Requests, Succeeded(r, "run")
               PROVE  \E x \in runs :
                        /\ named[r] = {x}
                        /\ x.tenant = Tenant(r) /\ x.key = call[r].key
                        /\ status[r] = "201" <=> x.by = r
                        /\ \A q \in Requests :
                              Succeeded(q, "run") /\ Tenant(q) = Tenant(r) /\ call[q].key = x.key
                              /\ x.key # NoKey => named[q] = {x}
    BY DEF RepliesAgree
  <2>1. PICK x \in runs : /\ named[r] = {x}
                          /\ x.tenant = Tenant(r) /\ x.key = call[r].key
                          /\ status[r] = "201" <=> x.by = r
    BY <1>1
  <2>2. ASSUME NEW q \in Requests, Succeeded(q, "run"), Tenant(q) = Tenant(r),
               call[q].key = x.key, x.key # NoKey
        PROVE  named[q] = {x}
    <3>1. PICK y \in runs : named[q] = {y} /\ y.tenant = Tenant(q) /\ y.key = call[q].key
      BY <2>2, <1>1
    <3>2. y = x  BY <2>1, <2>2, <3>1 DEF ApiInv, KeysUnique
    <3> QED  BY <3>1, <3>2
  <2> QED  BY <2>1, <2>2
<1> QED  BY <1>2, ApiInductive, PTL

\* POST /events: an event that was answered has one run for each of its bindings.
THEOREM EventsAreWhole == ApiSpec => []EventRepliesHold
<1>1. ApiInv => EventRepliesHold
  <2> SUFFICES ASSUME ApiInv, NEW r \in Requests, Succeeded(r, "event")
               PROVE  /\ \A b \in BindingsOf[Tenant(r)] :
                            \E x \in runs : RunsWith(Tenant(r), <<call[r].id, b>>) = {x}
                      /\ status[r] = "201" => named[r] = EventRuns(r)
    BY DEF EventRepliesHold
  <2>1. HandlerInv(r) /\ status[r] \in {"200", "201"} /\ call[r].op = "event"
    BY DEF ApiInv, HandlersInv, Succeeded
  <2>2. EventOf(r) \in ingested  BY <2>1 DEF HandlerInv
  <2>3. \A b \in BindingsOf[Tenant(r)] : RunsWith(Tenant(r), <<call[r].id, b>>) # {}
    <3>1. EventOf(r)[1] = Tenant(r) /\ EventOf(r)[2] = call[r].id  BY DEF EventOf
    <3> QED  BY <2>2, <3>1 DEF ApiInv, EventsWhole
  <2>4. \A b \in BindingsOf[Tenant(r)] :
            \E x \in runs : RunsWith(Tenant(r), <<call[r].id, b>>) = {x}
    <3> SUFFICES ASSUME NEW b \in BindingsOf[Tenant(r)]
                 PROVE  \E x \in runs : RunsWith(Tenant(r), <<call[r].id, b>>) = {x}
      OBVIOUS
    <3>1. PICK x \in RunsWith(Tenant(r), <<call[r].id, b>>) : TRUE  BY <2>3
    <3> QED  BY <3>1, RunsWithOne DEF ApiInv
  <2>5. status[r] = "201" => named[r] = EventRuns(r)  BY <2>1 DEF HandlerInv, Creates
  <2> QED  BY <2>4, <2>5
<1> QED  BY <1>1, ApiInductive, PTL

\* Every query is by the caller's tenant: no answer shows a run of another.
THEOREM TenantsApart == ApiSpec => []OwnRunsOnly
<1>1. ApiInv => OwnRunsOnly  BY DEF ApiInv
<1> QED  BY <1>1, ApiInductive, PTL

(***************************************************************************)
(* Who creates was admitted.                                                *)
(***************************************************************************)

UnderWayPhases == {"find", "insert", "reread", "enqueue"}

\* The tenant's requests that the limiter let through and that matter still.
Passed(t) ==
    {r \in Requests : at[r] \in UnderWayPhases /\ Tenant(r) = t} \union Creators(t)

PassedInv ==
    \A t \in Tenants : IsFiniteSet(Passed(t)) /\ Cardinality(Passed(t)) <= admitted[t]

LEMMA ScriptAdmits ==
  ASSUME BucketInv, NEW t \in Tenants,
         \E clock \in now..MaxTime : \E time \in Times(clock) : CheckRateLimit(t, clock, time)
  PROVE  \A u \in Tenants : admitted[u] \in Nat /\ admitted'[u] \in Nat /\ admitted[u] <= admitted'[u]
<1>1. BucketTypeOK'  BY BucketRuns DEF BucketInv
<1>2. \A u \in Tenants : admitted[u] \in Nat /\ admitted'[u] \in Nat
  BY <1>1 DEF BucketTypeOK, BucketInv
<1> SUFFICES ASSUME NEW u \in Tenants PROVE admitted[u] <= admitted'[u]  BY <1>2
<1>3. admitted'[u] = admitted[u] \/ admitted'[u] = admitted[u] + 1
  BY ScriptResult DEF BucketInv
<1> QED  BY <1>2, <1>3

\* Nothing is to be shown of a step after which no more requests have passed.
LEMMA PassedShrinks ==
  ASSUME PassedInv, NEW t \in Tenants, Passed(t)' \subseteq Passed(t),
         admitted[t] \in Nat, admitted'[t] \in Nat, admitted[t] <= admitted'[t]
  PROVE  IsFiniteSet(Passed(t)') /\ Cardinality(Passed(t)') <= admitted'[t]
<1>1. IsFiniteSet(Passed(t)) /\ Cardinality(Passed(t)) <= admitted[t]  BY DEF PassedInv
<1>2. IsFiniteSet(Passed(t)') /\ Cardinality(Passed(t)') <= Cardinality(Passed(t))
  BY <1>1, FS_Subset
<1>3. Cardinality(Passed(t)) \in Nat /\ Cardinality(Passed(t)') \in Nat
  BY <1>1, <1>2, FS_CardinalityType
<1> QED  BY <1>1, <1>2, <1>3

\* A request that was under way, and may have created what it was to create.
LEMMA PassedOfStep ==
  ASSUME ApiInv, NEW r \in Requests, at[r] \in UnderWayPhases, call' = call,
         \A q \in Requests \ {r} : at'[q] = at[q],
         \A x \in runs' \ runs : x.by = r /\ x.tenant = Tenant(r),
         NEW t \in Tenants
  PROVE  Passed(t)' \subseteq Passed(t)
<1> SUFFICES ASSUME NEW q \in Passed(t)' PROVE q \in Passed(t)  OBVIOUS
<1>1. CASE q \in Requests /\ at'[q] \in UnderWayPhases /\ Tenant(q)' = t
  BY <1>1 DEF Passed, Tenant
<1>2. CASE q \in Creators(t)'
  <2>1. PICK x \in runs' : x.tenant = t /\ q = x.by  BY <1>2 DEF Creators
  <2>2. CASE x \in runs  BY <2>1, <2>2 DEF Passed, Creators
  <2>3. CASE x \notin runs  BY <2>1, <2>3 DEF Passed
  <2> QED  BY <2>2, <2>3
<1> QED  BY <1>1, <1>2 DEF Passed

\* A request that is not let through.
LEMMA PassedOfRefusal ==
  ASSUME ApiInv, NEW r \in Requests, NEW c \in Calls, Sends(r, c), UNCHANGED runs,
         Answers(r, "error", {}), NEW t \in Tenants
  PROVE  Passed(t)' \subseteq Passed(t)
<1>1. Called(r)  BY CallSent DEF ApiInv
<1>2. Moves(r) /\ at'[r] = "answered"  BY <1>1, AnswersMoves DEF ApiInv, Statuses
<1>3. at'[r] \notin UnderWayPhases  BY <1>2 DEF UnderWayPhases
<1>4. Creators(t)' = Creators(t)  BY DEF Creators
<1> QED  BY <1>2, <1>3, <1>4 DEF Passed, Tenant, Moves

LEMMA PassedOfLimit ==
  ASSUME ApiInv, PassedInv, NEW r \in Requests, NEW c \in Calls, Limit(r, c),
         NEW t \in Tenants
  PROVE  IsFiniteSet(Passed(t)') /\ Cardinality(Passed(t)') <= admitted'[t]
<1> DEFINE u == TenantOf[c.apiKey]
<1>1. u \in Tenants /\ BucketInv  BY TenantIs, ApiBucket DEF Limit
<1>2. admitted[t] \in Nat /\ admitted'[t] \in Nat /\ admitted[t] <= admitted'[t]
  BY <1>1, ScriptAdmits DEF Limit
<1>3. CASE Answers(r, "error", {})
  <2>1. Passed(t)' \subseteq Passed(t)  BY <1>3, PassedOfRefusal DEF Limit
  <2> QED  BY <1>2, <2>1, PassedShrinks
<1>4. PICK clock \in now..MaxTime : \E time \in Times(clock) :
         /\ CheckRateLimit(u, clock, time)
         /\ IF Allows(u, clock, time) THEN Goes(r, "find") ELSE Answers(r, "error", {})
  BY DEF Limit
<1>5. PICK time \in Times(clock) :
         /\ CheckRateLimit(u, clock, time)
         /\ IF Allows(u, clock, time) THEN Goes(r, "find") ELSE Answers(r, "error", {})
  BY <1>4
<1>6. CASE Allows(u, clock, time) /\ Goes(r, "find")
  <2>1. Called(r) /\ call'[r] = c  BY CallSent DEF ApiInv, Limit
  <2>2. Moves(r)  BY <1>6, <2>1, GoesMoves DEF ApiInv, Phases
  <2>3. Creators(t)' = Creators(t)  BY DEF Creators, Limit
  <2>4. Tenant(r)' = u  BY <2>1 DEF Tenant
  <2>5. CASE t # u
    <3>1. Passed(t)' \subseteq Passed(t)
      BY <2>2, <2>3, <2>4, <2>5 DEF Passed, Tenant, Moves
    <3> QED  BY <1>2, <3>1, PassedShrinks
  <2>6. CASE t = u
    <3>1. Passed(t)' \subseteq Passed(t) \union {r}
      BY <2>2, <2>3 DEF Passed, Tenant, Moves
    <3>2. admitted'[t] = admitted[t] + 1
      <4>1. Level(u, clock, time) >= Cost  BY <1>6 DEF Allows
      <4>2. Level(u, clock, time) \in Int /\ Cost \in Int
        BY <1>1, LevelBounds, BucketAssumption DEF BucketInv
      <4> QED  BY <1>1, <1>5, <2>6, <4>1, <4>2, ScriptResult DEF BucketInv
    <3>3. IsFiniteSet(Passed(t)) /\ Cardinality(Passed(t)) <= admitted[t]
      BY DEF PassedInv
    <3>4. /\ IsFiniteSet(Passed(t) \union {r})
          /\ \/ Cardinality(Passed(t) \union {r}) = Cardinality(Passed(t))
             \/ Cardinality(Passed(t) \union {r}) = Cardinality(Passed(t)) + 1
      BY <3>3, FS_AddElement
    <3>5. IsFiniteSet(Passed(t)')
          /\ Cardinality(Passed(t)') <= Cardinality(Passed(t) \union {r})
      BY <3>1, <3>4, FS_Subset
    <3>6. /\ Cardinality(Passed(t)) \in Nat /\ Cardinality(Passed(t)') \in Nat
          /\ Cardinality(Passed(t) \union {r}) \in Nat
      BY <3>3, <3>4, <3>5, FS_CardinalityType
    <3> QED  BY <1>2, <3>2, <3>3, <3>4, <3>5, <3>6
  <2> QED  BY <2>5, <2>6
<1> QED  BY <1>3, <1>5, <1>6

LEMMA PassedStep ==
  ASSUME ApiInv, PassedInv, [ApiNext]_vars
  PROVE  PassedInv'
<1> SUFFICES ASSUME NEW t \in Tenants
             PROVE  IsFiniteSet(Passed(t)') /\ Cardinality(Passed(t)') <= admitted'[t]
  BY DEF PassedInv
<1>1. BucketInv /\ admitted[t] \in Nat  BY ApiBucket DEF BucketInv, BucketTypeOK
<1>2. ASSUME UNCHANGED bucketVars, Passed(t)' \subseteq Passed(t)
      PROVE  IsFiniteSet(Passed(t)') /\ Cardinality(Passed(t)') <= admitted'[t]
  <2>1. admitted'[t] = admitted[t]  BY <1>2 DEF bucketVars
  <2> QED  BY <1>1, <1>2, <2>1, PassedShrinks
<1>3. CASE UNCHANGED vars
  <2>1. Passed(t)' = Passed(t)  BY <1>3 DEF vars, Passed, Creators, Tenant
  <2> QED  BY <1>2, <1>3, <2>1 DEF vars
<1>4. CASE ReconcilerAdds
  <2>1. Passed(t)' = Passed(t)
    BY <1>4 DEF ReconcilerAdds, AddJobs, Passed, Creators, Tenant
  <2> QED  BY <1>2, <1>4, <2>1 DEF ReconcilerAdds, AddJobs
<1>5. ASSUME NEW r \in Requests, NEW c \in Asks, Preliminaries(r, c)
      PROVE  IsFiniteSet(Passed(t)') /\ Cardinality(Passed(t)') <= admitted'[t]
  <2>1. c \in Calls  BY CallsAsked
  <2>2. CASE Unauthorized(r, c)
    <3>1. Passed(t)' \subseteq Passed(t)  BY <2>1, <2>2, PassedOfRefusal DEF Unauthorized
    <3> QED  BY <1>2, <2>2, <3>1 DEF Unauthorized
  <2>3. CASE Limit(r, c)  BY <2>1, <2>3, PassedOfLimit
  <2>4. CASE LimiterFails(r, c)
    <3>1. Passed(t)' \subseteq Passed(t)  BY <2>1, <2>4, PassedOfRefusal DEF LimiterFails
    <3>2. TenantOf[c.apiKey] \in Tenants  BY <2>4, TenantIs DEF LimiterFails
    <3>3. CASE UNCHANGED bucketVars  BY <1>2, <3>1, <3>3
    <3>4. CASE \E clock \in now..MaxTime : \E time \in Times(clock) :
                  CheckRateLimit(TenantOf[c.apiKey], clock, time)
      <4>1. admitted'[t] \in Nat /\ admitted[t] <= admitted'[t]
        BY <1>1, <3>2, <3>4, ScriptAdmits
      <4> QED  BY <1>1, <3>1, <4>1, PassedShrinks
    <3> QED  BY <2>4, <3>3, <3>4 DEF LimiterFails
  <2> QED  BY <1>5, <2>2, <2>3, <2>4 DEF Preliminaries
<1>6. ASSUME NEW r \in Requests, at[r] \in UnderWayPhases, call' = call,
             UNCHANGED bucketVars,
             \A q \in Requests \ {r} : at'[q] = at[q],
             \A x \in runs' \ runs : x.by = r /\ x.tenant = Tenant(r)
      PROVE  IsFiniteSet(Passed(t)') /\ Cardinality(Passed(t)') <= admitted'[t]
  <2>1. Passed(t)' \subseteq Passed(t)  BY <1>6, PassedOfStep
  <2> QED  BY <1>2, <1>6, <2>1
<1>7. ASSUME NEW r \in Requests,
             \/ FindRun(r) \/ InsertRun(r) \/ RereadRun(r) \/ FindEvent(r) \/ InsertEvent(r)
             \/ Enqueue(r) \/ EnqueueFails(r) \/ BreaksOff(r) \/ ReadRuns(r)
      PROVE  IsFiniteSet(Passed(t)') /\ Cardinality(Passed(t)') <= admitted'[t]
  <2>1. /\ at[r] \in UnderWayPhases /\ call' = call /\ UNCHANGED bucketVars
    BY <1>7 DEF UnderWayPhases, FindRun, InsertRun, RereadRun, FindEvent, InsertEvent, Enqueue,
                EnqueueFails, BreaksOff, ReadRuns
  <2>2. \A q \in Requests \ {r} : at'[q] = at[q]
    <3>1. at \in [Requests -> Phases]  BY DEF ApiInv, TypeOK
    <3>2. \E phase : at' = [at EXCEPT ![r] = phase]
      BY <1>7 DEF FindRun, InsertRun, RereadRun, FindEvent, InsertEvent, Enqueue,
                  EnqueueFails, BreaksOff, ReadRuns, Goes, Answers
    <3> QED  BY <3>1, <3>2
  <2>3. \A x \in runs' \ runs : x.by = r /\ x.tenant = Tenant(r)
    BY <1>7 DEF FindRun, InsertRun, RereadRun, FindEvent, InsertEvent, Enqueue, EventRuns,
                EnqueueFails, BreaksOff, ReadRuns
  <2> QED  BY <1>6, <2>1, <2>2, <2>3
<1> QED  BY <1>3, <1>4, <1>5, <1>7 DEF ApiNext, RequestNext

\* Only calls that the limiter allowed create runs, and each at most once.
THEOREM OnlyAdmittedCreate == ApiSpec => []CreationsAdmitted
<1>1. ApiInit => PassedInv
  <2> SUFFICES ASSUME ApiInit, NEW t \in Tenants
               PROVE  IsFiniteSet(Passed(t)) /\ Cardinality(Passed(t)) <= admitted[t]
    BY DEF PassedInv
  <2>1. Passed(t) = {}
    BY DEF Passed, Creators, ApiInit, UnderWayPhases
  <2> QED  BY <2>1, FS_EmptySet DEF ApiInit, BucketInit
<1>2. ApiInv /\ PassedInv /\ [ApiNext]_vars => PassedInv'  BY PassedStep
<1>3. ApiInv /\ PassedInv => CreationsAdmitted
  <2> SUFFICES ASSUME ApiInv, PassedInv, NEW t \in Tenants
               PROVE  Cardinality(Creators(t)) <= admitted[t]
    BY DEF CreationsAdmitted
  <2>1. IsFiniteSet(Passed(t)) /\ Cardinality(Passed(t)) <= admitted[t]  BY DEF PassedInv
  <2>2. Creators(t) \subseteq Passed(t)  BY DEF Passed
  <2>3. IsFiniteSet(Creators(t)) /\ Cardinality(Creators(t)) <= Cardinality(Passed(t))
    BY <2>1, <2>2, FS_Subset
  <2>4. Cardinality(Creators(t)) \in Nat /\ Cardinality(Passed(t)) \in Nat
    BY <2>1, <2>3, FS_CardinalityType
  <2>5. admitted[t] \in Nat  BY ApiBucket DEF BucketInv, BucketTypeOK
  <2> QED  BY <2>1, <2>3, <2>4, <2>5
<1> QED  BY <1>1, <1>2, <1>3, ApiInductive, PTL DEF ApiSpec

(***************************************************************************)
(* The scan.                                                                *)
(***************************************************************************)

\* What reconcilePendingRuns and the workers do is nothing or an addition of jobs
\* to the API: what is proved of ControlApi holds beside them.
THEOREM ScanIsApi == ScanSpec => ApiSpec
<1>1. ScanInit => ApiInit  BY DEF ScanInit
<1>2. ASSUME [ScanNext]_<<vars, scanVars>> PROVE [ApiNext]_vars
  <2>1. CASE Serve  BY <2>1 DEF Serve, ApiNext
  <2>2. CASE ReconcilePendingRuns
    BY <2>2 DEF ReconcilePendingRuns, Pending, ApiNext, ReconcilerAdds
  <2>3. CASE \E x \in jobs : ProcessJob(x)  BY <2>3 DEF ProcessJob
  <2>4. CASE UNCHANGED <<vars, scanVars>>  BY <2>4
  <2> QED  BY <1>2, <2>1, <2>2, <2>3, <2>4 DEF ScanNext
<1> QED  BY <1>1, <1>2, PTL DEF ScanSpec, ApiSpec

\* Requests take no run and no job away.
LEMMA NothingTaken ==
  ASSUME RequestNext
  PROVE  runs \subseteq runs' /\ jobs \subseteq jobs'
<1>1. ASSUME NEW r \in Requests, NEW c \in Asks, Preliminaries(r, c)
      PROVE  runs \subseteq runs' /\ jobs \subseteq jobs'
  BY <1>1 DEF Preliminaries, Unauthorized, Limit, LimiterFails
<1>2. ASSUME NEW r \in Requests,
             \/ FindRun(r) \/ InsertRun(r) \/ RereadRun(r) \/ FindEvent(r) \/ InsertEvent(r)
             \/ Enqueue(r) \/ EnqueueFails(r) \/ BreaksOff(r) \/ ReadRuns(r)
      PROVE  runs \subseteq runs' /\ jobs \subseteq jobs'
  BY <1>2 DEF FindRun, InsertRun, RereadRun, FindEvent, InsertEvent, Enqueue, EnqueueFails,
              BreaksOff, ReadRuns
<1> QED  BY <1>1, <1>2 DEF RequestNext

\* A row leaves the scan, or is stuck in it, only by its job: never a row that has
\* none, and never both.
THEOREM LeavesByItsJob == ScanSpec => []ScanTypeOK
<1>1. ScanInit => ScanTypeOK  BY DEF ScanInit, ApiInit, ScanTypeOK
<1>2. ASSUME ScanTypeOK, [ScanNext]_<<vars, scanVars>> PROVE ScanTypeOK'
  <2>1. CASE Serve
    <3>1. runs \subseteq runs' /\ jobs \subseteq jobs' /\ UNCHANGED <<left, usedUp>>
      BY <2>1, NothingTaken DEF Serve
    <3>2. created \in Seq(SUBSET runs')
      <4>1. created \in Seq(SUBSET runs) /\ SUBSET runs \subseteq SUBSET runs'
        BY <1>2, <3>1 DEF ScanTypeOK
      <4> QED  BY <4>1
    <3>3. created' \in Seq(SUBSET runs')
      <4>1. created' = created \/ created' = Append(created, runs' \ runs)
        BY <2>1 DEF Serve
      <4> QED  BY <3>2, <4>1
    <3> QED  BY <1>2, <3>1, <3>3 DEF ScanTypeOK
  <2>2. CASE ReconcilePendingRuns
    BY <1>2, <2>2 DEF ReconcilePendingRuns, AddJobs, ScanTypeOK, scanVars
  <2>3. ASSUME NEW x \in jobs, ProcessJob(x) PROVE ScanTypeOK'
    BY <1>2, <2>3 DEF ProcessJob, StartOrBlock, FailJob, ScanTypeOK, vars
  <2>4. CASE UNCHANGED <<vars, scanVars>>
    BY <1>2, <2>4 DEF ScanTypeOK, vars, scanVars
  <2> QED  BY <1>2, <2>1, <2>2, <2>3, <2>4 DEF ScanNext
<1> QED  BY <1>1, <1>2, PTL DEF ScanSpec
=============================================================================
