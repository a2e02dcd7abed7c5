-------------------------- MODULE ConcurrencySlots --------------------------
(***************************************************************************)
(* Distributed concurrency limits (apps/worker/src/concurrency.ts): the    *)
(* runs of one workflow take a slot of the workflow and a slot of their    *)
(* partition before they execute.  A slot is a member of a sorted set in   *)
(* Redis, named by the run and scored with the end of its lease; a         *)
(* worker's timer renews the lease every half of its time to live.  Redis  *)
(* runs a script as one step.                                              *)
(*                                                                         *)
(* A pass is a place of a worker that handles one job (processJob).  Jobs  *)
(* are always there to be taken: a refused job is added again with a       *)
(* delay, a run has more than one job over its life.                       *)
(***************************************************************************)
EXTENDS Integers, FiniteSets

CONSTANTS
    Runs,           \* workflow_runs of one workflow and tenant
    Workers,        \* processes, each with a ConcurrencyCoordinator
    Passes,         \* <<w, i>>: the i-th place of worker w
    Partitions,     \* partition keys
    PartitionOf,    \* a run's partition key, or NoPartition
    NoPartition,
    Global,         \* the name of the workflow's own key
    GlobalLimit,    \* config.limit, 0 when there is none
    KeyLimit,       \* config.keyLimit, 1 by default
    Ttl,            \* ttlSeconds
    Disturbances    \* of "overlap", "stall", "flush": what may happen

SlotKeys == {Global} \union Partitions

\* The keys a run needs, the empty ones left out.
KeysOf(r) ==
    (IF GlobalLimit > 0 THEN {Global} ELSE {})
        \union ({PartitionOf[r]} \ {NoPartition})

LimitOf(k) == IF k = Global THEN GlobalLimit ELSE KeyLimit

ASSUME SlotsAssumption ==
    /\ IsFiniteSet(Runs)
    /\ Passes \subseteq Workers \X Nat
    /\ PartitionOf \in [Runs -> Partitions \union {NoPartition}]
    /\ NoPartition \notin Partitions \union {Global}
    /\ Global \notin Partitions
    /\ GlobalLimit \in Nat
    /\ KeyLimit \in Nat \ {0}
    /\ Ttl \in Nat /\ Ttl >= 2
    /\ \A r \in Runs : KeysOf(r) # {}

VARIABLES
    left,       \* of a member of a sorted set, the time its lease still has
    held,       \* activeLeases: the runs a worker has a timer for
    renewIn,    \* the time until that timer fires
    pc,         \* a pass: idle, granted (the answer is under way), executing
    run,        \* the run whose job the pass handles
    disturbed   \* history: whether one of Disturbances has happened

vars == <<left, held, renewIn, pc, run, disturbed>>

Absent == -1        \* not a member
NoRun == Absent

\* Mutant: the timer fires only when the lease ends.
RenewIntervalLate == Ttl

\* (The code also has a floor of 100 ms, which is later than half of a time to live
\* below 200 ms; such a one is not covered.)
RenewInterval == Ttl \div 2

TypeOK ==
    /\ left \in [SlotKeys -> [Runs -> Absent..Ttl]]
    /\ held \in [Workers -> SUBSET Runs]
    /\ renewIn \in [Workers -> [Runs -> 0..Ttl]]
    /\ pc \in [Passes -> {"idle", "granted", "executing"}]
    /\ run \in [Passes -> Runs \union {NoRun}]
    /\ \A p \in Passes : pc[p] # "idle" => run[p] \in Runs
    /\ disturbed \in BOOLEAN

Init ==
    /\ left = [k \in SlotKeys |-> [r \in Runs |-> Absent]]
    /\ held = [w \in Workers |-> {}]
    /\ renewIn = [w \in Workers |-> [r \in Runs |-> 0]]
    /\ pc = [p \in Passes |-> "idle"]
    /\ run = [p \in Passes |-> NoRun]
    /\ disturbed = FALSE

Members(k) == {r \in Runs : left[k][r] # Absent}
Live(k) == {r \in Runs : left[k][r] > 0}
AtWork(r) == {p \in Passes : pc[p] # "idle" /\ run[p] = r}

Disturbs(d) == d \in Disturbances /\ disturbed' = TRUE

----------------------------------------------------------------------------
(* The scripts.                                                             *)

\* Mutant: the count may pass the limit by one.
FullPastLimit(k, r) == r \notin Live(k) /\ Cardinality(Live(k)) > LimitOf(k)

\* After the script has pruned key k there is no place in it for run r.
Full(k, r) == r \notin Live(k) /\ Cardinality(Live(k)) >= LimitOf(k)

Grants(r) == \A k \in KeysOf(r) : ~Full(k, r)

\* The script returns at a full global key, before it prunes the partition's.
Pruned(r) ==
    IF Global \in KeysOf(r) /\ Full(Global, r) THEN {Global} ELSE KeysOf(r)

Prune(r, q, k) == IF k \in Pruned(r) /\ left[k][q] <= 0 THEN Absent ELSE left[k][q]

\* ACQUIRE_SCRIPT for run r.
AcquireScript(r) ==
    left' = [k \in SlotKeys |-> [q \in Runs |->
                IF q = r /\ k \in KeysOf(r) /\ Grants(r) THEN Ttl
                ELSE Prune(r, q, k)]]

\* RELEASE_SCRIPT for run r.
ReleaseScript(r) ==
    left' = [k \in SlotKeys |-> [q \in Runs |->
                IF q = r /\ k \in KeysOf(r) THEN Absent ELSE left[k][q]]]

\* Mutant: ZADD XX without the check of every key.
RenewScriptUnchecked(r) ==
    left' = [k \in SlotKeys |-> [q \in Runs |->
                IF q = r /\ k \in KeysOf(r) /\ left[k][r] # Absent
                    THEN Ttl ELSE left[k][q]]]

\* Mutant: the new score is counted from the old one, which had time left.
RenewScriptAdds(r) ==
    left' = [k \in SlotKeys |-> [q \in Runs |->
                IF /\ q = r /\ k \in KeysOf(r)
                   /\ \A i \in KeysOf(r) : left[i][r] # Absent
                THEN left[k][q] + Ttl ELSE left[k][q]]]

\* RENEW_SCRIPT for run r: nothing unless the run is a member of all its keys.
\* A lease that has ended is revived as long as nobody pruned it.
RenewScript(r) ==
    left' = [k \in SlotKeys |-> [q \in Runs |->
                IF /\ q = r /\ k \in KeysOf(r)
                   /\ \A i \in KeysOf(r) : left[i][r] # Absent
                THEN Ttl ELSE left[k][q]]]

----------------------------------------------------------------------------
(* A pass.                                                                  *)

\* Two passes of one run at once: the job of a due retry and the one before
\* it, a job taken again from a worker that BullMQ holds for stalled.
Overlaps(r) == IF AtWork(r) = {} THEN UNCHANGED disturbed ELSE Disturbs("overlap")

\* processJob takes a job of run r and tryAcquire sends its script, which
\* grants the slots; the answer is under way.
Acquire(p, r) ==
    /\ pc[p] = "idle"
    /\ Grants(r)
    /\ AcquireScript(r)
    /\ Overlaps(r)
    /\ pc' = [pc EXCEPT ![p] = "granted"]
    /\ run' = [run EXCEPT ![p] = r]
    /\ UNCHANGED <<held, renewIn>>

\* The script refuses the slots, and the job is added again with a delay.
Refused(p, r) ==
    /\ pc[p] = "idle"
    /\ ~Grants(r)
    /\ AcquireScript(r)
    /\ UNCHANGED <<held, renewIn, pc, run, disturbed>>

\* tryAcquire gets its answer: it replaces the timer the worker may have for
\* the run, and the executor starts.
Start(p) ==
    LET w == p[1] IN
    /\ pc[p] = "granted"
    /\ held' = [held EXCEPT ![w] = @ \union {run[p]}]
    /\ renewIn' = [renewIn EXCEPT ![w][run[p]] = RenewInterval]
    /\ pc' = [pc EXCEPT ![p] = "executing"]
    /\ UNCHANGED <<left, run, disturbed>>

Leave(p) ==
    /\ pc' = [pc EXCEPT ![p] = "idle"]
    /\ run' = [run EXCEPT ![p] = NoRun]

\* The answer is lost: tryAcquire throws, the slots are nobody's.
LoseAnswer(p) ==
    /\ pc[p] = "granted"
    /\ Leave(p)
    /\ UNCHANGED <<left, held, renewIn, disturbed>>

\* Mutant: release leaves the entry of activeLeases and its timer.
KeepTimer(p) == UNCHANGED <<held, renewIn>>

\* The entry of activeLeases is deleted and its timer cleared.
DropTimer(p) ==
    /\ held' = [held EXCEPT ![p[1]] = @ \ {run[p]}]
    /\ renewIn' = [renewIn EXCEPT ![p[1]][run[p]] = 0]

\* The executor is done, or threw: release drops the timer and frees the
\* slots, unless another pass of the run has dropped the worker's timer.
Release(p) ==
    /\ pc[p] = "executing"
    /\ DropTimer(p)
    /\ IF run[p] \in held[p[1]] THEN ReleaseScript(run[p]) ELSE UNCHANGED left
    /\ Leave(p)
    /\ UNCHANGED disturbed

\* Mutant: the timer is dropped after the script's answer, which never comes.
LoseReleaseFirst(p) ==
    /\ pc[p] = "executing"
    /\ Leave(p)
    /\ UNCHANGED <<left, held, renewIn, disturbed>>

\* Redis cannot be reached: processJob ignores the error of release.
LoseRelease(p) ==
    /\ pc[p] = "executing"
    /\ DropTimer(p)
    /\ Leave(p)
    /\ UNCHANGED <<left, disturbed>>

\* The timer fires; the answer to renew is ignored.
Renew(w, r) ==
    /\ r \in held[w]
    /\ renewIn[w][r] = 0
    /\ RenewScript(r)
    /\ renewIn' = [renewIn EXCEPT ![w][r] = RenewInterval]
    /\ UNCHANGED <<held, pc, run, disturbed>>

----------------------------------------------------------------------------
(* What happens to workers and Redis.                                       *)

\* A worker stops without releasing anything.
Crash(w) ==
    /\ \E p \in Passes : p[1] = w /\ pc[p] # "idle"
    /\ held' = [held EXCEPT ![w] = {}]
    /\ renewIn' = [renewIn EXCEPT ![w] = [r \in Runs |-> 0]]
    /\ pc' = [p \in Passes |-> IF p[1] = w THEN "idle" ELSE pc[p]]
    /\ run' = [p \in Passes |-> IF p[1] = w THEN NoRun ELSE run[p]]
    /\ UNCHANGED <<left, disturbed>>

\* EXPIRE: a key goes when its last lease has long ended.
KeyExpires(k) ==
    /\ Members(k) # {} /\ Live(k) = {}
    /\ left' = [left EXCEPT ![k] = [r \in Runs |-> Absent]]
    /\ UNCHANGED <<held, renewIn, pc, run, disturbed>>

\* Redis loses its data.
Flush ==
    /\ \E k \in SlotKeys : Members(k) # {}
    /\ Disturbs("flush")
    /\ left' = [k \in SlotKeys |-> [r \in Runs |-> Absent]]
    /\ UNCHANGED <<held, renewIn, pc, run>>

\* A timer that is due, or an answer that is under way.
Pending ==
    \/ \E w \in Workers : \E r \in held[w] : renewIn[w][r] = 0
    \/ \E p \in Passes : pc[p] = "granted"

Lower(n) == IF n > 0 THEN n - 1 ELSE n

\* Time passes; over a timer or an answer only when a worker stalls.
Tick ==
    /\ \E k \in SlotKeys : Live(k) # {}
    /\ IF Pending THEN Disturbs("stall") ELSE UNCHANGED disturbed
    /\ left' = [k \in SlotKeys |-> [r \in Runs |-> Lower(left[k][r])]]
    /\ renewIn' = [w \in Workers |-> [r \in Runs |->
                      IF renewIn[w][r] > 0 THEN renewIn[w][r] - 1 ELSE 0]]
    /\ UNCHANGED <<held, pc, run>>

Next ==
    \/ \E p \in Passes : \/ \E r \in Runs : Acquire(p, r) \/ Refused(p, r)
                         \/ Start(p)
                         \/ LoseAnswer(p)
                         \/ Release(p)
                         \/ LoseRelease(p)
    \/ \E w \in Workers : Crash(w) \/ \E r \in Runs : Renew(w, r)
    \/ \E k \in SlotKeys : KeyExpires(k)
    \/ Flush
    \/ Tick

Spec == Init /\ [][Next]_vars

\* Time passes; neither passes nor timers need make progress.
FairSpec == Spec /\ WF_vars(Tick)

----------------------------------------------------------------------------
(* Properties.                                                              *)

\* No sorted set ever holds more runs than its limit, whatever overlaps,
\* stalls, crashes and lost scripts did: a refusal at the partition's key takes
\* no slot of the workflow, and a late renewal revives no lease whose place
\* another run has taken.
LimitKept == \A k \in SlotKeys : Cardinality(Members(k)) <= LimitOf(k)

\* A run holds all its slots or none: their leases end together.
LeasesAgree ==
    \A r \in Runs : \A i, j \in KeysOf(r) : left[i][r] > 0 => left[j][r] = left[i][r]

\* No heartbeat outlives its pass: a worker renews the slots only of runs it
\* is executing.
HeartbeatHasPass ==
    \A w \in Workers : \A r \in held[w] :
        \E p \in AtWork(r) : p[1] = w /\ pc[p] = "executing"

Executing(k) == {r \in Runs : k \in KeysOf(r) /\ \E p \in AtWork(r) : pc[p] = "executing"}

\* No more runs execute than the limit of the workflow and of each partition
\* allow.
NeverExceeded == \A k \in SlotKeys : Cardinality(Executing(k)) <= LimitOf(k)

\* As long as no run has had two passes at once, no worker has stalled and
\* Redis has kept its data, the limits bound the runs that execute, through
\* refusals, crashes and lost answers.
WithinLimit == ~disturbed => NeverExceeded

HasSlot(r) == \E k \in KeysOf(r) : r \in Live(k)

\* A slot of a crashed worker, or one whose release was lost, is freed: a live
\* lease that no pass of its run is behind ends, or a pass of the run takes it.
SlotsFreed ==
    \A r \in Runs : HasSlot(r) /\ AtWork(r) = {} ~> ~HasSlot(r) \/ AtWork(r) # {}
=============================================================================
