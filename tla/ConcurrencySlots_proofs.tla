----------------------- MODULE ConcurrencySlots_proofs -----------------------
(***************************************************************************)
(* Theorems about ConcurrencySlots.  The sorted sets keep their limits     *)
(* whatever happens (LimitsHold); as long as nothing disturbs it, every    *)
(* executing run is a live member of its sets, so the limits bound the     *)
(* runs that execute (ExecutionIsBounded).                                 *)
(***************************************************************************)
EXTENDS ConcurrencySlots, FiniteSetTheorems, TLAPS

USE SlotsAssumption

\* The inductive invariant.  A timer that has not fired leaves its lease at
\* least the time by which the lease outlives the renewal.
SetsOfNeeded == \A k \in SlotKeys, r \in Runs : left[k][r] # Absent => k \in KeysOf(r)

TimersShort == \A w \in Workers, r \in Runs : renewIn[w][r] <= RenewInterval

OnePassEach ==
    \A p, q \in Passes :
        pc[p] # "idle" /\ pc[q] # "idle" /\ run[p] = run[q] => p = q

GrantedIsFresh ==
    \A p \in Passes : pc[p] = "granted" =>
        \A k \in KeysOf(run[p]) : left[k][run[p]] = Ttl

ExecutingIsLive ==
    \A p \in Passes : pc[p] = "executing" =>
        /\ run[p] \in held[p[1]]
        /\ \A k \in KeysOf(run[p]) :
              left[k][run[p]] >= renewIn[p[1]][run[p]] + (Ttl - RenewInterval)

Undisturbed == OnePassEach /\ GrantedIsFresh /\ ExecutingIsLive

SlotsInv ==
    /\ TypeOK
    /\ SetsOfNeeded
    /\ TimersShort
    /\ LimitKept
    /\ LeasesAgree
    /\ HeartbeatHasPass
    /\ ~disturbed => Undisturbed

----------------------------------------------------------------------------
(* Types.                                                                   *)

\* A timer fires before its lease ends.
LEMMA IntervalFits == RenewInterval \in 1..Ttl - 1
BY DEF RenewInterval

\* The keys of a run are keys.
LEMMA KeysAreKeys == \A r \in Runs : KeysOf(r) \subseteq SlotKeys
BY DEF KeysOf, SlotKeys

\* Every key has a limit.
LEMMA LimitIsNat == \A k \in SlotKeys : LimitOf(k) \in Nat
BY DEF LimitOf

\* A pass is at a worker.
LEMMA PassHasWorker == \A p \in Passes : p[1] \in Workers
<1> TAKE p \in Passes
<1>1. p \in Workers \X Nat
  OBVIOUS
<1> QED BY <1>1

LEMMA TypeStep == TypeOK /\ [Next]_vars => TypeOK'
<1> SUFFICES ASSUME TypeOK, [Next]_vars PROVE TypeOK'
  OBVIOUS
<1> USE PassHasWorker, IntervalFits, KeysAreKeys DEF TypeOK, Absent
<1>1. ASSUME NEW p \in Passes, NEW r \in Runs, Acquire(p, r) PROVE TypeOK'
  <2>1. left' \in [SlotKeys -> [Runs -> Absent..Ttl]]
    BY <1>1 DEF Acquire, AcquireScript, Prune
  <2>2. disturbed' \in BOOLEAN
    BY <1>1 DEF Acquire, Overlaps, Disturbs
  <2> QED BY <2>1, <2>2, <1>1 DEF Acquire
<1>2. ASSUME NEW p \in Passes, NEW r \in Runs, Refused(p, r) PROVE TypeOK'
  BY <1>2 DEF Refused, AcquireScript, Prune
<1>3. ASSUME NEW p \in Passes, Start(p) PROVE TypeOK'
  BY <1>3 DEF Start
<1>4. ASSUME NEW p \in Passes, LoseAnswer(p) PROVE TypeOK'
  BY <1>4 DEF LoseAnswer, Leave
<1>5. ASSUME NEW p \in Passes, Release(p) PROVE TypeOK'
  <2>1. left' \in [SlotKeys -> [Runs -> Absent..Ttl]]
    BY <1>5 DEF Release, ReleaseScript
  <2>2. held' \in [Workers -> SUBSET Runs] /\ renewIn' \in [Workers -> [Runs -> 0..Ttl]]
    BY <1>5 DEF Release, DropTimer
  <2> QED BY <2>1, <2>2, <1>5 DEF Release, Leave
<1>6. ASSUME NEW p \in Passes, LoseRelease(p) PROVE TypeOK'
  BY <1>6 DEF LoseRelease, Leave, DropTimer
<1>7. ASSUME NEW w \in Workers, Crash(w) PROVE TypeOK'
  BY <1>7 DEF Crash
<1>8. ASSUME NEW w \in Workers, NEW r \in Runs, Renew(w, r) PROVE TypeOK'
  <2>1. left' \in [SlotKeys -> [Runs -> Absent..Ttl]]
    BY <1>8 DEF Renew, RenewScript
  <2>2. renewIn' \in [Workers -> [Runs -> 0..Ttl]]
    BY <1>8 DEF Renew
  <2> QED BY <2>1, <2>2, <1>8 DEF Renew
<1>9. ASSUME NEW k \in SlotKeys, KeyExpires(k) PROVE TypeOK'
  BY <1>9 DEF KeyExpires
<1>10. CASE Flush
  BY <1>10 DEF Flush, Disturbs
<1>11. CASE Tick
  <2>1. left' \in [SlotKeys -> [Runs -> Absent..Ttl]]
    BY <1>11 DEF Tick, Lower
  <2>2. renewIn' \in [Workers -> [Runs -> 0..Ttl]]
    BY <1>11 DEF Tick
  <2>3. disturbed' \in BOOLEAN
    BY <1>11 DEF Tick, Disturbs
  <2> QED BY <2>1, <2>2, <2>3, <1>11 DEF Tick
<1>12. CASE UNCHANGED vars
  BY <1>12 DEF vars
<1> QED
  BY <1>1, <1>2, <1>3, <1>4, <1>5, <1>6, <1>7, <1>8, <1>9, <1>10, <1>11, <1>12
  DEF Next

----------------------------------------------------------------------------
(* The sorted sets.                                                         *)

\* What a step does to the sets: it lets run r in after pruning, if r is
\* granted, it renews run r or lets it out, or it takes leases away.
Enters(r) == Grants(r) /\ AcquireScript(r)
Shrinks == \A k \in SlotKeys, q \in Runs : left'[k][q] # Absent => left[k][q] # Absent

LEMMA SetWrites ==
    ASSUME TypeOK, [Next]_vars
    PROVE  Shrinks \/ \E r \in Runs : Enters(r)
<1> USE DEF TypeOK, Shrinks, Absent
<1>1. ASSUME NEW p \in Passes, NEW r \in Runs, Acquire(p, r)
      PROVE  \E q \in Runs : Enters(q)
  BY <1>1 DEF Acquire, Enters
<1>2. ASSUME NEW p \in Passes, NEW r \in Runs, Refused(p, r) PROVE Shrinks
  BY <1>2 DEF Refused, AcquireScript, Prune
<1>3. ASSUME NEW p \in Passes, Release(p) PROVE Shrinks
  BY <1>3 DEF Release, ReleaseScript
<1>4. ASSUME NEW w \in Workers, NEW r \in Runs, Renew(w, r) PROVE Shrinks
  BY <1>4 DEF Renew, RenewScript
<1>5. ASSUME NEW k \in SlotKeys, KeyExpires(k) PROVE Shrinks
  BY <1>5 DEF KeyExpires
<1>6. ASSUME Flush PROVE Shrinks
  BY <1>6 DEF Flush
<1>7. ASSUME Tick PROVE Shrinks
  BY <1>7 DEF Tick, Lower
<1>8. ASSUME UNCHANGED left PROVE Shrinks
  BY <1>8
<1> QED
  BY <1>1, <1>2, <1>3, <1>4, <1>5, <1>6, <1>7, <1>8
  DEF Next, vars, Start, LoseAnswer, LoseRelease, Crash

\* What the acquire script leaves in a set it lets r into: the live members,
\* and r.
LEMMA AcquiredSet ==
    ASSUME TypeOK, NEW r \in Runs, Enters(r), NEW k \in KeysOf(r)
    PROVE  Members(k)' = Live(k) \union {r}
<1>1. k \in SlotKeys /\ Pruned(r) = KeysOf(r)
  BY KeysAreKeys DEF Enters, Grants, Pruned
<1> QED
  BY <1>1 DEF Enters, AcquireScript, Prune, Members, Live, TypeOK, Absent

LEMMA LimitStep ==
    ASSUME TypeOK, LimitKept, [Next]_vars
    PROVE  LimitKept'
<1> SUFFICES ASSUME NEW k \in SlotKeys
             PROVE  Cardinality(Members(k)') <= LimitOf(k)
  BY DEF LimitKept, LimitOf
<1>1. /\ IsFiniteSet(Members(k)) /\ Cardinality(Members(k)) \in Nat
      /\ IsFiniteSet(Live(k)) /\ Cardinality(Live(k)) \in Nat
      /\ Live(k) \subseteq Members(k)
      /\ LimitOf(k) \in Nat
  BY FS_Subset, FS_CardinalityType, LimitIsNat DEF Members, Live, TypeOK, Absent
<1>2. Cardinality(Members(k)) <= LimitOf(k)
  BY DEF LimitKept
<1>3. ASSUME Members(k)' \subseteq Members(k)
      PROVE  Cardinality(Members(k)') <= LimitOf(k)
  BY <1>1, <1>2, <1>3, FS_Subset, FS_CardinalityType
<1>4. CASE Shrinks
  BY <1>3, <1>4 DEF Shrinks, Members
<1>5. ASSUME NEW r \in Runs, Enters(r), k \notin KeysOf(r)
      PROVE  Cardinality(Members(k)') <= LimitOf(k)
  BY <1>3, <1>5 DEF Enters, AcquireScript, Prune, Members
<1>6. ASSUME NEW r \in Runs, Enters(r), k \in KeysOf(r)
      PROVE  Cardinality(Members(k)') <= LimitOf(k)
  <2>1. Members(k)' = Live(k) \union {r}
    BY <1>6, AcquiredSet
  <2>2. CASE r \in Live(k)
    BY <2>1, <2>2, <1>1, <1>3
  <2>3. CASE r \notin Live(k)
    <3>1. Cardinality(Live(k)) < LimitOf(k)
      BY <1>1, <1>6, <2>3 DEF Enters, Grants, Full
    <3>2. Cardinality(Live(k) \union {r}) = Cardinality(Live(k)) + 1
      BY <1>1, <2>3, FS_AddElement
    <3> QED BY <3>1, <3>2, <2>1, <1>1
  <2> QED BY <2>2, <2>3
<1> QED BY <1>4, <1>5, <1>6, SetWrites

LEMMA NeededStep ==
    ASSUME TypeOK, SetsOfNeeded, [Next]_vars
    PROVE  SetsOfNeeded'
<1>1. CASE Shrinks
  BY <1>1 DEF Shrinks, SetsOfNeeded
<1>2. ASSUME NEW r \in Runs, Enters(r) PROVE SetsOfNeeded'
  BY <1>2 DEF Enters, AcquireScript, Prune, SetsOfNeeded
<1> QED BY <1>1, <1>2, SetWrites

LEMMA AgreeStep ==
    ASSUME TypeOK, SetsOfNeeded, LeasesAgree, [Next]_vars
    PROVE  LeasesAgree'
<1> USE KeysAreKeys DEF TypeOK, LeasesAgree, Absent
<1>1. ASSUME NEW r \in Runs, AcquireScript(r) PROVE LeasesAgree'
  BY <1>1 DEF AcquireScript, Prune
<1>2. ASSUME NEW p \in Passes, Release(p) PROVE LeasesAgree'
  <2>1. run[p] \in Runs
    BY <1>2 DEF Release
  <2>2. ASSUME NEW r \in Runs, ReleaseScript(r) PROVE LeasesAgree'
    BY <2>2 DEF ReleaseScript
  <2> QED BY <1>2, <2>1, <2>2 DEF Release
<1>3. ASSUME NEW w \in Workers, NEW r \in Runs, Renew(w, r) PROVE LeasesAgree'
  <2> DEFINE member == \A i \in KeysOf(r) : left[i][r] # Absent
  <2>1. CASE member
    <3>1. left' = [k \in SlotKeys |-> [q \in Runs |->
                      IF q = r /\ k \in KeysOf(r) THEN Ttl ELSE left[k][q]]]
      BY <1>3, <2>1 DEF Renew, RenewScript
    <3> QED BY <3>1
  <2>2. CASE ~member
    <3>1. left' = left
      BY <1>3, <2>2 DEF Renew, RenewScript
    <3> QED BY <3>1
  <2> QED BY <2>1, <2>2
<1>4. ASSUME NEW k \in SlotKeys, KeyExpires(k) PROVE LeasesAgree'
  BY <1>4 DEF KeyExpires, Live
<1>5. ASSUME Flush PROVE LeasesAgree'
  BY <1>5 DEF Flush
<1>6. ASSUME Tick PROVE LeasesAgree'
  BY <1>6 DEF Tick, Lower
<1>7. ASSUME UNCHANGED left PROVE LeasesAgree'
  BY <1>7
<1> QED
  BY <1>1, <1>2, <1>3, <1>4, <1>5, <1>6, <1>7
  DEF Next, vars, Start, LoseAnswer, LoseRelease, Crash, Acquire, Refused, Release

----------------------------------------------------------------------------
(* Timers and passes.                                                       *)

LEMMA TimersStep ==
    ASSUME TypeOK, TimersShort, [Next]_vars
    PROVE  TimersShort'
<1> USE IntervalFits DEF TypeOK, TimersShort
<1>1. ASSUME NEW p \in Passes, Start(p) PROVE TimersShort'
  BY <1>1, PassHasWorker DEF Start
<1>2. ASSUME NEW p \in Passes, DropTimer(p) PROVE TimersShort'
  BY <1>2, PassHasWorker DEF DropTimer
<1>3. ASSUME NEW w \in Workers, NEW r \in Runs, Renew(w, r) PROVE TimersShort'
  BY <1>3 DEF Renew
<1>4. ASSUME NEW w \in Workers, Crash(w) PROVE TimersShort'
  BY <1>4 DEF Crash
<1>5. ASSUME Tick PROVE TimersShort'
  BY <1>5 DEF Tick
<1>6. ASSUME UNCHANGED renewIn PROVE TimersShort'
  BY <1>6
<1> QED
  BY <1>1, <1>2, <1>3, <1>4, <1>5, <1>6
  DEF Next, vars, Acquire, Refused, LoseAnswer, Release, LoseRelease, KeyExpires, Flush

LEMMA HeartbeatStep ==
    ASSUME TypeOK, HeartbeatHasPass, [Next]_vars
    PROVE  HeartbeatHasPass'
<1> SUFFICES ASSUME NEW w \in Workers, NEW r \in held'[w]
             PROVE  \E p \in Passes : pc'[p] = "executing" /\ run'[p] = r /\ p[1] = w
  BY DEF HeartbeatHasPass, AtWork
<1> USE PassHasWorker DEF TypeOK
<1>1. ASSUME r \in held[w]
      PROVE  \E p \in Passes : pc[p] = "executing" /\ run[p] = r /\ p[1] = w
  BY <1>1 DEF HeartbeatHasPass, AtWork
<1>2. ASSUME NEW p \in Passes, NEW q \in Runs, Acquire(p, q)
      PROVE  \E i \in Passes : pc'[i] = "executing" /\ run'[i] = r /\ i[1] = w
  BY <1>1, <1>2 DEF Acquire
<1>3. ASSUME NEW p \in Passes, Start(p)
      PROVE  \E i \in Passes : pc'[i] = "executing" /\ run'[i] = r /\ i[1] = w
  BY <1>1, <1>3 DEF Start
<1>4. ASSUME NEW p \in Passes, LoseAnswer(p)
      PROVE  \E i \in Passes : pc'[i] = "executing" /\ run'[i] = r /\ i[1] = w
  BY <1>1, <1>4 DEF LoseAnswer, Leave
<1>5. ASSUME NEW p \in Passes, DropTimer(p), Leave(p)
      PROVE  \E i \in Passes : pc'[i] = "executing" /\ run'[i] = r /\ i[1] = w
  BY <1>1, <1>5 DEF DropTimer, Leave
<1>6. ASSUME NEW v \in Workers, Crash(v)
      PROVE  \E i \in Passes : pc'[i] = "executing" /\ run'[i] = r /\ i[1] = w
  BY <1>1, <1>6 DEF Crash
<1>7. ASSUME UNCHANGED <<held, pc, run>>
      PROVE  \E i \in Passes : pc'[i] = "executing" /\ run'[i] = r /\ i[1] = w
  BY <1>1, <1>7
<1> QED
  BY <1>2, <1>3, <1>4, <1>5, <1>6, <1>7
  DEF Next, vars, Refused, Release, LoseRelease, Renew, KeyExpires, Flush, Tick

----------------------------------------------------------------------------
(* Undisturbed.                                                             *)

\* A step that ends undisturbed began so.
LEMMA DisturbedStays ==
    ASSUME TypeOK, [Next]_vars, ~disturbed'
    PROVE  ~disturbed
BY DEF Next, vars, Acquire, Overlaps, Disturbs, Refused, Start, LoseAnswer, Release,
       LoseRelease, Crash, Renew, KeyExpires, Flush, Tick, TypeOK

LEMMA OnePassStep ==
    ASSUME TypeOK, OnePassEach, [Next]_vars, ~disturbed'
    PROVE  OnePassEach'
<1> USE DEF TypeOK, OnePassEach
<1>1. ASSUME NEW p \in Passes, NEW r \in Runs, Acquire(p, r) PROVE OnePassEach'
  <2>1. AtWork(r) = {}
    BY <1>1 DEF Acquire, Overlaps, Disturbs
  <2> QED BY <1>1, <2>1 DEF Acquire, AtWork
<1>2. ASSUME NEW p \in Passes, Start(p) PROVE OnePassEach'
  BY <1>2 DEF Start
<1>3. ASSUME NEW p \in Passes, Leave(p) PROVE OnePassEach'
  BY <1>3 DEF Leave
<1>4. ASSUME NEW w \in Workers, Crash(w) PROVE OnePassEach'
  BY <1>4 DEF Crash
<1>5. ASSUME UNCHANGED <<pc, run>> PROVE OnePassEach'
  BY <1>5
<1> QED
  BY <1>1, <1>2, <1>3, <1>4, <1>5
  DEF Next, vars, Refused, LoseAnswer, Release, LoseRelease, Renew, KeyExpires, Flush, Tick

LEMMA GrantedStep ==
    ASSUME TypeOK, Undisturbed, [Next]_vars, ~disturbed'
    PROVE  GrantedIsFresh'
<1> USE KeysAreKeys, PassHasWorker DEF TypeOK, GrantedIsFresh
<1>1. ASSUME NEW p \in Passes, NEW r \in Runs, Acquire(p, r) PROVE GrantedIsFresh'
  <2>1. AtWork(r) = {}
    BY <1>1 DEF Acquire, Overlaps, Disturbs
  <2> SUFFICES ASSUME NEW q \in Passes, pc'[q] = "granted", NEW k \in KeysOf(run'[q])
               PROVE  left'[k][run'[q]] = Ttl
    BY DEF GrantedIsFresh
  <2>2. CASE q = p
    BY <1>1, <2>2 DEF Acquire, AcquireScript
  <2>3. CASE q # p
    <3>1. pc[q] = "granted" /\ run'[q] = run[q] /\ run[q] \in Runs /\ run[q] # r
      BY <1>1, <2>1, <2>3 DEF Acquire, AtWork
    <3>2. left[k][run[q]] = Ttl /\ k \in SlotKeys
      BY <3>1 DEF Undisturbed
    <3> QED BY <1>1, <3>1, <3>2 DEF Acquire, AcquireScript, Prune
  <2> QED BY <2>2, <2>3
<1>2. ASSUME NEW p \in Passes, NEW r \in Runs, Refused(p, r) PROVE GrantedIsFresh'
  BY <1>2 DEF Refused, AcquireScript, Prune, Undisturbed
<1>3. ASSUME NEW p \in Passes, Start(p) PROVE GrantedIsFresh'
  BY <1>3 DEF Start, Undisturbed
<1>4. ASSUME NEW p \in Passes, LoseAnswer(p) PROVE GrantedIsFresh'
  BY <1>4 DEF LoseAnswer, Leave, Undisturbed
<1>5. ASSUME NEW p \in Passes, Release(p) PROVE GrantedIsFresh'
  <2> SUFFICES ASSUME NEW q \in Passes, pc'[q] = "granted", NEW k \in KeysOf(run'[q])
               PROVE  left'[k][run'[q]] = Ttl
    BY DEF GrantedIsFresh
  <2>1. q # p /\ pc[q] = "granted" /\ run'[q] = run[q] /\ run[q] \in Runs
    BY <1>5 DEF Release, Leave
  <2>2. run[q] # run[p]
    BY <1>5, <2>1 DEF Undisturbed, OnePassEach, Release
  <2>3. left[k][run[q]] = Ttl /\ k \in SlotKeys
    BY <2>1 DEF Undisturbed
  <2> QED BY <1>5, <2>1, <2>2, <2>3 DEF Release, ReleaseScript
<1>6. ASSUME NEW p \in Passes, LoseRelease(p) PROVE GrantedIsFresh'
  BY <1>6 DEF LoseRelease, Leave, Undisturbed
<1>7. ASSUME NEW w \in Workers, Crash(w) PROVE GrantedIsFresh'
  BY <1>7 DEF Crash, Undisturbed
<1>8. ASSUME NEW w \in Workers, NEW r \in Runs, Renew(w, r) PROVE GrantedIsFresh'
  <2>1. \A k \in SlotKeys, q \in Runs : left'[k][q] \in {Ttl, left[k][q]}
    BY <1>8 DEF Renew, RenewScript
  <2> QED BY <1>8, <2>1 DEF Renew, Undisturbed
<1>9. ASSUME NEW k \in SlotKeys, KeyExpires(k) PROVE GrantedIsFresh'
  BY <1>9 DEF KeyExpires, Live, Undisturbed
<1>10. ASSUME Tick PROVE GrantedIsFresh'
  BY <1>10 DEF Tick, Pending, Disturbs
<1>11. ASSUME UNCHANGED vars PROVE GrantedIsFresh'
  BY <1>11 DEF vars, Undisturbed
<1>12. ~Flush
  BY DEF Flush, Disturbs
<1> QED
  BY <1>1, <1>2, <1>3, <1>4, <1>5, <1>6, <1>7, <1>8, <1>9, <1>10, <1>11, <1>12
  DEF Next

\* A lease of an executing run is live.
LEMMA ExecutingRuns ==
    ASSUME TypeOK, Undisturbed
    PROVE  \A p \in Passes : pc[p] = "executing" =>
              /\ run[p] \in Runs /\ p[1] \in Workers /\ KeysOf(run[p]) \subseteq SlotKeys
              /\ \A k \in KeysOf(run[p]) : left[k][run[p]] > 0
<1> SUFFICES ASSUME NEW p \in Passes, pc[p] = "executing", NEW k \in KeysOf(run[p])
             PROVE  left[k][run[p]] > 0
  BY PassHasWorker, KeysAreKeys DEF TypeOK
<1>1. run[p] \in Runs /\ p[1] \in Workers /\ k \in SlotKeys
  BY PassHasWorker, KeysAreKeys DEF TypeOK
<1>2. left[k][run[p]] \in Int /\ renewIn[p[1]][run[p]] \in Nat
  BY <1>1 DEF TypeOK, Absent
<1> QED BY <1>2, IntervalFits DEF Undisturbed, ExecutingIsLive

LEMMA ExecutingStep ==
    ASSUME TypeOK, SetsOfNeeded, TimersShort, HeartbeatHasPass, Undisturbed,
           [Next]_vars, ~disturbed'
    PROVE  ExecutingIsLive'
<1> DEFINE Ahead(p, k) == left[k][run[p]] >= renewIn[p[1]][run[p]] + (Ttl - RenewInterval)
<1> SUFFICES ASSUME NEW p \in Passes, pc'[p] = "executing"
             PROVE  run'[p] \in held'[p[1]] /\ \A k \in KeysOf(run'[p]) : Ahead(p, k)'
  BY DEF ExecutingIsLive
<1>w. p[1] \in Workers
  BY PassHasWorker
<1>a. ASSUME pc[p] = "executing"
      PROVE  /\ run[p] \in Runs /\ run[p] \in held[p[1]]
             /\ KeysOf(run[p]) \subseteq SlotKeys
             /\ \A k \in KeysOf(run[p]) : Ahead(p, k) /\ left[k][run[p]] > 0
  BY <1>a, ExecutingRuns DEF Undisturbed, ExecutingIsLive
<1> USE <1>w DEF TypeOK
<1>1. ASSUME NEW q \in Passes, NEW r \in Runs, Acquire(q, r), NEW k \in KeysOf(run'[p])
      PROVE  run'[p] \in held'[p[1]] /\ Ahead(p, k)'
  <2>1. AtWork(r) = {} /\ p # q
    BY <1>1 DEF Acquire, Overlaps, Disturbs
  <2>2. pc[p] = "executing" /\ run'[p] = run[p] /\ run[p] # r
    BY <1>1, <2>1 DEF Acquire, AtWork
  <2>3. left'[k][run[p]] = left[k][run[p]]
    BY <1>1, <1>a, <2>2 DEF Acquire, AcquireScript, Prune
  <2> QED BY <1>1, <1>a, <2>2, <2>3 DEF Acquire
<1>2. ASSUME NEW q \in Passes, NEW r \in Runs, Refused(q, r), NEW k \in KeysOf(run'[p])
      PROVE  run'[p] \in held'[p[1]] /\ Ahead(p, k)'
  <2>1. pc[p] = "executing" /\ run'[p] = run[p]
    BY <1>2 DEF Refused
  <2>2. left'[k][run[p]] = left[k][run[p]]
    BY <1>2, <1>a, <2>1 DEF Refused, AcquireScript, Prune
  <2> QED BY <1>2, <1>a, <2>1, <2>2 DEF Refused
<1>3. ASSUME NEW q \in Passes, Start(q), NEW k \in KeysOf(run'[p])
      PROVE  run'[p] \in held'[p[1]] /\ Ahead(p, k)'
  <2>1. CASE q = p
    <3>1. pc[p] = "granted" /\ run'[p] = run[p] /\ run[p] \in Runs /\ left' = left
      BY <1>3, <2>1 DEF Start
    <3>2. left[k][run[p]] = Ttl
      BY <1>3, <3>1 DEF Undisturbed, GrantedIsFresh
    <3>3. run'[p] \in held'[p[1]] /\ renewIn'[p[1]][run[p]] = RenewInterval
      BY <1>3, <2>1, <3>1 DEF Start
    <3> QED BY <3>1, <3>2, <3>3, IntervalFits
  <2>2. CASE q # p
    <3>1. pc[p] = "executing" /\ run'[p] = run[p] /\ left' = left
      BY <1>3, <2>2 DEF Start
    <3>2. run[q] # run[p] /\ q[1] \in Workers
      BY <1>3, <2>2, <3>1, PassHasWorker DEF Start, Undisturbed, OnePassEach
    <3>3. renewIn'[p[1]][run[p]] = renewIn[p[1]][run[p]] /\ run[p] \in held'[p[1]]
      BY <1>3, <1>a, <3>1, <3>2 DEF Start
    <3> QED BY <1>a, <1>3, <3>1, <3>3
  <2> QED BY <2>1, <2>2
<1>4. ASSUME NEW q \in Passes, LoseAnswer(q), NEW k \in KeysOf(run'[p])
      PROVE  run'[p] \in held'[p[1]] /\ Ahead(p, k)'
  BY <1>4, <1>a DEF LoseAnswer, Leave
<1>5. ASSUME NEW q \in Passes, pc[q] = "executing", DropTimer(q), Leave(q),
             ReleaseScript(run[q]) \/ UNCHANGED left, NEW k \in KeysOf(run'[p])
      PROVE  run'[p] \in held'[p[1]] /\ Ahead(p, k)'
  <2>1. p # q /\ pc[p] = "executing" /\ run'[p] = run[p]
    BY <1>5 DEF Leave
  <2>2. run[q] # run[p] /\ q[1] \in Workers /\ run[q] \in Runs
    BY <1>5, <2>1, PassHasWorker DEF Undisturbed, OnePassEach
  <2>3. renewIn'[p[1]][run[p]] = renewIn[p[1]][run[p]] /\ run[p] \in held'[p[1]]
    BY <1>5, <1>a, <2>1, <2>2 DEF DropTimer
  <2>4. left'[k][run[p]] = left[k][run[p]]
    BY <1>5, <1>a, <2>1, <2>2 DEF ReleaseScript
  <2> QED BY <1>5, <1>a, <2>1, <2>3, <2>4
<1>6. ASSUME NEW w \in Workers, Crash(w), NEW k \in KeysOf(run'[p])
      PROVE  run'[p] \in held'[p[1]] /\ Ahead(p, k)'
  BY <1>6, <1>a DEF Crash
<1>7. ASSUME NEW w \in Workers, NEW r \in Runs, Renew(w, r), NEW k \in KeysOf(run'[p])
      PROVE  run'[p] \in held'[p[1]] /\ Ahead(p, k)'
  <2>1. pc[p] = "executing" /\ run'[p] = run[p] /\ held' = held
    BY <1>7 DEF Renew
  <2>2. CASE run[p] = r
    <3>1. \A i \in KeysOf(r) : left[i][r] # Absent
      BY <1>a, <2>1, <2>2 DEF Absent
    <3>2. left'[k][r] = Ttl
      BY <1>7, <1>a, <2>1, <2>2, <3>1 DEF Renew, RenewScript
    <3>3. renewIn'[p[1]][r] <= RenewInterval /\ renewIn'[p[1]][r] \in Nat
      BY <1>7, IntervalFits DEF Renew, TimersShort
    <3> QED BY <1>a, <2>1, <2>2, <3>2, <3>3, IntervalFits
  <2>3. CASE run[p] # r
    <3>1. left'[k][run[p]] = left[k][run[p]]
      BY <1>7, <1>a, <2>1, <2>3 DEF Renew, RenewScript
    <3>2. renewIn'[p[1]][run[p]] = renewIn[p[1]][run[p]]
      BY <1>7, <1>a, <2>1, <2>3 DEF Renew
    <3> QED BY <1>7, <1>a, <2>1, <3>1, <3>2
  <2> QED BY <2>2, <2>3
<1>8. ASSUME NEW i \in SlotKeys, KeyExpires(i), NEW k \in KeysOf(run'[p])
      PROVE  run'[p] \in held'[p[1]] /\ Ahead(p, k)'
  <2>1. pc[p] = "executing" /\ run'[p] = run[p] /\ held' = held /\ renewIn' = renewIn
    BY <1>8 DEF KeyExpires
  <2>2. i # k
    BY <1>8, <1>a, <2>1 DEF KeyExpires, Live
  <2>3. left'[k][run[p]] = left[k][run[p]]
    BY <1>8, <1>a, <2>1, <2>2 DEF KeyExpires
  <2> QED BY <1>8, <1>a, <2>1, <2>3
<1>9. ASSUME Tick, NEW k \in KeysOf(run'[p])
      PROVE  run'[p] \in held'[p[1]] /\ Ahead(p, k)'
  <2>1. pc[p] = "executing" /\ run'[p] = run[p] /\ held' = held
    BY <1>9 DEF Tick
  <2>2. ~Pending
    BY <1>9 DEF Tick, Disturbs
  <2>3. renewIn[p[1]][run[p]] > 0 /\ renewIn[p[1]][run[p]] \in Nat
    BY <1>a, <2>1, <2>2 DEF Pending
  <2>4. renewIn'[p[1]][run[p]] = renewIn[p[1]][run[p]] - 1
    BY <1>9, <1>a, <2>1, <2>3 DEF Tick
  <2>5. left[k][run[p]] > 0 /\ left[k][run[p]] \in Int /\ k \in SlotKeys
    BY <1>9, <1>a, <2>1 DEF Absent
  <2>6. left'[k][run[p]] = left[k][run[p]] - 1
    BY <1>9, <1>a, <2>1, <2>5 DEF Tick, Lower
  <2> QED BY <1>9, <1>a, <2>1, <2>3, <2>4, <2>5, <2>6, IntervalFits
<1>10. ASSUME UNCHANGED vars, NEW k \in KeysOf(run'[p])
       PROVE  run'[p] \in held'[p[1]] /\ Ahead(p, k)'
  BY <1>10, <1>a DEF vars
<1>11. ~Flush
  BY DEF Flush, Disturbs
<1>12. \A k \in KeysOf(run'[p]) : run'[p] \in held'[p[1]] /\ Ahead(p, k)'
  <2> HIDE DEF Ahead
  <2> QED BY <1>1, <1>2, <1>3, <1>4, <1>5, <1>6, <1>7, <1>8, <1>9, <1>10, <1>11
      DEF Next, Release, LoseRelease
<1>13. pc'[p] = "executing" => run'[p] \in held'[p[1]]
  <2>1. run'[p] \in Runs
    BY TypeStep
  <2>2. KeysOf(run'[p]) # {}
    BY <2>1
  <2> QED BY <1>12, <2>2
<1> QED BY <1>12, <1>13

----------------------------------------------------------------------------
(* Theorems.                                                                *)

LEMMA InitInv == Init => SlotsInv
<1> SUFFICES ASSUME Init PROVE SlotsInv
  OBVIOUS
<1>1. TypeOK
  <2>1. Absent \in Absent..Ttl /\ 0 \in 0..Ttl
    BY DEF Absent
  <2> QED BY <2>1 DEF Init, TypeOK
<1>2. LimitKept
  <2> SUFFICES ASSUME NEW k \in SlotKeys PROVE Cardinality(Members(k)) <= LimitOf(k)
    BY DEF LimitKept
  <2>1. Members(k) = {}
    BY DEF Init, Members
  <2> QED BY <2>1, FS_EmptySet, LimitIsNat
<1>3. SetsOfNeeded /\ TimersShort /\ HeartbeatHasPass /\ Undisturbed
  BY IntervalFits DEF Init, SetsOfNeeded, TimersShort, HeartbeatHasPass, Undisturbed,
     OnePassEach, GrantedIsFresh, ExecutingIsLive
<1>4. LeasesAgree
  BY KeysAreKeys DEF Init, LeasesAgree, Absent
<1> QED BY <1>1, <1>2, <1>3, <1>4 DEF SlotsInv

LEMMA StepInv == SlotsInv /\ [Next]_vars => SlotsInv'
<1> SUFFICES ASSUME SlotsInv, [Next]_vars PROVE SlotsInv'
  OBVIOUS
<1> USE DEF SlotsInv
<1>1. TypeOK' /\ SetsOfNeeded' /\ TimersShort' /\ LimitKept' /\ LeasesAgree'
      /\ HeartbeatHasPass'
  BY TypeStep, NeededStep, TimersStep, LimitStep, AgreeStep, HeartbeatStep
<1>2. ASSUME ~disturbed' PROVE Undisturbed'
  <2>1. Undisturbed
    BY <1>2, DisturbedStays
  <2> QED BY <1>2, <2>1, OnePassStep, GrantedStep, ExecutingStep DEF Undisturbed
<1> QED BY <1>1, <1>2

\* The inductive invariant holds of every reachable state.
THEOREM SlotsInductive == Spec => []SlotsInv
BY InitInv, StepInv, PTL DEF Spec

\* Every column keeps its type.
THEOREM SlotsTypeCorrect == Spec => []TypeOK
<1>1. SlotsInv => TypeOK
  BY DEF SlotsInv
<1> QED BY <1>1, SlotsInductive, PTL

\* Whatever overlaps, stalls and is lost, no sorted set passes its limit.
THEOREM LimitsHold == Spec => []LimitKept
<1>1. SlotsInv => LimitKept
  BY DEF SlotsInv
<1> QED BY <1>1, SlotsInductive, PTL

\* A run's leases in its two sets end together: it never holds half its slots.
THEOREM SlotsAreTakenTogether == Spec => []LeasesAgree
<1>1. SlotsInv => LeasesAgree
  BY DEF SlotsInv
<1> QED BY <1>1, SlotsInductive, PTL

\* A worker renews only for a pass it is executing.
THEOREM NoStrayHeartbeat == Spec => []HeartbeatHasPass
<1>1. SlotsInv => HeartbeatHasPass
  BY DEF SlotsInv
<1> QED BY <1>1, SlotsInductive, PTL

\* Undisturbed, an executing run is a member of its sets, so the limits bound
\* the runs that execute.
THEOREM ExecutionIsBounded == Spec => []WithinLimit
<1>1. ASSUME SlotsInv, ~disturbed PROVE NeverExceeded
  <2> SUFFICES ASSUME NEW k \in SlotKeys PROVE Cardinality(Executing(k)) <= LimitOf(k)
    BY DEF NeverExceeded
  <2>1. Executing(k) \subseteq Members(k)
    BY <1>1, ExecutingRuns DEF SlotsInv, Executing, AtWork, Members, Absent
  <2>2. IsFiniteSet(Members(k)) /\ IsFiniteSet(Executing(k))
    BY FS_Subset DEF Members, Executing
  <2>3. Cardinality(Executing(k)) <= Cardinality(Members(k))
    BY <2>1, <2>2, FS_Subset
  <2>4. Cardinality(Members(k)) <= LimitOf(k)
    BY <1>1 DEF SlotsInv, LimitKept
  <2> QED BY <2>2, <2>3, <2>4, FS_CardinalityType, LimitIsNat
<1>2. SlotsInv => WithinLimit
  BY <1>1 DEF WithinLimit
<1> QED BY <1>2, SlotsInductive, PTL
=============================================================================
