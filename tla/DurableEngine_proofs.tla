------------------------ MODULE DurableEngine_proofs ------------------------
(***************************************************************************)
(* Proofs about DurableEngine, for any workflow of stages, any slots, any   *)
(* faults and requests: it implements StepFencing, and its runs complete    *)
(* only with all steps, in the order of the stages.                         *)
(***************************************************************************)
EXTENDS DurableEngine, StepFencing_proofs, FiniteSetTheorems, WellFoundedInduction

USE CallersAssumption, StageAssumption

\* A call of a slot is a caller of StepFencing.
LEMMA CallIsCaller == \A s \in Slots, k \in Keys : <<s, k>> \in Callers
OBVIOUS

\* One step of a call of the handler, from its claim to its end, is one of the
\* caller's steps in StepFencing.
LEMMA CallStep ==
    ASSUME NEW s \in Slots, NEW k \in Keys,
           StepRun(s, k) \/ StepProgress(s, k) \/ StepDatabaseError(s, k)
    PROVE  Next
<1> DEFINE c == <<s, k>>
<1>0. c \in Callers
  OBVIOUS
<1> HIDE DEF c
<1>1. CASE StepRun(s, k)
  <2>1. ClaimSelect(c, k)
    BY <1>1 DEF StepRun, c
  <2> QED BY <1>0, <2>1 DEF Next
<1>2. CASE StepDatabaseError(s, k)
  <2>1. CallLost(c)
    BY <1>2 DEF StepDatabaseError, c
  <2> QED BY <1>0, <2>1 DEF Next
<1>3. CASE StepProgress(s, k)
  <2>1. ClaimDecides(c) \/ HandlerEnds(c)
    BY <1>3 DEF StepProgress, ClaimDecides, HandlerEnds, c
  <2> QED BY <1>0, <2>1 DEF Next
<1> QED BY <1>1, <1>2, <1>3

\* Every step of the engine is a step of StepFencing or leaves its variables.
LEMMA EngineStepIsStep == [EngineNext]_vars => [Next]_stepVars
<1> SUFFICES ASSUME [EngineNext]_vars PROVE [Next]_stepVars
  OBVIOUS
<1>1. ASSUME NEW s \in Slots, NEW k \in Keys,
             StepRun(s, k) \/ StepProgress(s, k) \/ StepDatabaseError(s, k)
      PROVE  Next
  BY <1>1, CallStep
<1>2. ASSUME NEW s \in Slots, SlotStep(s) PROVE [Next]_stepVars
  <2>1. CASE \E k \in Keys : StepRun(s, k) \/ StepProgress(s, k)
    BY <1>1, <2>1
  <2>2. CASE DispatchJob(s) \/ BlockRun(s) \/ BeginExecution(s) \/ StartRun(s)
    BY <2>2 DEF DispatchJob, BlockRun, BeginExecution, StartRun
  <2>3. CASE HandlerSettles(s) \/ CompleteRun(s) \/ FailRun(s) \/ SuspendRun(s)
    BY <2>3 DEF HandlerSettles, CompleteRun, FailRun, SuspendRun
  <2> QED BY <1>2, <2>1, <2>2, <2>3 DEF SlotStep
<1>3. ASSUME NEW s \in Slots, RestartWorker(s) PROVE [Next]_stepVars
  <2>1. CASE \E k \in Keys : CallLost(<<s, k>>)
    BY <2>1, CallIsCaller DEF Next
  <2> QED BY <1>3, <2>1 DEF RestartWorker
<1>4. CASE \E s \in Slots :
              \/ \E j \in JobIds : TakeJob(s, j)
              \/ RunDatabaseError(s)
              \/ CrashWorker(s)
  BY <1>4 DEF TakeJob, RunDatabaseError, CrashWorker
<1>5. CASE \/ \E j \in JobIds : StalledJob(j)
           \/ FlushRedis
           \/ ReconcilePendingRun
           \/ \E k \in Keys : ReconcileDueRetry(k)
  BY <1>5 DEF StalledJob, FlushRedis, ReconcilePendingRun, ReconcileDueRetry
<1>6. CASE \E k \in Keys, n \in Attempts : ReconcileExpiredLease(k, n)
  BY <1>6 DEF ReconcileExpiredLease, Next
<1>7. CASE \/ \E r \in Retriers : RetryReads(r) \/ RetryRun(r)
           \/ \E r \in Cancellers : CancelReads(r) \/ CancelRun(r)
  BY <1>7 DEF RetryReads, RetryRun, CancelReads, CancelRun
<1>8. CASE EngineTick
  BY <1>8 DEF EngineTick, Next
<1>9. CASE UNCHANGED vars
  BY <1>9 DEF vars
<1> HIDE DEF Next, stepVars, vars
<1> QED
  BY <1>1, <1>2, <1>3, <1>4, <1>5, <1>6, <1>7, <1>8, <1>9 DEF EngineNext

\* The engine drives the steps only through the transactions of StepFencing,
\* so every theorem about its specification holds of the engine.
THEOREM EngineImplementsStepFencing == EngineSpec => ImplementsStepFencing
<1>1. EngineInit => Init
  BY DEF EngineInit
<1> QED BY <1>1, EngineStepIsStep, PTL DEF EngineSpec, ImplementsStepFencing, Spec

----------------------------------------------------------------------------
(* What a step of StepFencing does to the rows the engine relies on.        *)

\* A COMPLETED step stays COMPLETED.
LEMMA CompletedKept ==
    ASSUME IInv, [Next]_stepVars
    PROVE  \A k \in Keys : status[k] = "COMPLETED" => status'[k] = "COMPLETED"
<1>1. CASE UNCHANGED stepVars
  BY <1>1 DEF stepVars, rows
<1>2. CASE Next
  BY <1>2, RowWrites
<1> QED BY <1>1, <1>2

\* The row of a step is inserted by a claim for it and by nothing else.
LEMMA FirstRow ==
    ASSUME IInv, [Next]_stepVars,
           NEW k \in Keys, status[k] = "NoRow", status'[k] # "NoRow"
    PROVE  \E c \in Callers : key[c] = k /\ pc[c] = "selecting"
<1>0. TypeOK
  BY DEF IInv
<1>1. ASSUME NEW c \in Callers, ClaimStartsAttempt(c)
      PROVE  key[c] = k /\ pc[c] = "selecting"
  BY <1>0, <1>1 DEF ClaimStartsAttempt, TypeOK
<1>2. ASSUME NEW c \in Callers, pc[c] = "handler", Fenced(c), NEW st,
             status' = [status EXCEPT ![key[c]] = st]
      PROVE  FALSE
  <2>1. status[key[c]] = "RUNNING"
    BY <1>2, FenceMeansRunning
  <2> QED BY <1>0, <1>2, <2>1 DEF TypeOK
<1>3. ASSUME NEW i \in Keys, NEW n \in Attempts, Abandon(i, n) PROVE FALSE
  <2>1. activeAttempt[i] = n /\ i = k
    BY <1>0, <1>3 DEF Abandon, ReleaseStep, TypeOK
  <2>2. status[i] = "RUNNING"
    BY <1>3, <2>1, AttemptsPositive DEF Abandon, LeaseExpired, IInv, FenceHolds
  <2> QED BY <2>1, <2>2
<1>4. status' # status
  OBVIOUS
<1>5. ~ Tick /\ ~ UNCHANGED stepVars
  BY <1>4 DEF Tick, stepVars, rows
<1>6. ASSUME NEW c \in Callers, HandlerEnds(c) PROVE FALSE
  BY <1>2, <1>4, <1>6 DEF HandlerEnds, CompleteStep, FailTerminally, FailAndRetry,
     FailFenced, RejectStale, rows
<1>7. ASSUME NEW c \in Callers,
             (\E i \in Keys : ClaimSelect(c, i)) \/ RenewLease(c) \/ CallLost(c)
      PROVE  FALSE
  BY <1>4, <1>7 DEF ClaimSelect, RenewLease, CallLost, rows
<1>8. ASSUME NEW c \in Callers, ClaimDecides(c) PROVE ClaimStartsAttempt(c)
  BY <1>4, <1>8 DEF ClaimDecides, ClaimMemoized, ClaimSuspends, ClaimCollides, rows
<1> HIDE DEF stepVars
<1> QED BY <1>1, <1>3, <1>5, <1>6, <1>7, <1>8 DEF Next

----------------------------------------------------------------------------
(* Passes.                                                                  *)

\* A step that leaves a slot and its calls alone keeps what holds of its pass.
LEMMA OtherPass ==
    ASSUME NEW t \in Slots, PassOK(t),
           \A k \in Keys : status[k] = "COMPLETED" => status'[k] = "COMPLETED",
           called \in [Slots -> SUBSET Keys], returned \in [Slots -> SUBSET Keys],
           slot'[t] = slot[t], called'[t] = called[t],
           returned'[t] = returned[t], rejection'[t] = rejection[t],
           \A k \in Keys : pc'[<<t, k>>] = pc[<<t, k>>] /\ key'[<<t, k>>] = key[<<t, k>>]
    PROVE  PassOK(t)'
BY DEF PassOK, Before

\* A slot that is given up, with no call under way, starts its next pass afresh.
LEMMA FreedPass ==
    ASSUME NEW s \in Slots, PassOK(s), EngineTypeOK, SlotFreed(s), UNCHANGED stepVars,
           \A k \in Keys : pc[<<s, k>>] = "idle"
    PROVE  PassOK(s)'
BY DEF PassOK, Before, SlotFreed, EngineTypeOK, stepVars, callers, rows

\* A step that neither touches the slots nor moves a call keeps every pass.
LEMMA SlotsUntouched ==
    ASSUME EngineTypeOK, \A s \in Slots : PassOK(s),
           \A k \in Keys : status[k] = "COMPLETED" => status'[k] = "COMPLETED",
           UNCHANGED <<slotVars, pc, key>>
    PROVE  \A s \in Slots : PassOK(s)'
<1> SUFFICES ASSUME NEW s \in Slots PROVE PassOK(s)'
  OBVIOUS
<1>1. called \in [Slots -> SUBSET Keys] /\ returned \in [Slots -> SUBSET Keys]
  BY DEF EngineTypeOK
<1>2. UNCHANGED <<slot, called, returned, rejection, pc, key>>
  BY DEF slotVars, passVars
<1> QED BY <1>1, <1>2, OtherPass

\* The statements of a slot between two calls: no row, no call of a step.
LEMMA SlotMoves ==
    ASSUME NEW s \in Slots, PassOK(s), EngineTypeOK, UNCHANGED stepVars,
           NEW where \in SlotState, Goto(s, where),
           \/ where = "handler" /\ slot[s] \in {"begin", "start"}
           \/ where \in {"begin", "block", "start"} /\ slot[s] \in {"dispatch", "begin"}
           \/ where = "crashed"
           \/ /\ where \in {"suspend", "fail"}
              /\ \A k \in Keys : pc[<<s, k>>] = "idle"
           \/ /\ where = "complete" /\ returned[s] = Keys
              /\ \A k \in Keys : pc[<<s, k>>] = "idle"
    PROVE  PassOK(s)'
<1>1. /\ slot'[s] = where
      /\ UNCHANGED <<called, returned, rejection, pc, key, status>>
  BY DEF Goto, EngineTypeOK, passVars, stepVars, callers, rows
<1>2. called[s] \subseteq Keys /\ returned[s] \subseteq Keys
  BY DEF EngineTypeOK
<1> QED BY <1>1, <1>2 DEF PassOK, Before

\* Calling step.run keeps what holds of the pass.
LEMMA RunKeepsPass ==
    ASSUME NEW s \in Slots, NEW k \in Keys, PassOK(s), EngineTypeOK, StepRun(s, k)
    PROVE  PassOK(s)'
<1>1. /\ pc' = [pc EXCEPT ![<<s, k>>] = "selecting"]
      /\ key' = [key EXCEPT ![<<s, k>>] = k]
      /\ called' = [called EXCEPT ![s] = @ \union {k}]
      /\ UNCHANGED <<slot, returned, rejection, status>>
      /\ slot[s] = "handler" /\ Before(k) \subseteq returned[s]
  BY DEF StepRun, ClaimSelect, Ready, rows
<1>2. /\ pc \in [Callers -> CallerState] /\ key \in [Callers -> Keys]
      /\ called \in [Slots -> SUBSET Keys] /\ returned \in [Slots -> SUBSET Keys]
  BY DEF EngineTypeOK, TypeOK
<1>3. /\ called'[s] = called[s] \union {k} /\ key'[<<s, k>>] = k
      /\ pc'[<<s, k>>] = "selecting"
      /\ \A i \in Keys \ {k} : pc'[<<s, i>>] = pc[<<s, i>>] /\ key'[<<s, i>>] = key[<<s, i>>]
  BY <1>1, <1>2
<1> QED BY <1>1, <1>2, <1>3 DEF PassOK, Before

\* What a call's end, or its claim, does to the callers: only its own moves.
LEMMA CallMoves ==
    ASSUME NEW s \in Slots, NEW k \in Keys, EngineTypeOK, NEW how,
           pc' = [pc EXCEPT ![<<s, k>>] = how], UNCHANGED key
    PROVE  /\ pc'[<<s, k>>] = how
           /\ \A t \in Slots, i \in Keys : <<t, i>> # <<s, k>> =>
                 pc'[<<t, i>>] = pc[<<t, i>>] /\ key'[<<t, i>>] = key[<<t, i>>]
           /\ \A i \in Keys : key'[<<s, i>>] = key[<<s, i>>]
BY DEF EngineTypeOK, TypeOK

\* A rejection of a call in the handler is remembered by the pass.
LEMMA RejectsRemembers ==
    ASSUME NEW s \in Slots, EngineTypeOK, NEW why \in Rejection \ {"none"},
           Rejects(s, why)
    PROVE  /\ rejection'[s] # "none"
           /\ \A t \in Slots \ {s} : rejection'[t] = rejection[t]
           /\ UNCHANGED <<slot, slotJob, called, returned>>
           /\ rejection' \in [Slots -> Rejection]
BY DEF Rejects, EngineTypeOK, Rejection

\* A call that starts, ends or is rejected keeps what holds of its pass, when
\* its result, if it returns one, is committed.
LEMMA CallKeepsPass ==
    ASSUME NEW s \in Slots, NEW k \in Keys, PassOK(s), EngineTypeOK,
           \A i \in Keys : status[i] = "COMPLETED" => status'[i] = "COMPLETED",
           pc[<<s, k>>] # "idle", NEW how,
           pc' = [pc EXCEPT ![<<s, k>>] = how], UNCHANGED <<key, slot, called>>,
           \/ how = "handler" /\ UNCHANGED <<returned, rejection>>
           \/ /\ status'[k] = "COMPLETED"
              /\ returned' = [returned EXCEPT ![s] = @ \union {k}]
              /\ UNCHANGED rejection
           \/ how = "idle" /\ UNCHANGED returned /\ rejection'[s] # "none"
           \/ how = "idle" /\ UNCHANGED <<returned, rejection>> /\ slot[s] = "crashed"
    PROVE  PassOK(s)'
<1>1. /\ pc'[<<s, k>>] = how
      /\ \A i \in Keys \ {k} : pc'[<<s, i>>] = pc[<<s, i>>]
      /\ \A i \in Keys : key'[<<s, i>>] = key[<<s, i>>]
  BY DEF EngineTypeOK, TypeOK
<1>2. k \in called[s] /\ slot[s] \in {"handler", "crashed"}
  BY DEF PassOK
<1>3. /\ returned \in [Slots -> SUBSET Keys] /\ called \in [Slots -> SUBSET Keys]
      /\ returned[s] \subseteq returned'[s]
      /\ returned'[s] \subseteq returned[s] \union {k}
      /\ returned'[s] # returned[s] => status'[k] = "COMPLETED"
  BY DEF EngineTypeOK
<1>4. called[s] \subseteq Keys /\ returned[s] \subseteq Keys
  BY <1>3
<1>5. \A i \in called'[s] : Before(i)' \subseteq returned'[s]
  BY <1>3 DEF PassOK, Before
<1>6. \A i \in returned'[s] : status'[i] = "COMPLETED"
  BY <1>3, <1>4 DEF PassOK
<1>7. \A i \in Keys : pc'[<<s, i>>] # "idle" =>
          i \in called'[s] /\ slot'[s] \in {"handler", "crashed"}
  BY <1>1, <1>2 DEF PassOK
<1>8. slot'[s] = "handler" /\ rejection'[s] = "none" =>
          \A i \in called'[s] : i \in returned'[s] \/ pc'[<<s, i>>] # "idle"
  <2> SUFFICES ASSUME slot'[s] = "handler", rejection'[s] = "none",
                      NEW i \in called'[s]
               PROVE  i \in returned'[s] \/ pc'[<<s, i>>] # "idle"
    OBVIOUS
  <2>1. rejection[s] = "none" /\ (how = "handler" \/ k \in returned'[s])
    BY <1>3
  <2>2. i \in returned[s] \/ pc[<<s, i>>] # "idle"
    BY <2>1 DEF PassOK
  <2> QED BY <1>1, <1>3, <1>4, <2>1, <2>2
<1> QED BY <1>1, <1>2, <1>5, <1>6, <1>7, <1>8 DEF PassOK

\* What an executeStep call's progress does, in the terms of CallKeepsPass.
LEMMA ProgressKeepsPass ==
    ASSUME NEW s \in Slots, NEW k \in Keys, PassOK(s), EngineTypeOK, TypeOK',
           \A i \in Keys : status[i] = "COMPLETED" => status'[i] = "COMPLETED",
           StepProgress(s, k)
    PROVE  PassOK(s)'
<1> DEFINE c == <<s, k>>
<1>1. key[c] = k /\ c \in Callers
  BY DEF PassOK
<1> HIDE DEF c
<1>2. CASE ClaimStartsAttempt(c) /\ UNCHANGED slotVars
  <2>1. /\ pc' = [pc EXCEPT ![c] = "handler"] /\ pc[c] # "idle"
        /\ UNCHANGED <<key, slot, called, returned, rejection>>
    BY <1>2 DEF ClaimStartsAttempt, slotVars, passVars
  <2> QED BY <2>1, CallKeepsPass DEF c
<1>3. CASE /\ ClaimMemoized(c) \/ CompleteStep(c)
           /\ returned' = [returned EXCEPT ![s] = @ \union {k}]
           /\ UNCHANGED <<slot, slotJob, called, rejection>>
  <2>1. pc[c] # "idle" /\ CallEnds(c) /\ status'[k] = "COMPLETED"
    BY <1>1, <1>3 DEF ClaimMemoized, CompleteStep, SeesCompleted, RowSeen, rows,
       EngineTypeOK, TypeOK
  <2>2. pc' = [pc EXCEPT ![c] = "idle"] /\ UNCHANGED key
    BY <2>1 DEF CallEnds
  <2> QED BY <1>3, <2>1, <2>2, CallKeepsPass DEF c
<1>4. ASSUME NEW why \in Rejection \ {"none"}, Rejects(s, why),
             pc[c] # "idle", CallEnds(c)
      PROVE  PassOK(s)'
  <2>1. pc' = [pc EXCEPT ![c] = "idle"] /\ UNCHANGED key
    BY <1>4 DEF CallEnds
  <2>2. rejection'[s] # "none" /\ UNCHANGED <<slot, called, returned>>
    BY <1>4, RejectsRemembers
  <2> QED BY <1>4, <2>1, <2>2, CallKeepsPass DEF c
<1>5. ASSUME \/ ClaimSuspends(c) \/ ClaimCollides(c) \/ RejectStale(c)
             \/ \E how \in {"FAILED", "TIMED_OUT"} :
                   FailTerminally(c, how) \/ FailAndRetry(c, how)
      PROVE  pc[c] # "idle" /\ CallEnds(c)
  BY <1>5 DEF ClaimSuspends, ClaimCollides, RejectStale, FailTerminally,
     FailAndRetry, FailFenced
<1>6. {"suspended", "stale", "error"} \subseteq Rejection \ {"none"}
  BY DEF Rejection
<1> QED BY <1>2, <1>3, <1>4, <1>5, <1>6 DEF StepProgress, c

\* Some key of a non-empty set of keys has no key of the set before it.
LEMMA FirstStage ==
    ASSUME NEW K \in SUBSET Keys, K # {}
    PROVE  \E k \in K : Before(k) \cap K = {}
<1> DEFINE T == {Stage[k] : k \in K}
           R == OpToRel(<, Nat)
<1>1. T \subseteq Nat /\ T # {}
  OBVIOUS
<1>2. \A m, n \in Nat : <<m, n>> \in R <=> m < n
  BY DEF OpToRel
<1>3. IsWellFoundedOn(R, Nat)
  BY NatLessThanWellFounded
<1>4. PICK n \in T : \A m \in T : ~ (<<m, n>> \in R)
  <2> HIDE DEF T, R
  <2> QED BY <1>1, <1>3, WFMin
<1>5. PICK k \in K : n = Stage[k]
  BY <1>4
<1>6. \A i \in K : ~ (Stage[i] < Stage[k])
  <2> HIDE DEF R
  <2> QED BY <1>1, <1>2, <1>4, <1>5
<1> QED BY <1>6 DEF Before

\* A handler that has nothing left to call, in a pass without a rejection or a
\* call under way, has been given the result of every step.
LEMMA AllReturned ==
    ASSUME NEW s \in Slots, PassOK(s), EngineTypeOK, slot[s] = "handler",
           rejection[s] = "none", Settles(s)
    PROVE  returned[s] = Keys
<1>1. called[s] \subseteq returned[s] /\ returned[s] \subseteq Keys
  BY DEF PassOK, Settles, EngineTypeOK
<1>2. ASSUME called[s] # Keys PROVE FALSE
  <2>1. PICK k \in Keys \ called[s] : Before(k) \cap (Keys \ called[s]) = {}
    <3>1. Keys \ called[s] \in SUBSET Keys /\ Keys \ called[s] # {}
      BY <1>1, <1>2
    <3> QED BY <3>1, FirstStage
  <2>2. Before(k) \subseteq returned[s]
    BY <1>1, <2>1 DEF Before
  <2> QED BY <2>1, <2>2 DEF Settles, Ready
<1> QED BY <1>1, <1>2

\* A step of one slot touches no other slot's pass.
LEMMA OthersUntouched ==
    ASSUME EngineTypeOK, NEW s \in Slots, NEW t \in Slots \ {s}, PassOK(t),
           \A k \in Keys : status[k] = "COMPLETED" => status'[k] = "COMPLETED",
           slot'[t] = slot[t], called'[t] = called[t],
           returned'[t] = returned[t], rejection'[t] = rejection[t],
           \/ UNCHANGED <<pc, key>>
           \/ \E k \in Keys, how \in CallerState, i \in Keys :
                 /\ pc' = [pc EXCEPT ![<<s, k>>] = how]
                 /\ UNCHANGED key \/ key' = [key EXCEPT ![<<s, k>>] = i]
    PROVE  PassOK(t)'
<1>1. called \in [Slots -> SUBSET Keys] /\ returned \in [Slots -> SUBSET Keys]
  BY DEF EngineTypeOK
<1>2. \A k \in Keys : pc'[<<t, k>>] = pc[<<t, k>>] /\ key'[<<t, k>>] = key[<<t, k>>]
  BY DEF EngineTypeOK, TypeOK
<1> QED BY <1>1, <1>2, OtherPass

\* Where a slot goes between two calls of its handler.
LEMMA SlotLeaves ==
    ASSUME EngineTypeOK, \A t \in Slots : PassOK(t), NEW s \in Slots,
           UNCHANGED stepVars,
           \/ SlotFreed(s) /\ \A k \in Keys : pc[<<s, k>>] = "idle"
           \/ \E where \in SlotState :
                 /\ Goto(s, where)
                 /\ \/ where = "handler" /\ slot[s] \in {"begin", "start"}
                    \/ where \in {"begin", "block", "start"} /\ slot[s] \in {"dispatch", "begin"}
                    \/ where = "crashed"
                    \/ /\ where \in {"suspend", "fail"}
                       /\ \A k \in Keys : pc[<<s, k>>] = "idle"
                    \/ /\ where = "complete" /\ returned[s] = Keys
                       /\ \A k \in Keys : pc[<<s, k>>] = "idle"
    PROVE  \A t \in Slots : PassOK(t)'
<1>1. PassOK(s)'
  BY FreedPass, SlotMoves
<1>2. ASSUME NEW t \in Slots \ {s} PROVE PassOK(t)'
  <2>1. /\ slot'[t] = slot[t] /\ called'[t] = called[t]
        /\ returned'[t] = returned[t] /\ rejection'[t] = rejection[t]
    BY DEF SlotFreed, Goto, passVars, EngineTypeOK
  <2>2. UNCHANGED <<pc, key, status>>
    BY DEF stepVars, callers, rows
  <2> QED BY <2>1, <2>2, OthersUntouched
<1> QED BY <1>1, <1>2

\* One step of a slot keeps what holds of every slot's pass.
LEMMA SlotStepKeepsPasses ==
    ASSUME EngineTypeOK, TypeOK', \A t \in Slots : PassOK(t), NEW s \in Slots,
           \A k \in Keys : status[k] = "COMPLETED" => status'[k] = "COMPLETED",
           SlotStep(s)
    PROVE  \A t \in Slots : PassOK(t)'
<1>1. PassOK(s)
  OBVIOUS
<1>2. slot[s] \notin {"handler", "crashed"} => \A k \in Keys : pc[<<s, k>>] = "idle"
  BY <1>1 DEF PassOK
<1>3. CASE DispatchJob(s)
  BY <1>2, <1>3, SlotLeaves DEF DispatchJob, JobEnds, SlotState
<1>4. CASE BlockRun(s) \/ CompleteRun(s) \/ FailRun(s) \/ SuspendRun(s)
  BY <1>2, <1>4, SlotLeaves DEF BlockRun, CompleteRun, FailRun, SuspendRun, JobEnds
<1>5. CASE BeginExecution(s) \/ StartRun(s)
  BY <1>2, <1>5, SlotLeaves DEF BeginExecution, StartRun, JobEnds, SlotState
<1>6. CASE HandlerSettles(s)
  <2>1. \A k \in Keys : pc[<<s, k>>] = "idle"
    BY <1>6 DEF HandlerSettles, Settles
  <2>2. rejection[s] = "none" => returned[s] = Keys
    BY <1>1, <1>6, AllReturned DEF HandlerSettles
  <2> QED BY <1>6, <2>1, <2>2, SlotLeaves DEF HandlerSettles, JobEnds, SlotState
<1>7. ASSUME NEW k \in Keys, StepRun(s, k) PROVE \A t \in Slots : PassOK(t)'
  <2>1. /\ pc' = [pc EXCEPT ![<<s, k>>] = "selecting"]
        /\ key' = [key EXCEPT ![<<s, k>>] = k]
        /\ \A t \in Slots \ {s} : called'[t] = called[t]
        /\ UNCHANGED <<slot, returned, rejection>>
    BY <1>7 DEF StepRun, ClaimSelect, EngineTypeOK
  <2>2. \A t \in Slots \ {s} : PassOK(t)'
    BY <2>1, OthersUntouched DEF CallerState
  <2> QED BY <1>1, <1>7, <2>2, RunKeepsPass
<1>8. ASSUME NEW k \in Keys, StepProgress(s, k) PROVE \A t \in Slots : PassOK(t)'
  <2>1. /\ UNCHANGED <<key, slot, called>>
        /\ \E how \in CallerState : pc' = [pc EXCEPT ![<<s, k>>] = how]
    BY <1>8 DEF StepProgress, ClaimStartsAttempt, ClaimMemoized, CompleteStep,
       ClaimSuspends, ClaimCollides, RejectStale, FailTerminally, FailAndRetry,
       FailFenced, CallEnds, Rejects, CallerState, slotVars, passVars
  <2>2. \A t \in Slots \ {s} : returned'[t] = returned[t] /\ rejection'[t] = rejection[t]
    BY <1>8 DEF StepProgress, Rejects, EngineTypeOK, slotVars, passVars
  <2>3. \A t \in Slots \ {s} : PassOK(t)'
    BY <2>1, <2>2, OthersUntouched
  <2> QED BY <1>1, <1>8, <2>3, ProgressKeepsPass
<1> QED BY <1>3, <1>4, <1>5, <1>6, <1>7, <1>8 DEF SlotStep

\* Every step of the engine keeps what holds of every slot's pass.
LEMMA PassesKept ==
    ASSUME EngineTypeOK, IInv, \A s \in Slots : PassOK(s), [EngineNext]_vars
    PROVE  \A s \in Slots : PassOK(s)'
<1>1. [Next]_stepVars
  BY EngineStepIsStep
<1>2. /\ TypeOK'
      /\ \A k \in Keys : status[k] = "COMPLETED" => status'[k] = "COMPLETED"
  BY <1>1, CompletedKept, StepTypeOK DEF IInv
<1>3. ASSUME UNCHANGED <<slotVars, pc, key>> PROVE \A s \in Slots : PassOK(s)'
  BY <1>2, <1>3, SlotsUntouched
<1>4. ASSUME NEW s \in Slots, NEW j \in JobIds, TakeJob(s, j)
      PROVE  \A t \in Slots : PassOK(t)'
  <2>1. /\ slot' = [slot EXCEPT ![s] = "dispatch"] /\ slot[s] = "idle"
        /\ UNCHANGED <<called, returned, rejection, pc, key, status>>
    BY <1>4 DEF TakeJob, passVars, stepVars, callers, rows
  <2>2. PassOK(s)'
    BY <2>1 DEF PassOK, Before, EngineTypeOK
  <2>3. \A t \in Slots \ {s} : PassOK(t)'
    BY <1>2, <2>1, OthersUntouched DEF EngineTypeOK
  <2> QED BY <2>2, <2>3
<1>5. ASSUME NEW s \in Slots, SlotStep(s) PROVE \A t \in Slots : PassOK(t)'
  BY <1>2, <1>5, SlotStepKeepsPasses
<1>6. ASSUME NEW s \in Slots, NEW k \in Keys, CallLost(<<s, k>>),
             slot[s] \in {"handler", "crashed"},
             \/ Rejects(s, "error")
             \/ slot[s] = "crashed" /\ UNCHANGED slotVars
      PROVE  \A t \in Slots : PassOK(t)'
  <2>1. /\ pc[<<s, k>>] # "idle"
        /\ pc' = [pc EXCEPT ![<<s, k>>] = "idle"] /\ UNCHANGED key
    BY <1>6 DEF CallLost, CallEnds
  <2>2. /\ UNCHANGED <<slot, called, returned>>
        /\ \A t \in Slots \ {s} : rejection'[t] = rejection[t]
        /\ \/ rejection'[s] # "none"
           \/ slot[s] = "crashed" /\ UNCHANGED rejection
    BY <1>6, RejectsRemembers DEF slotVars, passVars, Rejection
  <2>3. PassOK(s)'
    BY <1>2, <2>1, <2>2, CallKeepsPass
  <2>4. \A t \in Slots \ {s} : PassOK(t)'
    BY <1>2, <2>1, <2>2, OthersUntouched DEF CallerState
  <2> QED BY <2>3, <2>4
<1>7. ASSUME NEW s \in Slots, RestartWorker(s) PROVE \A t \in Slots : PassOK(t)'
  <2>1. CASE \E k \in Keys : CallLost(<<s, k>>) /\ UNCHANGED slotVars
    BY <1>6, <1>7, <2>1 DEF RestartWorker
  <2>2. CASE /\ \A k \in Keys : pc[<<s, k>>] = "idle"
             /\ SlotFreed(s) /\ UNCHANGED stepVars
    BY <2>2, SlotLeaves
  <2> QED BY <1>7, <2>1, <2>2 DEF RestartWorker
<1>8. ASSUME NEW s \in Slots, NEW k \in Keys, StepDatabaseError(s, k)
      PROVE  \A t \in Slots : PassOK(t)'
  BY <1>6, <1>8 DEF StepDatabaseError
<1>9. ASSUME NEW s \in Slots, CrashWorker(s) PROVE \A t \in Slots : PassOK(t)'
  BY <1>9, SlotLeaves DEF CrashWorker, Goto, SlotState
<1>10. ASSUME NEW s \in Slots, RunDatabaseError(s) PROVE \A t \in Slots : PassOK(t)'
  <2>1. \A k \in Keys : pc[<<s, k>>] = "idle"
    BY <1>10 DEF RunDatabaseError, PassOK
  <2> QED BY <1>10, <2>1, SlotLeaves DEF RunDatabaseError, JobEnds, SlotState
<1>11. CASE \/ \E j \in JobIds : StalledJob(j)
            \/ FlushRedis
            \/ ReconcilePendingRun
            \/ \E k \in Keys : ReconcileDueRetry(k)
  <2>1. UNCHANGED stepVars /\ UNCHANGED slotVars
    BY <1>11 DEF StalledJob, FlushRedis, ReconcilePendingRun, ReconcileDueRetry
  <2> QED BY <1>3, <2>1 DEF stepVars, callers
<1>12. CASE \E k \in Keys, n \in Attempts : ReconcileExpiredLease(k, n)
  <2>1. UNCHANGED callers /\ UNCHANGED slotVars
    BY <1>12 DEF ReconcileExpiredLease, Abandon, stepVars
  <2> QED BY <1>3, <2>1 DEF callers
<1>13. CASE \/ \E r \in Retriers : RetryReads(r) \/ RetryRun(r)
            \/ \E r \in Cancellers : CancelReads(r) \/ CancelRun(r)
  <2>1. UNCHANGED stepVars /\ UNCHANGED slotVars
    BY <1>13 DEF RetryReads, RetryRun, CancelReads, CancelRun
  <2> QED BY <1>3, <2>1 DEF stepVars, callers
<1>14. CASE EngineTick
  BY <1>3, <1>14 DEF EngineTick, Tick
<1>15. CASE UNCHANGED vars
  BY <1>3, <1>15 DEF vars, stepVars, callers, engineVars
<1> HIDE DEF vars
<1> QED
  BY <1>4, <1>5, <1>7, <1>8, <1>9, <1>10, <1>11, <1>12, <1>13, <1>14, <1>15
  DEF EngineNext

----------------------------------------------------------------------------
(* Types, and the count of replays that bounds workflow_attempt.            *)

\* There are finitely many retry requests that are done, at most all.
LEMMA DoneRetriesBounded ==
    /\ IsFiniteSet(DoneRetries) /\ Cardinality(DoneRetries) \in Nat
    /\ Cardinality(Retriers) \in Nat
    /\ Cardinality(DoneRetries) <= Cardinality(Retriers)
<1>1. DoneRetries \subseteq Retriers
  BY DEF DoneRetries
<1> QED BY <1>1, RetriersAssumption, FS_Subset, FS_CardinalityType

\* Requests move on: one that is done stays done, and a retry that updates the
\* run counts for one more.
LEMMA ReplaysCountedStep ==
    ASSUME EngineTypeOK, ReplaysCounted,
           \/ UNCHANGED <<request, workflowAttempt>>
           \/ \E r \in Requests :
                 (RetryReads(r) \/ CancelReads(r) \/ CancelRun(r))
           \/ \E r \in Retriers : RetryRun(r)
    PROVE  ReplaysCounted' /\ workflowAttempt' \in WorkflowAttempts
<1> DEFINE D == DoneRetries
<1>0. workflowAttempt \in Nat /\ workflowAttempt >= 1
      /\ request \in [Requests -> RequestState] /\ Retriers \subseteq Requests
  BY DoneRetriesBounded DEF EngineTypeOK, WorkflowAttempts, Requests
<1>1. /\ IsFiniteSet(D) /\ Cardinality(D) \in Nat
      /\ IsFiniteSet(D') /\ Cardinality(D') \in Nat
      /\ Cardinality(D') <= Cardinality(Retriers) /\ Cardinality(Retriers) \in Nat
  <2>1. D' \subseteq Retriers
    BY DEF DoneRetries
  <2> QED BY <2>1, DoneRetriesBounded, RetriersAssumption, FS_Subset, FS_CardinalityType
<1>2. workflowAttempt <= 1 + Cardinality(D)
  BY DEF ReplaysCounted
<1>3. workflowAttempt' \in Nat /\ workflowAttempt' >= 1
      /\ workflowAttempt' <= 1 + Cardinality(D')
  <2>1. CASE UNCHANGED <<request, workflowAttempt>>
    <3>1. D' = D
      BY <2>1 DEF DoneRetries
    <3> QED BY <1>0, <1>2, <2>1, <3>1
  <2>2. CASE \E r \in Requests : (RetryReads(r) \/ CancelReads(r) \/ CancelRun(r))
    <3>1. D \subseteq D' /\ UNCHANGED workflowAttempt
      BY <1>0, <2>2 DEF DoneRetries, RetryReads, CancelReads, CancelRun, Goes, runVars
    <3>2. Cardinality(D) <= Cardinality(D')
      BY <1>1, <3>1, FS_Subset
    <3> HIDE DEF D
    <3> QED BY <1>0, <1>1, <1>2, <3>1, <3>2
  <2>3. CASE \E r \in Retriers : RetryRun(r)
    <3>1. PICK r \in Retriers : RetryRun(r)
      BY <2>3
    <3>2. D' = D \union {r} /\ r \notin D /\ workflowAttempt' = workflowAttempt + 1
      BY <1>0, <3>1 DEF DoneRetries, RetryRun, Goes
    <3>3. Cardinality(D') = Cardinality(D) + 1
      <4> HIDE DEF D
      <4> QED BY <1>1, <3>2, FS_AddElement
    <3> HIDE DEF D
    <3> QED BY <1>0, <1>1, <1>2, <3>2, <3>3
  <2> QED BY <2>1, <2>2, <2>3
<1>4. ReplaysCounted'
  BY <1>3 DEF ReplaysCounted
<1> HIDE DEF D
<1> QED BY <1>1, <1>3, <1>4 DEF WorkflowAttempts

\* The queue, the slots and the run keep their types when a job is added or
\* kept, a slot moves or is freed.
LEMMA QueueTypes ==
    ASSUME EngineTypeOK, NEW j, NEW s \in Slots
    PROVE  /\ Enqueued(job, j) \in [JobIds -> JobState]
           /\ Kept(job, slotJob[s]) \in [JobIds -> JobState]
           /\ Enqueued(Kept(job, slotJob[s]), j) \in [JobIds -> JobState]
           /\ \A d \in Nat : [jobDelay EXCEPT ![j] = d] \in [JobIds -> Nat]
BY DEF EngineTypeOK, Enqueued, Kept, JobState

\* Jobs, slots and passes are well typed after every step of a slot.
LEMMA SlotTypes ==
    ASSUME EngineTypeOK, NEW s \in Slots,
           \/ SlotFreed(s)
           \/ \E where \in SlotState : Goto(s, where)
    PROVE  /\ slot' \in [Slots -> SlotState]
           /\ slotJob' \in [Slots -> JobIds \union {NoJob}]
           /\ called' \in [Slots -> SUBSET Keys]
           /\ returned' \in [Slots -> SUBSET Keys]
           /\ rejection' \in [Slots -> Rejection]
<1>1. CASE SlotFreed(s)
  <2>1. "idle" \in SlotState /\ "none" \in Rejection
    BY DEF SlotState, Rejection
  <2> QED BY <1>1, <2>1 DEF EngineTypeOK, SlotFreed
<1>2. CASE \E where \in SlotState : Goto(s, where)
  BY <1>2 DEF EngineTypeOK, Goto, passVars
<1> QED BY <1>1, <1>2

\* What the steps of a slot leave well typed.
LEMMA SlotStepTypes ==
    ASSUME EngineTypeOK, NEW s \in Slots, SlotStep(s)
    PROVE  /\ runStatus' \in RunStatus /\ blocked' \in BOOLEAN
           /\ job' \in [JobIds -> JobState]
           /\ jobDelay' \in [JobIds -> Nat]
           /\ stalled' \in SUBSET JobIds
           /\ slot' \in [Slots -> SlotState]
           /\ slotJob' \in [Slots -> JobIds \union {NoJob}]
           /\ called' \in [Slots -> SUBSET Keys]
           /\ returned' \in [Slots -> SUBSET Keys]
           /\ rejection' \in [Slots -> Rejection]
           /\ faults' \in 0..FaultBound
           /\ UNCHANGED <<request, workflowAttempt>>
<1> DEFINE SlotsTyped == /\ slot' \in [Slots -> SlotState]
                         /\ slotJob' \in [Slots -> JobIds \union {NoJob}]
                         /\ called' \in [Slots -> SUBSET Keys]
                         /\ returned' \in [Slots -> SUBSET Keys]
                         /\ rejection' \in [Slots -> Rejection]
           QueueTyped == /\ job' \in [JobIds -> JobState]
                         /\ jobDelay' \in [JobIds -> Nat]
                         /\ stalled' \in SUBSET JobIds
<1>1. Kept(job, slotJob[s]) \in [JobIds -> JobState]
  BY QueueTypes
<1>2. ASSUME UNCHANGED queueVars \/ JobEnds(s) PROVE QueueTyped
  BY <1>1, <1>2 DEF queueVars, JobEnds, EngineTypeOK
<1>3. ASSUME JobEnds(s) \/ \E where \in SlotState : Goto(s, where)
      PROVE  SlotsTyped
  <2> HIDE DEF SlotsTyped
  <2>1. SlotFreed(s) \/ \E where \in SlotState : Goto(s, where)
    BY <1>3 DEF JobEnds
  <2> QED BY <2>1, SlotTypes DEF SlotsTyped
<1>4. ASSUME UNCHANGED runVars
      PROVE  runStatus' \in RunStatus /\ blocked' \in BOOLEAN /\ UNCHANGED workflowAttempt
  BY <1>4 DEF runVars, EngineTypeOK
<1>5. ASSUME UNCHANGED apiVars PROVE faults' \in 0..FaultBound /\ UNCHANGED request
  BY <1>5 DEF apiVars, EngineTypeOK
<1>6. {"PENDING", "RUNNING", "COMPLETED", "FAILED"} \subseteq RunStatus
  BY DEF RunStatus
<1>7. {"begin", "block", "start", "handler", "complete", "suspend", "fail"} \subseteq SlotState
  BY DEF SlotState
<1>8. runStatus \in RunStatus /\ blocked \in BOOLEAN
  BY DEF EngineTypeOK
<1> HIDE DEF SlotsTyped, QueueTyped
<1>9. CASE DispatchJob(s) \/ BeginExecution(s) \/ HandlerSettles(s)
  <2>1. SlotsTyped /\ QueueTyped
    BY <1>2, <1>3, <1>7, <1>9 DEF DispatchJob, BeginExecution, HandlerSettles
  <2>2. UNCHANGED runVars /\ UNCHANGED apiVars
    BY <1>9 DEF DispatchJob, BeginExecution, HandlerSettles
  <2> QED BY <1>4, <1>5, <2>1, <2>2 DEF SlotsTyped, QueueTyped
<1>10. CASE BlockRun(s) \/ StartRun(s) \/ CompleteRun(s) \/ FailRun(s)
  <2>1. SlotsTyped /\ QueueTyped
    BY <1>2, <1>3, <1>7, <1>10 DEF BlockRun, StartRun, CompleteRun, FailRun
  <2>2. /\ runStatus' \in RunStatus /\ blocked' \in BOOLEAN
        /\ UNCHANGED workflowAttempt /\ UNCHANGED apiVars
    BY <1>6, <1>8, <1>10 DEF BlockRun, StartRun, CompleteRun, FailRun
  <2> QED BY <1>5, <2>1, <2>2 DEF SlotsTyped, QueueTyped
<1>11. CASE SuspendRun(s)
  <2>1. SlotsTyped
    BY <1>11, SlotTypes DEF SuspendRun, SlotsTyped
  <2>2. job' \in [JobIds -> JobState] /\ stalled' \in SUBSET JobIds
    BY <1>1, <1>11, QueueTypes DEF SuspendRun, EngineTypeOK
  <2>3. jobDelay' \in [JobIds -> Nat]
    <3>1. \A k \in FirstRetry : retryLeft[k] \in Nat
      BY DEF FirstRetry, EngineTypeOK, TypeOK
    <3>2. jobDelay \in [JobIds -> Nat]
      BY DEF EngineTypeOK
    <3>3. UNCHANGED jobDelay \/ \E k \in FirstRetry : \E j :
              jobDelay' = [jobDelay EXCEPT ![j] = retryLeft[k]]
      BY <1>11 DEF SuspendRun
    <3> QED BY <3>1, <3>2, <3>3, QueueTypes
  <2>4. faults' \in 0..FaultBound
    BY <1>11, FaultsAssumption DEF SuspendRun, Fault, EngineTypeOK
  <2>5. UNCHANGED runVars /\ UNCHANGED request
    BY <1>11 DEF SuspendRun
  <2> QED BY <1>4, <2>1, <2>2, <2>3, <2>4, <2>5 DEF SlotsTyped
<1>12. ASSUME NEW k \in Keys, StepRun(s, k) \/ StepProgress(s, k)
       PROVE  SlotsTyped /\ UNCHANGED queueVars /\ UNCHANGED runVars /\ UNCHANGED apiVars
  <2>1. {"suspended", "stale", "error"} \subseteq Rejection
    BY DEF Rejection
  <2>2. UNCHANGED queueVars /\ UNCHANGED runVars /\ UNCHANGED apiVars
    BY <1>12 DEF StepRun, StepProgress
  <2>3. /\ UNCHANGED <<slot, slotJob>>
        /\ called' \in [Slots -> SUBSET Keys]
        /\ returned' \in [Slots -> SUBSET Keys]
        /\ rejection' \in [Slots -> Rejection]
    BY <1>12, <2>1 DEF StepRun, StepProgress, Rejects, EngineTypeOK, slotVars, passVars
  <2> QED BY <2>2, <2>3 DEF SlotsTyped, EngineTypeOK
<1>13. CASE \E k \in Keys : StepRun(s, k) \/ StepProgress(s, k)
  BY <1>2, <1>4, <1>5, <1>12, <1>13 DEF SlotsTyped, QueueTyped
<1> QED BY <1>9, <1>10, <1>11, <1>13 DEF SlotStep

\* Every step of the engine keeps its types and the count of replays.
LEMMA EngineTypeStep ==
    ASSUME EngineTypeOK, IInv, ReplaysCounted, [EngineNext]_vars
    PROVE  EngineTypeOK' /\ ReplaysCounted'
<1> DEFINE Counted == ReplaysCounted' /\ workflowAttempt' \in WorkflowAttempts
<1>0. TypeOK'
  BY EngineStepIsStep, StepTypeOK DEF IInv
<1>1. ASSUME UNCHANGED <<request, workflowAttempt>> PROVE Counted
  BY <1>1, ReplaysCountedStep
<1>2. ASSUME NEW kind, Fault(kind) PROVE faults' \in 0..FaultBound
  BY <1>2, FaultsAssumption DEF Fault, EngineTypeOK
<1>3. ASSUME NEW j, NEW d \in Nat, Enqueue(j, d)
      PROVE  /\ job' \in [JobIds -> JobState] /\ jobDelay' \in [JobIds -> Nat]
             /\ stalled' \in SUBSET JobIds
  BY <1>3 DEF Enqueue, Enqueued, EngineTypeOK, JobState
<1> HIDE DEF Counted
<1> USE DEF EngineTypeOK
<1>4. ASSUME NEW s \in Slots, SlotStep(s) PROVE EngineTypeOK' /\ Counted
  BY <1>0, <1>1, <1>4, SlotStepTypes DEF Counted
<1>5. ASSUME NEW s \in Slots, NEW j \in JobIds, TakeJob(s, j)
      PROVE  EngineTypeOK' /\ Counted
  <2>1. /\ job' \in [JobIds -> JobState] /\ slot' \in [Slots -> SlotState]
        /\ slotJob' \in [Slots -> JobIds \union {NoJob}]
    BY <1>5 DEF TakeJob, JobState, SlotState
  <2>2. UNCHANGED <<runStatus, blocked, workflowAttempt, jobDelay, stalled, called,
                    returned, rejection, request, faults>>
    BY <1>5 DEF TakeJob, runVars, passVars, apiVars
  <2> QED BY <1>0, <1>1, <2>1, <2>2 DEF Counted
<1>6. ASSUME NEW s \in Slots, NEW k \in Keys, StepDatabaseError(s, k)
      PROVE  EngineTypeOK' /\ Counted
  <2>1. /\ faults' \in 0..FaultBound /\ rejection' \in [Slots -> Rejection]
        /\ UNCHANGED <<slot, slotJob, called, returned>>
    BY <1>2, <1>6, RejectsRemembers DEF StepDatabaseError, Rejection
  <2>2. UNCHANGED <<runStatus, blocked, workflowAttempt, job, jobDelay, stalled, request>>
    BY <1>6 DEF StepDatabaseError, runVars, queueVars
  <2> QED BY <1>0, <1>1, <2>1, <2>2 DEF Counted
<1>7. ASSUME NEW s \in Slots, RunDatabaseError(s) \/ CrashWorker(s) \/ RestartWorker(s)
      PROVE  EngineTypeOK' /\ Counted
  <2>1. \/ UNCHANGED slotVars \/ SlotFreed(s)
        \/ \E where \in SlotState : Goto(s, where)
    BY <1>7 DEF RunDatabaseError, CrashWorker, RestartWorker, JobEnds, Goto, SlotState
  <2>2. /\ slot' \in [Slots -> SlotState]
        /\ slotJob' \in [Slots -> JobIds \union {NoJob}]
        /\ called' \in [Slots -> SUBSET Keys]
        /\ returned' \in [Slots -> SUBSET Keys]
        /\ rejection' \in [Slots -> Rejection]
    BY <2>1, SlotTypes DEF slotVars, passVars
  <2>3. /\ job' \in [JobIds -> JobState] /\ UNCHANGED <<jobDelay, stalled>>
    BY <1>7, QueueTypes DEF RunDatabaseError, CrashWorker, RestartWorker, JobEnds, queueVars
  <2>4. faults' \in 0..FaultBound
    BY <1>2, <1>7 DEF RunDatabaseError, CrashWorker, RestartWorker, apiVars
  <2>5. UNCHANGED <<runStatus, blocked, workflowAttempt, request>>
    BY <1>7 DEF RunDatabaseError, CrashWorker, RestartWorker, runVars, apiVars
  <2> QED BY <1>0, <1>1, <2>2, <2>3, <2>4, <2>5 DEF Counted
<1>8. ASSUME NEW j \in JobIds, StalledJob(j) PROVE EngineTypeOK' /\ Counted
  <2>1. job' \in [JobIds -> JobState] /\ stalled' \in SUBSET JobIds
    BY <1>8 DEF StalledJob, JobState
  <2>2. UNCHANGED <<runStatus, blocked, workflowAttempt, jobDelay, slot, slotJob,
                    called, returned, rejection, request, faults>>
    BY <1>8 DEF StalledJob, runVars, slotVars, passVars, apiVars
  <2> QED BY <1>0, <1>1, <2>1, <2>2 DEF Counted
<1>9. CASE FlushRedis
  <2>1. /\ job' \in [JobIds -> JobState] /\ jobDelay' \in [JobIds -> Nat]
        /\ stalled' \in SUBSET JobIds /\ faults' \in 0..FaultBound
    BY <1>2, <1>9 DEF FlushRedis, JobState
  <2>2. UNCHANGED <<runStatus, blocked, workflowAttempt, slot, slotJob,
                    called, returned, rejection, request>>
    BY <1>9 DEF FlushRedis, runVars, slotVars, passVars
  <2> QED BY <1>0, <1>1, <2>1, <2>2 DEF Counted
<1>10. CASE ReconcilePendingRun \/ \E k \in Keys : ReconcileDueRetry(k)
  <2>1. /\ job' \in [JobIds -> JobState] /\ jobDelay' \in [JobIds -> Nat]
        /\ stalled' \in SUBSET JobIds
    BY <1>3, <1>10 DEF ReconcilePendingRun, ReconcileDueRetry
  <2>2. UNCHANGED <<runStatus, blocked, workflowAttempt, slot, slotJob,
                    called, returned, rejection, request, faults>>
    BY <1>10 DEF ReconcilePendingRun, ReconcileDueRetry, runVars, slotVars, passVars, apiVars
  <2> QED BY <1>0, <1>1, <2>1, <2>2 DEF Counted
<1>11. CASE \E k \in Keys, n \in Attempts : ReconcileExpiredLease(k, n)
  <2>1. /\ job' \in [JobIds -> JobState] /\ jobDelay' \in [JobIds -> Nat]
        /\ stalled' \in SUBSET JobIds
    BY <1>3, <1>11 DEF ReconcileExpiredLease, queueVars
  <2>2. faults' \in 0..FaultBound
    BY <1>2, <1>11 DEF ReconcileExpiredLease
  <2>3. UNCHANGED <<runStatus, blocked, workflowAttempt, slot, slotJob,
                    called, returned, rejection, request>>
    BY <1>11 DEF ReconcileExpiredLease, runVars, slotVars, passVars
  <2> QED BY <1>0, <1>1, <2>1, <2>2, <2>3 DEF Counted
<1>12. ASSUME NEW r \in Requests,
              \/ RetryReads(r) \/ CancelReads(r) \/ CancelRun(r)
              \/ r \in Retriers /\ RetryRun(r)
       PROVE  EngineTypeOK' /\ Counted
  <2>1. /\ runStatus' \in RunStatus /\ request' \in [Requests -> RequestState]
        /\ UNCHANGED <<blocked, slot, slotJob, called, returned, rejection>>
    BY <1>12 DEF RetryReads, CancelReads, CancelRun, RetryRun, Goes, runVars,
       slotVars, passVars, RunStatus, RequestState
  <2>2. /\ job' \in [JobIds -> JobState] /\ jobDelay' \in [JobIds -> Nat]
        /\ stalled' \in SUBSET JobIds
    BY <1>3, <1>12 DEF RetryReads, CancelReads, CancelRun, RetryRun, queueVars
  <2>3. faults' \in 0..FaultBound
    BY <1>2, <1>12 DEF RetryReads, CancelReads, CancelRun, RetryRun
  <2>4. Counted
    BY <1>12, ReplaysCountedStep DEF Counted
  <2> QED BY <1>0, <2>1, <2>2, <2>3, <2>4 DEF Counted
<1>13. CASE EngineTick
  <2>1. jobDelay' \in [JobIds -> Nat]
    BY <1>13 DEF EngineTick, Sooner
  <2>2. UNCHANGED <<runStatus, blocked, workflowAttempt, job, stalled, slot, slotJob,
                    called, returned, rejection, request>>
    BY <1>13 DEF EngineTick, runVars, slotVars, passVars
  <2>3. faults' \in 0..FaultBound
    BY <1>2, <1>13 DEF EngineTick
  <2> QED BY <1>0, <1>1, <2>1, <2>2, <2>3 DEF Counted
<1>14. CASE UNCHANGED vars
  <2>1. UNCHANGED <<runStatus, blocked, workflowAttempt, job, jobDelay, stalled, slot,
                    slotJob, called, returned, rejection, request, faults>>
    BY <1>14 DEF vars, engineVars, runVars, queueVars, slotVars, passVars, apiVars
  <2> QED BY <1>0, <1>1, <2>1 DEF Counted
<1>15. CASE \E s \in Slots :
               \/ \E j \in JobIds : TakeJob(s, j)
               \/ SlotStep(s)
               \/ \E k \in Keys : StepDatabaseError(s, k)
               \/ RunDatabaseError(s) \/ CrashWorker(s) \/ RestartWorker(s)
  BY <1>4, <1>5, <1>6, <1>7, <1>15 DEF Counted
<1>16. CASE \/ \E r \in Retriers : RetryReads(r) \/ RetryRun(r)
            \/ \E r \in Cancellers : CancelReads(r) \/ CancelRun(r)
  <2>1. \E r \in Requests : \/ RetryReads(r) \/ CancelReads(r) \/ CancelRun(r)
                            \/ r \in Retriers /\ RetryRun(r)
    BY <1>16 DEF Requests
  <2> QED BY <1>12, <2>1 DEF Counted
<1>17. CASE \E j \in JobIds : StalledJob(j)
  BY <1>8, <1>17 DEF Counted
<1> HIDE DEF vars, EngineTypeOK
<1> QED BY <1>9, <1>10, <1>11, <1>13, <1>14, <1>15, <1>16, <1>17 DEF EngineNext

----------------------------------------------------------------------------
(* The run and its stages.                                                  *)

\* The statement that writes COMPLETED is reached with every step's result.
LEMMA CompletedRunStep ==
    ASSUME EngineTypeOK, IInv, \A s \in Slots : PassOK(s),
           CompletedRunHasAllSteps, [EngineNext]_vars
    PROVE  CompletedRunHasAllSteps'
<1>1. \A k \in Keys : status[k] = "COMPLETED" => status'[k] = "COMPLETED"
  BY EngineStepIsStep, CompletedKept
<1>2. ASSUME NEW s \in Slots, CompleteRun(s) PROVE \A k \in Keys : status[k] = "COMPLETED"
  BY <1>2 DEF CompleteRun, PassOK
<1>3. ASSUME runStatus' = "COMPLETED", runStatus # "COMPLETED"
      PROVE  \E s \in Slots : CompleteRun(s)
  <2>1. ~ UNCHANGED runVars
    BY <1>3 DEF runVars
  <2>2. ~ UNCHANGED vars
    BY <1>3 DEF vars, engineVars, runVars
  <2>3. \A r : ~ (RetryReads(r) \/ RetryRun(r) \/ CancelReads(r) \/ CancelRun(r))
    BY <1>3, <2>1 DEF RetryReads, RetryRun, CancelReads, CancelRun
  <2>4. \A s \in Slots, k \in Keys :
            ~ (StepRun(s, k) \/ StepProgress(s, k) \/ StepDatabaseError(s, k))
    BY <2>1 DEF StepRun, StepProgress, StepDatabaseError
  <2>5. \A s \in Slots, j \in JobIds :
            ~ (TakeJob(s, j) \/ StalledJob(j))
    BY <2>1 DEF TakeJob, StalledJob
  <2>6. \A s \in Slots :
            ~ (RunDatabaseError(s) \/ CrashWorker(s) \/ RestartWorker(s))
    BY <2>1 DEF RunDatabaseError, CrashWorker, RestartWorker
  <2>7. \A s \in Slots : SlotStep(s) => CompleteRun(s)
    BY <1>3, <2>1, <2>4 DEF SlotStep, DispatchJob, BlockRun, BeginExecution, StartRun,
       HandlerSettles, FailRun, SuspendRun
  <2>8. /\ ~ FlushRedis /\ ~ ReconcilePendingRun /\ ~ EngineTick
        /\ \A k \in Keys : ~ ReconcileDueRetry(k)
        /\ \A k \in Keys, n \in Attempts : ~ ReconcileExpiredLease(k, n)
        /\ \A j \in JobIds : ~ StalledJob(j)
    BY <2>1 DEF FlushRedis, ReconcilePendingRun, EngineTick, ReconcileDueRetry,
       ReconcileExpiredLease, StalledJob
  <2> HIDE DEF vars, runVars
  <2> QED BY <2>2, <2>3, <2>4, <2>5, <2>6, <2>7, <2>8 DEF EngineNext
<1> QED BY <1>1, <1>2, <1>3 DEF CompletedRunHasAllSteps

\* A step's row is first inserted by a pass that holds the committed results
\* of the stages before it.
LEMMA StagesStep ==
    ASSUME IInv, \A s \in Slots : PassOK(s), StagesInOrder, [EngineNext]_vars
    PROVE  StagesInOrder'
<1>1. [Next]_stepVars
  BY EngineStepIsStep
<1>2. \A k \in Keys : status[k] = "COMPLETED" => status'[k] = "COMPLETED"
  BY <1>1, CompletedKept
<1>3. SUFFICES ASSUME NEW k \in Keys, status'[k] # "NoRow", NEW i \in Before(k)
               PROVE  status'[i] = "COMPLETED"
  BY DEF StagesInOrder, Before
<1>4. i \in Keys
  BY DEF Before
<1>5. CASE status[k] # "NoRow"
  BY <1>2, <1>4, <1>5 DEF StagesInOrder
<1>6. CASE status[k] = "NoRow"
  <2>1. PICK c \in Callers : key[c] = k /\ pc[c] = "selecting"
    BY <1>1, <1>3, <1>6, FirstRow
  <2>2. PICK s \in Slots, j \in Keys : c = <<s, j>>
    BY <2>1
  <2>3. k \in called[s]
    BY <2>1, <2>2 DEF PassOK
  <2>4. status[i] = "COMPLETED"
    BY <2>3 DEF PassOK
  <2> QED BY <1>2, <1>4, <2>4
<1> QED BY <1>5, <1>6

\* A run that POST /runs has just committed satisfies the invariant.
LEMMA EngineInitInv == EngineInit => EngineInv
<1> SUFFICES ASSUME EngineInit PROVE EngineInv
  OBVIOUS
<1>1. IInv /\ TypeOK
  BY InitIInv DEF EngineInit, IInv
<1>2. workflowAttempt = 1 /\ workflowAttempt \in WorkflowAttempts /\ ReplaysCounted
  BY DoneRetriesBounded DEF EngineInit, WorkflowAttempts, ReplaysCounted
<1>3. job \in [JobIds -> JobState]
  BY DEF EngineInit, JobState
<1>4. faults \in 0..FaultBound
  BY FaultsAssumption DEF EngineInit
<1>5. EngineTypeOK
  BY <1>1, <1>2, <1>3, <1>4
  DEF EngineInit, EngineTypeOK, RunStatus, SlotState, Rejection, RequestState
<1>6. \A s \in Slots : PassOK(s)
  BY DEF EngineInit, Init, PassOK, Before
<1>7. CompletedRunHasAllSteps /\ StagesInOrder
  BY DEF EngineInit, Init, CompletedRunHasAllSteps, StagesInOrder
<1> QED BY <1>1, <1>2, <1>5, <1>6, <1>7 DEF EngineInv

\* Every step of the engine keeps the invariant.
LEMMA EngineInvStep == EngineInv /\ [EngineNext]_vars => EngineInv'
<1> SUFFICES ASSUME EngineInv, [EngineNext]_vars PROVE EngineInv'
  OBVIOUS
<1> USE DEF EngineInv
<1>1. EngineTypeOK' /\ ReplaysCounted'
  BY EngineTypeStep
<1>2. IInv'
  BY EngineStepIsStep, StepIInv
<1>3. \A s \in Slots : PassOK(s)'
  BY PassesKept
<1>4. CompletedRunHasAllSteps' /\ StagesInOrder'
  BY CompletedRunStep, StagesStep
<1> QED BY <1>1, <1>2, <1>3, <1>4

\* EngineInv holds in every reachable state.
THEOREM EngineInductive == EngineSpec => []EngineInv
BY EngineInitInv, EngineInvStep, PTL DEF EngineSpec

\* The run, its jobs, slots and requests keep their types.
THEOREM EngineTypeCorrect == EngineSpec => []EngineTypeOK
<1>1. EngineInv => EngineTypeOK
  BY DEF EngineInv
<1> QED BY <1>1, EngineInductive, PTL

\* A COMPLETED run has no unfinished step, whichever passes wrote its status.
THEOREM CompletedRunIsWhole == EngineSpec => []CompletedRunHasAllSteps
<1>1. EngineInv => CompletedRunHasAllSteps
  BY DEF EngineInv
<1> QED BY <1>1, EngineInductive, PTL

\* A step starts only when every step of the earlier stages is COMPLETED.
THEOREM StagesFollow == EngineSpec => []StagesInOrder
<1>1. EngineInv => StagesInOrder
  BY DEF EngineInv
<1> QED BY <1>1, EngineInductive, PTL

\* Every result a pass was given is committed, and stays.
THEOREM PassesSeeCommitted == EngineSpec => []PassSeesCommitted
<1>1. EngineInv => PassSeesCommitted
  BY DEF EngineInv, PassOK, PassSeesCommitted
<1> QED BY <1>1, EngineInductive, PTL

\* In the engine too, a COMPLETED step is never executed or changed again.
THEOREM EngineCompletedStays == EngineSpec => CompletedIsFinal
BY EngineImplementsStepFencing, CompletedStays, PTL DEF ImplementsStepFencing

\* What step.run promises holds in the engine, with its queue, its reconciler, its
\* crashes and its requests: the engine implements DurableStep.
THEOREM EngineWritesOnce == EngineSpec => WriteOnce
BY EngineImplementsStepFencing, ImplementsDurableStep, PTL DEF ImplementsStepFencing

\* In the engine too, no late end of a handler and no reconciler's pass changes an
\* attempt or a step that is settled.
THEOREM EngineSettledStays == EngineSpec => SettledIsFinal
BY EngineImplementsStepFencing, SettledStays, PTL DEF ImplementsStepFencing
============================================================================
