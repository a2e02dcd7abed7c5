------------------------ MODULE SequentialRuns_proofs -------------------------
(***************************************************************************)
(* Proofs about runs whose handler awaits one step at a time: what passes,  *)
(* jobs and rows are to one another whatever happens, and that an           *)
(* undisturbed run is never lost, for any number of steps, slots, attempts  *)
(* and retries.                                                             *)
(***************************************************************************)
EXTENDS SequentialRuns, DurableEngine_proofs

USE CallersAssumption, StageAssumption

----------------------------------------------------------------------------
(* One call at a time.                                                      *)

\* While a step has been called and has not returned, no step is ready.
LEMMA NothingReady ==
    ASSUME Sequential, NEW s \in Slots, PassOK(s), OneAtATime(s),
           NEW i \in Keys, i \in called[s], i \notin returned[s]
    PROVE  Ready(s) = {}
<1> SUFFICES ASSUME NEW k \in Keys \ called[s], Before(k) \subseteq returned[s]
             PROVE  FALSE
  BY DEF Ready
<1>1. Stage[i] \in Nat /\ Stage[k] \in Nat
  OBVIOUS
<1>2. CASE Stage[i] < Stage[k]
  BY <1>2 DEF Before
<1>3. CASE Stage[k] < Stage[i]
  <2>1. k \in returned[s]
    BY <1>3 DEF Before, PassOK
  <2> QED BY <2>1 DEF OneAtATime
<1>4. CASE Stage[k] = Stage[i]
  BY <1>4 DEF Sequential
<1> QED BY <1>1, <1>2, <1>3, <1>4

\* Two calls of one pass are never under way together.
LEMMA OneCall ==
    ASSUME Sequential, NEW s \in Slots, PassOK(s), OneAtATime(s),
           NEW i \in Keys, NEW k \in Keys,
           pc[<<s, i>>] # "idle", pc[<<s, k>>] # "idle"
    PROVE  i = k
<1>1. i \in called[s] \ returned[s] /\ k \in called[s] \ returned[s]
  BY DEF PassOK, OneAtATime
<1>2. Stage[i] \in Nat /\ Stage[k] \in Nat
  OBVIOUS
<1>3. ~ (Stage[i] < Stage[k]) /\ ~ (Stage[k] < Stage[i])
  BY <1>1 DEF PassOK, Before
<1> QED BY <1>2, <1>3 DEF Sequential

\* A slot that is left alone, or that only moves between calls.
LEMMA OneAtATimeOther ==
    ASSUME NEW t \in Slots, OneAtATime(t),
           called'[t] = called[t], returned'[t] = returned[t],
           rejection'[t] = rejection[t],
           \A k \in Keys : pc'[<<t, k>>] # "idle" => pc[<<t, k>>] # "idle"
    PROVE  OneAtATime(t)'
BY DEF OneAtATime

\* A slot that is freed.
LEMMA OneAtATimeFreed ==
    ASSUME NEW s \in Slots, EngineTypeOK, SlotFreed(s),
           \A k \in Keys : pc'[<<s, k>>] = "idle"
    PROVE  OneAtATime(s)'
BY DEF OneAtATime, SlotFreed, EngineTypeOK

\* A call of step.run.
LEMMA OneAtATimeRun ==
    ASSUME Sequential, EngineTypeOK, NEW s \in Slots, PassOK(s), OneAtATime(s),
           NEW k \in Keys, StepRun(s, k)
    PROVE  OneAtATime(s)'
<1>1. /\ pc' = [pc EXCEPT ![<<s, k>>] = "selecting"]
      /\ called' = [called EXCEPT ![s] = @ \union {k}]
      /\ UNCHANGED <<returned, rejection>>
      /\ k \in Ready(s)
  BY DEF StepRun, ClaimSelect
<1>2. /\ called'[s] = called[s] \union {k}
      /\ \A i \in Keys \ {k} : pc'[<<s, i>>] = pc[<<s, i>>]
      /\ called[s] \subseteq Keys
  BY <1>1 DEF EngineTypeOK, TypeOK
<1>3. called[s] \subseteq returned[s]
  BY <1>1, <1>2, NothingReady
<1>4. k \notin returned[s] /\ rejection[s] = "none"
  BY <1>1, <1>3 DEF Ready, OneAtATime
<1> QED BY <1>1, <1>2, <1>4 DEF OneAtATime

\* The end of a call, or the claim that lets its handler begin.
LEMMA OneAtATimeCall ==
    ASSUME Sequential, EngineTypeOK, NEW s \in Slots, PassOK(s), OneAtATime(s),
           NEW k \in Keys, pc[<<s, k>>] # "idle", NEW how,
           pc' = [pc EXCEPT ![<<s, k>>] = how], UNCHANGED called,
           \/ UNCHANGED <<returned, rejection>>
           \/ /\ how = "idle" /\ UNCHANGED rejection
              /\ returned' = [returned EXCEPT ![s] = @ \union {k}]
           \/ how = "idle" /\ UNCHANGED returned /\ rejection'[s] # "none"
    PROVE  OneAtATime(s)'
<1>1. /\ pc'[<<s, k>>] = how
      /\ \A i \in Keys \ {k} : pc'[<<s, i>>] = "idle"
  BY OneCall DEF EngineTypeOK, TypeOK
<1>2. k \in called[s] /\ k \notin returned[s] /\ rejection[s] = "none"
  BY DEF PassOK, OneAtATime
<1>3. returned \in [Slots -> SUBSET Keys]
  BY DEF EngineTypeOK
<1> QED BY <1>1, <1>2, <1>3 DEF OneAtATime

\* What a step of one slot does to the passes of the others: nothing.
LEMMA OthersAtATime ==
    ASSUME EngineTypeOK, NEW s \in Slots, NEW t \in Slots \ {s}, OneAtATime(t),
           called'[t] = called[t], returned'[t] = returned[t],
           rejection'[t] = rejection[t],
           UNCHANGED pc \/ \E k \in Keys, how \in CallerState : pc' = [pc EXCEPT ![<<s, k>>] = how]
    PROVE  OneAtATime(t)'
<1>1. \A k \in Keys : pc'[<<t, k>>] = pc[<<t, k>>]
  BY DEF EngineTypeOK, TypeOK
<1> QED BY <1>1, OneAtATimeOther

\* One step of a call keeps one call at a time.
LEMMA CallAtATime ==
    ASSUME Sequential, EngineTypeOK, \A t \in Slots : PassOK(t) /\ OneAtATime(t),
           NEW s \in Slots, NEW k \in Keys, StepRun(s, k) \/ StepProgress(s, k)
    PROVE  \A t \in Slots : OneAtATime(t)'
<1>1. CASE StepRun(s, k)
  <2>1. /\ pc' = [pc EXCEPT ![<<s, k>>] = "selecting"] /\ "selecting" \in CallerState
        /\ \A t \in Slots \ {s} : called'[t] = called[t]
        /\ UNCHANGED <<returned, rejection>>
    BY <1>1 DEF StepRun, ClaimSelect, EngineTypeOK, CallerState
  <2> QED BY <1>1, <2>1, OneAtATimeRun, OthersAtATime
<1>2. CASE StepProgress(s, k)
  <2> DEFINE Moves(how) == pc' = [pc EXCEPT ![<<s, k>>] = how]
  <2>1. pc[<<s, k>>] # "idle" /\ UNCHANGED <<slot, slotJob, called>>
    BY <1>2 DEF StepProgress, ClaimStartsAttempt, ClaimMemoized, CompleteStep,
       ClaimSuspends, ClaimCollides, RejectStale, FailTerminally, FailAndRetry,
       FailFenced, Rejects, slotVars, passVars
  <2>2. \/ Moves("handler") /\ UNCHANGED <<returned, rejection>>
        \/ /\ Moves("idle") /\ UNCHANGED rejection
           /\ returned' = [returned EXCEPT ![s] = @ \union {k}]
        \/ /\ Moves("idle") /\ UNCHANGED returned
           /\ Rejects(s, "suspended") \/ Rejects(s, "error") \/ Rejects(s, "stale")
    BY <1>2 DEF StepProgress, ClaimStartsAttempt, ClaimMemoized, CompleteStep,
       ClaimSuspends, ClaimCollides, RejectStale, FailTerminally, FailAndRetry,
       FailFenced, CallEnds, Rejects, slotVars, passVars
  <2>3. {"suspended", "error", "stale"} \subseteq Rejection \ {"none"}
        /\ {"idle", "handler"} \subseteq CallerState
    BY DEF Rejection, CallerState
  <2>4. (Rejects(s, "suspended") \/ Rejects(s, "error") \/ Rejects(s, "stale"))
           => /\ rejection'[s] # "none"
              /\ \A t \in Slots \ {s} : rejection'[t] = rejection[t]
    BY <2>3, RejectsRemembers
  <2>5. \A t \in Slots \ {s} : returned'[t] = returned[t] /\ rejection'[t] = rejection[t]
    BY <2>2, <2>4 DEF EngineTypeOK
  <2>6. OneAtATime(s)'
    BY <2>1, <2>2, <2>4, OneAtATimeCall
  <2>7. \A t \in Slots \ {s} : OneAtATime(t)'
    BY <2>1, <2>2, <2>3, <2>5, OthersAtATime
  <2> QED BY <2>6, <2>7
<1> QED BY <1>1, <1>2

\* A slot that moves between calls, or is freed with none under way.
LEMMA MoveAtATime ==
    ASSUME EngineTypeOK, \A t \in Slots : OneAtATime(t), NEW s \in Slots, UNCHANGED pc,
           \/ UNCHANGED passVars
           \/ SlotFreed(s) /\ \A k \in Keys : pc[<<s, k>>] = "idle"
    PROVE  \A t \in Slots : OneAtATime(t)'
<1>1. CASE UNCHANGED passVars
  BY <1>1, OneAtATimeOther DEF passVars
<1>2. CASE SlotFreed(s) /\ \A k \in Keys : pc[<<s, k>>] = "idle"
  <2>1. \A t \in Slots \ {s} : /\ called'[t] = called[t] /\ returned'[t] = returned[t]
                              /\ rejection'[t] = rejection[t]
    BY <1>2 DEF SlotFreed, EngineTypeOK
  <2> QED BY <1>2, <2>1, OneAtATimeOther, OneAtATimeFreed
<1> QED BY <1>1, <1>2

\* Every step of the engine keeps one call at a time.
LEMMA OneAtATimeStep ==
    ASSUME Sequential, EngineInv, \A s \in Slots : OneAtATime(s), [EngineNext]_vars
    PROVE  \A s \in Slots : OneAtATime(s)'
<1>0. EngineTypeOK /\ \A s \in Slots : PassOK(s)
  BY DEF EngineInv
<1>1. ASSUME UNCHANGED <<pc, passVars>> PROVE \A t \in Slots : OneAtATime(t)'
  BY <1>1, OneAtATimeOther DEF passVars
<1>2. ASSUME NEW s \in Slots, UNCHANGED stepVars, SlotFreed(s) \/ UNCHANGED passVars,
             slot[s] \in {"handler", "crashed"} => \A k \in Keys : pc[<<s, k>>] = "idle"
      PROVE  \A t \in Slots : OneAtATime(t)'
  <2>1. UNCHANGED pc /\ \A k \in Keys : pc[<<s, k>>] = "idle"
    BY <1>0, <1>2 DEF stepVars, callers, PassOK
  <2> QED BY <1>0, <1>2, <2>1, MoveAtATime
<1>3. ASSUME NEW s \in Slots, SlotStep(s) PROVE \A t \in Slots : OneAtATime(t)'
  <2>1. CASE \E k \in Keys : StepRun(s, k) \/ StepProgress(s, k)
    BY <1>0, <2>1, CallAtATime
  <2>2. CASE DispatchJob(s) \/ BlockRun(s) \/ BeginExecution(s) \/ StartRun(s)
    BY <1>2, <2>2 DEF DispatchJob, BlockRun, BeginExecution, StartRun, JobEnds, Goto
  <2>3. CASE HandlerSettles(s)
    BY <1>2, <2>3 DEF HandlerSettles, JobEnds, Goto, Settles
  <2>4. CASE CompleteRun(s) \/ FailRun(s) \/ SuspendRun(s)
    BY <1>2, <2>4 DEF CompleteRun, FailRun, SuspendRun, JobEnds
  <2> QED BY <1>3, <2>1, <2>2, <2>3, <2>4 DEF SlotStep
<1>4. ASSUME NEW s \in Slots, NEW k \in Keys, CallLost(<<s, k>>),
             Rejects(s, "error") \/ UNCHANGED slotVars
      PROVE  \A t \in Slots : OneAtATime(t)'
  <2>1. pc[<<s, k>>] # "idle" /\ pc' = [pc EXCEPT ![<<s, k>>] = "idle"]
        /\ "idle" \in CallerState /\ "error" \in Rejection \ {"none"}
    BY <1>4 DEF CallLost, CallEnds, CallerState, Rejection
  <2>2. /\ UNCHANGED <<called, returned>>
        /\ \A t \in Slots \ {s} : rejection'[t] = rejection[t]
        /\ rejection'[s] # "none" \/ UNCHANGED rejection
    BY <1>0, <1>4, <2>1, RejectsRemembers DEF slotVars, passVars
  <2>3. OneAtATime(s)'
    BY <1>0, <2>1, <2>2, OneAtATimeCall
  <2>4. \A t \in Slots \ {s} : OneAtATime(t)'
    BY <1>0, <2>1, <2>2, OthersAtATime
  <2> QED BY <2>3, <2>4
<1>5. ASSUME NEW s \in Slots, NEW k \in Keys, StepDatabaseError(s, k)
      PROVE  \A t \in Slots : OneAtATime(t)'
  BY <1>4, <1>5 DEF StepDatabaseError
<1>6. ASSUME NEW s \in Slots, RestartWorker(s) PROVE \A t \in Slots : OneAtATime(t)'
  <2>1. CASE \E k \in Keys : CallLost(<<s, k>>) /\ UNCHANGED slotVars
    BY <1>4, <2>1
  <2>2. CASE /\ \A k \in Keys : pc[<<s, k>>] = "idle"
             /\ SlotFreed(s) /\ UNCHANGED stepVars
    BY <1>2, <2>2
  <2> QED BY <1>6, <2>1, <2>2 DEF RestartWorker
<1>7. ASSUME NEW s \in Slots, RunDatabaseError(s) PROVE \A t \in Slots : OneAtATime(t)'
  BY <1>2, <1>7 DEF RunDatabaseError, JobEnds, Goto
<1>8. CASE \E s \in Slots : CrashWorker(s) \/ \E j \in JobIds : TakeJob(s, j)
  BY <1>1, <1>8 DEF CrashWorker, TakeJob, stepVars, callers
<1>9. CASE \/ \E j \in JobIds : StalledJob(j)
           \/ FlushRedis
           \/ ReconcilePendingRun
           \/ \E k \in Keys : ReconcileDueRetry(k)
  BY <1>1, <1>9 DEF StalledJob, FlushRedis, ReconcilePendingRun, ReconcileDueRetry,
     stepVars, callers, slotVars
<1>10. CASE \E k \in Keys, n \in Attempts : ReconcileExpiredLease(k, n)
  <2>1. UNCHANGED callers /\ UNCHANGED slotVars
    BY <1>10 DEF ReconcileExpiredLease, Abandon, stepVars
  <2> QED BY <1>1, <2>1 DEF callers, slotVars
<1>11. CASE \/ \E r \in Retriers : RetryReads(r) \/ RetryRun(r)
            \/ \E r \in Cancellers : CancelReads(r) \/ CancelRun(r)
  <2>1. UNCHANGED stepVars /\ UNCHANGED slotVars
    BY <1>11 DEF RetryReads, RetryRun, CancelReads, CancelRun
  <2> QED BY <1>1, <2>1 DEF stepVars, callers, slotVars
<1>12. CASE EngineTick
  BY <1>1, <1>12 DEF EngineTick, Tick, slotVars
<1>13. CASE UNCHANGED vars
  BY <1>1, <1>13 DEF vars, stepVars, callers, engineVars, slotVars
<1> HIDE DEF vars
<1> QED
  BY <1>3, <1>5, <1>6, <1>7, <1>8, <1>9, <1>10, <1>11, <1>12, <1>13 DEF EngineNext

----------------------------------------------------------------------------
(* Rows.                                                                    *)

\* A step has a row exactly when it has an attempt.
LEMMA RowsCountedStep ==
    ASSUME IInv, RowsCounted, [Next]_stepVars
    PROVE  RowsCounted'
<1>0. TypeOK
  BY DEF IInv
<1>1. ASSUME UNCHANGED <<status, attemptCount>> PROVE RowsCounted'
  BY <1>1 DEF RowsCounted
<1>2. ASSUME NEW k \in Keys, status[k] # "NoRow", NEW st \in StepStatus \ {"NoRow"},
             status' = [status EXCEPT ![k] = st], UNCHANGED attemptCount
      PROVE  RowsCounted'
  BY <1>0, <1>2 DEF RowsCounted, TypeOK
<1>3. ASSUME NEW c \in Callers, ClaimStartsAttempt(c) PROVE RowsCounted'
  <2>1. PICK n \in Attempts :
           /\ status' = [status EXCEPT ![key[c]] = "RUNNING"]
           /\ attemptCount' = [attemptCount EXCEPT ![key[c]] = n]
    BY <1>3 DEF ClaimStartsAttempt
  <2>2. key[c] \in Keys /\ n # Null
    BY <1>0, AttemptsPositive DEF TypeOK
  <2> QED BY <1>0, <2>1, <2>2 DEF RowsCounted, TypeOK
<1>4. ASSUME NEW c \in Callers, HandlerEnds(c) PROVE RowsCounted'
  <2>1. CASE RejectStale(c)
    BY <1>1, <2>1 DEF RejectStale, rows
  <2>2. CASE ~ RejectStale(c)
    <3>1. /\ pc[c] = "handler" /\ Fenced(c) /\ UNCHANGED attemptCount
          /\ \E st \in {"COMPLETED", "FAILED", "RETRY_WAIT"} :
                status' = [status EXCEPT ![key[c]] = st]
      BY <1>4, <2>2 DEF HandlerEnds, CompleteStep, FailTerminally, FailAndRetry, FailFenced
    <3>2. key[c] \in Keys /\ status[key[c]] = "RUNNING"
      BY <3>1, FenceMeansRunning
    <3> QED BY <1>2, <3>1, <3>2 DEF StepStatus
  <2> QED BY <2>1, <2>2
<1>5. ASSUME NEW k \in Keys, NEW n \in Attempts, Abandon(k, n) PROVE RowsCounted'
  <2>1. CASE activeAttempt[k] # n
    BY <1>1, <1>5, <2>1 DEF Abandon
  <2>2. CASE activeAttempt[k] = n
    <3>1. status[k] = "RUNNING"
      BY <1>5, <2>2, AttemptsPositive DEF Abandon, LeaseExpired, IInv, FenceHolds
    <3>2. /\ \E st \in {"FAILED", "RETRY_WAIT"} : status' = [status EXCEPT ![k] = st]
          /\ UNCHANGED attemptCount
      BY <1>5, <2>2 DEF Abandon, ReleaseStep
    <3> QED BY <1>2, <3>1, <3>2 DEF StepStatus
  <2> QED BY <2>1, <2>2
<1>6. ASSUME NEW c \in Callers,
             \/ ClaimDecides(c) /\ ~ ClaimStartsAttempt(c)
             \/ RenewLease(c) \/ CallLost(c)
             \/ \E k \in Keys : ClaimSelect(c, k)
      PROVE  RowsCounted'
  BY <1>1, <1>6 DEF ClaimDecides, ClaimMemoized, ClaimSuspends, ClaimCollides,
     RenewLease, CallLost, ClaimSelect, rows
<1>7. CASE Tick \/ UNCHANGED stepVars
  BY <1>1, <1>7 DEF Tick, stepVars, rows
<1> HIDE DEF stepVars
<1> QED BY <1>3, <1>4, <1>5, <1>6, <1>7 DEF Next

\* A step that has a row has an attempt, and one that is RUNNING holds its fence.
LEMMA RowHasAttempt ==
    ASSUME IInv, RowsCounted, NEW k \in Keys
    PROVE  /\ status[k] # "NoRow" => attemptCount[k] \in Attempts
           /\ status[k] = "RUNNING" => activeAttempt[k] = attemptCount[k]
BY DEF IInv, TypeOK, RowsCounted, RunningIsRecoverable, ActiveIsLatest

\* The reconciler releases a step only while the attempt it finds is RUNNING.
LEMMA ReleasedWasRunning ==
    ASSUME IInv, NEW k \in Keys, NEW n \in Attempts, LeaseExpired(k, n),
           activeAttempt[k] = n
    PROVE  status[k] = "RUNNING" /\ attemptCount[k] = n
<1>1. status[k] = "RUNNING"
  BY AttemptsPositive DEF LeaseExpired, IInv, FenceHolds
<1>2. attemptCount[k] = n
  BY AttemptsPositive DEF IInv, ActiveIsLatest
<1> QED BY <1>1, <1>2

----------------------------------------------------------------------------
(* Jobs.                                                                    *)

\* A job id names its kind, its step and its number.
LEMMA JobIdsDiffer ==
    /\ RunJob \in JobIds /\ NoJob \notin JobIds
    /\ \A k \in Keys, n \in Attempts : RetryJob(k, n) \in JobIds /\ RetryJob(k, n) # RunJob
    /\ \A n \in WorkflowAttempts : ReplayJob(n) \in JobIds /\ ReplayJob(n) # RunJob
    /\ \A k, i, n, m : RetryJob(k, n) = RetryJob(i, m) => k = i /\ n = m
    /\ \A n, m : ReplayJob(n) = ReplayJob(m) => n = m
    /\ \A k, n, m : RetryJob(k, n) # ReplayJob(m)
BY DEF JobIds, RunJob, NoJob, RetryJob, ReplayJob

\* What a step may do to the jobs and to who works on them.
JobMoves ==
    \/ /\ UNCHANGED <<job, stalled, slotJob>>
       /\ \A s \in Slots :
             /\ slot'[s] = "idle" <=> slot[s] = "idle"
             /\ slot'[s] = "crashed" => slot[s] = "crashed" \/ CrashWorker(s)
    \/ \E s \in Slots, j \in JobIds : TakeJob(s, j)
    \/ \E s \in Slots : slot[s] \notin {"idle", "crashed"} /\ JobEnds(s)
    \/ \E s \in Slots : SuspendRun(s)
    \/ \E j \in JobIds, d \in Nat : Enqueue(j, d) /\ UNCHANGED <<slot, slotJob>>
    \/ \E s \in Slots : /\ slot[s] = "crashed" /\ SlotFreed(s)
                        /\ UNCHANGED queueVars
    \/ \E j \in JobIds : StalledJob(j)

\* While Redis keeps its data, no step does anything else to the jobs.
LEMMA StepMovesJobs ==
    ASSUME EngineInv, EngineTypeOK', RowsCounted, [EngineNext]_vars, ~ FlushRedis
    PROVE  JobMoves
<1>0. EngineTypeOK /\ IInv
  BY DEF EngineInv
<1>1. ASSUME UNCHANGED <<job, stalled, slotJob, slot>> PROVE JobMoves
  BY <1>1 DEF JobMoves
<1>2. ASSUME NEW s \in Slots, NEW where \in SlotState \ {"idle"}, Goto(s, where), UNCHANGED queueVars,
             slot[s] # "idle", where = "crashed" => CrashWorker(s)
      PROVE  JobMoves
  <2>1. UNCHANGED <<job, stalled, slotJob>>
    BY <1>2 DEF Goto, queueVars
  <2>2. slot'[s] = where /\ \A t \in Slots \ {s} : slot'[t] = slot[t]
    BY <1>0, <1>2 DEF Goto, EngineTypeOK
  <2> QED BY <1>2, <2>1, <2>2 DEF JobMoves
<1>3. ASSUME NEW s \in Slots, SlotStep(s) PROVE JobMoves
  <2>1. ASSUME slot[s] \notin {"idle", "crashed"}, JobEnds(s) PROVE JobMoves
    BY <2>1 DEF JobMoves
  <2>2. CASE DispatchJob(s) \/ BlockRun(s) \/ BeginExecution(s) \/ StartRun(s)
    BY <1>2, <2>1, <2>2 DEF DispatchJob, BlockRun, BeginExecution, StartRun, SlotState
  <2>3. CASE HandlerSettles(s) \/ CompleteRun(s) \/ FailRun(s)
    BY <1>2, <2>1, <2>3 DEF HandlerSettles, CompleteRun, FailRun, SlotState
  <2>4. CASE SuspendRun(s)
    BY <2>4 DEF JobMoves
  <2>5. CASE \E k \in Keys : StepRun(s, k) \/ StepProgress(s, k)
    BY <1>1, <2>5 DEF StepRun, StepProgress, Rejects, queueVars, slotVars
  <2> QED BY <1>3, <2>2, <2>3, <2>4, <2>5 DEF SlotStep
<1>4. ASSUME NEW s \in Slots, RunDatabaseError(s) PROVE JobMoves
  <2>1. CASE JobEnds(s)
    BY <1>4, <2>1 DEF RunDatabaseError, JobMoves
  <2>2. CASE slot[s] = "complete" /\ Goto(s, "fail") /\ UNCHANGED queueVars
    BY <1>2, <2>2 DEF SlotState
  <2> QED BY <1>4, <2>1, <2>2 DEF RunDatabaseError
<1>5. ASSUME NEW s \in Slots, CrashWorker(s) PROVE JobMoves
  BY <1>2, <1>5 DEF CrashWorker, Goto, SlotState
<1>6. ASSUME NEW s \in Slots, RestartWorker(s) PROVE JobMoves
  BY <1>1, <1>6 DEF RestartWorker, JobMoves, slotVars, queueVars
<1>7. ASSUME NEW s \in Slots, NEW k \in Keys, StepDatabaseError(s, k) PROVE JobMoves
  BY <1>1, <1>7 DEF StepDatabaseError, Rejects, queueVars
<1>8. ASSUME NEW j \in JobIds, NEW d \in Nat, Enqueue(j, d), UNCHANGED slotVars
      PROVE  JobMoves
  BY <1>8 DEF JobMoves, slotVars
<1>9. CASE ReconcilePendingRun
  BY <1>8, <1>9, JobIdsDiffer DEF ReconcilePendingRun
<1>10. ASSUME NEW k \in Keys, ReconcileDueRetry(k) PROVE JobMoves
  <2>1. RetryJob(k, attemptCount[k]) \in JobIds
    BY <1>0, <1>10, RowHasAttempt, JobIdsDiffer DEF ReconcileDueRetry
  <2> QED BY <1>8, <1>10, <2>1 DEF ReconcileDueRetry
<1>11. ASSUME NEW k \in Keys, NEW n \in Attempts, ReconcileExpiredLease(k, n)
       PROVE  JobMoves
  <2>1. CASE activeAttempt[k] = n
    <3>1. LeaseExpired(k, n)
      BY <1>11 DEF ReconcileExpiredLease, Abandon
    <3>2. RetryJob(k, attemptCount[k]) \in JobIds
      BY <1>0, <2>1, <3>1, ReleasedWasRunning, JobIdsDiffer
    <3> QED BY <1>8, <1>11, <2>1, <3>2 DEF ReconcileExpiredLease
  <2>2. CASE activeAttempt[k] # n
    BY <1>1, <1>11, <2>2 DEF ReconcileExpiredLease, queueVars, slotVars
  <2> QED BY <2>1, <2>2
<1>12. ASSUME NEW r \in Retriers, RetryRun(r) PROVE JobMoves
  <2>1. ReplayJob(workflowAttempt + 1) \in JobIds
    BY <1>12, JobIdsDiffer DEF RetryRun, EngineTypeOK
  <2> QED BY <1>1, <1>8, <1>12, <2>1 DEF RetryRun, queueVars, slotVars
<1>13. CASE \/ \E r \in Retriers : RetryReads(r)
            \/ \E r \in Cancellers : CancelReads(r) \/ CancelRun(r)
  BY <1>1, <1>13 DEF RetryReads, CancelReads, CancelRun, queueVars, slotVars
<1>14. CASE EngineTick
  BY <1>1, <1>14 DEF EngineTick, slotVars
<1>15. CASE UNCHANGED vars
  BY <1>1, <1>15 DEF vars, engineVars, queueVars, slotVars
<1>16. CASE \E s \in Slots, j \in JobIds : TakeJob(s, j)
  BY <1>16 DEF JobMoves
<1>17. CASE \E j \in JobIds : StalledJob(j)
  BY <1>17 DEF JobMoves
<1> HIDE DEF vars, JobMoves
<1> QED
  BY <1>3, <1>4, <1>5, <1>6, <1>7, <1>9, <1>10, <1>11, <1>12, <1>13, <1>14, <1>15,
     <1>16, <1>17 DEF EngineNext

\* Whoever works on a job goes on holding its lock, alone.
LEMMA JobsOwnedStep ==
    ASSUME EngineTypeOK, JobsOwned, JobMoves
    PROVE  JobsOwned'
<1>0. /\ slot \in [Slots -> SlotState] /\ job \in [JobIds -> JobState]
      /\ slotJob \in [Slots -> JobIds \union {NoJob}] /\ NoJob \notin JobIds
  BY JobIdsDiffer DEF EngineTypeOK
<1>1. CASE /\ UNCHANGED <<job, stalled, slotJob>>
           /\ \A s \in Slots :
                 /\ slot'[s] = "idle" <=> slot[s] = "idle"
                 /\ slot'[s] = "crashed" => slot[s] = "crashed" \/ CrashWorker(s)
  BY <1>1 DEF JobsOwned
<1>2. ASSUME NEW s \in Slots, NEW j \in JobIds, TakeJob(s, j) PROVE JobsOwned'
  <2>1. /\ slot' = [slot EXCEPT ![s] = "dispatch"] /\ slot[s] = "idle"
        /\ job' = [job EXCEPT ![j] = "active"] /\ job[j] = "queued"
        /\ slotJob' = [t \in Slots |-> IF t = s THEN j
                          ELSE IF slotJob[t] = j THEN NoJob ELSE slotJob[t]]
    BY <1>2 DEF TakeJob
  <2>2. \A t \in Slots : slotJob[t] # j
    BY <1>0, <2>1 DEF JobsOwned
  <2>3. \A t \in Slots : slotJob'[t] = IF t = s THEN j ELSE slotJob[t]
    BY <2>1, <2>2
  <2> QED BY <1>0, <2>1, <2>2, <2>3 DEF JobsOwned
<1>3. ASSUME NEW s \in Slots, SlotFreed(s),
             \A t \in Slots \ {s} : slotJob[t] # NoJob => job'[slotJob[t]] = "active"
      PROVE  JobsOwned'
  <2>1. /\ slot'[s] = "idle" /\ slotJob'[s] = NoJob
        /\ \A t \in Slots \ {s} : slot'[t] = slot[t] /\ slotJob'[t] = slotJob[t]
    BY <1>0, <1>3 DEF SlotFreed
  <2> QED BY <1>0, <1>3, <2>1 DEF JobsOwned
<1>4. ASSUME NEW s \in Slots, NEW t \in Slots \ {s}, slotJob[t] # NoJob
      PROVE  Kept(job, slotJob[s])[slotJob[t]] = "active"
  BY <1>0, <1>4 DEF JobsOwned, Kept
<1>5. ASSUME NEW s \in Slots, JobEnds(s) PROVE JobsOwned'
  BY <1>3, <1>4, <1>5 DEF JobEnds
<1>6. ASSUME NEW s \in Slots, SuspendRun(s) PROVE JobsOwned'
  <2>1. SlotFreed(s)
    BY <1>6 DEF SuspendRun
  <2>2. \/ job' = Kept(job, slotJob[s])
        \/ \E j : job' = Enqueued(Kept(job, slotJob[s]), j)
    BY <1>6 DEF SuspendRun
  <2>3. \A j, i \in JobIds : Kept(job, slotJob[s])[i] = "active"
            => Enqueued(Kept(job, slotJob[s]), j)[i] = "active"
    BY <1>0 DEF Enqueued, Kept
  <2>4. ASSUME NEW t \in Slots \ {s}, slotJob[t] # NoJob
        PROVE  job'[slotJob[t]] = "active"
    <3>1. slotJob[t] \in JobIds /\ Kept(job, slotJob[s])[slotJob[t]] = "active"
      BY <1>0, <1>4, <2>4
    <3>2. \A j : Enqueued(Kept(job, slotJob[s]), j)[slotJob[t]] = "active"
      BY <3>1 DEF Enqueued, Kept
    <3> QED BY <2>2, <3>1, <3>2
  <2> QED BY <1>3, <2>1, <2>4
<1>7. ASSUME NEW j \in JobIds, NEW d \in Nat, Enqueue(j, d), UNCHANGED <<slot, slotJob>>
      PROVE  JobsOwned'
  <2>1. \A i \in JobIds : job[i] = "active" => job'[i] = "active"
    BY <1>0, <1>7 DEF Enqueue, Enqueued
  <2> QED BY <1>0, <1>7, <2>1 DEF JobsOwned
<1>8. ASSUME NEW s \in Slots, SlotFreed(s), UNCHANGED queueVars PROVE JobsOwned'
  BY <1>3, <1>8 DEF queueVars, JobsOwned
<1>9. ASSUME NEW j \in JobIds, StalledJob(j) PROVE JobsOwned'
  <2>1. /\ \A s \in Slots : slotJob[s] # j
        /\ \A i \in JobIds \ {j} : job'[i] = job[i]
        /\ UNCHANGED <<slot, slotJob>>
    BY <1>0, <1>9 DEF StalledJob, slotVars
  <2> QED BY <1>0, <2>1 DEF JobsOwned
<1> QED BY <1>1, <1>2, <1>5, <1>6, <1>7, <1>8, <1>9 DEF JobMoves

\* A job stalls for the crash that left it, and no job stalls for the second time.
LEMMA StallsStep ==
    ASSUME EngineTypeOK, JobsOwned, JobsOwned', StallsCounted, JobMoves,
           Spared("crash")' => Spared("crash"),
           \A s \in Slots : CrashWorker(s) => Spared("crash") /\ ~ Spared("crash")'
    PROVE  StallsCounted'
<1>0. /\ slot \in [Slots -> SlotState] /\ job \in [JobIds -> JobState]
      /\ slotJob \in [Slots -> JobIds \union {NoJob}] /\ NoJob \notin JobIds
      /\ stalled \subseteq JobIds
  BY JobIdsDiffer DEF EngineTypeOK
<1>1. CASE /\ UNCHANGED <<job, stalled, slotJob>>
           /\ \A s \in Slots :
                 /\ slot'[s] = "idle" <=> slot[s] = "idle"
                 /\ slot'[s] = "crashed" => slot[s] = "crashed" \/ CrashWorker(s)
  <2>1. \A j \in JobIds : Unowned(j)' <=> Unowned(j)
    BY <1>1 DEF Unowned
  <2> QED BY <1>0, <1>1, <2>1 DEF StallsCounted
<1>2. ASSUME UNCHANGED stalled,
             \A j \in JobIds : Unowned(j)' => Unowned(j),
             \A s \in Slots : slot'[s] = "crashed" =>
                slot[s] = "crashed" /\ slotJob'[s] = slotJob[s]
      PROVE  StallsCounted'
  BY <1>0, <1>2 DEF StallsCounted
<1>3. ASSUME NEW s \in Slots, NEW j \in JobIds, TakeJob(s, j) PROVE StallsCounted'
  <2>1. /\ slot' = [slot EXCEPT ![s] = "dispatch"]
        /\ job' = [job EXCEPT ![j] = "active"] /\ job[j] = "queued"
        /\ slotJob' = [t \in Slots |-> IF t = s THEN j
                          ELSE IF slotJob[t] = j THEN NoJob ELSE slotJob[t]]
        /\ slot[s] = "idle" /\ UNCHANGED stalled
    BY <1>3 DEF TakeJob
  <2>2. \A t \in Slots : slotJob[t] # j /\ slotJob[s] = NoJob
    BY <1>0, <2>1 DEF JobsOwned
  <2>3. \A t \in Slots : slotJob'[t] = IF t = s THEN j ELSE slotJob[t]
    BY <2>1, <2>2
  <2>4. \A i \in JobIds : Unowned(i)' => Unowned(i)
    BY <1>0, <2>1, <2>2, <2>3 DEF Unowned
  <2>5. \A t \in Slots : slot'[t] = "crashed" =>
            slot[t] = "crashed" /\ slotJob'[t] = slotJob[t]
    BY <1>0, <2>1, <2>3
  <2> QED BY <1>2, <2>1, <2>4, <2>5
<1>4. ASSUME NEW s \in Slots, SlotFreed(s), UNCHANGED stalled,
             \A i \in JobIds : job'[i] = "active" => job[i] = "active" /\ slotJob[s] # i
      PROVE  StallsCounted'
  <2>1. /\ slot'[s] = "idle"
        /\ \A t \in Slots \ {s} : slot'[t] = slot[t] /\ slotJob'[t] = slotJob[t]
    BY <1>0, <1>4 DEF SlotFreed
  <2>2. \A i \in JobIds : Unowned(i)' => Unowned(i)
    BY <1>0, <1>4, <2>1 DEF Unowned
  <2> QED BY <1>2, <1>4, <2>1, <2>2
<1>5. ASSUME NEW s \in Slots, JobEnds(s) PROVE StallsCounted'
  BY <1>0, <1>4, <1>5 DEF JobEnds, Kept
<1>6. ASSUME NEW s \in Slots, SuspendRun(s) PROVE StallsCounted'
  <2>1. SlotFreed(s) /\ UNCHANGED stalled
    BY <1>6 DEF SuspendRun
  <2>2. \/ job' = Kept(job, slotJob[s])
        \/ \E j : job' = Enqueued(Kept(job, slotJob[s]), j)
    BY <1>6 DEF SuspendRun
  <2>3. \A i \in JobIds : job'[i] = "active" => Kept(job, slotJob[s])[i] = "active"
    BY <1>0, <2>2 DEF Enqueued, Kept
  <2> QED BY <1>0, <1>4, <2>1, <2>3 DEF Kept
<1>7. ASSUME NEW j \in JobIds, NEW d \in Nat, Enqueue(j, d), UNCHANGED <<slot, slotJob>>
      PROVE  StallsCounted'
  <2>1. \A i \in JobIds : Unowned(i)' => Unowned(i)
    BY <1>0, <1>7 DEF Enqueue, Enqueued, Unowned
  <2> QED BY <1>2, <1>7, <2>1 DEF Enqueue
<1>8. ASSUME NEW s \in Slots, slot[s] = "crashed", SlotFreed(s), UNCHANGED queueVars
      PROVE  StallsCounted'
  <2>1. /\ slot'[s] = "idle"
        /\ \A t \in Slots \ {s} : slot'[t] = slot[t] /\ slotJob'[t] = slotJob[t]
        /\ UNCHANGED <<job, stalled>>
    BY <1>0, <1>8 DEF SlotFreed, queueVars
  <2>2. \A i \in JobIds : Unowned(i)' => Unowned(i) \/ i = slotJob[s]
    BY <1>0, <2>1 DEF Unowned
  <2>3. ~ Spared("crash") /\ slotJob[s] \notin stalled
    BY <1>0, <1>8 DEF StallsCounted
  <2> QED BY <1>0, <2>1, <2>2, <2>3 DEF StallsCounted
<1>9. ASSUME NEW j \in JobIds, StalledJob(j) PROVE StallsCounted'
  <2>1. Unowned(j) /\ j \notin stalled /\ ~ Spared("crash")
    BY <1>9 DEF StalledJob, StallsCounted, Unowned
  <2>2. /\ job' = [job EXCEPT ![j] = "queued"]
        /\ stalled' = stalled \union {j} /\ UNCHANGED <<slot, slotJob>>
    BY <1>9, <2>1 DEF StalledJob, slotVars
  <2>3. \A i \in JobIds : Unowned(i)' => Unowned(i) /\ i # j
    BY <1>0, <2>2 DEF Unowned
  <2> QED BY <1>0, <2>1, <2>2, <2>3 DEF StallsCounted, Unowned
<1> QED BY <1>1, <1>3, <1>5, <1>6, <1>7, <1>8, <1>9 DEF JobMoves

\* Which jobs a step adds: the run's own, that of a retry that is due or of an
\* attempt that is abandoned, and that of a replay.
LEMMA NewJobs ==
    ASSUME EngineInv, RowsCounted, [EngineNext]_vars, ~ FlushRedis,
           NEW j \in JobIds, job[j] = "absent", job'[j] # "absent"
    PROVE  \/ j = RunJob
           \/ \E k \in Keys : /\ j = RetryJob(k, attemptCount[k])
                              /\ status[k] = "RETRY_WAIT"
                              /\ UNCHANGED <<status, attemptCount>>
                              /\ retryLeft'[k] <= jobDelay'[j]
           \/ \E k \in Keys : /\ j = RetryJob(k, attemptCount[k])
                              /\ Abandon(k, attemptCount[k])
                              /\ activeAttempt[k] = attemptCount[k]
           \/ \E k \in Keys, n \in Attempts : /\ ReconcileExpiredLease(k, n)
                                              /\ Fault("database")
           \/ \E r \in Retriers : RetryRun(r) /\ j = ReplayJob(workflowAttempt')
<1>0. EngineTypeOK /\ IInv /\ job \in [JobIds -> JobState]
  BY DEF EngineInv, EngineTypeOK
<1>1. ASSUME NEW s \in Slots PROVE Kept(job, slotJob[s])[j] = "absent"
  BY <1>0 DEF Kept
<1>2. ASSUME NEW i, NEW d, Enqueue(i, d) PROVE i = j
  BY <1>0, <1>2 DEF Enqueue, Enqueued
<1>3. job' # job
  BY <1>0
<1>4. ASSUME NEW s \in Slots, SlotStep(s)
      PROVE  \E k \in Keys : /\ j = RetryJob(k, attemptCount[k])
                             /\ status[k] = "RETRY_WAIT"
                             /\ UNCHANGED <<status, attemptCount>>
                             /\ retryLeft'[k] <= jobDelay'[j]
  <2>1. ~ JobEnds(s)
    BY <1>0, <1>1 DEF JobEnds
  <2>2. SuspendRun(s)
    BY <1>3, <1>4, <2>1 DEF SlotStep, DispatchJob, BlockRun, BeginExecution, StartRun,
       HandlerSettles, CompleteRun, FailRun, StepRun, StepProgress, queueVars
  <2>3. PICK k \in FirstRetry :
             LET i == RetryJob(k, attemptCount[k]) IN
             /\ job' = Enqueued(Kept(job, slotJob[s]), i)
             /\ jobDelay' = IF job[i] = "absent"
                            THEN [jobDelay EXCEPT ![i] = retryLeft[k]] ELSE jobDelay
    BY <1>0, <1>1, <2>2 DEF SuspendRun
  <2>4. j = RetryJob(k, attemptCount[k])
    BY <1>0, <1>1, <2>3 DEF Enqueued
  <2>5. k \in Keys /\ status[k] = "RETRY_WAIT" /\ UNCHANGED <<status, attemptCount>>
    BY <2>2 DEF FirstRetry, SuspendRun, stepVars, rows
  <2>6. jobDelay'[j] = retryLeft[k] /\ retryLeft[k] \in Nat /\ UNCHANGED retryLeft
    BY <1>0, <2>2, <2>3, <2>4, <2>5 DEF SuspendRun, stepVars, timers, EngineTypeOK, TypeOK
  <2> QED BY <2>4, <2>5, <2>6
<1>5. ASSUME NEW k \in Keys, ReconcileDueRetry(k)
      PROVE  /\ j = RetryJob(k, attemptCount[k])
             /\ status[k] = "RETRY_WAIT" /\ UNCHANGED <<status, attemptCount>>
             /\ retryLeft'[k] <= jobDelay'[j]
  <2>1. j = RetryJob(k, attemptCount[k]) /\ Enqueue(j, 0)
    BY <1>2, <1>5 DEF ReconcileDueRetry
  <2>2. jobDelay'[j] = 0
    BY <1>0, <2>1 DEF Enqueue, EngineTypeOK
  <2>3. retryLeft[k] = 0 /\ UNCHANGED <<retryLeft, status, attemptCount>>
    BY <1>5 DEF ReconcileDueRetry, stepVars, rows, timers
  <2> QED BY <1>5, <2>1, <2>2, <2>3 DEF ReconcileDueRetry
<1>6. ASSUME NEW k \in Keys, NEW n \in Attempts, ReconcileExpiredLease(k, n),
             ~ Fault("database")
      PROVE  /\ j = RetryJob(k, attemptCount[k])
             /\ Abandon(k, attemptCount[k]) /\ activeAttempt[k] = attemptCount[k]
  <2>1. Abandon(k, n)
    BY <1>6 DEF ReconcileExpiredLease
  <2>2. activeAttempt[k] = n /\ Enqueue(RetryJob(k, attemptCount[k]), 0)
    BY <1>3, <1>6 DEF ReconcileExpiredLease, queueVars
  <2>3. attemptCount[k] = n
    BY <1>0, <2>1, <2>2, ReleasedWasRunning DEF Abandon
  <2> QED BY <1>2, <2>1, <2>2, <2>3
<1>7. ASSUME NEW r \in Retriers, RetryRun(r) PROVE j = ReplayJob(workflowAttempt')
  <2>1. Enqueue(ReplayJob(workflowAttempt + 1), 0) /\ workflowAttempt' = workflowAttempt + 1
    BY <1>3, <1>7 DEF RetryRun, queueVars
  <2> QED BY <1>2, <2>1
<1>8. CASE ReconcilePendingRun
  BY <1>2, <1>8 DEF ReconcilePendingRun
<1>9. ~ EngineTick /\ ~ UNCHANGED vars
  BY <1>3 DEF EngineTick, vars, engineVars, queueVars
<1>10. ASSUME NEW s \in Slots, NEW i \in JobIds, TakeJob(s, i) PROVE FALSE
  BY <1>0, <1>10 DEF TakeJob
<1>11. ASSUME NEW i \in JobIds, StalledJob(i) PROVE FALSE
  BY <1>0, <1>11 DEF StalledJob
<1>12. ASSUME NEW s \in Slots,
              \/ \E k \in Keys : StepDatabaseError(s, k)
              \/ RunDatabaseError(s) \/ CrashWorker(s) \/ RestartWorker(s)
       PROVE  FALSE
  <2>1. ~ JobEnds(s)
    BY <1>0, <1>1 DEF JobEnds
  <2> QED BY <1>3, <1>12, <2>1 DEF StepDatabaseError, RunDatabaseError, CrashWorker,
     RestartWorker, queueVars
<1>13. ASSUME NEW r, RetryReads(r) \/ CancelReads(r) \/ CancelRun(r) PROVE FALSE
  BY <1>3, <1>13 DEF RetryReads, CancelReads, CancelRun, queueVars
<1> HIDE DEF vars
<1> QED
  BY <1>4, <1>5, <1>6, <1>7, <1>8, <1>9, <1>10, <1>11, <1>12, <1>13 DEF EngineNext

\* A job that is in Redis stays there.
LEMMA JobsStay ==
    ASSUME EngineTypeOK, JobMoves, NEW j \in JobIds, job[j] # "absent"
    PROVE  job'[j] # "absent"
<1>0. job \in [JobIds -> JobState]
  BY DEF EngineTypeOK
<1>1. ASSUME NEW s \in Slots, SuspendRun(s) PROVE job'[j] # "absent"
  <2>1. \/ job' = Kept(job, slotJob[s])
        \/ \E i : job' = Enqueued(Kept(job, slotJob[s]), i)
    BY <1>1 DEF SuspendRun
  <2> QED BY <1>0, <2>1 DEF Enqueued, Kept
<1> QED BY <1>0, <1>1 DEF JobMoves, TakeJob, JobEnds, Kept, Enqueue, Enqueued, StalledJob,
     queueVars

\* The job of a replay is added by the request that counts it.
LEMMA ReplaysNumberedStep ==
    ASSUME EngineInv, EngineTypeOK', RowsCounted, ReplaysNumbered,
           [EngineNext]_vars, ~ FlushRedis, workflowAttempt' >= workflowAttempt
    PROVE  ReplaysNumbered'
<1> SUFFICES ASSUME NEW n \in WorkflowAttempts, job'[ReplayJob(n)] # "absent"
             PROVE  n <= workflowAttempt'
  BY DEF ReplaysNumbered
<1>0. /\ ReplayJob(n) \in JobIds /\ n \in Nat
      /\ workflowAttempt \in Nat /\ workflowAttempt' \in Nat
  BY JobIdsDiffer, DoneRetriesBounded DEF WorkflowAttempts, EngineInv, EngineTypeOK
<1>1. CASE job[ReplayJob(n)] # "absent"
  BY <1>0, <1>1 DEF ReplaysNumbered
<1>2. CASE job[ReplayJob(n)] = "absent"
  <2>1. ReplayJob(n) = ReplayJob(workflowAttempt')
        \/ \E k \in Keys, m \in Attempts : ReconcileExpiredLease(k, m) /\ Fault("database")
    BY <1>0, <1>2, NewJobs, JobIdsDiffer
  <2>2. ASSUME NEW k \in Keys, NEW m \in Attempts, ReconcileExpiredLease(k, m)
        PROVE  FALSE
    <3>1. job' = job \/ job' = Enqueued(job, RetryJob(k, attemptCount[k]))
      BY <2>2 DEF ReconcileExpiredLease, Enqueue, queueVars
    <3>2. RetryJob(k, attemptCount[k]) # ReplayJob(n)
      BY JobIdsDiffer
    <3> QED BY <1>0, <1>2, <3>1, <3>2 DEF Enqueued, EngineInv, EngineTypeOK
  <2> QED BY <1>0, <2>1, <2>2, JobIdsDiffer
<1> QED BY <1>1, <1>2

\* workflow_attempt never goes back.
LEMMA AttemptsOfRunGrow ==
    ASSUME EngineTypeOK, [EngineNext]_vars
    PROVE  workflowAttempt' >= workflowAttempt
<1>0. workflowAttempt \in Nat
  BY DoneRetriesBounded DEF WorkflowAttempts, EngineTypeOK
<1>1. UNCHANGED workflowAttempt => workflowAttempt' >= workflowAttempt
  BY <1>0
<1>2. ASSUME NEW s \in Slots, SlotStep(s) PROVE UNCHANGED workflowAttempt
  BY <1>2 DEF SlotStep, DispatchJob, BlockRun, BeginExecution, StartRun, HandlerSettles,
     CompleteRun, FailRun, SuspendRun, StepRun, StepProgress, runVars
<1>3. ASSUME NEW r \in Retriers, RetryRun(r) PROVE workflowAttempt' >= workflowAttempt
  BY <1>0, <1>3 DEF RetryRun
<1>4. ASSUME NEW s \in Slots,
             \/ \E j \in JobIds : TakeJob(s, j)
             \/ \E k \in Keys : StepDatabaseError(s, k)
             \/ RunDatabaseError(s) \/ CrashWorker(s) \/ RestartWorker(s)
      PROVE  UNCHANGED workflowAttempt
  BY <1>4 DEF TakeJob, StepDatabaseError, RunDatabaseError, CrashWorker, RestartWorker, runVars
<1>5. CASE \/ \E j \in JobIds : StalledJob(j)
           \/ FlushRedis \/ ReconcilePendingRun
           \/ \E k \in Keys : ReconcileDueRetry(k)
           \/ \E k \in Keys, n \in Attempts : ReconcileExpiredLease(k, n)
           \/ \E r \in Retriers : RetryReads(r)
           \/ \E r \in Cancellers : CancelReads(r) \/ CancelRun(r)
           \/ EngineTick
           \/ UNCHANGED vars
  <2>1. UNCHANGED workflowAttempt
    BY <1>5 DEF StalledJob, FlushRedis, ReconcilePendingRun, ReconcileDueRetry,
       ReconcileExpiredLease, RetryReads, CancelReads, CancelRun, EngineTick, vars,
       engineVars, runVars
  <2> QED BY <1>1, <2>1
<1> HIDE DEF vars
<1> QED BY <1>1, <1>2, <1>3, <1>4, <1>5 DEF EngineNext

----------------------------------------------------------------------------
(* The jobs of retries, and the rows they are for.                          *)

\* A step that waits for its retry, or has failed, stays so until it is claimed.
LEMMA RetryRowsStay ==
    ASSUME IInv, [Next]_stepVars, NEW k \in Keys
    PROVE  \/ attemptCount'[k] = attemptCount[k] + 1 /\ status'[k] = "RUNNING"
           \/ /\ attemptCount'[k] = attemptCount[k]
              /\ status[k] \in {"RETRY_WAIT", "FAILED"} =>
                    status'[k] = status[k] /\ retryLeft'[k] <= retryLeft[k]
<1> DEFINE Stays == /\ attemptCount'[k] = attemptCount[k]
                    /\ status[k] \in {"RETRY_WAIT", "FAILED"} =>
                          status'[k] = status[k] /\ retryLeft'[k] <= retryLeft[k]
<1>0. TypeOK
  BY DEF IInv
<1>1. ASSUME UNCHANGED <<status, attemptCount, retryLeft>> PROVE Stays
  BY <1>0, <1>1 DEF TypeOK
<1>2. ASSUME NEW c \in Callers, ClaimStartsAttempt(c)
      PROVE  Stays \/ (attemptCount'[k] = attemptCount[k] + 1 /\ status'[k] = "RUNNING")
  <2>1. /\ status' = [status EXCEPT ![key[c]] = "RUNNING"]
        /\ attemptCount' = [attemptCount EXCEPT ![key[c]] = attemptCount[key[c]] + 1]
        /\ UNCHANGED retryLeft
    BY <1>2 DEF ClaimStartsAttempt, NextAttempt
  <2> QED BY <1>0, <2>1 DEF TypeOK
<1>3. ASSUME NEW c \in Callers, HandlerEnds(c) PROVE Stays
  <2>1. CASE RejectStale(c)
    BY <1>1, <2>1 DEF RejectStale, rows, timers
  <2>2. CASE ~ RejectStale(c)
    <3>1. /\ pc[c] = "handler" /\ Fenced(c) /\ UNCHANGED attemptCount
          /\ \A i \in Keys \ {key[c]} : status'[i] = status[i] /\ retryLeft'[i] = retryLeft[i]
      BY <1>0, <1>3, <2>2 DEF HandlerEnds, CompleteStep, FailTerminally, FailAndRetry,
         FailFenced, timers, TypeOK
    <3>2. status[key[c]] = "RUNNING"
      BY <3>1, FenceMeansRunning
    <3> QED BY <1>0, <3>1, <3>2 DEF TypeOK
  <2> QED BY <2>1, <2>2
<1>4. ASSUME NEW i \in Keys, NEW n \in Attempts, Abandon(i, n) PROVE Stays
  <2>1. CASE activeAttempt[i] # n
    BY <1>1, <1>4, <2>1 DEF Abandon
  <2>2. CASE activeAttempt[i] = n
    <3>1. status[i] = "RUNNING"
      BY <1>4, <2>2, ReleasedWasRunning DEF Abandon
    <3>2. /\ UNCHANGED attemptCount
          /\ \A h \in Keys \ {i} : status'[h] = status[h] /\ retryLeft'[h] = retryLeft[h]
      BY <1>0, <1>4, <2>2 DEF Abandon, ReleaseStep, TypeOK
    <3> QED BY <1>0, <3>1, <3>2 DEF TypeOK
  <2> QED BY <2>1, <2>2
<1>5. ASSUME NEW c \in Callers,
             \/ ClaimDecides(c) /\ ~ ClaimStartsAttempt(c)
             \/ RenewLease(c) \/ CallLost(c)
             \/ \E i \in Keys : ClaimSelect(c, i)
      PROVE  Stays
  BY <1>1, <1>5 DEF ClaimDecides, ClaimMemoized, ClaimSuspends, ClaimCollides,
     RenewLease, CallLost, ClaimSelect, rows, timers
<1>6. ASSUME Tick PROVE Stays
  <2>1. UNCHANGED <<status, attemptCount>> /\ retryLeft'[k] = Sooner(retryLeft[k])
    BY <1>6 DEF Tick, rows
  <2> QED BY <1>0, <2>1 DEF Sooner, TypeOK
<1>7. ASSUME UNCHANGED stepVars PROVE Stays
  BY <1>1, <1>7 DEF stepVars, rows, timers
<1> HIDE DEF stepVars, Stays
<1>8. ASSUME Next
      PROVE  Stays \/ (attemptCount'[k] = attemptCount[k] + 1 /\ status'[k] = "RUNNING")
  BY <1>2, <1>3, <1>4, <1>5, <1>6, <1>8 DEF Next
<1> QED BY <1>7, <1>8 DEF Stays

\* The job that retries an attempt is in Redis only when the attempt is over.
LEMMA RetryJobsFollowStep ==
    ASSUME EngineInv, RowsCounted, RetryJobsFollow,
           [EngineNext]_vars, ~ FlushRedis, ~ Fault("database")
    PROVE  RetryJobsFollow'
<1> SUFFICES ASSUME NEW k \in Keys, NEW n \in Attempts, job'[RetryJob(k, n)] # "absent"
             PROVE  \/ n < attemptCount'[k]
                    \/ n = attemptCount'[k] /\ status'[k] \in {"RETRY_WAIT", "FAILED"}
  BY DEF RetryJobsFollow
<1>0. /\ IInv /\ [Next]_stepVars
      /\ RetryJob(k, n) \in JobIds /\ n \in Nat /\ attemptCount[k] \in Nat
  BY EngineStepIsStep, JobIdsDiffer, RowHasAttempt, AttemptsPositive
     DEF EngineInv, IInv, TypeOK
<1>1. CASE job[RetryJob(k, n)] # "absent"
  <2>1. \/ n < attemptCount[k]
        \/ n = attemptCount[k] /\ status[k] \in {"RETRY_WAIT", "FAILED"}
    BY <1>1 DEF RetryJobsFollow
  <2> QED BY <1>0, <2>1, RetryRowsStay
<1>2. CASE job[RetryJob(k, n)] = "absent"
  <2>1. n = attemptCount[k]
    BY <1>0, <1>2, NewJobs, JobIdsDiffer
  <2>2. \/ status[k] = "RETRY_WAIT" /\ UNCHANGED <<status, attemptCount>>
        \/ Abandon(k, n) /\ activeAttempt[k] = n
    BY <1>0, <1>2, NewJobs, JobIdsDiffer
  <2>3. CASE Abandon(k, n) /\ activeAttempt[k] = n
    <3>1. status'[k] \in {"RETRY_WAIT", "FAILED"} /\ UNCHANGED attemptCount
      BY <1>0, <2>3 DEF Abandon, ReleaseStep, IInv, TypeOK
    <3> QED BY <2>1, <3>1
  <2> QED BY <2>1, <2>2, <2>3
<1> QED BY <1>1, <1>2

\* A step changes the delay of a job that it adds, and time shortens delays.
LEMMA DelaysKept ==
    ASSUME EngineTypeOK, [EngineNext]_vars, ~ FlushRedis, NEW j \in JobIds
    PROVE  \/ jobDelay'[j] = jobDelay[j]
           \/ job[j] = "absent" /\ job'[j] = "queued"
           \/ EngineTick
<1> DEFINE Same == \/ jobDelay'[j] = jobDelay[j]
                   \/ job[j] = "absent" /\ job'[j] = "queued"
<1>0. job \in [JobIds -> JobState] /\ jobDelay \in [JobIds -> Nat]
  BY DEF EngineTypeOK
<1>1. ASSUME NEW i, NEW d, Enqueue(i, d) PROVE Same
  BY <1>0, <1>1 DEF Enqueue, Enqueued
<1>2. ASSUME NEW s \in Slots, SlotStep(s) PROVE Same
  <2>1. CASE SuspendRun(s)
    <3>1. \/ UNCHANGED jobDelay
          \/ \E i, d : /\ job' = Enqueued(Kept(job, slotJob[s]), i)
                       /\ jobDelay' = IF job[i] = "absent" THEN [jobDelay EXCEPT ![i] = d]
                                                           ELSE jobDelay
      BY <2>1 DEF SuspendRun
    <3> QED BY <1>0, <3>1 DEF Enqueued, Kept
  <2>2. CASE ~ SuspendRun(s)
    BY <1>2, <2>2 DEF SlotStep, DispatchJob, BlockRun, BeginExecution, StartRun,
       HandlerSettles, CompleteRun, FailRun, StepRun, StepProgress, queueVars, JobEnds
  <2> QED BY <2>1, <2>2
<1>3. ASSUME NEW s \in Slots,
             \/ \E i \in JobIds : TakeJob(s, i)
             \/ \E k \in Keys : StepDatabaseError(s, k)
             \/ RunDatabaseError(s) \/ CrashWorker(s) \/ RestartWorker(s)
      PROVE  Same
  BY <1>3 DEF TakeJob, StepDatabaseError, RunDatabaseError, CrashWorker, RestartWorker,
     JobEnds, queueVars
<1>4. CASE \/ ReconcilePendingRun
           \/ \E k \in Keys : ReconcileDueRetry(k)
           \/ \E r \in Retriers : RetryRun(r)
           \/ \E k \in Keys, n \in Attempts : ReconcileExpiredLease(k, n)
  BY <1>1, <1>4 DEF ReconcilePendingRun, ReconcileDueRetry, RetryRun,
     ReconcileExpiredLease, queueVars
<1>5. CASE \/ \E i \in JobIds : StalledJob(i)
           \/ \E r \in Retriers : RetryReads(r)
           \/ \E r \in Cancellers : CancelReads(r) \/ CancelRun(r)
           \/ UNCHANGED vars
  BY <1>5 DEF StalledJob, RetryReads, CancelReads, CancelRun, queueVars, vars, engineVars
<1> HIDE DEF vars
<1> QED BY <1>2, <1>3, <1>4, <1>5 DEF EngineNext

\* A job that is queued stays so until it is due and a worker takes it.
LEMMA QueuedStays ==
    ASSUME EngineTypeOK, JobMoves, NEW j \in JobIds, job[j] = "queued"
    PROVE  job'[j] = "queued" \/ \E s \in Slots : TakeJob(s, j)
<1>0. job \in [JobIds -> JobState]
  BY DEF EngineTypeOK
<1>1. ASSUME NEW s \in Slots, SuspendRun(s) PROVE job'[j] = "queued"
  <2>1. \/ job' = Kept(job, slotJob[s])
        \/ \E i : job' = Enqueued(Kept(job, slotJob[s]), i)
    BY <1>1 DEF SuspendRun
  <2> QED BY <1>0, <2>1 DEF Enqueued, Kept
<1>2. ASSUME NEW s \in Slots, NEW i \in JobIds, TakeJob(s, i)
      PROVE  job'[j] = "queued" \/ TakeJob(s, j)
  <2>1. job' = [job EXCEPT ![i] = "active"]
    BY <1>2 DEF TakeJob
  <2> QED BY <1>0, <1>2, <2>1
<1> QED BY <1>0, <1>1, <1>2 DEF JobMoves, JobEnds, Kept, Enqueue, Enqueued, StalledJob,
     queueVars

\* A retry's job is delayed until the retry is due.
LEMMA RetryJobsWaitStep ==
    ASSUME EngineInv, EngineTypeOK', RowsCounted, RetryJobsFollow, RetryJobsWait,
           [EngineNext]_vars, ~ FlushRedis, ~ Fault("database"), JobMoves
    PROVE  RetryJobsWait'
<1>0. /\ IInv /\ [Next]_stepVars /\ EngineTypeOK
      /\ jobDelay \in [JobIds -> Nat] /\ jobDelay' \in [JobIds -> Nat]
      /\ retryLeft \in [Keys -> Nat] /\ retryLeft' \in [Keys -> Nat]
      /\ attemptCount \in [Keys -> Attempts \union {Null}]
  BY EngineStepIsStep DEF EngineInv, EngineTypeOK, IInv, TypeOK
<1>1. ASSUME NEW j \in JobIds, jobDelay'[j] > 0 PROVE job'[j] = "queued"
  <2>1. CASE jobDelay'[j] = jobDelay[j]
    <3>1. job[j] = "queued" /\ jobDelay[j] # 0
      BY <1>0, <1>1, <2>1 DEF RetryJobsWait
    <3> QED BY <1>0, <3>1, QueuedStays DEF TakeJob
  <2>2. CASE EngineTick
    <3>1. jobDelay'[j] = Sooner(jobDelay[j]) /\ UNCHANGED job
      BY <1>0, <2>2 DEF EngineTick
    <3>2. jobDelay[j] > 0
      BY <1>0, <1>1, <3>1 DEF Sooner
    <3> QED BY <3>1, <3>2 DEF RetryJobsWait
  <2> QED BY <1>0, <2>1, <2>2, DelaysKept
<1>2. ASSUME NEW k \in Keys, NEW n \in Attempts, job'[RetryJob(k, n)] # "absent",
             n = attemptCount'[k], status'[k] = "RETRY_WAIT"
      PROVE  retryLeft'[k] <= jobDelay'[RetryJob(k, n)]
  <2> DEFINE j == RetryJob(k, n)
  <2>0. j \in JobIds /\ n \in Nat
    BY JobIdsDiffer, AttemptsPositive
  <2>1. CASE job[j] = "absent"
    <3>1. n = attemptCount[k] /\ \/ retryLeft'[k] <= jobDelay'[j]
                                 \/ Abandon(k, n) /\ activeAttempt[k] = n
      BY <1>0, <1>2, <2>0, <2>1, NewJobs, JobIdsDiffer
    <3>2. CASE Abandon(k, n) /\ activeAttempt[k] = n
      <4>1. retryLeft'[k] = 0
        BY <1>0, <1>2, <3>2 DEF Abandon, ReleaseStep, IInv, TypeOK
      <4> QED BY <1>0, <2>0, <4>1
    <3> QED BY <3>1, <3>2
  <2>2. CASE job[j] # "absent"
    <3>1. \/ n < attemptCount[k]
          \/ n = attemptCount[k] /\ status[k] \in {"RETRY_WAIT", "FAILED"}
      BY <2>2 DEF RetryJobsFollow
    <3>2. /\ n = attemptCount[k] /\ status[k] = "RETRY_WAIT"
          /\ retryLeft'[k] <= retryLeft[k]
      BY <1>0, <1>2, <2>0, <3>1, RetryRowsStay
    <3>3. retryLeft[k] <= jobDelay[j]
      BY <2>2, <3>2 DEF RetryJobsWait
    <3>4. CASE jobDelay'[j] = jobDelay[j]
      BY <1>0, <2>0, <3>2, <3>3, <3>4
    <3>5. CASE EngineTick
      <4>1. retryLeft'[k] = Sooner(retryLeft[k]) /\ jobDelay'[j] = Sooner(jobDelay[j])
        BY <2>0, <3>5 DEF EngineTick, Tick
      <4> QED BY <1>0, <2>0, <3>3, <4>1 DEF Sooner
    <3> QED BY <1>0, <2>0, <2>2, <3>4, <3>5, DelaysKept
  <2> QED BY <2>1, <2>2
<1> QED BY <1>1, <1>2 DEF RetryJobsWait

----------------------------------------------------------------------------
(* Faults.                                                                  *)

\* Faults are counted, one at a time.
LEMMA FaultsCounted ==
    ASSUME EngineTypeOK, [EngineNext]_vars
    PROVE  UNCHANGED faults \/ \E kind \in Faults : Fault(kind)
<1>1. ASSUME NEW s \in Slots, SlotStep(s)
      PROVE  UNCHANGED faults \/ Fault("enqueue")
  BY <1>1 DEF SlotStep, DispatchJob, BlockRun, BeginExecution, StartRun, HandlerSettles,
     CompleteRun, FailRun, SuspendRun, StepRun, StepProgress, apiVars
<1>2. ASSUME NEW s \in Slots,
             \/ \E j \in JobIds : TakeJob(s, j)
             \/ \E k \in Keys : StepDatabaseError(s, k)
             \/ RunDatabaseError(s) \/ CrashWorker(s) \/ RestartWorker(s)
      PROVE  UNCHANGED faults \/ Fault("database") \/ Fault("crash")
  BY <1>2 DEF TakeJob, StepDatabaseError, RunDatabaseError, CrashWorker, RestartWorker, apiVars
<1>3. CASE \/ \E j \in JobIds : StalledJob(j)
           \/ FlushRedis \/ ReconcilePendingRun
           \/ \E k \in Keys : ReconcileDueRetry(k)
           \/ \E k \in Keys, n \in Attempts : ReconcileExpiredLease(k, n)
           \/ \E r \in Retriers : RetryReads(r) \/ RetryRun(r)
           \/ \E r \in Cancellers : CancelReads(r) \/ CancelRun(r)
           \/ EngineTick
           \/ UNCHANGED vars
  <2>1. \/ UNCHANGED faults
        \/ Fault("flush") \/ Fault("database") \/ Fault("enqueue") \/ Fault("slow")
    BY <1>3 DEF StalledJob, FlushRedis, ReconcilePendingRun, ReconcileDueRetry,
       ReconcileExpiredLease, RetryReads, RetryRun, CancelReads, CancelRun, EngineTick,
       vars, engineVars, apiVars
  <2> QED BY <2>1 DEF Fault
<1> HIDE DEF vars
<1>4. ASSUME EngineNext
      PROVE  \/ UNCHANGED faults \/ \E kind \in Faults : Fault(kind)
             \/ Fault("enqueue") \/ Fault("database") \/ Fault("crash")
  BY <1>1, <1>2, <1>3, <1>4 DEF EngineNext
<1> QED BY <1>3, <1>4 DEF Fault

\* Until a fault has happened, no step is one.
LEMMA NoFaultYet ==
    ASSUME EngineTypeOK, [EngineNext]_vars, faults' = 0
    PROVE  faults = 0 /\ \A kind : ~ Fault(kind)
<1>1. faults \in Nat
  BY FaultsAssumption DEF EngineTypeOK
<1> QED BY <1>1, FaultsCounted DEF Fault

\* Nor is any that is not harmless.
LEMMA CalmYet ==
    ASSUME EngineTypeOK, [EngineNext]_vars, Calm'
    PROVE  Calm /\ \A kind : Fault(kind) => kind \in Harmless
<1>1. CASE Faults \subseteq Harmless
  BY <1>1 DEF Calm, Fault
<1>2. CASE faults' = 0
  BY <1>2, NoFaultYet DEF Calm
<1> QED BY <1>1, <1>2 DEF Calm

\* What the code is spared in an undisturbed run.
LEMMA SparedFaults ==
    ASSUME Undisturbed, EngineTypeOK, [EngineNext]_vars
    PROVE  /\ ~ FlushRedis /\ ~ Fault("database")
           /\ \A r : r \notin Cancellers
           /\ Fault("enqueue") => Retriers = {}
           /\ Spared("crash")' => Spared("crash")
           /\ \A s \in Slots : CrashWorker(s) => Spared("crash") /\ ~ Spared("crash")'
<1>1. faults \in Nat /\ FaultBound \in Nat
  BY FaultsAssumption DEF EngineTypeOK
<1>2. /\ ~ FlushRedis /\ ~ Fault("database")
      /\ \A r : r \notin Cancellers
      /\ Fault("enqueue") => Retriers = {}
  BY DEF Undisturbed, FlushRedis, Fault
<1>3. Spared("crash")' => Spared("crash")
  BY NoFaultYet DEF Spared
<1>4. ASSUME NEW s \in Slots, CrashWorker(s) PROVE Spared("crash") /\ ~ Spared("crash")'
  BY <1>1, <1>4 DEF CrashWorker, Fault, Spared, Undisturbed
<1> QED BY <1>2, <1>3, <1>4

\* With the run's version in every registry, the run is never blocked.
LEMMA NeverBlockedStep ==
    ASSUME Compatible = Slots, EngineTypeOK, NeverBlocked, [EngineNext]_vars
    PROVE  NeverBlocked'
<1>0. slot \in [Slots -> SlotState]
  BY DEF EngineTypeOK
<1>1. ASSUME UNCHANGED <<blocked, slot>> PROVE NeverBlocked'
  BY <1>1 DEF NeverBlocked
<1>2. ASSUME NEW s \in Slots, NEW where, where # "block", slot' = [slot EXCEPT ![s] = where],
             UNCHANGED blocked \/ blocked' = FALSE
      PROVE  NeverBlocked'
  BY <1>0, <1>2 DEF NeverBlocked
<1>3. ASSUME NEW s \in Slots, JobEnds(s), UNCHANGED blocked PROVE NeverBlocked'
  BY <1>2, <1>3 DEF JobEnds, SlotFreed
<1>4. ASSUME NEW s \in Slots, SlotStep(s) PROVE NeverBlocked'
  <2>1. CASE DispatchJob(s)
    BY <1>2, <1>3, <2>1 DEF DispatchJob, Goto, runVars
  <2>2. CASE BlockRun(s)
    BY <2>2 DEF BlockRun, NeverBlocked
  <2>3. CASE BeginExecution(s) \/ StartRun(s)
    BY <1>2, <1>3, <2>3 DEF BeginExecution, StartRun, Goto, runVars
  <2>4. CASE HandlerSettles(s)
    BY <1>2, <1>3, <2>4 DEF HandlerSettles, Goto, runVars
  <2>5. CASE CompleteRun(s) \/ FailRun(s) \/ SuspendRun(s)
    BY <1>2, <1>3, <2>5 DEF CompleteRun, FailRun, SuspendRun, SlotFreed, runVars
  <2>6. CASE \E k \in Keys : StepRun(s, k) \/ StepProgress(s, k)
    BY <1>1, <2>6 DEF StepRun, StepProgress, Rejects, runVars, slotVars
  <2> QED BY <1>4, <2>1, <2>2, <2>3, <2>4, <2>5, <2>6 DEF SlotStep
<1>5. ASSUME NEW s \in Slots,
             \/ \E j \in JobIds : TakeJob(s, j)
             \/ CrashWorker(s) \/ RestartWorker(s)
      PROVE  NeverBlocked'
  BY <1>1, <1>2, <1>5 DEF TakeJob, CrashWorker, RestartWorker, SlotFreed, runVars, slotVars
<1>6. ASSUME NEW s \in Slots, RunDatabaseError(s) \/ \E k \in Keys : StepDatabaseError(s, k)
      PROVE  NeverBlocked'
  BY <1>1, <1>2, <1>3, <1>6 DEF RunDatabaseError, StepDatabaseError, Goto, Rejects, runVars
<1>7. CASE \/ \E j \in JobIds : StalledJob(j)
           \/ FlushRedis \/ ReconcilePendingRun
           \/ \E k \in Keys : ReconcileDueRetry(k)
           \/ \E k \in Keys, n \in Attempts : ReconcileExpiredLease(k, n)
           \/ \E r \in Retriers : RetryReads(r) \/ RetryRun(r)
           \/ \E r \in Cancellers : CancelReads(r) \/ CancelRun(r)
           \/ EngineTick
           \/ UNCHANGED vars
  BY <1>1, <1>7 DEF StalledJob, FlushRedis, ReconcilePendingRun, ReconcileDueRetry,
     ReconcileExpiredLease, RetryReads, RetryRun, CancelReads, CancelRun, EngineTick,
     vars, engineVars, runVars, slotVars
<1> HIDE DEF vars
<1> QED BY <1>4, <1>5, <1>6, <1>7 DEF EngineNext

----------------------------------------------------------------------------
(* A run that is not lost goes on.                                          *)

\* A pass that calls nothing, or whose call's handler has the fence, is live.
LEMMA HandlerIsLive ==
    ASSUME NEW s \in Slots, slot'[s] = "handler", rejection'[s] \in {"none", "error"},
           \A k \in Keys : pc'[<<s, k>>] = "handler" => Fenced(<<s, k>>)'
    PROVE  Live(s)'
BY DEF Live

\* A step that leaves a pass and its fences alone leaves it live.
LEMMA LiveKept ==
    ASSUME NEW s \in Slots, Live(s), slot'[s] = slot[s], rejection'[s] = rejection[s],
           \A k \in Keys : pc'[<<s, k>>] = "handler" =>
               pc[<<s, k>>] = "handler" /\ (Fenced(<<s, k>>) => Fenced(<<s, k>>)')
    PROVE  Live(s)'
BY DEF Live

\* What keeps a run from being lost is kept by a step that touches none of it.
LEMMA ContinuesFrame ==
    ASSUME Continues, UNCHANGED <<runStatus, blocked, status, attemptCount>>,
           \A j \in JobIds : job[j] = "queued" => job'[j] = "queued",
           \A j \in JobIds : Unowned(j) => Unowned(j)',
           \A s \in Slots : Live(s) => Live(s)',
           IInv, RowsCounted,
           \A j \in JobIds : job[j] = "absent" => job'[j] \in {"absent", "queued"}
    PROVE  Continues'
<1>1. CASE runStatus \in Terminal
  BY <1>1 DEF Continues
<1>2. CASE Queued \/ (\E j \in JobIds : Unowned(j)) \/ \E s \in Slots : Live(s)
  BY <1>2 DEF Continues, Queued
<1>3. CASE Reconcilable
  <2>1. CASE runStatus = "PENDING" /\ ~ blocked /\ job[RunJob] = "absent"
    <3>1. RunJob \in JobIds /\ job'[RunJob] \in {"absent", "queued"}
      BY <2>1, JobIdsDiffer
    <3> QED BY <2>1, <3>1 DEF Continues, Queued, Reconcilable
  <2>2. ASSUME NEW k \in Keys, status[k] \in {"RUNNING", "RETRY_WAIT"},
               job[RetryJob(k, attemptCount[k])] = "absent"
        PROVE  Continues'
    <3>1. RetryJob(k, attemptCount[k]) \in JobIds
      BY <2>2, RowHasAttempt, JobIdsDiffer
    <3>2. job'[RetryJob(k, attemptCount'[k])] \in {"absent", "queued"}
      BY <2>2, <3>1
    <3> QED BY <2>2, <3>1, <3>2 DEF Continues, Queued, Reconcilable
  <2> QED BY <1>3, <2>1, <2>2 DEF Reconcilable
<1> QED BY <1>1, <1>2, <1>3 DEF Continues

\* The claim of a step, or the end of its handler, from a pass that calls it.
LEMMA ProgressContinues ==
    ASSUME Sequential, ContinuationInv, NEW s \in Slots, NEW k \in Keys,
           StepRun(s, k) \/ StepProgress(s, k)
    PROVE  Continues'
<1>0. /\ IInv /\ EngineTypeOK /\ TypeOK /\ PassOK(s) /\ OneAtATime(s)
      /\ RowsCounted /\ RetryJobsFollow /\ RetryJobsWait /\ Continues
      /\ <<s, k>> \in Callers /\ key[<<s, k>>] = k
  BY CallIsCaller DEF ContinuationInv, EngineInv, EngineTypeOK, PassOK
<1>1. /\ slot[s] = "handler" /\ UNCHANGED <<slot, slotJob, job, jobDelay, runStatus, blocked>>
  BY DEF StepRun, StepProgress, Rejects, queueVars, runVars, slotVars
<1>2. ASSUME StepRun(s, k) PROVE Live(s)'
  <2>1. pc' = [pc EXCEPT ![<<s, k>>] = "selecting"] /\ k \in Ready(s)
        /\ UNCHANGED rejection
    BY <1>2 DEF StepRun, ClaimSelect
  <2>2. \A i \in Keys : pc[<<s, i>>] = "idle"
    BY <1>0, <2>1, NothingReady DEF OneAtATime, PassOK
  <2>3. rejection[s] = "none"
    <3>1. called[s] \subseteq Keys
      BY <1>0 DEF EngineTypeOK
    <3> QED BY <1>0, <2>1, <3>1, NothingReady DEF OneAtATime
  <2>4. \A i \in Keys : pc'[<<s, i>>] # "handler"
    BY <1>0, <2>1, <2>2 DEF TypeOK
  <2> QED BY <1>1, <2>1, <2>3, <2>4, HandlerIsLive
<1> DEFINE Ends == pc' = [pc EXCEPT ![<<s, k>>] = "idle"]
<1>3. ASSUME pc[<<s, k>>] # "idle", Ends, rejection'[s] \in {"none", "error"}
      PROVE  Live(s)'
  <2>1. \A i \in Keys : pc'[<<s, i>>] = "idle"
    BY <1>0, <1>3, OneCall DEF TypeOK
  <2> QED BY <1>1, <1>3, <2>1, HandlerIsLive
<1>4. ASSUME pc[<<s, k>>] # "idle" PROVE rejection[s] = "none"
  BY <1>0, <1>4 DEF OneAtATime
<1>5. ASSUME ClaimStartsAttempt(<<s, k>>), UNCHANGED slotVars PROVE Live(s)'
  <2>1. /\ pc' = [pc EXCEPT ![<<s, k>>] = "handler"] /\ pc[<<s, k>>] = "selecting"
        /\ \E n : /\ held' = [held EXCEPT ![<<s, k>>] = n]
                  /\ activeAttempt' = [activeAttempt EXCEPT ![k] = n]
        /\ UNCHANGED <<key, rejection>>
    BY <1>0, <1>5 DEF ClaimStartsAttempt, FenceMoves, slotVars, passVars
  <2>2. Fenced(<<s, k>>)'
    BY <1>0, <2>1 DEF TypeOK, Fenced
  <2>3. \A i \in Keys \ {k} : pc'[<<s, i>>] = "idle"
    BY <1>0, <2>1, OneCall DEF TypeOK
  <2> QED BY <1>1, <1>4, <2>1, <2>2, <2>3, HandlerIsLive
<1>6. ASSUME ClaimMemoized(<<s, k>>) \/ CompleteStep(<<s, k>>), UNCHANGED rejection
      PROVE  Live(s)'
  BY <1>3, <1>4, <1>6 DEF ClaimMemoized, CompleteStep, CallEnds
<1>7. ASSUME Rejects(s, "error"),
             \/ ClaimCollides(<<s, k>>)
             \/ \E how : FailTerminally(<<s, k>>, how)
      PROVE  Live(s)'
  <2>1. pc[<<s, k>>] # "idle" /\ Ends
    BY <1>7 DEF ClaimCollides, FailTerminally, FailFenced, CallEnds
  <2>2. rejection'[s] = "error"
    BY <1>0, <1>4, <1>7, <2>1 DEF Rejects, EngineTypeOK
  <2> QED BY <1>3, <2>1, <2>2
<1>8. ASSUME ClaimSuspends(<<s, k>>) PROVE Continues'
  <2>2. /\ status[k] = "RUNNING" \/ (status[k] = "RETRY_WAIT" /\ retryLeft[k] > 0)
        /\ UNCHANGED <<status, attemptCount>>
    BY <1>0, <1>8 DEF ClaimSuspends, SeesRetryWait, SeesLocked, RowSeen, rows
  <2>3. attemptCount[k] \in Attempts /\ RetryJob(k, attemptCount[k]) \in JobIds
    BY <1>0, <2>2, RowHasAttempt, JobIdsDiffer
  <2>4. CASE job[RetryJob(k, attemptCount[k])] = "absent"
    BY <1>1, <2>2, <2>4 DEF Continues, Reconcilable
  <2>5. CASE job[RetryJob(k, attemptCount[k])] # "absent"
    <3>1. attemptCount[k] \in Nat /\ retryLeft[k] \in Nat
          /\ jobDelay[RetryJob(k, attemptCount[k])] \in Nat
      BY <1>0, <2>3, AttemptsPositive DEF TypeOK, EngineTypeOK
    <3>2. status[k] = "RETRY_WAIT" /\ retryLeft[k] > 0
      BY <1>0, <2>2, <2>3, <2>5, <3>1 DEF RetryJobsFollow
    <3>3. retryLeft[k] <= jobDelay[RetryJob(k, attemptCount[k])]
      BY <1>0, <2>3, <2>5, <3>2 DEF RetryJobsWait
    <3>4. job[RetryJob(k, attemptCount[k])] = "queued"
      BY <1>0, <2>3, <3>1, <3>2, <3>3 DEF RetryJobsWait
    <3> QED BY <1>1, <2>3, <3>4 DEF Continues, Queued
  <2> QED BY <2>4, <2>5
<1>9. ASSUME NEW how, FailAndRetry(<<s, k>>, how) PROVE Continues'
  <2>1. /\ pc[<<s, k>>] = "handler" /\ Fenced(<<s, k>>)
        /\ status' = [status EXCEPT ![k] = "RETRY_WAIT"] /\ UNCHANGED attemptCount
    BY <1>0, <1>9 DEF FailAndRetry, FailFenced
  <2>2. status[k] = "RUNNING"
    BY <1>0, <2>1, FenceMeansRunning
  <2>3. attemptCount[k] \in Attempts /\ attemptCount[k] \in Nat
    BY <1>0, <2>2, RowHasAttempt, AttemptsPositive
  <2>4. job[RetryJob(k, attemptCount[k])] = "absent"
    BY <1>0, <2>2, <2>3 DEF RetryJobsFollow
  <2> QED BY <1>0, <1>1, <2>1, <2>4 DEF Continues, Reconcilable, TypeOK
<1>10. ASSUME RejectStale(<<s, k>>) PROVE Continues'
  <2>1. /\ pc[<<s, k>>] = "handler" /\ ~ Fenced(<<s, k>>)
        /\ UNCHANGED <<status, attemptCount, activeAttempt>>
        /\ pc' = [pc EXCEPT ![<<s, k>>] = "idle"]
        /\ held' = [held EXCEPT ![<<s, k>>] = Null] /\ UNCHANGED key
    BY <1>10 DEF RejectStale, CallEnds, rows
  <2>2. ~ Live(s)
    BY <1>1, <2>1 DEF Live
  <2>3. ASSUME NEW t \in Slots, Live(t) PROVE Live(t)'
    <3>1. t # s
      BY <2>2, <2>3
    <3>2. \A i \in Keys : pc'[<<t, i>>] = pc[<<t, i>>] /\ held'[<<t, i>>] = held[<<t, i>>]
      BY <1>0, <2>1, <3>1, CallIsCaller DEF TypeOK
    <3>3. rejection'[t] = rejection[t]
      <4>1. UNCHANGED rejection \/ \E why : Rejects(s, why)
        BY DEF StepRun, StepProgress, slotVars, passVars
      <4> QED BY <1>0, <3>1, <4>1 DEF Rejects, EngineTypeOK
    <3> QED BY <1>1, <2>1, <2>3, <3>2, <3>3, LiveKept DEF Fenced
  <2>4. \A j \in JobIds : Unowned(j) => Unowned(j)'
    BY <1>1 DEF Unowned
  <2> QED BY <1>0, <1>1, <2>1, <2>3, <2>4, ContinuesFrame
<1>11. Live(s)' => Continues'
  BY DEF Continues
<1> QED BY <1>2, <1>5, <1>6, <1>7, <1>8, <1>9, <1>10, <1>11 DEF StepProgress

\* A job that nobody works on stays so until BullMQ finds it stalled.
LEMMA UnownedStays ==
    ASSUME EngineTypeOK, JobMoves, NEW j \in JobIds, Unowned(j), ~ StalledJob(j)
    PROVE  Unowned(j)'
<1>0. /\ job \in [JobIds -> JobState] /\ slotJob \in [Slots -> JobIds \union {NoJob}]
      /\ NoJob # j
  BY JobIdsDiffer DEF EngineTypeOK
<1>1. ASSUME NEW s \in Slots, NEW i \in JobIds, TakeJob(s, i) PROVE Unowned(j)'
  <2>1. /\ i # j /\ job' = [job EXCEPT ![i] = "active"]
        /\ slotJob' = [t \in Slots |-> IF t = s THEN i
                          ELSE IF slotJob[t] = i THEN NoJob ELSE slotJob[t]]
    BY <1>1 DEF TakeJob, Unowned
  <2> QED BY <1>0, <2>1 DEF Unowned
<1>2. ASSUME NEW s \in Slots, SlotFreed(s), job'[j] = "active" PROVE Unowned(j)'
  BY <1>0, <1>2 DEF SlotFreed, Unowned
<1>3. ASSUME NEW s \in Slots PROVE Kept(job, slotJob[s])[j] = "active"
  BY DEF Kept, Unowned
<1>4. ASSUME NEW s \in Slots, SuspendRun(s) PROVE Unowned(j)'
  <2>1. \/ job' = Kept(job, slotJob[s])
        \/ \E i : job' = Enqueued(Kept(job, slotJob[s]), i)
    BY <1>4 DEF SuspendRun
  <2>2. \A i : Enqueued(Kept(job, slotJob[s]), i)[j] = "active"
    BY <1>3 DEF Enqueued, Kept
  <2>3. job'[j] = "active"
    BY <1>3, <2>1, <2>2
  <2> QED BY <1>2, <1>4, <2>3 DEF SuspendRun
<1>5. ASSUME NEW s \in Slots, JobEnds(s) PROVE Unowned(j)'
  BY <1>2, <1>3, <1>5 DEF JobEnds
<1>6. ASSUME NEW s \in Slots, SlotFreed(s), UNCHANGED queueVars PROVE Unowned(j)'
  BY <1>2, <1>6 DEF queueVars, Unowned
<1>7. ASSUME NEW i \in JobIds, NEW d \in Nat, Enqueue(i, d), UNCHANGED slotJob
      PROVE  Unowned(j)'
  BY <1>0, <1>7 DEF Enqueue, Enqueued, Unowned
<1>8. ASSUME NEW i \in JobIds, StalledJob(i) PROVE Unowned(j)'
  BY <1>0, <1>8 DEF StalledJob, slotVars, Unowned
<1>9. CASE UNCHANGED <<job, stalled, slotJob>>
  BY <1>9 DEF Unowned
<1> QED BY <1>1, <1>4, <1>5, <1>6, <1>7, <1>8, <1>9 DEF JobMoves

\* A job that is not in Redis is queued when it is added.
LEMMA AbsentIsQueued ==
    ASSUME EngineTypeOK, JobMoves, NEW j \in JobIds, job[j] = "absent"
    PROVE  job'[j] \in {"absent", "queued"}
<1>0. job \in [JobIds -> JobState]
  BY DEF EngineTypeOK
<1>1. ASSUME NEW s \in Slots, SuspendRun(s) PROVE job'[j] \in {"absent", "queued"}
  <2>1. \/ job' = Kept(job, slotJob[s])
        \/ \E i : job' = Enqueued(Kept(job, slotJob[s]), i)
    BY <1>1 DEF SuspendRun
  <2> QED BY <1>0, <2>1 DEF Enqueued, Kept
<1> QED BY <1>0, <1>1 DEF JobMoves, TakeJob, JobEnds, Kept, Enqueue, Enqueued, StalledJob,
     queueVars

\* A step that changes no row and ends no live pass loses no run.
LEMMA QuietContinues ==
    ASSUME EngineTypeOK, ContinuationInv, JobMoves,
           UNCHANGED <<runStatus, blocked, status, attemptCount>>,
           \A s \in Slots, j \in JobIds : ~ TakeJob(s, j),
           \A j \in JobIds : ~ StalledJob(j),
           \A s \in Slots : Live(s) => Live(s)'
    PROVE  Continues'
<1>1. Continues /\ IInv /\ RowsCounted
  BY DEF ContinuationInv, EngineInv
<1> QED BY <1>1, ContinuesFrame, QueuedStays, UnownedStays, AbsentIsQueued

\* A step of a slot outside its calls.
LEMMA SlotContinues ==
    ASSUME Sequential, ContinuationInv, JobMoves, NEW s \in Slots, SlotStep(s)
    PROVE  Continues'
<1>0. /\ EngineTypeOK /\ PassOK(s) /\ NeverBlocked /\ slot \in [Slots -> SlotState]
      /\ rejection \in [Slots -> Rejection]
  BY DEF ContinuationInv, EngineInv, EngineTypeOK
<1>1. runStatus' \in Terminal => Continues'
  BY DEF Continues
<1>2. Live(s)' => Continues'
  BY DEF Continues
<1>3. ASSUME NEW where, slot' = [slot EXCEPT ![s] = where],
             where \notin {"idle", "handler", "suspend"}
      PROVE  Continues'
  BY <1>0, <1>2, <1>3 DEF Live
<1>4. ASSUME slot' = [slot EXCEPT ![s] = "handler"], UNCHANGED <<rejection, pc>>,
             slot[s] \in {"begin", "start"}
      PROVE  Continues'
  <2>1. rejection[s] = "none" /\ \A k \in Keys : pc[<<s, k>>] = "idle"
    BY <1>0, <1>4 DEF PassOK
  <2>2. slot'[s] = "handler" /\ \A k \in Keys : pc'[<<s, k>>] = "idle"
    BY <1>0, <1>4, <2>1
  <2> QED BY <1>2, <1>4, <2>1, <2>2, HandlerIsLive
<1>5. CASE DispatchJob(s)
  <2>1. CASE JobEnds(s) /\ runStatus \in Terminal
    BY <1>1, <1>5, <2>1 DEF DispatchJob, runVars
  <2>2. CASE Goto(s, "begin") \/ Goto(s, "block")
    BY <1>3, <2>2 DEF Goto
  <2> QED BY <1>5, <2>1, <2>2 DEF DispatchJob
<1>6. CASE BlockRun(s)
  BY <1>0, <1>6 DEF BlockRun, NeverBlocked
<1>7. CASE BeginExecution(s)
  <2>1. CASE JobEnds(s) /\ runStatus \in {"COMPLETED", "CANCELLED"}
    BY <1>1, <1>7, <2>1 DEF BeginExecution, runVars, Terminal
  <2>2. CASE Goto(s, "start")
    BY <1>3, <2>2 DEF Goto
  <2>3. CASE Goto(s, "handler")
    BY <1>4, <1>7, <2>3 DEF BeginExecution, Goto, stepVars, callers, passVars
  <2> QED BY <1>7, <2>1, <2>2, <2>3 DEF BeginExecution
<1>8. CASE StartRun(s)
  BY <1>4, <1>8 DEF StartRun, Goto, stepVars, callers, passVars
<1>9. ASSUME UNCHANGED stepVars, UNCHANGED runVars, ~ Live(s),
             \A t \in Slots \ {s} : slot'[t] = slot[t] /\ rejection'[t] = rejection[t],
             slot[s] # "idle", slot'[s] # slot[s]
      PROVE  Continues'
  <2>1. UNCHANGED <<runStatus, blocked, status, attemptCount, activeAttempt, pc, held, key>>
    BY <1>9 DEF stepVars, runVars, rows, callers
  <2>2. \A t \in Slots : Live(t) => Live(t)'
    BY <1>9, <2>1, LiveKept DEF Fenced
  <2>3. \A t \in Slots, j \in JobIds : ~ TakeJob(t, j)
    <3>1. SUFFICES ASSUME NEW t \in Slots, NEW j \in JobIds, TakeJob(t, j) PROVE FALSE
      OBVIOUS
    <3>2. slot[t] = "idle" /\ slot'[t] = "dispatch"
      BY <1>0, <3>1 DEF TakeJob
    <3> QED BY <1>9, <3>2
  <2>4. \A j \in JobIds : ~ StalledJob(j)
    <3>1. SUFFICES ASSUME NEW j \in JobIds, StalledJob(j) PROVE FALSE
      OBVIOUS
    <3>2. UNCHANGED <<slot, slotJob>>
      BY <3>1 DEF StalledJob, slotVars
    <3> QED BY <1>9, <3>2
  <2> QED BY <1>0, <2>1, <2>2, <2>3, <2>4, QuietContinues
<1>10. CASE HandlerSettles(s)
  <2>1. CASE rejection[s] \in {"none", "error"}
    BY <1>3, <1>10, <2>1 DEF HandlerSettles, Goto
  <2>2. CASE rejection[s] \in {"suspended", "stale"}
    <3>1. ~ Live(s) /\ slot[s] # "idle" /\ UNCHANGED stepVars /\ UNCHANGED runVars
      BY <1>10, <2>2 DEF HandlerSettles, Live
    <3>2. /\ \A t \in Slots \ {s} : slot'[t] = slot[t] /\ rejection'[t] = rejection[t]
          /\ slot'[s] # slot[s]
      BY <1>0, <1>10 DEF HandlerSettles, JobEnds, SlotFreed, Goto, passVars
    <3> QED BY <1>9, <3>1, <3>2
  <2> QED BY <1>0, <2>1, <2>2 DEF Rejection
<1>11. CASE CompleteRun(s) \/ FailRun(s)
  BY <1>1, <1>11 DEF CompleteRun, FailRun, Terminal
<1>12. CASE SuspendRun(s)
  <2>1. ~ Live(s) /\ slot[s] # "idle" /\ UNCHANGED stepVars /\ UNCHANGED runVars
    BY <1>12 DEF SuspendRun, Live
  <2>2. /\ \A t \in Slots \ {s} : slot'[t] = slot[t] /\ rejection'[t] = rejection[t]
        /\ slot'[s] # slot[s]
    BY <1>0, <1>12 DEF SuspendRun, SlotFreed
  <2> QED BY <1>9, <2>1, <2>2
<1>13. CASE \E k \in Keys : StepRun(s, k) \/ StepProgress(s, k)
  BY <1>13, ProgressContinues
<1> QED BY <1>5, <1>6, <1>7, <1>8, <1>10, <1>11, <1>12, <1>13 DEF SlotStep

\* Every step of the engine leaves an undisturbed run something to go on with.
LEMMA ContinuesStep ==
    ASSUME Sequential, Undisturbed, ContinuationInv, EngineTypeOK', JobMoves,
           [EngineNext]_vars
    PROVE  Continues'
<1>0. /\ EngineTypeOK /\ IInv /\ RowsCounted /\ Continues /\ JobsOwned /\ StallsCounted
      /\ slot \in [Slots -> SlotState] /\ job \in [JobIds -> JobState]
      /\ slotJob \in [Slots -> JobIds \union {NoJob}]
      /\ ~ FlushRedis /\ ~ Fault("database") /\ \A r : r \notin Cancellers
  BY SparedFaults DEF ContinuationInv, EngineInv, EngineTypeOK
<1>1. Queued' => Continues'
  BY DEF Continues
<1>2. \A s \in Slots : Live(s)' => Continues'
  BY DEF Continues
<1>3. ASSUME UNCHANGED <<status, attemptCount, activeAttempt, pc, held, key>>,
             UNCHANGED runVars, UNCHANGED slotVars, \A j \in JobIds : ~ StalledJob(j)
      PROVE  Continues'
  <2>1. \A s \in Slots : Live(s) => Live(s)'
    BY <1>3, LiveKept DEF slotVars, passVars, Fenced
  <2>2. \A s \in Slots, j \in JobIds : ~ TakeJob(s, j)
    BY <1>0, <1>3 DEF TakeJob, slotVars
  <2> QED BY <1>0, <1>3, <2>1, <2>2, QuietContinues DEF runVars
<1>4. ASSUME NEW j \in JobIds, job[j] = "absent", Enqueue(j, 0) PROVE Continues'
  <2>1. job'[j] = "queued"
    BY <1>0, <1>4 DEF Enqueue, Enqueued
  <2> QED BY <1>1, <2>1 DEF Queued
<1>5. ASSUME NEW j \in JobIds, job[j] # "absent", Enqueue(j, 0), UNCHANGED stepVars,
             UNCHANGED runVars, UNCHANGED slotVars
      PROVE  Continues'
  <2>1. UNCHANGED job
    BY <1>5 DEF Enqueue, Enqueued
  <2>2. \A i \in JobIds : ~ StalledJob(i)
    BY <1>0, <2>1 DEF StalledJob
  <2> QED BY <1>3, <1>5, <2>2 DEF stepVars, rows, callers
<1>6. ASSUME NEW s \in Slots, NEW j \in JobIds, TakeJob(s, j) PROVE Continues'
  BY <1>0, <1>2, <1>6 DEF TakeJob, Live
<1>7. ASSUME NEW s \in Slots, CrashWorker(s) PROVE Continues'
  BY <1>0, <1>2, <1>7 DEF CrashWorker, Live
<1>8. ASSUME NEW s \in Slots, RestartWorker(s) PROVE Continues'
  <2>1. CASE UNCHANGED slotVars
    BY <1>2, <1>8, <2>1 DEF RestartWorker, slotVars, Live
  <2>2. CASE SlotFreed(s)
    <3>1. /\ slotJob[s] \in JobIds /\ job[slotJob[s]] = "active"
          /\ \A t \in Slots \ {s} : slotJob[t] # slotJob[s]
      BY <1>0, <1>8 DEF RestartWorker, JobsOwned
    <3>2. /\ \A t \in Slots : slotJob'[t] = IF t = s THEN NoJob ELSE slotJob[t]
          /\ UNCHANGED job
      BY <1>0, <1>8, <2>2 DEF RestartWorker, SlotFreed, queueVars
    <3>3. \A t \in Slots : slotJob'[t] # slotJob[s]
      BY <3>1, <3>2, JobIdsDiffer
    <3>4. \E j \in JobIds : Unowned(j)'
      BY <3>1, <3>2, <3>3 DEF Unowned
    <3> QED BY <3>4 DEF Continues
  <2> QED BY <1>8, <2>1, <2>2 DEF RestartWorker
<1>9. ASSUME NEW j \in JobIds, StalledJob(j) PROVE Continues'
  <2>1. j \notin stalled
    BY <1>0, <1>9 DEF StalledJob, StallsCounted, Unowned
  <2>2. job'[j] = "queued"
    BY <1>0, <1>9, <2>1 DEF StalledJob
  <2> QED BY <1>1, <2>2 DEF Queued
<1>10. CASE ReconcilePendingRun
  BY <1>4, <1>5, <1>10, JobIdsDiffer DEF ReconcilePendingRun
<1>11. ASSUME NEW k \in Keys, ReconcileDueRetry(k) PROVE Continues'
  <2>1. RetryJob(k, attemptCount[k]) \in JobIds
    BY <1>0, <1>11, RowHasAttempt, JobIdsDiffer DEF ReconcileDueRetry
  <2> QED BY <1>4, <1>5, <1>11, <2>1 DEF ReconcileDueRetry
<1>12. ASSUME NEW k \in Keys, NEW n \in Attempts, ReconcileExpiredLease(k, n)
       PROVE  Continues'
  <2>1. Abandon(k, n) /\ UNCHANGED runVars /\ UNCHANGED slotVars
    BY <1>0, <1>12 DEF ReconcileExpiredLease
  <2>2. CASE activeAttempt[k] = n
    <3>1. status[k] = "RUNNING" /\ attemptCount[k] = n
      BY <1>0, <2>1, <2>2, ReleasedWasRunning DEF Abandon
    <3>2. RetryJob(k, attemptCount[k]) \in JobIds /\ n \in Nat
      BY <3>1, JobIdsDiffer, AttemptsPositive
    <3>3. job[RetryJob(k, attemptCount[k])] = "absent"
      BY <3>1, <3>2 DEF ContinuationInv, RetryJobsFollow
    <3> QED BY <1>4, <1>12, <2>2, <3>2, <3>3 DEF ReconcileExpiredLease
  <2>3. CASE activeAttempt[k] # n
    <3>1. UNCHANGED <<status, attemptCount, activeAttempt, pc, held, key>>
      BY <2>1, <2>3 DEF Abandon, callers
    <3>2. \A j \in JobIds : ~ StalledJob(j)
      BY <1>0, <1>12, <2>3 DEF ReconcileExpiredLease, queueVars, StalledJob
    <3> QED BY <1>3, <2>1, <3>1, <3>2
  <2> QED BY <2>2, <2>3
<1>13. ASSUME NEW r \in Retriers, RetryRun(r) PROVE Continues'
  <2>1. ~ Fault("enqueue")
    BY <1>0, <1>13, SparedFaults
  <2>2. /\ Enqueue(ReplayJob(workflowAttempt + 1), 0) /\ workflowAttempt' = workflowAttempt + 1
        /\ workflowAttempt \in WorkflowAttempts /\ workflowAttempt' \in WorkflowAttempts
    BY <1>0, <1>13, <2>1 DEF RetryRun, EngineTypeOK
  <2>3. workflowAttempt + 1 \in WorkflowAttempts /\ workflowAttempt \in Nat
    BY <2>2 DEF WorkflowAttempts
  <2>4. job[ReplayJob(workflowAttempt + 1)] = "absent"
    BY <2>3 DEF ContinuationInv, ReplaysNumbered
  <2> QED BY <1>4, <2>2, <2>3, <2>4, JobIdsDiffer
<1>14. CASE EngineTick
  <2>1. UNCHANGED <<status, attemptCount, activeAttempt, pc, held, key>>
    BY <1>14 DEF EngineTick, Tick, rows
  <2>2. \A j \in JobIds : ~ StalledJob(j)
    BY <1>0, <1>14 DEF EngineTick, StalledJob
  <2> QED BY <1>3, <1>14, <2>1, <2>2 DEF EngineTick
<1>15. CASE (\E r \in Retriers : RetryReads(r)) \/ UNCHANGED vars
  <2>1. UNCHANGED <<job, stalled>> /\ UNCHANGED <<stepVars, runVars, slotVars>>
    BY <1>15 DEF RetryReads, vars, engineVars, queueVars
  <2>2. \A j \in JobIds : ~ StalledJob(j)
    BY <1>0, <2>1 DEF StalledJob
  <2> QED BY <1>3, <2>1, <2>2 DEF stepVars, rows, callers
<1>16. ASSUME NEW s \in Slots, SlotStep(s) PROVE Continues'
  BY <1>16, SlotContinues
<1>17. \A s \in Slots : ~ RunDatabaseError(s) /\ \A k \in Keys : ~ StepDatabaseError(s, k)
  BY <1>0 DEF StepDatabaseError, RunDatabaseError
<1> HIDE DEF vars
<1> QED
  BY <1>0, <1>6, <1>7, <1>8, <1>9, <1>10, <1>11, <1>12, <1>13, <1>14, <1>15, <1>16, <1>17
     DEF EngineNext

\* The invariant holds before the first step.
LEMMA InitContinuation == EngineInit => ContinuationInv
<1> SUFFICES ASSUME EngineInit PROVE ContinuationInv
  OBVIOUS
<1>1. EngineInv
  BY EngineInitInv
<1>2. /\ slot = [s \in Slots |-> "idle"] /\ slotJob = [s \in Slots |-> NoJob]
      /\ called = [s \in Slots |-> {}] /\ returned = [s \in Slots |-> {}]
      /\ rejection = [s \in Slots |-> "none"] /\ pc = [c \in Callers |-> "idle"]
      /\ status = [k \in Keys |-> "NoRow"] /\ attemptCount = [k \in Keys |-> Null]
      /\ jobDelay = [j \in JobIds |-> 0] /\ stalled = {}
      /\ runStatus = "PENDING" /\ blocked = FALSE
  BY DEF EngineInit, Init
<1>3. /\ job[RunJob] \in {"queued", "absent"} /\ RunJob \in JobIds
      /\ \A j \in JobIds : j # RunJob => job[j] = "absent"
      /\ \A j \in JobIds : job[j] # "active"
  BY JobIdsDiffer DEF EngineInit
<1>4. \A s \in Slots : OneAtATime(s)
  BY <1>2 DEF OneAtATime
<1>5. JobsOwned /\ StallsCounted
  BY <1>2, <1>3 DEF JobsOwned, StallsCounted, Unowned
<1>6. RowsCounted
  BY <1>2 DEF RowsCounted
<1>7. ReplaysNumbered /\ RetryJobsFollow
  BY <1>3, JobIdsDiffer DEF ReplaysNumbered, RetryJobsFollow
<1>8. RetryJobsWait /\ NeverBlocked
  BY <1>2, <1>3, JobIdsDiffer DEF RetryJobsWait, NeverBlocked
<1>9. Continues
  BY <1>2, <1>3 DEF Continues, Queued, Reconcilable
<1> QED BY <1>1, <1>4, <1>5, <1>6, <1>7, <1>8, <1>9 DEF ContinuationInv

\* And after every step.
LEMMA ContinuationStep ==
    ASSUME Sequential, Undisturbed, ContinuationInv, [EngineNext]_vars
    PROVE  ContinuationInv'
<1>0. /\ EngineInv /\ EngineTypeOK /\ IInv /\ [Next]_stepVars
      /\ \A s \in Slots : OneAtATime(s)
      /\ JobsOwned /\ StallsCounted /\ RowsCounted /\ ReplaysNumbered
      /\ RetryJobsFollow /\ RetryJobsWait /\ NeverBlocked
  BY EngineStepIsStep DEF ContinuationInv, EngineInv
<1>1. EngineInv' /\ EngineTypeOK'
  BY <1>0, EngineInvStep DEF EngineInv
<1>2. /\ ~ FlushRedis /\ ~ Fault("database")
      /\ Spared("crash")' => Spared("crash")
      /\ \A s \in Slots : CrashWorker(s) => Spared("crash") /\ ~ Spared("crash")'
  BY <1>0, SparedFaults
<1>3. JobMoves
  BY <1>0, <1>1, <1>2, StepMovesJobs
<1>4. JobsOwned' /\ StallsCounted'
  BY <1>0, <1>2, <1>3, JobsOwnedStep, StallsStep
<1>5. RowsCounted'
  BY <1>0, RowsCountedStep
<1>6. ReplaysNumbered'
  BY <1>0, <1>1, <1>2, ReplaysNumberedStep, AttemptsOfRunGrow
<1>7. RetryJobsFollow' /\ RetryJobsWait'
  BY <1>0, <1>1, <1>2, <1>3, RetryJobsFollowStep, RetryJobsWaitStep
<1>8. NeverBlocked'
  BY <1>0, NeverBlockedStep DEF Undisturbed
<1>9. Continues'
  BY <1>1, <1>3, ContinuesStep
<1>10. \A s \in Slots : OneAtATime(s)'
  BY <1>0, OneAtATimeStep
<1> QED BY <1>1, <1>4, <1>5, <1>6, <1>7, <1>8, <1>9, <1>10 DEF ContinuationInv

\* Of an undisturbed run with sequential steps, there is always something that
\* will go on with it, in the strong form of Continues: a job that waits, a pass
\* that may still write the end, or a row for which the reconciler adds a job.
THEOREM RunContinues ==
    ASSUME Sequential, Undisturbed
    PROVE  EngineSpec => []ContinuationInv
<1>1. ContinuationInv /\ [EngineNext]_vars => ContinuationInv'
  BY ContinuationStep
<1> QED BY <1>1, InitContinuation, PTL DEF EngineSpec

\* Such a run is never lost: one that has not ended has a job, a worker that is
\* at it, or a row for which the reconciler (the three passes of reconciler.ts)
\* will add a job that Redis does not hold.
THEOREM NoRunIsLost ==
    ASSUME Sequential, Undisturbed
    PROVE  EngineSpec => []NoRunLost
<1>1. ContinuationInv => NoRunLost
  BY DEF ContinuationInv, Continues, NoRunLost, Queued, Unowned, Live
<1> QED BY <1>1, RunContinues, PTL
=============================================================================
