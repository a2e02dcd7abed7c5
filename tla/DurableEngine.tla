--------------------------- MODULE DurableEngine ----------------------------
(***************************************************************************)
(* One workflow run from its creation to its end: the run's row in          *)
(* workflow_runs, the steps of StepFencing, the BullMQ queue with its job   *)
(* ids, workers that process jobs (processJob and WorkflowExecutor.execute),*)
(* the reconciler, and the API's retry and cancel requests.                 *)
(*                                                                          *)
(* A slot is one place of a worker process that handles one job at a time.  *)
(* The executeStep calls of StepFencing are the pairs <<slot, key>>: the    *)
(* workflow's handler calls step.run(key) at most once in each pass.        *)
(***************************************************************************)
EXTENDS StepFencing

CONSTANTS
    Slots,          \* worker slots
    Compatible,     \* the slots whose registry has the run's version
    Stage,          \* the handler awaits all steps of a stage before the next
    NoKey,          \* in place of the step in a job id that names none
    Retriers,       \* POST /runs/:id/retry requests
    Cancellers,     \* POST /runs/:id/cancel requests
    Faults,         \* the kinds of fault that may happen
    FaultBound,     \* bound: how many faults happen in all
    SlowHandlers    \* whether handlers may outlive their leases at any time

\* "slow" is a handler that outlives its lease, where SlowHandlers is FALSE.
FaultKinds == {"crash", "flush", "enqueue", "database", "slow"}

ASSUME CallersAssumption == Callers = Slots \X Keys
ASSUME CompatibleAssumption == Compatible \subseteq Slots
ASSUME StageAssumption == Stage \in [Keys -> Nat]
ASSUME FaultsAssumption == Faults \subseteq FaultKinds /\ FaultBound \in Nat
ASSUME RetriersAssumption == IsFiniteSet(Retriers)
ASSUME SlowAssumption == SlowHandlers \in BOOLEAN

RunStatus == {"PENDING", "RUNNING", "COMPLETED", "FAILED",
              "CANCEL_REQUESTED", "CANCELLED"}
SlotState == {"idle", "dispatch", "block", "begin", "start", "handler",
              "complete", "fail", "suspend", "crashed"}
Rejection == {"none", "suspended", "stale", "error"}
JobState == {"absent", "queued", "active", "kept"}

\* run_<run>, retry_<run>_<step>_<attemptCount>, replay_<run>_attempt_<n>.
RunJob == <<"run", NoKey, 0>>
\* Mutant: the id of a retry does not count the attempts.
RetryJobOfStep(k, n) == <<"retry", k, 1>>
RetryJob(k, n) == <<"retry", k, n>>
ReplayJob(n) == <<"replay", NoKey, n>>
WorkflowAttempts == 1..(Cardinality(Retriers) + 1)
JobIds == {RunJob} \union {RetryJob(k, n) : k \in Keys, n \in Attempts}
            \union {ReplayJob(n) : n \in WorkflowAttempts}
NoJob == <<"none", NoKey, 0>>

VARIABLES
    runStatus,        \* workflow_runs.status
    blocked,          \* blocked_reason = WORKFLOW_VERSION_UNAVAILABLE
    workflowAttempt,  \* workflow_runs.workflow_attempt
    job,              \* each job id in Redis
    jobDelay,         \* ticks until a delayed job may be delivered
    stalled,          \* the jobs BullMQ has found stalled once
    slot,             \* where each slot is in processJob and execute
    slotJob,          \* the job the slot works on
    called,           \* the keys the current pass has called step.run with
    returned,         \* the keys whose step.run returned in this pass
    rejection,        \* the first rejection of this pass
    request,          \* the API requests' progress
    faults            \* how many faults have happened

runVars == <<runStatus, blocked, workflowAttempt>>
queueVars == <<job, jobDelay, stalled>>
passVars == <<called, returned, rejection>>
slotVars == <<slot, slotJob, passVars>>
apiVars == <<request, faults>>
engineVars == <<runVars, queueVars, slotVars, apiVars>>
vars == <<stepVars, engineVars>>

Requests == Retriers \union Cancellers
RequestState == {"new", "retrying", "cancelPending", "cancelRunning", "done"}

EngineTypeOK ==
    /\ TypeOK
    /\ runStatus \in RunStatus
    /\ blocked \in BOOLEAN
    /\ workflowAttempt \in WorkflowAttempts
    /\ job \in [JobIds -> JobState]
    /\ jobDelay \in [JobIds -> Nat]
    /\ stalled \in SUBSET JobIds
    /\ slot \in [Slots -> SlotState]
    /\ slotJob \in [Slots -> JobIds \union {NoJob}]
    /\ called \in [Slots -> SUBSET Keys]
    /\ returned \in [Slots -> SUBSET Keys]
    /\ rejection \in [Slots -> Rejection]
    /\ request \in [Requests -> RequestState]
    /\ faults \in 0..FaultBound

\* A fault of one kind, within the bound.
Fault(kind) == kind \in Faults /\ faults < FaultBound /\ faults' = faults + 1

\* Mutant: the queue is made with removeOnComplete and removeOnFail.
EnqueuedAnew(jobs, j) ==
    IF jobs[j] \in {"absent", "kept"} THEN [jobs EXCEPT ![j] = "queued"] ELSE jobs

\* queue.add: an id that is in Redis in any state is not added again, and no
\* job is removed when it completes or fails.
Enqueued(jobs, j) == IF jobs[j] = "absent" THEN [jobs EXCEPT ![j] = "queued"] ELSE jobs

Enqueue(j, delay) ==
    /\ job' = Enqueued(job, j)
    /\ jobDelay' = IF job[j] = "absent" THEN [jobDelay EXCEPT ![j] = delay] ELSE jobDelay
    /\ UNCHANGED stalled

\* POST /runs has committed the PENDING run; its enqueue may have been lost.
EngineInit ==
    /\ Init
    /\ key = [c \in Callers |-> c[2]]
    /\ runStatus = "PENDING"
    /\ blocked = FALSE
    /\ workflowAttempt = 1
    /\ job \in {[j \in JobIds |-> IF j = RunJob THEN st ELSE "absent"] :
                   st \in IF "enqueue" \in Faults THEN {"queued", "absent"} ELSE {"queued"}}
    /\ jobDelay = [j \in JobIds |-> 0]
    /\ stalled = {}
    /\ slot = [s \in Slots |-> "idle"]
    /\ slotJob = [s \in Slots |-> NoJob]
    /\ called = [s \in Slots |-> {}]
    /\ returned = [s \in Slots |-> {}]
    /\ rejection = [s \in Slots |-> "none"]
    /\ request = [r \in Requests |-> "new"]
    /\ faults = 0

----------------------------------------------------------------------------
(* processJob up to the executor: take a job, read the run, check version.  *)

Terminal == {"COMPLETED", "FAILED", "CANCELLED"}

\* The lock on the job, lost by a worker that had it before, is s's now.
TakeJob(s, j) ==
    /\ slot[s] = "idle"
    /\ job[j] = "queued" /\ jobDelay[j] = 0
    /\ job' = [job EXCEPT ![j] = "active"]
    /\ slot' = [slot EXCEPT ![s] = "dispatch"]
    /\ slotJob' = [t \in Slots |-> IF t = s THEN j
                                   ELSE IF slotJob[t] = j THEN NoJob ELSE slotJob[t]]
    /\ UNCHANGED <<stepVars, runVars, jobDelay, stalled, passVars, apiVars>>

Goto(s, where) ==
    /\ slot' = [slot EXCEPT ![s] = where]
    /\ UNCHANGED <<slotJob, passVars>>

\* The job's processor returned or threw: BullMQ keeps the id either way.
Kept(jobs, j) ==
    [i \in JobIds |-> IF i = j /\ jobs[i] = "active" THEN "kept" ELSE jobs[i]]

SlotFreed(s) ==
    /\ slot' = [slot EXCEPT ![s] = "idle"]
    /\ slotJob' = [slotJob EXCEPT ![s] = NoJob]
    /\ called' = [called EXCEPT ![s] = {}]
    /\ returned' = [returned EXCEPT ![s] = {}]
    /\ rejection' = [rejection EXCEPT ![s] = "none"]

JobEnds(s) ==
    /\ SlotFreed(s)
    /\ job' = Kept(job, slotJob[s])
    /\ UNCHANGED <<jobDelay, stalled>>

\* The workflow has no concurrency limit.  (With one, a job that is refused its
\* slot is added again with a delay, under a new id, and that may fail: see
\* ConcurrencySlots for the slots and PendingScan for a job that fails so.)
DispatchJob(s) ==
    /\ slot[s] = "dispatch"
    /\ \/ runStatus \in Terminal /\ JobEnds(s)
       \/ /\ runStatus \notin Terminal
          /\ Goto(s, IF s \in Compatible THEN "begin" ELSE "block")
          /\ UNCHANGED queueVars
    /\ UNCHANGED <<stepVars, runVars, apiVars>>

\* The registry lacks the version: PENDING and blocked, whatever it is by now.
BlockRun(s) ==
    /\ slot[s] = "block"
    /\ runStatus' = "PENDING"
    /\ blocked' = TRUE
    /\ JobEnds(s)
    /\ UNCHANGED <<stepVars, workflowAttempt, apiVars>>

----------------------------------------------------------------------------
(* WorkflowExecutor.execute.                                                *)

BeginExecution(s) ==
    /\ slot[s] = "begin"
    /\ \/ runStatus \in {"COMPLETED", "CANCELLED"} /\ JobEnds(s)
       \/ /\ runStatus \notin {"COMPLETED", "CANCELLED"}
          /\ Goto(s, IF runStatus \in {"PENDING", "FAILED"} THEN "start" ELSE "handler")
          /\ UNCHANGED queueVars
    /\ UNCHANGED <<stepVars, runVars, apiVars>>

\* WORKFLOW_STARTED: the status the decision was taken on is not checked again.
StartRun(s) ==
    /\ slot[s] = "start"
    /\ runStatus' = "RUNNING"
    /\ blocked' = FALSE
    /\ Goto(s, "handler")
    /\ UNCHANGED <<stepVars, workflowAttempt, queueVars, apiVars>>

Before(k) == {i \in Keys : Stage[i] < Stage[k]}
\* Mutant: every step of the handler is called at once.
ReadyAtOnce(s) == Keys \ called[s]

\* The handler reaches step.run(k) once the stages before it have returned.
Ready(s) == {k \in Keys \ called[s] : Before(k) \subseteq returned[s]}

StepRun(s, k) ==
    /\ slot[s] = "handler"
    /\ k \in Ready(s)
    /\ ClaimSelect(<<s, k>>, k)
    /\ called' = [called EXCEPT ![s] = @ \union {k}]
    /\ UNCHANGED <<runVars, queueVars, slot, slotJob, returned, rejection, apiVars>>

\* Mutant: the catch clause treats WorkflowSuspendedError like any error.
RejectsAlike(s, why) ==
    /\ rejection' = [rejection EXCEPT ![s] = "error"]
    /\ UNCHANGED <<slot, slotJob, called, returned>>

Rejects(s, why) ==
    /\ rejection' = [rejection EXCEPT ![s] = IF @ = "none" THEN why ELSE @]
    /\ UNCHANGED <<slot, slotJob, called, returned>>

\* One step of an executeStep call, and what its end does to the handler.
StepProgress(s, k) ==
    LET c == <<s, k>>
        Failure(A(_, _)) == \E how \in {"FAILED", "TIMED_OUT"} : A(c, how)
    IN  /\ slot[s] = "handler"
        /\ \/ ClaimStartsAttempt(c) /\ UNCHANGED slotVars
           \/ /\ ClaimMemoized(c) \/ CompleteStep(c)
              /\ returned' = [returned EXCEPT ![s] = @ \union {k}]
              /\ UNCHANGED <<slot, slotJob, called, rejection>>
           \/ (ClaimSuspends(c) \/ Failure(FailAndRetry)) /\ Rejects(s, "suspended")
           \/ (ClaimCollides(c) \/ Failure(FailTerminally)) /\ Rejects(s, "error")
           \/ RejectStale(c) /\ Rejects(s, "stale")
        /\ UNCHANGED <<runVars, queueVars, apiVars>>

\* A transaction of executeStep is refused for a reason of the database's own.
StepDatabaseError(s, k) ==
    /\ slot[s] = "handler"
    /\ CallLost(<<s, k>>)
    /\ Rejects(s, "error")
    /\ Fault("database")
    /\ UNCHANGED <<runVars, queueVars, request>>

\* Mutant: the handler's result does not wait for the steps in flight.
SettlesAtOnce(s) == Ready(s) = {}

\* settleInFlight: no step.run of the pass is under way.  The steps of a stage
\* are called together, so a rejection of one leaves none of them uncalled.
Settles(s) == Ready(s) = {} /\ \A k \in Keys : pc[<<s, k>>] = "idle"

HandlerSettles(s) ==
    /\ slot[s] = "handler"
    /\ Settles(s)
    /\ \/ rejection[s] = "none" /\ Goto(s, "complete") /\ UNCHANGED queueVars
       \/ rejection[s] = "suspended" /\ Goto(s, "suspend") /\ UNCHANGED queueVars
       \/ rejection[s] = "error" /\ Goto(s, "fail") /\ UNCHANGED queueVars
       \/ rejection[s] = "stale" /\ JobEnds(s)
    /\ UNCHANGED <<stepVars, runVars, apiVars>>

CompleteRun(s) ==
    /\ slot[s] = "complete"
    /\ runStatus' = "COMPLETED"
    /\ JobEnds(s)
    /\ UNCHANGED <<stepVars, blocked, workflowAttempt, apiVars>>

FailRun(s) ==
    /\ slot[s] = "fail"
    /\ runStatus' = "FAILED"
    /\ JobEnds(s)
    /\ UNCHANGED <<stepVars, blocked, workflowAttempt, apiVars>>

\* output === undefined: a delayed job for the step whose retry is due first.
FirstRetry == {k \in Keys : /\ status[k] = "RETRY_WAIT"
                            /\ \A i \in Keys : status[i] = "RETRY_WAIT"
                                  => retryLeft[k] <= retryLeft[i]}

\* (The query and the enqueue are one step: between them a retry may begin, and then
\* the job that is added is one more than needed.)
SuspendRun(s) ==
    /\ slot[s] = "suspend"
    /\ SlotFreed(s)
    /\ \/ /\ FirstRetry = {}
          /\ job' = Kept(job, slotJob[s])
          /\ UNCHANGED <<jobDelay, faults>>
       \/ \E k \in FirstRetry :
             LET j == RetryJob(k, attemptCount[k]) IN
             /\ job' = Enqueued(Kept(job, slotJob[s]), j)
             /\ jobDelay' = IF job[j] = "absent"
                            THEN [jobDelay EXCEPT ![j] = retryLeft[k]] ELSE jobDelay
             /\ UNCHANGED faults
       \/ /\ FirstRetry # {}
          /\ Fault("enqueue")
          /\ job' = Kept(job, slotJob[s])
          /\ UNCHANGED jobDelay
    /\ UNCHANGED <<stepVars, runVars, stalled, request>>

\* A query or update outside executeStep is refused: the job fails, except
\* that the catch clause turns the refusal of COMPLETED into FAILED.
RunDatabaseError(s) ==
    /\ Fault("database")
    /\ \/ /\ slot[s] = "complete"
          /\ Goto(s, "fail")
          /\ UNCHANGED queueVars
       \/ /\ slot[s] \in {"dispatch", "block", "begin", "start", "fail", "suspend"}
          /\ JobEnds(s)
    /\ UNCHANGED <<stepVars, runVars, request>>

SlotStep(s) ==
    \/ DispatchJob(s) \/ BlockRun(s) \/ BeginExecution(s) \/ StartRun(s)
    \/ HandlerSettles(s) \/ CompleteRun(s) \/ FailRun(s) \/ SuspendRun(s)
    \/ \E k \in Keys : StepRun(s, k) \/ StepProgress(s, k)

----------------------------------------------------------------------------
(* Crashes.  A crash ends every call of the slot and leaves its job active; *)
(* BullMQ gives a job that nobody works on to a worker once more, and fails *)
(* it the second time (maxStalledCount is 1).  A job whose worker goes on    *)
(* does not stall here: a lock that BullMQ takes for lost is left out.      *)

CrashWorker(s) ==
    /\ slot[s] \notin {"idle", "crashed"}
    /\ Fault("crash")
    /\ slot' = [slot EXCEPT ![s] = "crashed"]
    /\ UNCHANGED <<stepVars, runVars, queueVars, slotJob, passVars, request>>

RestartWorker(s) ==
    /\ slot[s] = "crashed"
    /\ \/ \E k \in Keys : CallLost(<<s, k>>) /\ UNCHANGED slotVars
       \/ /\ \A k \in Keys : pc[<<s, k>>] = "idle"
          /\ SlotFreed(s)
          /\ UNCHANGED stepVars
    /\ UNCHANGED <<runVars, queueVars, apiVars>>

StalledJob(j) ==
    /\ job[j] = "active"
    /\ \A s \in Slots : slotJob[s] # j
    /\ job' = [job EXCEPT ![j] = IF j \in stalled THEN "kept" ELSE "queued"]
    /\ stalled' = stalled \union {j}
    /\ UNCHANGED <<stepVars, runVars, jobDelay, slotVars, apiVars>>

\* Redis loses its data.
FlushRedis ==
    /\ Fault("flush")
    /\ job' = [j \in JobIds |-> "absent"]
    /\ jobDelay' = [j \in JobIds |-> 0]
    /\ stalled' = {}
    /\ UNCHANGED <<stepVars, runVars, slotVars, request>>

----------------------------------------------------------------------------
(* The reconciler: what its three passes do to this run and its steps.      *)

ReconcilePendingRun ==
    /\ runStatus = "PENDING" /\ ~blocked
    /\ Enqueue(RunJob, 0)
    /\ UNCHANGED <<stepVars, runVars, slotVars, apiVars>>

ReconcileDueRetry(k) ==
    /\ status[k] = "RETRY_WAIT" /\ retryLeft[k] = 0
    /\ runStatus \notin Terminal
    /\ Enqueue(RetryJob(k, attemptCount[k]), 0)
    /\ UNCHANGED <<stepVars, runVars, slotVars, apiVars>>

\* Mutant: the update of the attempt commits without that of its step.
ReconcileHalfway(k, n) ==
    /\ LeaseExpired(k, n)
    /\ attemptStatus' = [attemptStatus EXCEPT ![k][n] = "ABANDONED"]
    /\ UNCHANGED <<status, attemptCount, activeAttempt, output, timers>>
    /\ UNCHANGED <<callers, delivered, engineVars>>

\* The job is added before the transaction commits, and stays if it does not.
ReconcileExpiredLease(k, n) ==
    /\ \/ Abandon(k, n) /\ UNCHANGED faults
       \/ LeaseExpired(k, n) /\ Fault("database") /\ UNCHANGED stepVars
    /\ IF activeAttempt[k] = n THEN Enqueue(RetryJob(k, attemptCount[k]), 0)
                               ELSE UNCHANGED queueVars
    /\ UNCHANGED <<runVars, slotVars, request>>

----------------------------------------------------------------------------
(* POST /runs/:id/retry and /cancel: the run is read, then updated whatever *)
(* it is by then.                                                           *)

Goes(r, st) == request' = [request EXCEPT ![r] = st]

RetryReads(r) ==
    /\ request[r] = "new"
    /\ runStatus = "FAILED"
    /\ Goes(r, "retrying")
    /\ UNCHANGED <<stepVars, runVars, queueVars, slotVars, faults>>

RetryRun(r) ==
    /\ request[r] = "retrying"
    /\ Goes(r, "done")
    /\ runStatus' = "PENDING"
    /\ workflowAttempt' = workflowAttempt + 1
    /\ \/ Enqueue(ReplayJob(workflowAttempt + 1), 0) /\ UNCHANGED faults
       \/ Fault("enqueue") /\ UNCHANGED queueVars
    /\ UNCHANGED <<stepVars, blocked, slotVars>>

CancelReads(r) ==
    /\ request[r] = "new"
    /\ runStatus \notin Terminal
    /\ Goes(r, IF runStatus = "PENDING" THEN "cancelPending" ELSE "cancelRunning")
    /\ UNCHANGED <<stepVars, runVars, queueVars, slotVars, faults>>

CancelRun(r) ==
    /\ \/ request[r] = "cancelPending" /\ runStatus' = "CANCELLED"
       \/ request[r] = "cancelRunning" /\ runStatus' = "CANCEL_REQUESTED"
    /\ Goes(r, "done")
    /\ UNCHANGED <<stepVars, blocked, workflowAttempt, queueVars, slotVars, faults>>

----------------------------------------------------------------------------
(* Time, and the whole.                                                     *)

\* Unless handlers may be slow, one that runs ends before its lease does; where
\* this fails it counts as a fault.
MayTick ==
    SlowHandlers \/ \A s \in Slots, k \in Keys :
        slot[s] = "handler" /\ pc[<<s, k>>] = "handler"
            => leaseLeft[k][held[<<s, k>>]] > 1

\* Workers, PostgreSQL and BullMQ have one clock: with clocks that differ a delayed
\* job may come before its step's next_retry_at, and use up its id.
EngineTick ==
    /\ IF MayTick THEN UNCHANGED faults ELSE Fault("slow")
    /\ Tick
    /\ jobDelay' = [j \in JobIds |-> Sooner(jobDelay[j])]
    /\ UNCHANGED <<runVars, job, stalled, slotVars, request>>

EngineNext ==
    \/ \E s \in Slots :
          \/ \E j \in JobIds : TakeJob(s, j)
          \/ SlotStep(s)
          \/ \E k \in Keys : StepDatabaseError(s, k)
          \/ RunDatabaseError(s)
          \/ CrashWorker(s)
          \/ RestartWorker(s)
    \/ \E j \in JobIds : StalledJob(j)
    \/ FlushRedis
    \/ ReconcilePendingRun
    \/ \E k \in Keys : ReconcileDueRetry(k)
    \/ \E k \in Keys, n \in Attempts : ReconcileExpiredLease(k, n)
    \/ \E r \in Retriers : RetryReads(r) \/ RetryRun(r)
    \/ \E r \in Cancellers : CancelReads(r) \/ CancelRun(r)
    \/ EngineTick

EngineSpec == EngineInit /\ [][EngineNext]_vars

\* Workers take jobs and go on with them (a handler returns, throws or times
\* out), a crashed one is restarted, BullMQ looks for stalled jobs, the
\* reconciler polls, and time passes.  Faults and requests need never happen.
EngineFairness ==
    /\ \A s \in Slots :
          /\ WF_vars(\E j \in JobIds : TakeJob(s, j))
          /\ WF_vars(SlotStep(s))
          /\ WF_vars(RestartWorker(s))
    /\ \A j \in JobIds : WF_vars(StalledJob(j))
    /\ WF_vars(ReconcilePendingRun)
    /\ \A k \in Keys : WF_vars(ReconcileDueRetry(k))
    /\ \A k \in Keys, n \in Attempts : WF_vars(Abandon(k, n) /\ ReconcileExpiredLease(k, n))
    /\ WF_vars(MayTick /\ EngineTick)

FairEngine == EngineSpec /\ EngineFairness

----------------------------------------------------------------------------
(* Safety.                                                                  *)

\* A COMPLETED run has no unfinished step: whichever worker's pass wrote
\* COMPLETED, and whatever other passes, crashes and reconciler runs did
\* meanwhile, every step the handler awaits is COMPLETED.
CompletedRunHasAllSteps ==
    runStatus = "COMPLETED" => \A k \in Keys : status[k] = "COMPLETED"

\* Stages run in order across passes and workers: a step is claimed for the
\* first time only when every step of the earlier stages is COMPLETED.
StagesInOrder ==
    \A k \in Keys : status[k] # "NoRow" =>
        \A i \in Before(k) : status[i] = "COMPLETED"

\* A pass that was given a step's result holds a committed one: no replay
\* goes on from a result that a zombie computed and the fence refused.
PassSeesCommitted ==
    \A s \in Slots : \A k \in returned[s] : status[k] = "COMPLETED"

\* The inductive invariant behind the safety properties, of one slot's pass:
\* what was called had its stages before it returned, a call is under way only
\* in a handler that made it, a pass without a rejection accounts for every
\* call, and one that is about to complete the run has every step's result.
PassOK(s) ==
    /\ \A k \in Keys : key[<<s, k>>] = k
    /\ \A k \in called[s] : Before(k) \subseteq returned[s]
    /\ \A k \in returned[s] : status[k] = "COMPLETED"
    /\ \A k \in Keys : pc[<<s, k>>] # "idle" =>
          k \in called[s] /\ slot[s] \in {"handler", "crashed"}
    /\ slot[s] \in {"idle", "dispatch", "block", "begin", "start"} =>
          called[s] = {} /\ returned[s] = {} /\ rejection[s] = "none"
    /\ slot[s] = "handler" /\ rejection[s] = "none" =>
          \A k \in called[s] : k \in returned[s] \/ pc[<<s, k>>] # "idle"
    /\ slot[s] = "complete" => returned[s] = Keys

\* At most one replay per retry request that is done.
DoneRetries == {r \in Retriers : request[r] = "done"}
ReplaysCounted == workflowAttempt <= 1 + Cardinality(DoneRetries)

EngineInv ==
    /\ EngineTypeOK
    /\ IInv
    /\ \A s \in Slots : PassOK(s)
    /\ ReplaysCounted
    /\ CompletedRunHasAllSteps
    /\ StagesInOrder

\* The engine drives the steps only through the transactions of StepFencing,
\* so what is shown and proved of that specification holds of the engine.
ImplementsStepFencing == Spec

\* No run is lost: one that has not ended has a job, a worker that is at it,
\* or a row for which the reconciler will add a job that Redis does not hold.
Reconcilable ==
    \/ runStatus = "PENDING" /\ ~blocked /\ job[RunJob] = "absent"
    \/ \E k \in Keys : /\ status[k] \in {"RUNNING", "RETRY_WAIT"}
                       /\ job[RetryJob(k, attemptCount[k])] = "absent"

NoRunLost ==
    \/ runStatus \in Terminal
    \/ \E j \in JobIds : job[j] \in {"queued", "active"}
    \/ \E s \in Slots : slot[s] # "idle"
    \/ Reconcilable

\* No fault has happened but such as only delay a run.
Harmless == {"enqueue", "slow"}
Calm == faults = 0 \/ Faults \subseteq Harmless

\* A run that is FAILED has a step that is, until a worker crashes, Redis loses
\* its data or the database refuses a transaction: suspensions, fences that slow
\* handlers lost, lost enqueues, retry and cancel requests fail no run, and no two
\* passes meet in the first insert of a step.  (After a crash they may: the
\* stalled job and one that the reconciler adds begin a pass each.)
\* Of a handler that awaits one step at a time: with steps in parallel another
\* worker's pass may by then have claimed the FAILED step again.
FailureHasCause ==
    runStatus = "FAILED" /\ Calm => \E k \in Keys : status[k] = "FAILED"

----------------------------------------------------------------------------
(* Liveness.                                                                *)

\* With one crash, lost enqueue or handler that outlives its lease at most, a run
\* whose steps follow one another ends, and stays ended.  (The scan of PENDING rows
\* gets to this one: PendingScan says when it does.)
RunStaysEnded == <>[](runStatus \in Terminal)
=============================================================================
