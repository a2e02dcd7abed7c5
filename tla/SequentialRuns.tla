--------------------------- MODULE SequentialRuns ----------------------------
(***************************************************************************)
(* Runs of DurableEngine whose handler awaits one step at a time: the       *)
(* inductive invariants behind NoRunLost and FailureHasCause.  Both follow  *)
(* the passes that are still good for something, from the job in Redis that *)
(* will begin one to the statement that writes the run's end.               *)
(***************************************************************************)
EXTENDS DurableEngine

\* Handlers with steps in parallel lose runs and fail them without a cause: a
\* pass that was rejected by one step may be the one that completes another.
Sequential == \A i, j \in Keys : Stage[i] = Stage[j] => i = j

\* A fault of this kind has not happened.
Spared(kind) == kind \notin Faults \/ faults = 0

----------------------------------------------------------------------------
(* What holds of passes, jobs and rows whatever the run's status is.        *)

\* A pass has one call under way at most, and none after a rejection.
OneAtATime(s) ==
    /\ returned[s] \subseteq called[s]
    /\ \A k \in Keys : pc[<<s, k>>] # "idle" =>
          k \notin returned[s] /\ rejection[s] = "none"
    /\ rejection[s] # "none" => ~ (called[s] \subseteq returned[s])

\* Until Redis loses its data, whoever works on a job holds its lock, alone.
JobsOwned ==
    /\ \A s \in Slots :
          /\ slot[s] = "idle" <=> slotJob[s] = NoJob
          /\ slotJob[s] # NoJob => job[slotJob[s]] = "active"
    /\ \A s, t \in Slots : slotJob[s] = slotJob[t] /\ slotJob[s] # NoJob => s = t

Unowned(j) == job[j] = "active" /\ \A s \in Slots : slotJob[s] # j

\* Jobs stall after a crash only; the slot whose crash it was, and the job it
\* leaves, are not those of a job that has stalled before.
StallsCounted ==
    /\ Spared("crash") =>
          /\ \A s \in Slots : slot[s] # "crashed"
          /\ \A j \in JobIds : ~ Unowned(j) /\ j \notin stalled
    /\ \A j \in stalled :
          /\ ~ Unowned(j)
          /\ \A s \in Slots : slotJob[s] = j => slot[s] # "crashed"

\* A step has a row once it has an attempt, and a replay has a number once its
\* job is in Redis.
RowsCounted == \A k \in Keys : status[k] = "NoRow" <=> attemptCount[k] = Null
ReplaysNumbered ==
    \A n \in WorkflowAttempts : job[ReplayJob(n)] # "absent" => n <= workflowAttempt

\* The job that retries an attempt is in Redis only when the attempt is over.
RetryJobsFollow ==
    \A k \in Keys, n \in Attempts : job[RetryJob(k, n)] # "absent" =>
        \/ n < attemptCount[k]
        \/ n = attemptCount[k] /\ status[k] \in {"RETRY_WAIT", "FAILED"}

\* Only a job that is queued is delayed, and the job of a retry until the retry
\* is due: the pass it begins is not told to wait.
RetryJobsWait ==
    /\ \A j \in JobIds : jobDelay[j] > 0 => job[j] = "queued"
    /\ \A k \in Keys, n \in Attempts :
          /\ job[RetryJob(k, n)] # "absent"
          /\ n = attemptCount[k] /\ status[k] = "RETRY_WAIT"
          => retryLeft[k] <= jobDelay[RetryJob(k, n)]

----------------------------------------------------------------------------
(* Live passes.                                                             *)

\* A pass that may still write the run's end: no step has told it to wait, and
\* the attempt it works on, if any, has the fence.  (Or its worker crashed, and
\* its job will be given to another one.)
Live(s) ==
    \/ slot[s] \notin {"idle", "handler", "suspend"}
    \/ /\ slot[s] = "handler"
       /\ rejection[s] \in {"none", "error"}
       /\ \A k \in Keys : pc[<<s, k>>] = "handler" => Fenced(<<s, k>>)

Queued == \E j \in JobIds : job[j] = "queued"

----------------------------------------------------------------------------
(* No run is lost.                                                          *)

\* What the code must be spared: Redis keeps its data, the database refuses no
\* transaction, no more than one worker crashes (a job that stalls twice fails),
\* no retry's job is lost, every worker has the workflow's version, and nobody
\* cancels.  Leases may run out, and jobs be lost that the reconciler adds again.
\* (And what the module leaves out: the workflow has no concurrency limit, and
\* workers, PostgreSQL and BullMQ agree on the time.)
Undisturbed ==
    /\ Faults \subseteq {"crash", "enqueue", "slow"}
    /\ "crash" \in Faults => FaultBound <= 1
    /\ "enqueue" \in Faults => Retriers = {}
    /\ Compatible = Slots
    /\ Cancellers = {}

\* A run that has not ended has a job that waits for a worker, a live pass, or a
\* row for which the reconciler adds a job.
Continues ==
    \/ runStatus \in Terminal
    \/ Queued
    \/ \E j \in JobIds : Unowned(j)
    \/ \E s \in Slots : Live(s)
    \/ Reconcilable

NeverBlocked == ~ blocked /\ \A s \in Slots : slot[s] # "block"

ContinuationInv ==
    /\ EngineInv
    /\ \A s \in Slots : OneAtATime(s)
    /\ JobsOwned
    /\ StallsCounted
    /\ RowsCounted
    /\ ReplaysNumbered
    /\ RetryJobsFollow
    /\ RetryJobsWait
    /\ NeverBlocked
    /\ Continues

----------------------------------------------------------------------------
(* A FAILED run has a FAILED step.                                          *)

\* With two retry requests the run may be replayed while it is replayed.
OneRetrier == \A r, q \in Retriers : r = q

\* There is one token: one job that waits for a worker, or one live pass.
OneToken ==
    /\ \A s, t \in Slots : Live(s) /\ Live(t) => s = t
    /\ \A i, j \in JobIds : job[i] = "queued" /\ job[j] = "queued" => i = j
    /\ ~ (Queued /\ \E s \in Slots : Live(s))

Token == Queued \/ \E s \in Slots : Live(s)

\* The token is the pass of a retry that is due, or there is none.
RetryTaken ==
    Token => \A k \in Keys : status[k] = "RETRY_WAIT" =>
                 job[RetryJob(k, attemptCount[k])] # "absent"

\* A run that failed, or is about to be replayed, is left alone with its cause.
FailureRests ==
    runStatus = "FAILED" \/ (\E r \in Retriers : request[r] = "retrying") =>
        ~ Token /\ \E k \in Keys : status[k] = "FAILED"

\* Before its first job is in Redis, nothing has happened to the run.
FirstJobFirst ==
    job[RunJob] = "absent" =>
        /\ ~ Queued
        /\ \A s \in Slots : slot[s] = "idle"
        /\ \A k \in Keys : status[k] = "NoRow"

\* A RUNNING step has a caller that holds its fence.
RunningIsHeld ==
    \A k \in Keys : status[k] = "RUNNING" =>
        \E s \in Slots : /\ slot[s] = "handler"
                         /\ pc[<<s, k>>] = "handler" /\ Fenced(<<s, k>>)

\* No row appears between the SELECT of a live pass and its decision.
SelectionHolds ==
    \A s \in Slots, k \in Keys :
        Live(s) /\ pc[<<s, k>>] = "selecting" =>
            (snapshot[<<s, k>>].row <=> status[k] # "NoRow")

\* A pass that will fail the run was rejected by a step that is FAILED.
ErrorHasCause ==
    \A s \in Slots :
        \/ slot[s] = "fail"
        \/ slot[s] = "handler" /\ rejection[s] = "error"
        => \E k \in Keys : status[k] = "FAILED"

\* A run that has completed is left alone.
CompletionRests == runStatus = "COMPLETED" => ~ Token

TokenInv ==
    /\ OneToken
    /\ RetryTaken
    /\ FailureRests
    /\ FirstJobFirst
    /\ RunningIsHeld
    /\ SelectionHolds
    /\ ErrorHasCause

\* Until a fault happens that is not harmless.
FailureInv ==
    /\ EngineInv
    /\ \A s \in Slots : OneAtATime(s)
    /\ RowsCounted
    /\ Calm => JobsOwned /\ StallsCounted /\ TokenInv /\ CompletionRests

\* COMPLETED and FAILED stand: the passes and the reconciler, which write the
\* status by the run's id whatever it is by then (executor.ts, worker.ts), change
\* them no more, until a worker crashes, Redis loses its data or the database
\* refuses a transaction.  Only a retry request, of a run that FAILED, or a cancel
\* request that read the run before it ended does.  (Nothing of the kind holds of
\* CANCELLED: a pass that read the run before writes RUNNING, or PENDING, over it,
\* without any fault.)
RunEndStands ==
    [][/\ Calm'
       /\ runStatus' # runStatus
       => /\ runStatus = "COMPLETED" => \E r \in Cancellers : CancelRun(r)
          /\ runStatus = "FAILED" => \/ \E r \in Retriers : RetryRun(r)
                                     \/ \E r \in Cancellers : CancelRun(r)]_vars
=============================================================================
