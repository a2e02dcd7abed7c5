------------------------------ MODULE PendingScan ------------------------------
(***************************************************************************)
(* The control API beside the reconciler and the workers: what becomes of   *)
(* the runs that requests create.  A run's first job is added by its        *)
(* request or, when that fails, by reconcilePendingRuns, which takes a      *)
(* batch of the oldest rows that are PENDING, each time from the beginning, *)
(* and adds a job run_<id> for each.  BullMQ ignores an id it has seen, so  *)
(* a row whose job is used up stays in the batch.                           *)
(*                                                                          *)
(* Redis keeps its data here (DurableEngine has its loss), no run is        *)
(* retried or cancelled, and one reconciler runs: two skip the rows the     *)
(* other has locked.                                                        *)
(***************************************************************************)
EXTENDS ControlApi, Sequences

CONSTANT BatchSize      \* options.batchSize, 50 when not given

ASSUME BatchAssumption == BatchSize \in Nat \ {0}

VARIABLES
    created,  \* ORDER BY created_at: the runs of one transaction after another's
    left,     \* the runs whose row is PENDING no more, or blocked
    usedUp    \* the runs whose job is gone, with their row as it was

scanVars == <<created, left, usedUp>>

ScanInit ==
    /\ ApiInit
    /\ created = <<>> /\ left = {} /\ usedUp = {}

\* The place of a run in that order.  Runs of one event share theirs.
Place(x) == CHOOSE i \in DOMAIN created : x \in created[i]

\* Requests go on as in ControlApi; what one commits is the newest.
Serve ==
    /\ RequestNext
    /\ created' = IF runs' = runs THEN created ELSE Append(created, runs' \ runs)
    /\ UNCHANGED <<left, usedUp>>

----------------------------------------------------------------------------
(* The scan.                                                                *)

\* Mutant: rows of any status.
PendingOrNot == runs
Pending == runs \ left

\* ORDER BY created_at LIMIT batchSize.
Selects(batch) ==
    /\ Cardinality(batch) <= BatchSize
    /\ Cardinality(batch) < BatchSize => batch = Pending
    /\ \A x \in batch, y \in Pending \ batch : Place(x) <= Place(y)

ReconcilePendingRuns ==
    /\ \E batch \in SUBSET Pending : Selects(batch) /\ AddJobs(batch)
    /\ UNCHANGED scanVars

----------------------------------------------------------------------------
(* processJob on the job of a run.  One that the concurrency limit refuses   *)
(* is added again, with a delay: the job waits on, and so does the run.      *)

\* The run starts, or is blocked because no worker has its version.
StartOrBlock(x) == left' = left \union {x} /\ UNCHANGED usedUp

\* The database or Redis fails before that, or when the refused job is to be added
\* again: BullMQ tries a job once.
FailJob(x) == usedUp' = usedUp \union {x} /\ UNCHANGED left

ProcessJob(x) ==
    /\ x \in jobs \ (left \union usedUp)
    /\ StartOrBlock(x) \/ FailJob(x)
    /\ UNCHANGED <<vars, created>>

ScanNext == Serve \/ ReconcilePendingRuns \/ \E x \in jobs : ProcessJob(x)

ScanSpec == ScanInit /\ [][ScanNext]_<<vars, scanVars>>

\* The reconciler's loop goes on, and workers take the jobs that wait.  (Slots of
\* the concurrency limit come free: the executing runs end.)
ScanFairness ==
    /\ WF_jobs(ReconcilePendingRuns)
    /\ WF_<<left, usedUp>>(\E x \in jobs : ProcessJob(x))

FairScan == ScanSpec /\ ScanFairness

----------------------------------------------------------------------------
ScanTypeOK ==
    /\ created \in Seq(SUBSET runs)
    /\ left \subseteq jobs /\ usedUp \subseteq jobs \ left

\* As many rows as the batch has places, none newer than run x, whose jobs are
\* used up.
Starved(x) ==
    Cardinality({y \in usedUp : Place(y) <= Place(x)}) >= BatchSize

\* A committed run whose first job was lost, by the queue or with the process, is
\* given one in the end, and no row before it in the batch is in its way for good
\* but those whose own job is used up: the scan has no cursor, and adds for these
\* what BullMQ ignores.
EveryRunReached == <>[](\A x \in Pending \ jobs : Starved(x))
=============================================================================
