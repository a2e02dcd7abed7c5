---------------------------- MODULE StepFencing ----------------------------
(***************************************************************************)
(* The durable steps of one workflow run: the rows of step_executions and   *)
(* step_attempts, the transactions of packages/database's step repository   *)
(* that change them, the executeStep call of packages/workflow-sdk that     *)
(* drives those transactions, and the reconciler's pass over expired        *)
(* leases.  Everything here is shared through PostgreSQL only: a caller of  *)
(* executeStep may be on any worker, may be slow, and may vanish.           *)
(*                                                                          *)
(* An attempt of a step is named by its attempt number, which the unique    *)
(* key (step_execution_id, attempt_number) makes an identity.  The output   *)
(* of a step is named by the attempt whose handler computed it.             *)
(***************************************************************************)
EXTENDS Integers, FiniteSets

CONSTANTS
    Keys,           \* the step keys the workflow's handler uses
    Callers,        \* concurrent calls of StepContextImpl.executeStep
    AttemptBound,   \* bound: attempts of one step that are explored
    LeaseDuration,  \* leaseDurationMs, in ticks
    Delays,         \* the delays calculateBackoffDelay may return
    MaxRetries,     \* options.retries of the step, 3 when not given
    RetryLimit,     \* step_executions.retry_limit, the column's default 3
    Heartbeats      \* whether some process calls renewAttemptLease

ASSUME AttemptBoundAssumption == AttemptBound \in Nat \ {0}
ASSUME LeaseAssumption == LeaseDuration \in Nat \ {0}
ASSUME DelaysAssumption == Delays \subseteq Nat
ASSUME RetryAssumption == MaxRetries \in Nat /\ RetryLimit \in Nat
ASSUME HeartbeatsAssumption == Heartbeats \in BOOLEAN

Attempts == 1..AttemptBound
Null == 0                           \* SQL NULL in a column of attempt numbers
StepStatus == {"NoRow", "RUNNING", "COMPLETED", "RETRY_WAIT", "FAILED"}
AttemptStatus == {"NoRow", "RUNNING", "COMPLETED", "FAILED", "TIMED_OUT",
                  "ABANDONED"}
Settled == {"COMPLETED", "FAILED", "TIMED_OUT", "ABANDONED"}
CallerState == {"idle", "selecting", "handler"}
\* What a claim's SELECT found when its statement snapshot was taken.
Snapshot == [row : BOOLEAN, active : Attempts \union {Null}, lease : Nat]
NoSnapshot == [row |-> FALSE, active |-> Null, lease |-> 0]

VARIABLES
    status,          \* step_executions.status
    attemptCount,    \* step_executions.attempt_count
    activeAttempt,   \* step_executions.active_attempt_id
    output,          \* step_executions.output
    attemptStatus,   \* step_attempts.status
    retryLeft,       \* step_executions.next_retry_at, in ticks from now
    leaseLeft,       \* step_attempts.lease_expires_at, in ticks from now
    pc,              \* where each executeStep call is
    key,             \* the step key of the call
    snapshot,        \* what the call's SELECT ... FOR UPDATE saw
    held,            \* the attempt the call was given
    delivered        \* history: results executeStep returned to handlers

rows == <<status, attemptCount, activeAttempt, output, attemptStatus>>
timers == <<retryLeft, leaseLeft>>
callers == <<pc, key, snapshot, held>>
stepVars == <<rows, timers, callers, delivered>>

TypeOK ==
    /\ status \in [Keys -> StepStatus]
    /\ attemptCount \in [Keys -> Attempts \union {Null}]
    /\ activeAttempt \in [Keys -> Attempts \union {Null}]
    /\ output \in [Keys -> Attempts \union {Null}]
    /\ attemptStatus \in [Keys -> [Attempts -> AttemptStatus]]
    /\ retryLeft \in [Keys -> Nat]
    /\ leaseLeft \in [Keys -> [Attempts -> Nat]]
    /\ pc \in [Callers -> CallerState]
    /\ key \in [Callers -> Keys]
    /\ snapshot \in [Callers -> Snapshot]
    /\ held \in [Callers -> Attempts \union {Null}]
    /\ delivered \subseteq Keys \X (Attempts \union {Null})

Init ==
    /\ status = [k \in Keys |-> "NoRow"]
    /\ attemptCount = [k \in Keys |-> Null]
    /\ activeAttempt = [k \in Keys |-> Null]
    /\ output = [k \in Keys |-> Null]
    /\ attemptStatus = [k \in Keys |-> [n \in Attempts |-> "NoRow"]]
    /\ retryLeft = [k \in Keys |-> 0]
    /\ leaseLeft = [k \in Keys |-> [n \in Attempts |-> 0]]
    /\ pc = [c \in Callers |-> "idle"]
    /\ key \in [Callers -> Keys]
    /\ snapshot = [c \in Callers |-> NoSnapshot]
    /\ held = [c \in Callers |-> Null]
    /\ delivered = {}

----------------------------------------------------------------------------
(* claimStepAttempt: one transaction, seen by the others as two steps.  Its *)
(* SELECT ... FOR UPDATE OF s takes a snapshot, may then wait for the row   *)
(* lock, and goes on with the newest version of the locked row s but with   *)
(* the row of step_attempts that the snapshot had joined (READ COMMITTED).  *)

ClaimSelect(c, k) ==
    /\ pc[c] = "idle"
    /\ pc' = [pc EXCEPT ![c] = "selecting"]
    /\ key' = [key EXCEPT ![c] = k]
    /\ snapshot' = [snapshot EXCEPT ![c] =
           [row |-> status[k] # "NoRow",
            active |-> activeAttempt[k],
            lease |-> IF activeAttempt[k] = Null THEN 0
                      ELSE leaseLeft[k][activeAttempt[k]]]]
    /\ UNCHANGED <<rows, timers, held, delivered>>

\* The joined lease_expires_at is NULL when s names another attempt by now.
LeaseSeenLive(c) ==
    /\ activeAttempt[key[c]] # Null
    /\ snapshot[c].active = activeAttempt[key[c]]
    /\ snapshot[c].lease > 0

RowSeen(c, st) == snapshot[c].row /\ status[key[c]] = st

\* Mutant: the claim does not look for a memoized output.
CompletedUnseen(c) == FALSE
SeesCompleted(c) == RowSeen(c, "COMPLETED")
SeesRetryWait(c) == RowSeen(c, "RETRY_WAIT") /\ retryLeft[key[c]] > 0
SeesLocked(c) == RowSeen(c, "RUNNING") /\ LeaseSeenLive(c)

\* The call of executeStep is over, one way or another.
CallEnds(c) ==
    /\ pc' = [pc EXCEPT ![c] = "idle"]
    /\ held' = [held EXCEPT ![c] = Null]
    /\ snapshot' = [snapshot EXCEPT ![c] = NoSnapshot]
    /\ UNCHANGED key

\* COMPLETED: the stored output is returned, the handler does not run.
ClaimMemoized(c) ==
    /\ pc[c] = "selecting"
    /\ SeesCompleted(c)
    /\ CallEnds(c)
    /\ delivered' = delivered \union {<<key[c], output[key[c]]>>}
    /\ UNCHANGED <<rows, timers>>

\* RETRY_WAIT or LOCKED: executeStep throws WorkflowSuspendedError.
ClaimSuspends(c) ==
    /\ pc[c] = "selecting"
    /\ SeesRetryWait(c) \/ SeesLocked(c)
    /\ CallEnds(c)
    /\ UNCHANGED <<rows, timers, delivered>>

\* The INSERT of a row another transaction inserted since the SELECT is
\* refused by the unique key (workflow_run_id, step_key), and executeStep
\* rethrows what Prisma throws.
ClaimCollides(c) ==
    /\ pc[c] = "selecting"
    /\ ~snapshot[c].row
    /\ status[key[c]] # "NoRow"
    /\ CallEnds(c)
    /\ UNCHANGED <<rows, timers, delivered>>

MayStartAttempt(c) ==
    IF snapshot[c].row
    THEN ~(SeesCompleted(c) \/ SeesRetryWait(c) \/ SeesLocked(c))
    ELSE status[key[c]] = "NoRow"

\* Mutant: an attempt whose lease expired is resumed under its own number.
ResumedAttempt(k) ==
    IF status[k] = "RUNNING" THEN attemptCount[k] ELSE attemptCount[k] + 1
NextAttempt(k) == attemptCount[k] + 1

\* Mutant: a takeover leaves active_attempt_id at the attempt it takes over.
FenceStays(k, n) ==
    activeAttempt' = [activeAttempt EXCEPT ![k] = IF @ = Null THEN n ELSE @]
FenceMoves(k, n) == activeAttempt' = [activeAttempt EXCEPT ![k] = n]

ClaimStartsAttempt(c) ==
    LET k == key[c]
        n == NextAttempt(k)
    IN  /\ pc[c] = "selecting"
        /\ MayStartAttempt(c)
        /\ n \in Attempts                              \* AttemptBound
        /\ status' = [status EXCEPT ![k] = "RUNNING"]
        /\ attemptCount' = [attemptCount EXCEPT ![k] = n]
        /\ FenceMoves(k, n)
        /\ attemptStatus' = [attemptStatus EXCEPT ![k][n] = "RUNNING"]
        /\ leaseLeft' = [leaseLeft EXCEPT ![k][n] = LeaseDuration]
        /\ pc' = [pc EXCEPT ![c] = "handler"]
        /\ held' = [held EXCEPT ![c] = n]
        /\ snapshot' = [snapshot EXCEPT ![c] = NoSnapshot]
        /\ UNCHANGED <<retryLeft, output, key, delivered>>

----------------------------------------------------------------------------
(* The user's handler returns, throws or times out, and the attempt is      *)
(* committed with the fence WHERE active_attempt_id = attemptId.            *)

\* Mutant: the commit is not fenced by active_attempt_id.
Unfenced(c) == TRUE
Fenced(c) == activeAttempt[key[c]] = held[c]

CompleteStep(c) ==
    LET k == key[c] IN
    /\ pc[c] = "handler"
    /\ Fenced(c)
    /\ status' = [status EXCEPT ![k] = "COMPLETED"]
    /\ output' = [output EXCEPT ![k] = held[c]]
    /\ attemptStatus' = [attemptStatus EXCEPT ![k][held[c]] = "COMPLETED"]
    /\ delivered' = delivered \union {<<k, held[c]>>}
    /\ CallEnds(c)
    /\ UNCHANGED <<attemptCount, activeAttempt, timers>>

\* claim.attemptNumber > maxRetries, else another attempt after a backoff.
IsTerminalFailure(c) == held[c] > MaxRetries

\* failStepAttempt of either kind of failure: how is FAILED or TIMED_OUT.
FailFenced(c, how, st) ==
    /\ pc[c] = "handler"
    /\ Fenced(c)
    /\ status' = [status EXCEPT ![key[c]] = st]
    /\ attemptStatus' = [attemptStatus EXCEPT ![key[c]][held[c]] = how]
    /\ CallEnds(c)
    /\ UNCHANGED <<attemptCount, activeAttempt, output, leaseLeft, delivered>>

FailTerminally(c, how) ==
    /\ FailFenced(c, how, "FAILED")
    /\ IsTerminalFailure(c)
    /\ retryLeft' = [retryLeft EXCEPT ![key[c]] = 0]

FailAndRetry(c, how) ==
    /\ FailFenced(c, how, "RETRY_WAIT")
    /\ ~IsTerminalFailure(c)
    /\ \E d \in Delays : retryLeft' = [retryLeft EXCEPT ![key[c]] = d]

\* Either commit finds the fence moved: StaleAttemptError, nothing written.
RejectStale(c) ==
    /\ pc[c] = "handler"
    /\ ~Fenced(c)
    /\ CallEnds(c)
    /\ UNCHANGED <<rows, timers, delivered>>

\* renewAttemptLease writes by attempt id alone, whatever the step's state.
RenewLease(c) ==
    /\ Heartbeats
    /\ pc[c] = "handler"
    /\ leaseLeft' = [leaseLeft EXCEPT ![key[c]][held[c]] = LeaseDuration]
    /\ UNCHANGED <<rows, retryLeft, callers, delivered>>

\* The worker's process dies, or the database call rejects: an open
\* transaction rolls back and the call is over.
CallLost(c) ==
    /\ pc[c] # "idle"
    /\ CallEnds(c)
    /\ UNCHANGED <<rows, timers, delivered>>

----------------------------------------------------------------------------
(* One attempt of reconcileExpiredLeases' batch, found by its own status    *)
(* and lease; the step follows only if it still names that attempt.         *)

\* Mutants: the batch query forgets a.status, or joins on active_attempt_id.
LeaseExpiredOfAny(k, n) == attemptStatus[k][n] # "NoRow" /\ leaseLeft[k][n] = 0
LeaseExpiredOfActive(k, n) ==
    activeAttempt[k] = n /\ attemptStatus[k][n] = "RUNNING" /\ leaseLeft[k][n] = 0
LeaseExpired(k, n) == attemptStatus[k][n] = "RUNNING" /\ leaseLeft[k][n] = 0

\* Mutant: no update of the step when its retries are exhausted.
ReleaseWithRetriesLeft(k) ==
    IF attemptCount[k] < RetryLimit
    THEN /\ activeAttempt' = [activeAttempt EXCEPT ![k] = Null]
         /\ status' = [status EXCEPT ![k] = "RETRY_WAIT"]
         /\ retryLeft' = [retryLeft EXCEPT ![k] = 0]
    ELSE UNCHANGED <<status, activeAttempt, retryLeft>>

\* The fenced update of the step: another try, or the end of its retries.
ReleaseStep(k) ==
    /\ activeAttempt' = [activeAttempt EXCEPT ![k] = Null]
    /\ IF attemptCount[k] < RetryLimit
       THEN /\ status' = [status EXCEPT ![k] = "RETRY_WAIT"]
            /\ retryLeft' = [retryLeft EXCEPT ![k] = 0]
       ELSE /\ status' = [status EXCEPT ![k] = "FAILED"]
            /\ UNCHANGED retryLeft

Abandon(k, n) ==
    /\ LeaseExpired(k, n)
    /\ attemptStatus' = [attemptStatus EXCEPT ![k][n] = "ABANDONED"]
    /\ \/ activeAttempt[k] = n /\ ReleaseStep(k)
       \/ activeAttempt[k] # n /\ UNCHANGED <<status, activeAttempt, retryLeft>>
    /\ UNCHANGED <<attemptCount, output, leaseLeft, callers, delivered>>

----------------------------------------------------------------------------
(* Time passes for every lease and delay at once, also for the copy of a    *)
(* lease that a waiting SELECT will compare with the clock.                 *)

Sooner(t) == IF t = 0 THEN 0 ELSE t - 1

Tick ==
    /\ retryLeft' = [k \in Keys |-> Sooner(retryLeft[k])]
    /\ leaseLeft' = [k \in Keys |-> [n \in Attempts |-> Sooner(leaseLeft[k][n])]]
    /\ snapshot' = [c \in Callers |->
           [snapshot[c] EXCEPT !.lease = Sooner(snapshot[c].lease)]]
    /\ UNCHANGED <<rows, pc, key, held, delivered>>

ClaimDecides(c) ==
    ClaimMemoized(c) \/ ClaimSuspends(c) \/ ClaimCollides(c)
        \/ ClaimStartsAttempt(c)

HandlerEnds(c) ==
    \/ CompleteStep(c)
    \/ \E how \in {"FAILED", "TIMED_OUT"} :
          FailTerminally(c, how) \/ FailAndRetry(c, how)
    \/ RejectStale(c)

Next ==
    \/ \E c \in Callers :
          \/ \E k \in Keys : ClaimSelect(c, k)
          \/ ClaimDecides(c)
          \/ HandlerEnds(c)
          \/ RenewLease(c)
          \/ CallLost(c)
    \/ \E k \in Keys, n \in Attempts : Abandon(k, n)
    \/ Tick

Spec == Init /\ [][Next]_stepVars

\* The reconciler polls with setInterval for as long as the platform runs.
Reconciles == \A k \in Keys, n \in Attempts : WF_stepVars(Abandon(k, n))
FairSpec == Spec /\ WF_stepVars(Tick) /\ Reconciles

----------------------------------------------------------------------------
(* Safety.                                                                  *)

\* Only the newest attempt can hold the fence of completeStepAttempt and
\* failStepAttempt: active_attempt_id never names an attempt that a later
\* claim has superseded, whatever the order of claims, commits and abandons.
ActiveIsLatest ==
    \A k \in Keys : activeAttempt[k] \in {Null, attemptCount[k]}

\* The reconciler looks for expired attempts by step_attempts.status alone, so
\* a RUNNING step is recoverable only while the attempt it names is RUNNING.
RunningIsRecoverable ==
    \A k \in Keys : status[k] = "RUNNING" =>
        /\ activeAttempt[k] # Null
        /\ attemptStatus[k][activeAttempt[k]] = "RUNNING"

\* A step has at most one COMPLETED attempt, it has one exactly when the step
\* is COMPLETED, and that attempt's output is the one the step stores.
OneWinner ==
    \A k \in Keys :
        /\ status[k] = "COMPLETED" <=> output[k] # Null
        /\ \A n \in Attempts : attemptStatus[k][n] = "COMPLETED" <=> output[k] = n

\* No two callers ever own the same attempt, and no caller owns one that has
\* been completed or failed: what a handler returns is committed at most once.
OneOwner ==
    \A c \in Callers : pc[c] = "handler" =>
        /\ held[c] # Null
        /\ attemptStatus[key[c]][held[c]] \in {"RUNNING", "ABANDONED"}
        /\ \A d \in Callers \ {c} :
              pc[d] = "handler" /\ key[d] = key[c] => held[d] # held[c]

\* Replay is deterministic: every execution of the handler that got a result
\* for a step key, on any worker, from the handler or memoized, got the same.
ReplayAgrees ==
    \A r, q \in delivered : r[1] = q[1] => r[2] = q[2]

\* A COMPLETED step is never executed, failed, abandoned or overwritten again.
CompletedIsFinal ==
    [][\A k \in Keys : status[k] = "COMPLETED" =>
          /\ status'[k] = "COMPLETED"
          /\ output'[k] = output[k]
          /\ attemptCount'[k] = attemptCount[k]]_stepVars

\* A settled attempt keeps its outcome: neither a zombie's commit nor the
\* reconciler rewrites the record of an attempt that has ended.
SettledIsFinal ==
    [][\A k \in Keys, n \in Attempts : attemptStatus[k][n] \in Settled =>
          attemptStatus'[k][n] = attemptStatus[k][n]]_stepVars

\* The inductive invariant behind the safety properties.  Numbered: attempts
\* are numbered without gaps up to attempt_count.  FenceHolds: an attempt that
\* holds the fence was not abandoned, and if it is unsettled its step is
\* RUNNING.  DeliveredIsStored: what was returned is what the step stores.
Numbered ==
    \A k \in Keys, n \in Attempts :
        attemptStatus[k][n] = "NoRow" <=> n > attemptCount[k]

FenceHolds ==
    \A k \in Keys : activeAttempt[k] # Null =>
        /\ attemptStatus[k][activeAttempt[k]] # "ABANDONED"
        /\ attemptStatus[k][activeAttempt[k]] = "RUNNING" => status[k] = "RUNNING"

DeliveredIsStored == \A r \in delivered : output[r[1]] = r[2] /\ r[2] # Null

IInv ==
    /\ TypeOK
    /\ ActiveIsLatest
    /\ RunningIsRecoverable
    /\ OneWinner
    /\ OneOwner
    /\ Numbered
    /\ FenceHolds
    /\ DeliveredIsStored

----------------------------------------------------------------------------
(* Liveness.                                                                *)

\* An attempt that nobody works on any more settles, whether its worker
\* crashed before or after another attempt superseded it: its lease runs out
\* and the reconciler finds it, although no step may name it.
Orphaned(k, n) ==
    /\ attemptStatus[k][n] = "RUNNING"
    /\ \A c \in Callers : ~(pc[c] = "handler" /\ key[c] = k /\ held[c] = n)

OrphansSettle ==
    \A k \in Keys, n \in Attempts :
        Orphaned(k, n) ~> attemptStatus[k][n] = "ABANDONED"

----------------------------------------------------------------------------
(* What a document says and the code does not do.                            *)

\* CONTEXT.md calls a lease "a time-bounded exclusive lock held on an active
\* attempt": then no step has two unsettled attempts whose leases both run.
LeaseIsExclusive ==
    \A k \in Keys : \A n, m \in Attempts :
        /\ attemptStatus[k][n] = "RUNNING" /\ leaseLeft[k][n] > 0
        /\ attemptStatus[k][m] = "RUNNING" /\ leaseLeft[k][m] > 0
        => n = m

----------------------------------------------------------------------------
(* What a durable step promises, stated without attempts, leases or rows.   *)

Promise == INSTANCE DurableStep WITH Outputs <- Attempts, NoOutput <- Null,
                                     result <- output
WriteOnce == Promise!Spec
============================================================================
