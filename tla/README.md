# A formal model of the Durable Workflow Execution Platform

TLA+ modules, TLC configurations and TLAPS proofs for the platform in `src/`:
workflows written as TypeScript functions whose steps are memoized in
PostgreSQL, executed by workers that take jobs from BullMQ, and repaired by a
reconciler.

## The system

| Part | State | Operations | Hard behaviour |
|---|---|---|---|
| Step repository (`packages/database`) | `step_executions`, `step_attempts` | `claimStepAttempt`, `completeStepAttempt`, `failStepAttempt`, `renewAttemptLease` | transactions of many workers on one row, READ COMMITTED re-evaluation, leases that expire under a running handler |
| Step context and executor (`packages/workflow-sdk`) | seen keys, in-flight promises, the run's status | `step.run`, `settleInFlight`, `execute` | replays on several workers at once, `Promise.all`, suspension against failure |
| Worker (`apps/worker`) | the job in hand | `processJob`, the continuation after a suspension | crash between any two statements, version missing, status written by id alone |
| Queue (BullMQ in Redis) | jobs by id: waiting, delayed, active, finished | `add` (ignored for a known id), stalled-job recovery, loss of all data | ids used up, redelivery |
| Reconciler (`apps/reconciler`) | none of its own | pending runs, due retries, expired leases | races with workers; adds jobs inside its transactions |
| Control API (`apps/api`) | `workflow_runs`, `ingested_events`, bindings | `POST /runs`, `/runs/:id/retry`, `/runs/:id/cancel`, `/events`, the GET routes | read, then update by id; commit without enqueue; idempotency races; requests that break off and are sent again |
| Event stream (`routes/runs.ts`, `run-events-multiplexer.ts`) | `execution_events`, Pub/Sub subscriptions, a cursor per connection | `subscribe` and what it returns, `fetchAndFlush`, `cleanup` | wake-ups during a fetch, listeners that come while others go, event ids out of commit order, broken connections |
| Concurrency limits (`apps/worker/concurrency.ts`) | sorted sets of leases in Redis | acquire, renew, release scripts | lease expiry under a running run, two passes of one run sharing a slot |
| Rate limiter (`apps/api/plugins`) | token bucket in Redis | one script | clocks of several processes |
| Client (`packages/client`) | the caller's last event id | one request per call, `streamEvents` | lost answers, reconnecting |
| Dashboard (`apps/dashboard`) | copies for display | reduces events | none of its own |

The parts meet in PostgreSQL (the source of truth) and in Redis (jobs, which
may be lost). Workers, the reconciler and the API never call each other: they
change rows, and add jobs. What makes each part correct:

* steps: one result per step key, whichever attempts ran, crashed or came late;
* executor and worker: steps in the handler's order, COMPLETED only when all
  steps are, FAILED only because of a step;
* queue and reconciler: a run that has not ended is always continued;
* limits: never more holders than the limit, no slot held for ever;
* control API: one run per idempotency key and one per event and binding,
  whatever overlaps and fails; a committed run whose first job was lost is given one
  in the end; no answer shows another tenant's runs; no more calls than the limiter's budget;
* event stream: events in order, once each, over all of a reader's connections;
  a stream that stays catches up, and ends with its run.

## Modules

| Module | Models |
|---|---|
| `StepFencing` | the rows of steps and attempts, every transaction on them, `executeStep` around them, the reconciler's expired-lease pass, time |
| `DurableStep` | what `step.run` promises: a write-once result per key |
| `StepFencing_proofs` | theorems about `StepFencing` |
| `DurableEngine` | one run end to end: `processJob`, `execute`, the queue, the reconciler, retry and cancel requests, faults; extends `StepFencing` |
| `DurableEngine_proofs` | theorems about `DurableEngine` |
| `SequentialRuns` | runs of `DurableEngine` with one step at a time: the inductive invariants behind `NoRunLost`, `FailureHasCause` and `RunEndStands`, and their hypotheses |
| `SequentialRuns_proofs` | that such a run is always continued |
| `FailureCauses_proofs` | that one pass at a time works on such a run, why it fails, and that its end stands |
| `ConcurrencySlots` | the limits of a workflow and its partitions: the three Redis scripts, the worker's timers, a pass around them |
| `ConcurrencySlots_proofs` | theorems about `ConcurrencySlots` |
| `EventFeed` | what the event stream promises its reader |
| `RunEventStream` | `handleEventsStream`, the multiplexer, the writers of events, the wake-ups, a reader that reconnects |
| `RunEventStream_proofs` | theorems about `RunEventStream` |
| `StreamRest_proofs` | that no wake-up of a stream is lost |
| `TokenBucket` | the rate limiter's script and `checkRateLimit` |
| `ControlApi` | the requests of the client, from the API key to the queue; extends `TokenBucket` |
| `PendingScan` | many runs: the reconciler's scan of PENDING rows, and what their jobs leave; extends `ControlApi` |
| `ControlApi_proofs` | theorems about `ControlApi`, `TokenBucket` and `PendingScan` |
| `MCStepFencing`, `MCDurableEngine`, `MCConcurrencySlots`, `MCRunEventStream`, `MCControlApi` | instances for TLC |

### StepFencing

`status`, `attemptCount`, `activeAttempt`, `output` and `retryLeft` are the
columns of `step_executions`; `attemptStatus` and `leaseLeft` those of
`step_attempts`, an attempt being named by its number (unique per step). A
caller is one call of `executeStep`: `idle`, `selecting` (its claim
transaction has taken its snapshot) or `handler` (the claim has committed, the
user's code runs). Times are countdowns that `Tick` lowers together.

`claimStepAttempt` is two steps, because another transaction may commit between
its snapshot and the lock on the row. `SELECT ... FOR UPDATE OF s` then goes on
with the *new* version of the step's row, but with the attempt's row its
snapshot had joined; `LeaseSeenLive` says what lease the claim believes in. The
other transactions lock and decide in one statement and are one step each.
Failures of the handler and timeouts are one action with the recorded status as
parameter; the output of a step is named by the attempt that computed it.

### DurableEngine

A slot is a place of a worker that handles one job. `slot` follows it through
`processJob` and `execute`, with one value for every point between two database
statements: `dispatch` (run not read yet), `block`, `begin`, `start`,
`handler`, `complete`, `fail`, `suspend`. The callers of `StepFencing` are the
pairs of a slot and a key. The handler is abstracted to its stages: it awaits
`Promise.all` of the steps of one stage before the next, and lets rejections
propagate; sequences and parallel siblings are instances. Its first rejection
decides what the executor does (`suspended`, `stale` or `error`), after the
steps in flight have settled.

A job id is `absent`, `queued` (waiting or delayed), `active` or `kept`:
`queue.add` under an id that is not absent does nothing, and the queue is made
without `removeOnComplete`, `removeOnFail` or `attempts`, so a finished or
failed job keeps its id for good. A crash loses a slot's calls and leaves the
job active; BullMQ gives such a job to a worker once more and fails it the
second time.

Faults are switched on by kind and bounded by `FaultBound`: `crash` of a
worker, `flush` of Redis, an `enqueue` lost after its transaction committed, a
`database` statement refused, a `slow` handler that outlives its lease (where
`SlowHandlers` does not let every handler be slow).

What it leaves out of `processJob` is the concurrency limit (`worker.ts:168`): a
job that is refused its slot is added again with a delay under a new id, and when
that fails the job ends with its id used up. So `NoRunLost`, `ContinuationInv` and
`RunStaysEnded` are about workflows without a limit. Workers, PostgreSQL and BullMQ
have one clock (`EngineTick`); with clocks that differ a retry's job may come before
`next_retry_at`, and its pass is told to wait with the id used up. And a job stalls
only when its worker crashed or lost it: a lock that BullMQ takes for lost while the
worker goes on (a blocked event loop) would give a run two passes. The query for
the first step in RETRY_WAIT and the enqueue that follows (`worker.ts:190-205`) are
one step.

### ConcurrencySlots

`left[k][r]` is the sorted set of Redis key `k`: what is left of the lease of
member `r`, 0 when it has ended and nobody has pruned it, `Absent` when it is no
member. `held` is a worker's `activeLeases`, `renewIn` its timers. A pass of
`processJob` is `idle`, `granted` (Redis has run the script, the answer is under
way) or `executing`. The scripts are operators on the sets, order of the prunes
included: a refusal at the workflow's key leaves the partition's unpruned.
`release` deletes the entry and sends its script without awaiting anything
between, so it is one step; it finds no entry when another pass of the run on the
worker has released before. Renewal's answer is ignored by the code, so a pass
never learns that it has lost its slot.

A crash, an answer or a release that is lost may happen at any time. A second
pass of a run at work, time that passes over a due timer or a pending answer (a
blocked event loop, a slow Redis) and a flush are switched on by `Disturbances`
and remembered in `disturbed`, because the limits bound the *executions* only
until one of them happens; the limits on the *sets* hold anyway. A timer fires
after half the time to live; the floor of 100 ms (`concurrency.ts:193`) is later than
that below 200 ms, which is not covered. Clocks of
workers and Redis agree; `close` runs after the worker's passes have ended and
finds nothing to release.

### RunEventStream

One run's events, one API process, one reader. `InsertEvent` takes an id from the
sequence and `CommitEvent` shows it, so ids may commit out of order; events that
end or reopen the run hold the run's row and commit in order. A committed event
has a wake-up under way, or is `quiet`: the reconciler publishes none, and a
failed publish is swallowed.

The multiplexer has one Redis connection, which keeps commands in order:
`commands` are the SUBSCRIBE and UNSUBSCRIBE on their way, `channel` what Redis
has of them. `subscribe` joins a pending promise or sends a SUBSCRIBE;
`Leave` is the function it returns. `handler`, `fetch`, `rows`,
`hasPendingWakeup`, `closed`, `unsubscribe` and `lastSentId` are the variables of
each `handleEventsStream`; `fetch` has a value for every await of
`fetchAndFlush`: `query`, `status`, `count`, and `end` for the `cleanup` that is
awaited before the response ends. `rows` is the query's result, written one event
at a time, because the request may close between. What is on `wire` is lost when
the connection breaks. The reader opens its next stream with the last id it was
given, as callers of `streamEvents` do.

`EventFeed` is the promise: the next event delivered is committed, has a greater
id than all before, and skips only events that are `late` (committed after a
greater id). `ImplementsEventFeed` maps the log and what the reader was given
over all its connections.

### TokenBucket and ControlApi

`TokenBucket` is the Lua script as one step per call, with the fields of a
tenant's hash and the time Redis drops it. Time is counted in the smallest
difference of the callers' fractional seconds; the script refills by the time the
*caller* gives, which is at most `MaxSkew` behind Redis's clock and may go back
from call to call. `rewound` remembers by how much it did. `RetryAfter` is rounded
up to this unit; the code rounds up to a second and answers one at least, which is
never sooner than what `PromiseKept` is checked for.

`ControlApi` follows each request through `find`, `insert`, `reread` and
`enqueue`, the awaits of the handlers of `POST /runs` and `POST /events`. The look-up
of the API key and the limiter are part of its arrival, since a request that has
not passed them has had no effect and what they decide depends on nothing that
comes between. A transaction is one step, with the unique constraints
`(tenant, request_idempotency_key)` and `(tenant, event_id)`: PostgreSQL makes the
second insert wait for the first one's end. `BreaksOff` is a database error or the
death of the process at any await; `EnqueueFails` leaves some of an event's jobs
added; `LimiterFails` is a Redis that fails before or after the script. A caller's
retry is one more request with the same key.

A run is named by its tenant, its key and the request that created it. An event id
has one name: the bindings are the tenant's (`events.ts:59` selects by tenant and
name, while the unique constraint on the id has no name in it).

`PendingScan` adds what makes up for a queue that failed: the reconciler's scan of
PENDING rows, and the workers that take rows out of it. What becomes of one run
afterwards is `DurableEngine`'s; here there are many, and the question is which of
them `reconcilePendingRuns` gets to. `created` is the order of `created_at`, `left`
the rows that are PENDING no more or blocked, `usedUp` the runs whose job is gone
while their row is as it was: `processJob` failed before the run started (BullMQ
tries once), or when it was to add the job again that the concurrency limit had
refused. The scan takes the first `BatchSize` rows that are PENDING and not
blocked, runs with and without jobs alike, begins there again each time, and adds
under the id `run_<id>`, which BullMQ ignores when it knows it. `created_at` is the
time of the transaction's start; the model orders rows by commit. One reconciler
runs, for all tenants (a second skips the rows the first has locked); Redis keeps
its data; no run is retried or cancelled.

## Checks

Passing runs:

| Run | Instance | Shows |
|---|---|---|
| `fencing` | 3 callers, 1 key, 3 attempts, lease 2, heartbeats | the fence: one winner, one owner per attempt, no settled or completed row changes, replays agree, orphaned attempts are abandoned, refinement of `DurableStep` |
| `engine_sequence` | 2 steps in sequence, 2 slots, slow handlers, 1 crash, flush or refused statement | steps in order across workers, on committed results only; every engine step is a `StepFencing` step, those of a transaction that is rolled back or a job that is added before it included |
| `engine_parallel` | 2 steps in parallel, 2 slots, a cancel request | the run is COMPLETED only with all its steps, whatever their passes do together |
| `engine_requests` | 2 steps in sequence, 2 slots that execute and an incompatible worker, slow handlers, a retry and a cancel request, 1 lost first or later enqueue | a FAILED run has a FAILED step; only a request changes COMPLETED and FAILED; one job or live pass at a time works on the run (`FailureInv`) |
| `engine_ends` | 2 steps in sequence, 2 slots, 1 crash, lost enqueue or slow handler, fair | no run is lost, with the inductive invariant that says what continues it (`ContinuationInv`); the run ends and stays ended |
| `slots` | 3 runs in 2 partitions, limits 2 and 1, 2 workers with 3 places, lease 2, every disturbance, fair time | both limits kept by the sets always and by the executions undisturbed; a run's two leases end together; no timer outlives its pass; abandoned slots are freed |
| `stream` | 2 event ids, 2 connections, 2 opens, 1 fault (crash, refused query, failed SUBSCRIBE) | the stream implements the feed; no listener is deaf or left behind; a stream at rest owes its reader nothing; a stream that stays catches up and ends with its run |
| `api` | 3 requests of 2 tenants and an invalid key, 2 bindings, a bucket of 3 at cost 2, 3 instants, skew 1, 1 fault, a batch of 2 | answers for one key agree on one run; an event answered has its runs; tenants are apart; the limiter's budget and its Retry-After hold; a committed run without a job is given one in the end, unless a batch of older rows whose job ids are used up is before it (`EveryRunReached`) |

The runs of `fencing`, `engine`, `stream` and `api` check the type invariants as the
first conjuncts of `IInv`, `EngineInv`, `StreamInv` and `ApiInv`; `EngineInv` is one of
`ContinuationInv` and `FailureInv`.

Each property of a passing run has a mutant: an operator marked "Mutant" in the
module is a plausible bug (a dropped fence, a forgotten status filter, a job id
without the attempt count), and with it in place TLC finds the property
violated under the same configuration.

Disagreements of code and documents that a run shows, TLC finding the
documented property violated:

| Run | What happens |
|---|---|
| `fencing_exclusive_lease` | two claims racing for a step, due for a retry or with an expired lease, are both granted a lease, since the second decides on the attempt row its join read before it waited (the fence still lets only the newer commit) |
| `engine_lost_parallel` | without any fault, two overlapping passes suspend on each other's step and the run stays RUNNING with every step COMPLETED |
| `engine_lost_flush` | a crash with no step in flight (the shortest trace: right after StartRun, before the first; between two steps alike), then loss of Redis: no scan selects the RUNNING run |
| `slots_overlap` | two passes of one run overlap, the first to end releases the slot of both, and another run of the partition executes beside the second |

### Divergences without a run

The modules have these behaviours too (each is why a property above carries the
condition it does), but no run is spent on them:

* A worker that wakes up after its lease expired commits if nobody has abandoned
  or superseded its attempt: the fence (`step-repository.ts:148`) looks at
  `active_attempt_id` only. `README.md:26` promises "100% rejection".
* A run blocked by a worker without its version is never resumed:
  `reconciler.ts:112` excludes it and no other pass selects it. Story 18 (spec line 41) says blocked runs "resume automatically".
* The job id `run_<id>` is used up by its first job, which Redis keeps even when
  it failed. The reconciler adds under the same id (`reconciler.ts:129`), so a
  run left PENDING by a retry whose enqueue was lost, or by a job that failed on
  a database error, is not re-enqueued. Issue 07 line 11 asks for it.
* Steps start after a cancellation: `executor.ts:39` looks at the status once,
  before the handler. Story 20 (spec line 43) says none may.
* Cancel reads the run and updates it by id (`runs.ts:264`): a cancel that read
  RUNNING before the run completed sets the COMPLETED run CANCEL_REQUESTED, from
  which nothing takes it any more.
* A step FAILED by the reconciler because `retry_limit` is exhausted is claimed
  again by the replay the same transaction enqueued (`reconciler.ts:273`). Issue
  04 line 14 says it fails the run.
* A worker that read PENDING sets a run RUNNING that another has completed since
  (`executor.ts:47`). Issue 06 line 12 says terminal runs are left alone. With
  sequential steps and one retry request it takes a crash, a flush or a refused
  transaction to get there (`RunEndStands`); with two steps in parallel, as in `engine_parallel`, it does
  not: a pass begins on a FAILED run that its DispatchJob still read RUNNING.
  CANCELLED is overwritten without any fault, by RUNNING (`executor.ts:47`) or by
  PENDING and blocked (`worker.ts:137`), when a pass read the run before the cancel
  request wrote it; `RunEndStands` says nothing of CANCELLED.
* The scan of PENDING rows starves what is behind its batch: when `batchSize`
  older rows stay PENDING with a used-up job id, `reconciler.ts:114` selects these
  each time and no newer row. `EveryRunReached` excuses exactly this (`Starved`), and
  TLC finds it with the excuse dropped. Such rows come of `processJob` failing on a
  database or Redis error before the run started, or when a job that the concurrency
  limit refused was to be added again (`worker.ts:179`).
* An event that commits after one with a greater id is never given to a reader
  whose cursor has passed it (`runs.ts:381`). The plan of ticket 11 (line 4) says
  "zero event loss across disconnections and reconnects". `EventFeed` calls such
  events late.
* The stream of a run that was retried, opened without a cursor, ends at the
  WORKFLOW_FAILED of the earlier attempt (`runs.ts:401`).
* The reconciler publishes no wake-ups, and a failed subscription is swallowed
  (`runs.ts:460`): with no other wake-up the stream stays silent, for nothing
  polls. `StreamSettles` and `RestIsSettled` therefore speak of events that a wake-up
  follows.
* A stream resumed behind a run's end, with events after it, sends them and stays
  open: the status is read only when a fetch was empty (`runs.ts:415`).
* `POST /events` answers a duplicate with `runs: []` (`events.ts:41`); the plan of
  ticket 09 (line 17) says it returns the ingested event. A caller whose first
  answer was lost cannot learn its runs from it.
* `startServer` creates the app without a queue (`index.ts:13`), so the server's
  own API adds no jobs; its runs wait for the reconciler. (`Queueing` is this.)
* An event's run takes its idempotency key, `event_<id>_binding_<id>`, from the
  callers' namespace; a caller that makes up such a key makes the event's delivery
  fail as a "duplicate". `KeysApart` assumes that none does.
* The same idempotency key with another body returns the existing run; a call
  without a key that got a 500 after the commit creates a second run when sent
  again.

### Bounds

`AttemptBound` caps the attempts of a step; a claim beyond it is not taken, so
no run checks deadlock. Three attempts are the least in which an attempt can be
superseded by one that is itself superseded; `engine_ends` has four, which one
crash or slow handler and the retries cannot exceed, so the bound hides no lost run
there. `engine_requests` has three as well: a retried run's step is claimed once more
after its two. It has two slots that execute, with handlers that may outlive their
leases at any time, so that a pass that lost its fence works beside the one that
took over, and a third slot without the version (727,000 states; `engine_sequence`
328,000, `engine_ends` 327,000, `api` 880,000). Two
slots are enough for every race of two passes; a third caller in `fencing` lets
a takeover race two zombies. `LeaseDuration` 2 lets a lease be live, older and
still live, and expired. `RetryLimit` and `MaxRetries` are small so that both
ends of the retries are reached. In `slots` two runs share a partition and a
third shares only the workflow's limit, so that each key can be the one that
refuses; one worker has two places, for passes that share its timers. A lease of
2 is renewed after 1, the shortest in which a renewal can be on time. Steps
beyond two add no new interleaving of a pass with another: what a pass does at a
step depends on that step and on whether the earlier ones are done.

In `stream` two ids are the least that can commit out of order or be split by a
disconnection, and two connections the least for one to leave while another
subscribes; the second open is the reconnection. In `api` two requests race and a
third comes after or between; a bucket of 3 at cost 2 has a remainder that must
not count as a token, refusals, and a refill; three instants let a key of life 2
expire. In it the first tenant's valid requests share a key and an event, so every
pair of its requests can collide; the second tenant asks for a run of the first's, and
the invalid key for a list. A batch of 2 can be full of rows whose jobs are used up
and leave the third run behind it, and less than full beside one that is. A call
without a key, and a list that is answered, are not in the instance; the theorems
have them.

### Fairness

`FairSpec` asks that time passes and that the reconciler, which polls with
`setInterval` until stopped, gets to every expired attempt; no caller need make
progress. A worker may keep an attempt alive with heartbeats for ever, so
`OrphansSettle` speaks of attempts that nobody owns. `EngineFairness` adds that
workers take jobs and go on with them (handlers return, throw or time out), that
a crashed worker is restarted and that BullMQ looks for stalled jobs. Faults and
requests are never fair. `SlowHandlers = FALSE` in `engine_ends` keeps handlers within
their leases but for the one "slow" fault: a handler that is always too slow is
abandoned and retried for ever, which no property could forbid, since the platform
sends no heartbeats. Time is fair only where `MayTick` holds, so that the fault need
not happen; where it does not hold a handler is at work, which is fair to end.
`ReconcilePendingRun` is fair for the one run of the module, which stands for a run
that the scan gets to; `PendingScan` says when it does.

`slots` assumes only that time passes: neither a pass nor a timer need do
anything for an abandoned slot to be freed.

`stream` assumes that something of what the platform does by itself happens as
long as something can (`Progress`: Redis answers, wake-ups arrive, handlers go on,
the reader reads). With bounded events and opens each process has finitely many
steps to do, so this is as strong there as fairness of each. Events, commits,
opens and disconnections are never fair, and a fault ends the obligation.

`api` assumes that the reconciler's loop goes on (`start` catches what a tick throws)
and that workers take jobs that wait and end with them, one way or the other:
`ProcessJob` may start the run, block it, or fail. Fairness does not choose: a run that
is reached is one that the order, the limit and the failures of others let the scan
reach. A job that the concurrency limit refuses and that is added again waits on; that
it is taken in the end rests on executing runs ending. Requests are never fair: one
may never go on, but a run that it committed is in the scan.

## Proofs

`StepFencing_proofs` proves, for every set of keys and callers, every lease,
delay, retry limit and attempt bound:

* `TypeCorrect`, and `Inductive`: `IInv` holds of every reachable state;
* from it each safety invariant `fencing` checks (`FenceIsNewest`,
  `Recoverable`, `AtMostOneWinner`, `AttemptHasOneOwner`,
  `ReplayIsDeterministic`), the action properties (`CompletedStays`,
  `SettledStays`) and the refinement (`ImplementsDurableStep`).

The safety invariants are not inductive alone. `OneWinner` needs that the
attempt which passes the fence has not been completed before: its caller owns
it (`OneOwner`), so it is RUNNING or ABANDONED, and an attempt that is still
`active_attempt_id` was not abandoned, and if unsettled its step is RUNNING
(`FenceHolds`), hence not COMPLETED. `OneOwner` needs that a new attempt's
number was never used (`Numbered`), and the refinement needs that what was
delivered is what is stored (`DeliveredIsStored`). The proof of `StepIInv` has
one step per action and one per conjunct the action can disturb; `RowWrites`
collects what any step may do to a row, from which the action properties
follow. The assumptions are those named in `StepFencing` about its constants.

`DurableEngine_proofs` proves, for every set of keys in any number of stages,
every number of slots, requests and faults:

* `EngineImplementsStepFencing`: every step of the engine is a step of
  `StepFencing` or leaves its variables alone. `IInv` and the action properties
  of `StepFencing` hold of the engine through it (`EngineCompletedStays`);
* `EngineInductive`: `EngineInv` holds of every reachable state, and from it
  `EngineTypeCorrect`, `CompletedRunIsWhole`, `StagesFollow` and
  `PassesSeeCommitted`.

`CompletedRunHasAllSteps` speaks of rows, while the executor writes COMPLETED
from what one pass remembers, so `PassOK` ties the two together: what a pass was
given is COMPLETED in the rows (and stays so, by `CompletedIsFinal`), and a pass
without a rejection has, for every step it called, a result or a call under way.
When no call is under way and nothing is left to call, every step has returned:
a step missing a result would be in a first such stage, whose earlier stages
have all returned, so it would have been called. That argument is where stages
must be natural numbers. `ReplaysCounted` bounds the replay ids that retry
requests use, which the type of `job` needs; it assumes `Retriers` finite.

`EngineWritesOnce` composes the two refinements: the whole engine implements
`DurableStep`.

`SequentialRuns_proofs` and `FailureCauses_proofs` speak of handlers that await one
step at a time (`Sequential`; each step its own stage). They follow what is still
good for something: a job that waits for a worker, or a *live* pass, one that may
yet write the run's end. A pass that was told to wait, or whose attempt has lost
the fence, is not live; it is on its way out whatever it does.

* `RunContinues`: `ContinuationInv` holds of every reachable state, under
  `Undisturbed`, and from it `NoRunIsLost`. `NoRunLost` is not inductive: it is
  content with any job that is active and any slot at work, also those that will do
  nothing more. `Continues` asks for a queued job, an active one that nobody works on
  (BullMQ redelivers it), a live pass, or a row for which the reconciler adds a job
  under an id that Redis does not hold. A pass that suspends was told to by a step in
  RETRY_WAIT or RUNNING; it may leave only if that step's retry job is not used up.
  `RetryJobsFollow` says so (the id carries the attempt count, and is added when the
  attempt is over), and `RetryJobsWait` that a job delivered for a retry finds the
  step due, so that its pass is not told to wait again with the id gone.
  `JobsOwned` and `StallsCounted` count redeliveries: a job fails at its second
  stall, and with one crash there is no second.
* `OneTokenAtATime`: `FailureInv` holds of every reachable state, with one retry
  request (`OneRetrier`), and what it says of tokens holds until a fault other than a
  lost enqueue or a slow handler happens (`Calm`). There is one token, a queued job
  or a live pass (`OneToken`); a RUNNING step is held by a live pass that has its fence
  (`RunningIsHeld`), so that the reconciler, when it abandons the step, takes the token
  from the pass to the job it adds; a step in RETRY_WAIT whose job has been added has
  spent it (`RetryTaken`); and a run that FAILED or COMPLETED has none (`FailureRests`,
  `CompletionRests`), so the replay that a retry adds is the only one. Slow passes
  that lost their fence may be around in any number.
* From it `FailureIsCaused`: a pass with the token meets no insert of another
  (`SelectionHolds`), so the error it fails the run with is a step's, and nobody
  claims that step again. And `EndIsFinal` (`RunEndStands`): BlockRun, StartRun,
  CompleteRun and FailRun are steps of live passes, of which there is none.

The hypotheses are theirs, not assumptions of the modules, and each is needed: TLC
finds `NoRunLost` violated with one refused transaction, a worker without the
version, a cancel request, one flush of Redis, two crashes, or a lost enqueue together
with a retry request; `FailureHasCause` and `RunEndStands` with two retry requests;
and all three with steps in parallel (`engine_lost_parallel` is one of these). The
number of steps, workers, attempts, leases and delays is arbitrary, and handlers may
be slow.

`ConcurrencySlots_proofs` proves, for every set of runs, workers, partitions,
limits and time to live, `LimitsHold`, `SlotsAreTakenTogether`,
`NoStrayHeartbeat` and `ExecutionIsBounded`. The last needs `Undisturbed`: a pass
that executes is in its worker's `activeLeases`, and its leases outlive the next
renewal by `Ttl - RenewInterval`; so it is a live member of its sets, and a set
has no more members than its limit. That a worker renews in time uses that a run
has one pass (`OnePassEach`): a release by another would take the entry away.
`LimitsHold` counts: what the acquire script leaves in a set is its live members
and the run it lets in (`AcquiredSet`), and no other step adds a member.

`RunEventStream_proofs` proves, for every number of ids, connections, opens and
faults, `StreamInvariant`, and from it `StreamTypeCorrect`, `SubscriptionHeld`,
`ListenersCleanedUp` and `StreamImplementsFeed`. The subscription is held because
the last command on its way is a SUBSCRIBE exactly while some handler waits for one
(`CommandsInv`), and because a listener is in the set while its handler waits or
holds its function (`ConnectionInv`): a listener that leaves an empty set
unsubscribes nobody, and a handler that subscribes after it sends its command
behind the UNSUBSCRIBE. For the feed, `CursorInv` follows an event from the
query's result to the wire to the reader: each id on the wire follows the one
before (only late ids between), the cursor stands at the last one written, and
`rows` holds every event after the cursor that is not late. An event that commits
while rows are being written either has a greater id than they, or is late by
definition; that is why the rows may be used after the query's snapshot is old.

`StreamRest_proofs` proves the safety half of `StreamSettles`, again for every value
of the constants: `StreamRests`, a stream that came to rest without a fault owes its
reader nothing (`RestIsSettled`). What is left to TLC of `StreamSettles` is that a
stream comes to rest or ends. At rest nothing is being done, so the inductive
invariant, `PursuitInv` (`WakeupsPursued`), says for each event that is due what will
bring it: a wake-up to be published, a subscription to be granted (a fetch follows),
a query under way or remembered in `hasPendingWakeup`, the rows being written, or the
wire. An event that commits during a fetch has a wake-up to come, and the wake-up
finds a listener, since the handler holds its function (`Listening`) and the channel
is then subscribed (`ChannelHeld`). A query finds whatever is due because up to the
cursor everything was given, is on the wire or is late (`CursorAccounts`); that
survives a reconnection because `GivenInv` says the same of the last id the reader
was given. For the end of the stream, `WritersInv` says that a run whose newest event
ended it is terminal when its status is read, and `EndNoticed` that a stream opened
behind that event gets to read it. The invariant speaks of streams without faults: a
SUBSCRIBE that Redis refused leaves a stream deaf, as the list above says.

`ControlApi_proofs` proves, for every set of tenants, API keys, idempotency keys,
bindings and requests and every size of bucket, `ApiInductive` and from it
`ApiTypeCorrect`, `AdmissionIsBounded`, `RetryAfterIsEnough`, `OneRunPerKey`,
`EventsAreWhole`, `TenantsApart` and `OnlyAdmittedCreate`. `AdmissionBounded` is
not inductive: `BudgetInv` says that what a bucket holds is paid for as well, by
the time of its last call, and that a key which has expired was left for `Ttl`, in
which a bucket fills (`TtlAssumption`; the script takes twice that time), so that
beginning anew gives nothing away. `HandlerInv` says what a request has created by
where it is; a request that is to create a run has none yet, so the runs have no
more creators than calls were allowed, and an answer of 201 holds exactly what its
request created. `EventsWhole` ties the events to their runs: it is what lets the
loser of a race answer "duplicate" at once, and it needs `KeysApart`.

`ScanIsApi` carries all of this to `PendingScan`: with the reconciler's selection and
the workers beside the API, every step is one of `ControlApi`, or leaves its variables
alone. `LeavesByItsJob` is the scan's type invariant: a row leaves PENDING, and a job
is used up, only by a job of that run.

Only model-checked: liveness (`OrphansSettle`, `RunStaysEnded`, `SlotsFreed`,
`StreamSettles`, `EveryRunReached`), which the prover cannot do. Every other property
of a passing run is a theorem.

## Not modelled

* The contents of inputs, outputs and errors, and the batches of due retries and
  expired leases (a batch is its rows, one after the other; `SKIP LOCKED` only leaves
  rows for a later batch); a reconciler for one tenant (`reconciler.ts:94`). The reconciler
  adds a job before its transaction commits; the model adds it with the commit, or
  with the rollback.
* Handlers that catch a step's error or run chains of steps in parallel. With
  chains, `settleInFlight` (`step-context.ts:38`) awaits the steps in flight when it
  is called, and a chain beside the rejected one may call its next step after it.
* The backoff formula: a delay is any of the constant `Delays`. It matters only for
  how long a step waits, and the formula has one minimum and no state.
* The multiplexer's `close`, the keepalive comments, and how `streamEvents` splits
  its text into events.
* The dashboard: it shows what the API returns, and its reducer's copy is replaced
  by the next query. (Its `EventSource` sets `onmessage`, which a browser does not
  call for frames that carry an `event:` name, as all of the stream's do.)
* `GET /metrics` and the registration of workflows, single reads and one upsert whose
  rows no other part reads; `lastUsedAt` and the revocation of API keys.
* Benchmarks, scripts and the order-processing example, which are users of the
  platform; the example's handler is an instance of `DurableEngine`'s stages.
