------------------------------ MODULE ControlApi -------------------------------
(***************************************************************************)
(* The requests that the control API takes from the client package: POST    *)
(* /runs, POST /events, GET /runs/:id and GET /runs, through the API key,   *)
(* the rate limiter, the look-up of what was already created, the           *)
(* transaction that creates runs, and the queue.                            *)
(*                                                                          *)
(* Every await of a handler is a place where other requests come between,   *)
(* or where the request breaks off: a database or Redis error, the process  *)
(* dying.                                                                   *)
(* A caller that got no answer, or an error, sends its call again: to the   *)
(* API this is one more request, perhaps while the first is still under     *)
(* way.                                                                     *)
(***************************************************************************)
EXTENDS TokenBucket, FiniteSets

CONSTANTS
    Requests,    \* bound: the requests ever sent
    Asks,        \* bound: the calls that are sent
    ApiKeys,     \* the keys that callers present
    TenantOf,    \* those of them that are valid, and whose they are
    RunKeys, NoKey,     \* the callers' idempotency keys; a call without one
    EventIds,    \* the callers' event ids
    BindingsOf,  \* workflow_event_bindings: by tenant
    NoCall,      \* in the place of a request's call before it is sent
    Queueing,    \* the app was given a queue (the server's own is not)
    FaultBound   \* bound: how many faults happen in all

\* A run's request_idempotency_key: the caller's, or the one an event's run gets.
BindingKeys == EventIds \X UNION {BindingsOf[t] : t \in Tenants}
Keys == RunKeys \union BindingKeys

ASSUME ApiAssumption ==
    /\ DOMAIN TenantOf \subseteq ApiKeys /\ TenantOf \in [DOMAIN TenantOf -> Tenants]
    /\ DOMAIN BindingsOf = Tenants
    /\ NoKey \notin Keys /\ FaultBound \in Nat

\* Callers do not make up keys of the form event_<id>_binding_<id>: the two kinds
\* share a unique constraint.
ASSUME KeysApart == RunKeys \intersect BindingKeys = {}

\* A run, by the columns that tell runs apart; "by" is the request whose
\* transaction created it.
AllRuns == [tenant : Tenants, key : Keys \union {NoKey}, by : Requests]

RunCall == [op : {"run"}, apiKey : ApiKeys, key : RunKeys \union {NoKey}]
EventCall == [op : {"event"}, apiKey : ApiKeys, id : EventIds]
GetCall == [op : {"get"}, apiKey : ApiKeys, run : AllRuns]
ListCall == [op : {"list"}, apiKey : ApiKeys]
Calls == RunCall \union EventCall \union GetCall \union ListCall

ASSUME AsksAssumption == Asks \subseteq Calls

Phases == {"unsent", "find", "insert", "reread", "enqueue", "answered"}

\* An answer's status.  401, 404, 429, 500, 503 and no answer at all leave the
\* caller with an error.
Statuses == {"none", "200", "201", "error"}

VARIABLES
    runs,        \* workflow_runs
    ingested,    \* ingested_events: the tenants' event ids
    jobs,        \* the runs that a BullMQ job was added for
    call,        \* what each request asks
    at,          \* where it is
    status,      \* its answer's status, "none" before
    named,       \* the runs that its answer holds
    faults       \* how many faults have happened

answerVars == <<status, named>>
vars == <<bucketVars, runs, ingested, jobs, call, at, answerVars, faults>>

ApiInit ==
    /\ BucketInit
    /\ runs = {} /\ ingested = {} /\ jobs = {}
    /\ call = [r \in Requests |-> NoCall]
    /\ at = [r \in Requests |-> "unsent"]
    /\ status = [r \in Requests |-> "none"]
    /\ named = [r \in Requests |-> {}]
    /\ faults = 0

Fault == faults < FaultBound /\ faults' = faults + 1

Goes(r, phase) == at' = [at EXCEPT ![r] = phase] /\ UNCHANGED answerVars

Answers(r, code, rs) ==
    /\ at' = [at EXCEPT ![r] = "answered"]
    /\ status' = [status EXCEPT ![r] = code]
    /\ named' = [named EXCEPT ![r] = rs]

\* request.tenantId.
Tenant(r) == TenantOf[call[r].apiKey]

----------------------------------------------------------------------------
(* A call of the client's run, sendEvent, runs.get or runs.list is one       *)
(* request; what is not 2xx is thrown, and sent again by its caller or not. *)
(* Before a request's handler come the look-up of its API key and the       *)
(* limiter; one that the limiter has not seen has no effect yet.            *)

\* A request's name means nothing: any one that is not sent yet will do.
Sends(r, c) ==
    /\ at[r] = "unsent" /\ r = CHOOSE q \in Requests : at[q] = "unsent"
    /\ call' = [call EXCEPT ![r] = c]

Valid(c) == c.apiKey \in DOMAIN TenantOf

Unauthorized(r, c) ==
    /\ Sends(r, c)
    /\ ~Valid(c)
    /\ Answers(r, "error", {})
    /\ UNCHANGED <<bucketVars, runs, ingested, jobs, faults>>

Limit(r, c) ==
    /\ Sends(r, c)
    /\ Valid(c)
    /\ \E clock \in now..MaxTime : \E time \in Times(clock) :
          /\ CheckRateLimit(TenantOf[c.apiKey], clock, time)
          /\ IF Allows(TenantOf[c.apiKey], clock, time)
             THEN Goes(r, "find")
             ELSE Answers(r, "error", {})
    /\ UNCHANGED <<runs, ingested, jobs, faults>>

\* Mutant: fails open.
LimiterFailsOpen(r, c) ==
    /\ Sends(r, c)
    /\ Valid(c)
    /\ Fault
    /\ Goes(r, "find")
    /\ UNCHANGED <<bucketVars, runs, ingested, jobs>>

\* Redis fails, and the request with it; the script may have run all the same.  (A
\* look-up of the key that fails ends a request alike.)
LimiterFails(r, c) ==
    /\ Sends(r, c)
    /\ Valid(c)
    /\ Fault
    /\ \/ UNCHANGED bucketVars
       \/ \E clock \in now..MaxTime : \E time \in Times(clock) :
             CheckRateLimit(TenantOf[c.apiKey], clock, time)
    /\ Answers(r, "error", {})
    /\ UNCHANGED <<runs, ingested, jobs>>

----------------------------------------------------------------------------
(* POST /runs.                                                              *)

RunsWith(t, key) == {x \in runs : key # NoKey /\ x.tenant = t /\ x.key = key}
MadeBy(r) == {x \in runs : x.by = r}

FindRun(r) ==
    /\ at[r] = "find" /\ call[r].op = "run"
    /\ LET existing == RunsWith(Tenant(r), call[r].key)
       IN  IF existing # {} THEN Answers(r, "200", existing) ELSE Goes(r, "insert")
    /\ UNCHANGED <<bucketVars, runs, ingested, jobs, call, faults>>

\* Mutant: without the unique constraint.
InsertRunUnchecked(r) ==
    /\ at[r] = "insert" /\ call[r].op = "run"
    /\ runs' = runs \union {[tenant |-> Tenant(r), key |-> call[r].key, by |-> r]}
    /\ Goes(r, "enqueue")
    /\ UNCHANGED <<bucketVars, ingested, jobs, call, faults>>

\* The run and its event, in one transaction; the unique constraint makes one of
\* two wait for the other and fail.
InsertRun(r) ==
    /\ at[r] = "insert" /\ call[r].op = "run"
    /\ IF RunsWith(Tenant(r), call[r].key) # {}
       THEN Goes(r, "reread") /\ UNCHANGED runs
       ELSE /\ runs' = runs \union {[tenant |-> Tenant(r), key |-> call[r].key, by |-> r]}
            /\ Goes(r, "enqueue")
    /\ UNCHANGED <<bucketVars, ingested, jobs, call, faults>>

RereadRun(r) ==
    /\ at[r] = "reread"
    /\ LET existing == RunsWith(Tenant(r), call[r].key)
       IN  Answers(r, IF existing # {} THEN "200" ELSE "error", existing)
    /\ UNCHANGED <<bucketVars, runs, ingested, jobs, call, faults>>

----------------------------------------------------------------------------
(* POST /events.                                                            *)

EventOf(r) == <<Tenant(r), call[r].id>>

FindEvent(r) ==
    /\ at[r] = "find" /\ call[r].op = "event"
    /\ IF EventOf(r) \in ingested THEN Answers(r, "200", {}) ELSE Goes(r, "insert")
    /\ UNCHANGED <<bucketVars, runs, ingested, jobs, call, faults>>

\* The tenant's bindings of the event's name.  (An event id has one name here; the
\* constraint is on the id alone.)
EventRuns(r) == {[tenant |-> Tenant(r), key |-> <<call[r].id, b>>, by |-> r] :
                    b \in BindingsOf[Tenant(r)]}

\* The event and a run for each of its bindings, in one transaction.  One that
\* comes second fails on the constraint, and is answered as a duplicate.
InsertEvent(r) ==
    /\ at[r] = "insert" /\ call[r].op = "event"
    /\ IF EventOf(r) \in ingested
       THEN Answers(r, "200", {}) /\ UNCHANGED <<runs, ingested>>
       ELSE /\ ingested' = ingested \union {EventOf(r)}
            /\ runs' = runs \union EventRuns(r)
            /\ Goes(r, "enqueue")
    /\ UNCHANGED <<bucketVars, jobs, call, faults>>

----------------------------------------------------------------------------
(* What follows the transaction, and what cuts a request off.               *)

\* (The wake-ups that are published next are best-effort; a lost one is in
\* RunEventStream.)
Enqueue(r) ==
    /\ at[r] = "enqueue"
    /\ jobs' = IF Queueing THEN jobs \union MadeBy(r) ELSE jobs
    /\ Answers(r, "201", MadeBy(r))
    /\ UNCHANGED <<bucketVars, runs, ingested, call, faults>>

\* Some of the jobs were added, then the queue failed: what is committed stays.
EnqueueFails(r) ==
    /\ at[r] = "enqueue" /\ Queueing
    /\ Fault
    /\ \E added \in SUBSET MadeBy(r) : jobs' = jobs \union added
    /\ Answers(r, "error", {})
    /\ UNCHANGED <<bucketVars, runs, ingested, call>>

\* Mutant: the event is inserted outside the transaction of its runs.
BreaksOffHalfway(r) ==
    /\ at[r] \in {"find", "insert", "reread", "enqueue"}
    /\ Fault
    /\ ingested' = IF at[r] = "insert" /\ call[r].op = "event"
                   THEN ingested \union {EventOf(r)} ELSE ingested
    /\ Answers(r, "error", {})
    /\ UNCHANGED <<bucketVars, runs, jobs, call>>

\* The database refuses the request's query or transaction, or the API process
\* dies with the request under way.
BreaksOff(r) ==
    /\ at[r] \in {"find", "insert", "reread", "enqueue"}
    /\ Fault
    /\ Answers(r, "error", {})
    /\ UNCHANGED <<bucketVars, runs, ingested, jobs, call>>

\* Mutant: GET /runs/:id looks a run up by its id alone.
ReadRunsOfAll(r) ==
    /\ at[r] = "find" /\ call[r].op \in {"get", "list"}
    /\ Answers(r, "200", IF call[r].op = "get" THEN {call[r].run}
                         ELSE {x \in runs : x.tenant = Tenant(r)})
    /\ UNCHANGED <<bucketVars, runs, ingested, jobs, call, faults>>

\* GET /runs/:id and GET /runs.
ReadRuns(r) ==
    /\ at[r] = "find" /\ call[r].op \in {"get", "list"}
    /\ LET own == {x \in runs : x.tenant = Tenant(r)}
           found == IF call[r].op = "get" THEN own \intersect {call[r].run} ELSE own
       IN  Answers(r, IF call[r].op = "get" /\ found = {} THEN "error" ELSE "200", found)
    /\ UNCHANGED <<bucketVars, runs, ingested, jobs, call, faults>>

\* The reconciler adds jobs of runs that are there, under ids that it shares with
\* the requests.  (Which runs it selects is in PendingScan.)
AddJobs(batch) ==
    /\ jobs' = jobs \union batch
    /\ UNCHANGED <<bucketVars, runs, ingested, call, at, answerVars, faults>>

ReconcilerAdds == \E batch \in SUBSET runs : AddJobs(batch)

----------------------------------------------------------------------------
Preliminaries(r, c) == Unauthorized(r, c) \/ Limit(r, c) \/ LimiterFails(r, c)

RequestNext ==
    \E r \in Requests :
        \/ \E c \in Asks : Preliminaries(r, c)
        \/ FindRun(r) \/ InsertRun(r) \/ RereadRun(r)
        \/ FindEvent(r) \/ InsertEvent(r)
        \/ Enqueue(r) \/ EnqueueFails(r) \/ BreaksOff(r)
        \/ ReadRuns(r)

ApiNext == RequestNext \/ ReconcilerAdds

ApiSpec == ApiInit /\ [][ApiNext]_vars

----------------------------------------------------------------------------
TypeOK ==
    /\ BucketTypeOK
    /\ runs \subseteq AllRuns /\ jobs \subseteq runs
    /\ ingested \subseteq Tenants \X EventIds
    /\ call \in [Requests -> Calls \union {NoCall}]
    /\ at \in [Requests -> Phases]
    /\ \A r \in Requests : at[r] # "unsent" => call[r] \in Calls
    /\ status \in [Requests -> Statuses]
    /\ named \in [Requests -> SUBSET AllRuns]
    /\ faults \in 0..FaultBound

Succeeded(r, op) == at[r] = "answered" /\ status[r] \in {"200", "201"} /\ call[r].op = op

\* Whatever requests with one idempotency key overlap, fail and are sent again,
\* those that are answered hold one and the same run, a run of the caller's own,
\* and at most one of them is told that it created it.
RepliesAgree ==
    \A r \in Requests : Succeeded(r, "run") =>
        \E x \in runs :
            /\ named[r] = {x}
            /\ x.tenant = Tenant(r) /\ x.key = call[r].key
            /\ status[r] = "201" <=> x.by = r
            /\ \A q \in Requests :
                  Succeeded(q, "run") /\ Tenant(q) = Tenant(r) /\ call[q].key = x.key
                  /\ x.key # NoKey => named[q] = {x}

\* A caller that is told its event was processed, or is a duplicate, may forget
\* it: each binding has its one run, also when the answer came from a request
\* that lost the race, or after one that died halfway.
EventRepliesHold ==
    \A r \in Requests : Succeeded(r, "event") =>
        /\ \A b \in BindingsOf[Tenant(r)] :
              \E x \in runs : RunsWith(Tenant(r), <<call[r].id, b>>) = {x}
        /\ status[r] = "201" => named[r] = EventRuns(r)

\* No answer shows a run of another tenant.
OwnRunsOnly ==
    \A r \in Requests : \A x \in named[r] : x.tenant = Tenant(r)

Creators(t) == {x.by : x \in {y \in runs : y.tenant = t}}

\* Only a call that the limiter allowed creates runs, and at most once: neither
\* a refusal nor a failed limiter lets one through.
CreationsAdmitted ==
    \A t \in Tenants : Cardinality(Creators(t)) <= admitted[t]

\* Behind the replies: the unique constraint of idempotency keys,
KeysUnique ==
    \A x \in runs, y \in runs :
        x.tenant = y.tenant /\ x.key = y.key /\ x.key # NoKey => x = y

\* an event is recorded exactly with the runs of its bindings,
EventsWhole ==
    /\ \A p \in ingested : \A b \in BindingsOf[p[1]] : RunsWith(p[1], <<p[2], b>>) # {}
    /\ \A x \in runs : x.key \in BindingKeys => <<x.tenant, x.key[1]>> \in ingested

\* what a request is to create,
Creates(r) ==
    IF call[r].op = "run"
    THEN {[tenant |-> Tenant(r), key |-> call[r].key, by |-> r]}
    ELSE EventRuns(r)

\* and what it has created and answered, by where it is.
HandlerInv(r) ==
    /\ status[r] # "none" => at[r] = "answered"
    /\ status[r] = "none" => named[r] = {}
    /\ at[r] \in {"find", "insert", "reread", "enqueue"} \/ status[r] \in {"200", "201"} =>
          Valid(call[r])
    /\ at[r] \in {"insert", "enqueue"} \/ status[r] = "201" =>
          call[r].op \in {"run", "event"}
    /\ at[r] = "reread" =>
          call[r].op = "run" /\ RunsWith(Tenant(r), call[r].key) # {}
    /\ at[r] \in {"unsent", "find", "insert", "reread"} \/ status[r] = "200" =>
          MadeBy(r) = {}
    /\ at[r] = "enqueue" \/ status[r] = "201" => MadeBy(r) = Creates(r)
    /\ status[r] = "201" => named[r] = Creates(r)
    /\ status[r] = "200" /\ call[r].op = "run" =>
          \E x \in runs : named[r] = {x} /\ x.tenant = Tenant(r) /\ x.key = call[r].key
    /\ (at[r] = "enqueue" \/ status[r] \in {"200", "201"}) /\ call[r].op = "event" =>
          EventOf(r) \in ingested

HandlersInv == \A r \in Requests : HandlerInv(r)

\* The inductive invariant.
ApiInv ==
    /\ TypeOK /\ BudgetInv /\ PromiseInv
    /\ KeysUnique /\ EventsWhole /\ HandlersInv /\ OwnRunsOnly
=============================================================================
