---------------------------- MODULE RunEventStream -----------------------------
(***************************************************************************)
(* GET /runs/:runId/events for one run: the transactions that write the     *)
(* run's execution_events, the Redis Pub/Sub wake-ups that follow them, the *)
(* RunEventsMultiplexer of one API process, the handler handleEventsStream  *)
(* with its fetch loop, and a reader that reconnects with the last id it    *)
(* was given.                                                               *)
(*                                                                          *)
(* Every await of the handler is a place where other actions may come       *)
(* between: the subscription, the query, the two reads that decide whether  *)
(* the stream is over, the unsubscription before the response ends.         *)
(***************************************************************************)
EXTENDS Integers, Sequences, FiniteSets

CONSTANTS
    LastId,      \* bound: how many ids the run's events take from the sequence
    Conns,       \* the connections the reader may have, old ones included
    NoConn,      \* in place of a connection
    Opens,       \* bound: how often the reader opens a stream
    FaultBound   \* bound: how many faults happen in all

ASSUME LastIdAssumption == LastId \in Nat
ASSUME NoConnAssumption == NoConn \notin Conns
ASSUME BoundsAssumption == Opens \in Nat /\ FaultBound \in Nat

Ids == 1..LastId

\* What an event does to a stream.  "end": WORKFLOW_COMPLETED, _FAILED,
\* _CANCELLED.  "reopen": one whose transaction takes the run out of a terminal
\* status (a retry, a later start).  "step": any other.
Kinds == {"step", "end", "reopen"}

HandlerState == {"free", "subscribing", "serving"}
FetchState == {"idle", "query", "rows", "status", "count", "end"}
Fin == 0      \* the end of the response, on the wire

VARIABLES
    nextId,      \* the id the sequence gives next
    open,        \* the ids inserted by transactions that have not ended
    log,         \* the ids of the committed events
    ends,        \* those of kind "end"
    quiet,       \* those no wake-up follows
    late,        \* history: the ids that committed after a greater one
    turn,        \* the last of them to end the run or take it up again
    terminal,    \* workflow_runs.status is COMPLETED, FAILED or CANCELLED
    wakeups,     \* how many committed events have their wake-up to be published
    commands,    \* the multiplexer's commands on their way to Redis
    channel,     \* Redis: the multiplexer is subscribed to the run's channel
    listeners,   \* multiplexer: the listeners of the run
    pendingSubscription, \* multiplexer: a SUBSCRIBE has not been answered yet
    handler,     \* where each handleEventsStream is
    fetch,       \* where its fetchAndFlush is; "idle" when isFetching is false
    rows,        \* the result of its query that is not written yet
    hasPendingWakeup,
    closed,
    unsubscribe, \* the handler holds the multiplexer's unsubscribe function
    lastSentId,
    wire,        \* what it wrote and the reader has not read
    hungUp,      \* the reader is gone from the connection
    reading,     \* the connection the reader reads
    received,    \* the ids the reader was given, over all its connections
    opens,       \* how often it opened a stream
    faults       \* how many faults have happened

writerVars == <<nextId, open, log, ends, quiet, late, turn, terminal>>
muxVars == <<commands, channel, listeners, pendingSubscription>>
fetchVars == <<fetch, rows, hasPendingWakeup, lastSentId>>
connVars == <<handler, closed, unsubscribe>>
readerVars == <<reading, received, opens>>
vars == <<writerVars, wakeups, muxVars, fetchVars, connVars, wire, hungUp,
          readerVars, faults>>

Init ==
    /\ nextId = 1
    /\ open = {} /\ log = {} /\ ends = {} /\ quiet = {} /\ late = {}
    /\ turn = 0 /\ terminal = FALSE
    /\ wakeups = 0
    /\ commands = <<>>
    /\ channel = FALSE
    /\ listeners = {}
    /\ pendingSubscription = FALSE
    /\ handler = [c \in Conns |-> "free"]
    /\ fetch = [c \in Conns |-> "idle"]
    /\ rows = [c \in Conns |-> {}]
    /\ hasPendingWakeup = [c \in Conns |-> FALSE]
    /\ closed = [c \in Conns |-> FALSE]
    /\ unsubscribe = [c \in Conns |-> FALSE]
    /\ lastSentId = [c \in Conns |-> 0]
    /\ wire = [c \in Conns |-> <<>>]
    /\ hungUp = [c \in Conns |-> FALSE]
    /\ reading = NoConn
    /\ received = <<>>
    /\ opens = 0
    /\ faults = 0

Fault == faults < FaultBound /\ faults' = faults + 1

----------------------------------------------------------------------------
(* The writers.  A transaction takes the event's id from the sequence when  *)
(* it inserts the event and shows it when it commits; those of different    *)
(* steps overlap.  One that rolls back is one that never commits: its id    *)
(* stays a hole.                                                            *)

InsertEvent ==
    /\ nextId \in Ids
    /\ nextId' = nextId + 1
    /\ open' = open \union {nextId}
    /\ UNCHANGED <<log, ends, quiet, late, turn, terminal, wakeups, muxVars, fetchVars,
                   connVars, wire, hungUp, readerVars, faults>>

\* A transaction that ends or reopens the run updates the run's row before it
\* inserts its event, and holds the row's lock until it commits: such events
\* commit in the order of their ids.  A wake-up follows a commit, unless the
\* writer is the reconciler, which publishes none, or dies, or Redis fails it:
\* the error is swallowed.
CommitEvent(i, k) ==
    /\ i \in open
    /\ k # "step" => i > turn
    /\ k = "reopen" => terminal
    /\ open' = open \ {i}
    /\ log' = log \union {i}
    /\ ends' = IF k = "end" THEN ends \union {i} ELSE ends
    /\ late' = IF \E j \in log : j > i THEN late \union {i} ELSE late
    /\ turn' = IF k = "step" THEN turn ELSE i
    /\ terminal' = (k = "end" \/ (k = "step" /\ terminal))
    /\ \/ wakeups' = wakeups + 1 /\ UNCHANGED quiet
       \/ quiet' = quiet \union {i} /\ UNCHANGED wakeups
    /\ UNCHANGED <<nextId, muxVars, fetchVars, connVars, wire, hungUp, readerVars,
                   faults>>

----------------------------------------------------------------------------
(* The multiplexer.  Its one Redis connection keeps commands in order, and   *)
(* replies and messages too, so these are taken when Redis sends them.      *)

\* Mutant: a wake-up that comes during a fetch is dropped.
WokenIfIdle(S) ==
    /\ fetch' = [c \in Conns |-> IF c \in S /\ ~closed[c] /\ fetch[c] = "idle"
                                 THEN "query" ELSE fetch[c]]
    /\ UNCHANGED <<hasPendingWakeup, rows, lastSentId>>

\* The start of fetchAndFlush, for each connection of a set.
Woken(S) ==
    LET runs == {c \in S : ~closed[c]} IN
    /\ hasPendingWakeup' = [c \in Conns |-> IF c \in runs THEN fetch[c] # "idle"
                                                         ELSE hasPendingWakeup[c]]
    /\ fetch' = [c \in Conns |-> IF c \in runs /\ fetch[c] = "idle" THEN "query"
                                                                   ELSE fetch[c]]
    /\ UNCHANGED <<rows, lastSentId>>

\* publishRunEventWakeup: the message calls every listener, and is kept for
\* nobody who is not subscribed.
PublishWakeup ==
    /\ wakeups > 0
    /\ wakeups' = wakeups - 1
    /\ IF channel THEN Woken(listeners) ELSE UNCHANGED fetchVars
    /\ UNCHANGED <<writerVars, muxVars, connVars, wire, hungUp, readerVars, faults>>

\* subscribe, up to its await: the first for the run sends SUBSCRIBE, and those
\* that come before it is answered share its promise.
Subscribe(c) ==
    /\ listeners' = listeners \union {c}
    /\ commands' = IF pendingSubscription THEN commands ELSE Append(commands, "SUBSCRIBE")
    /\ pendingSubscription' = TRUE
    /\ UNCHANGED channel

\* Mutant: every listener that leaves unsubscribes the channel.
LeaveAlone(S, sent) ==
    /\ listeners' = listeners \ S
    /\ commands' = IF S # {} THEN Append(sent, "UNSUBSCRIBE") ELSE sent

\* The function that subscribe returns, called for each connection of a set.
Leave(S, sent) ==
    /\ listeners' = listeners \ S
    /\ commands' = IF S # {} /\ listeners \subseteq S THEN Append(sent, "UNSUBSCRIBE")
                                                      ELSE sent

Subscribers == {c \in Conns : handler[c] = "subscribing"}

\* Mutant: the handler keeps a subscription that it was granted too late.
SubscriptionGrantedLate ==
    /\ commands # <<>> /\ Head(commands) = "SUBSCRIBE"
    /\ channel' = TRUE
    /\ pendingSubscription' = FALSE
    /\ Leave({}, Tail(commands))
    /\ unsubscribe' = [c \in Conns |-> unsubscribe[c] \/ c \in Subscribers]
    /\ handler' = [c \in Conns |-> IF c \in Subscribers THEN "serving" ELSE handler[c]]
    /\ Woken(Subscribers)
    /\ UNCHANGED <<writerVars, wakeups, closed, wire, hungUp, readerVars, faults>>

\* The handlers go on: one whose stream is over by now unsubscribes again, the
\* others keep the function, and fetch.
SubscriptionGranted ==
    /\ commands # <<>> /\ Head(commands) = "SUBSCRIBE"
    /\ channel' = TRUE
    /\ pendingSubscription' = FALSE
    /\ Leave({c \in Subscribers : closed[c]}, Tail(commands))
    /\ unsubscribe' = [c \in Conns |-> unsubscribe[c] \/ (c \in Subscribers /\ ~closed[c])]
    /\ handler' = [c \in Conns |-> IF c \in Subscribers THEN "serving" ELSE handler[c]]
    /\ Woken(Subscribers)
    /\ UNCHANGED <<writerVars, wakeups, closed, wire, hungUp, readerVars, faults>>

\* The handlers swallow the error and go on without a listener.
SubscriptionFails ==
    /\ commands # <<>> /\ Head(commands) = "SUBSCRIBE"
    /\ Fault
    /\ commands' = Tail(commands)
    /\ pendingSubscription' = FALSE
    /\ listeners' = listeners \ Subscribers
    /\ handler' = [c \in Conns |-> IF c \in Subscribers THEN "serving" ELSE handler[c]]
    /\ Woken(Subscribers)
    /\ UNCHANGED <<writerVars, wakeups, channel, closed, unsubscribe, wire, hungUp,
                   readerVars>>

Unsubscribed ==
    /\ commands # <<>> /\ Head(commands) = "UNSUBSCRIBE"
    /\ commands' = Tail(commands)
    /\ channel' = FALSE
    /\ UNCHANGED <<writerVars, wakeups, listeners, pendingSubscription, fetchVars,
                   connVars, wire, hungUp, readerVars, faults>>

----------------------------------------------------------------------------
(* handleEventsStream.                                                      *)

\* The reader opens a stream, with the last id it was given as Last-Event-ID.
\* (A connection's name means nothing: any one that is not in use will do.)
OpenStream(c) ==
    /\ reading = NoConn
    /\ handler[c] = "free"
    /\ c = CHOOSE d \in Conns : handler[d] = "free"
    /\ opens < Opens
    /\ opens' = opens + 1
    /\ reading' = c
    /\ lastSentId' = [lastSentId EXCEPT ![c] = IF received = <<>> THEN 0
                                               ELSE received[Len(received)]]
    /\ Subscribe(c)
    /\ handler' = [handler EXCEPT ![c] = "subscribing"]
    /\ UNCHANGED <<writerVars, wakeups, fetch, rows, hasPendingWakeup, closed, unsubscribe,
                   wire, hungUp, received, faults>>

\* Mutant: the function is kept, and may be called once more.
CleanupKeeps(c) ==
    /\ closed' = [closed EXCEPT ![c] = TRUE]
    /\ IF unsubscribe[c] THEN Leave({c}, commands) /\ UNCHANGED <<channel, pendingSubscription>>
                         ELSE UNCHANGED muxVars
    /\ UNCHANGED unsubscribe

Cleanup(c) ==
    /\ closed' = [closed EXCEPT ![c] = TRUE]
    /\ unsubscribe' = [unsubscribe EXCEPT ![c] = FALSE]
    /\ IF unsubscribe[c] THEN Leave({c}, commands) /\ UNCHANGED <<channel, pendingSubscription>>
                         ELSE UNCHANGED muxVars

\* Mutant: the query takes the event at the cursor again (gte).
FetchRowsFrom(c) ==
    /\ fetch[c] = "query"
    /\ rows' = [rows EXCEPT ![c] = {i \in log : i >= lastSentId[c]}]
    /\ fetch' = [fetch EXCEPT ![c] = IF rows'[c] = {} THEN "status" ELSE "rows"]
    /\ UNCHANGED <<writerVars, wakeups, muxVars, hasPendingWakeup, lastSentId,
                   connVars, wire, hungUp, readerVars, faults>>

\* The query's snapshot; its result is used later.
FetchRows(c) ==
    /\ fetch[c] = "query"
    /\ rows' = [rows EXCEPT ![c] = {i \in log : i > lastSentId[c]}]
    /\ fetch' = [fetch EXCEPT ![c] = IF rows'[c] = {} THEN "status" ELSE "rows"]
    /\ UNCHANGED <<writerVars, wakeups, muxVars, hasPendingWakeup, lastSentId,
                   connVars, wire, hungUp, readerVars, faults>>

\* The loop's condition.
Repeats(c) == hasPendingWakeup[c] /\ ~closed[c]

\* Mutant: the flag is reset after the fetch, not before it.
LoopEndsForgetful(c) ==
    /\ fetch' = [fetch EXCEPT ![c] = "idle"]
    /\ hasPendingWakeup' = [hasPendingWakeup EXCEPT ![c] = FALSE]

LoopEnds(c) ==
    /\ fetch' = [fetch EXCEPT ![c] = IF Repeats(c) THEN "query" ELSE "idle"]
    /\ hasPendingWakeup' = [hasPendingWakeup EXCEPT ![c] = @ /\ ~Repeats(c)]

\* One turn of the loop over the rows: write the event of the least id.
WriteEvent(c) ==
    /\ fetch[c] = "rows"
    /\ ~closed[c]
    /\ \E i \in rows[c] :
          /\ \A j \in rows[c] : i <= j
          /\ lastSentId' = [lastSentId EXCEPT ![c] = i]
          /\ wire' = [wire EXCEPT ![c] = IF hungUp[c] THEN @ ELSE Append(@, i)]
          /\ \/ /\ i \in ends
                /\ Cleanup(c)
                /\ rows' = [rows EXCEPT ![c] = {}]
                /\ fetch' = [fetch EXCEPT ![c] = "end"]
                /\ UNCHANGED hasPendingWakeup
             \/ /\ i \notin ends
                /\ rows' = [rows EXCEPT ![c] = @ \ {i}]
                /\ IF rows[c] = {i} THEN LoopEnds(c)
                                    ELSE UNCHANGED <<fetch, hasPendingWakeup>>
                /\ UNCHANGED <<muxVars, closed, unsubscribe>>
    /\ UNCHANGED <<writerVars, wakeups, handler, hungUp, readerVars, faults>>

\* The loop over the rows finds the stream closed.
StopWriting(c) ==
    /\ fetch[c] = "rows"
    /\ closed[c]
    /\ rows' = [rows EXCEPT ![c] = {}]
    /\ fetch' = [fetch EXCEPT ![c] = "idle"]
    /\ UNCHANGED <<writerVars, wakeups, muxVars, hasPendingWakeup, lastSentId,
                   connVars, wire, hungUp, readerVars, faults>>

\* No new events: is the run over?
ReadStatus(c) ==
    /\ fetch[c] = "status"
    /\ IF terminal THEN /\ fetch' = [fetch EXCEPT ![c] = "count"]
                        /\ UNCHANGED hasPendingWakeup
                   ELSE LoopEnds(c)
    /\ UNCHANGED <<writerVars, wakeups, muxVars, rows, lastSentId, connVars, wire,
                   hungUp, readerVars, faults>>

\* Over, and all its events sent?
CountRemaining(c) ==
    /\ fetch[c] = "count"
    /\ IF \A i \in log : i <= lastSentId[c]
       THEN /\ fetch' = [fetch EXCEPT ![c] = "end"]
            /\ Cleanup(c)
            /\ UNCHANGED hasPendingWakeup
       ELSE LoopEnds(c) /\ UNCHANGED <<muxVars, closed, unsubscribe>>
    /\ UNCHANGED <<writerVars, wakeups, rows, lastSentId, handler, wire, hungUp,
                   readerVars, faults>>

\* A query is refused: the catch clause ends the stream.
FetchFails(c) ==
    /\ fetch[c] \in {"query", "status", "count"}
    /\ Fault
    /\ fetch' = [fetch EXCEPT ![c] = "end"]
    /\ Cleanup(c)
    /\ UNCHANGED <<writerVars, wakeups, rows, hasPendingWakeup, lastSentId, handler,
                   wire, hungUp, readerVars>>

\* reply.raw.end(), once cleanup has returned.
EndResponse(c) ==
    /\ fetch[c] = "end"
    /\ fetch' = [fetch EXCEPT ![c] = "idle"]
    /\ wire' = [wire EXCEPT ![c] = IF hungUp[c] THEN @ ELSE Append(@, Fin)]
    /\ UNCHANGED <<writerVars, wakeups, muxVars, rows, hasPendingWakeup, lastSentId,
                   connVars, hungUp, readerVars, faults>>

\* The 'close' event of the request.
RequestCloses(c) ==
    /\ hungUp[c]
    /\ ~closed[c]
    /\ handler[c] # "free"
    /\ Cleanup(c)
    /\ UNCHANGED <<writerVars, wakeups, fetchVars, handler, wire, hungUp, readerVars,
                   faults>>

\* Nothing is left of the connection on either side.
HandlerReturns(c) ==
    /\ handler[c] = "serving" /\ closed[c] /\ fetch[c] = "idle" /\ reading # c
    /\ handler' = [handler EXCEPT ![c] = "free"]
    /\ hasPendingWakeup' = [hasPendingWakeup EXCEPT ![c] = FALSE]
    /\ closed' = [closed EXCEPT ![c] = FALSE]
    /\ lastSentId' = [lastSentId EXCEPT ![c] = 0]
    /\ hungUp' = [hungUp EXCEPT ![c] = FALSE]
    /\ UNCHANGED <<writerVars, wakeups, muxVars, fetch, rows, unsubscribe, wire,
                   readerVars, faults>>

\* The API process dies, its connections with it; a new one starts empty.
CrashApi ==
    /\ Fault
    /\ commands' = <<>>
    /\ channel' = FALSE
    /\ listeners' = {}
    /\ pendingSubscription' = FALSE
    /\ handler' = [c \in Conns |-> "free"]
    /\ fetch' = [c \in Conns |-> "idle"]
    /\ rows' = [c \in Conns |-> {}]
    /\ hasPendingWakeup' = [c \in Conns |-> FALSE]
    /\ closed' = [c \in Conns |-> FALSE]
    /\ unsubscribe' = [c \in Conns |-> FALSE]
    /\ lastSentId' = [c \in Conns |-> 0]
    /\ hungUp' = [c \in Conns |-> FALSE]
    /\ wire' = [c \in Conns |-> <<>>]
    /\ reading' = NoConn
    /\ UNCHANGED <<writerVars, wakeups, received, opens>>

----------------------------------------------------------------------------
(* The reader: streamEvents of the client package, opened again by its      *)
(* caller with lastEventId.                                                 *)

ReceiveEvent ==
    /\ reading # NoConn
    /\ wire[reading] # <<>>
    /\ wire' = [wire EXCEPT ![reading] = Tail(@)]
    /\ \/ /\ Head(wire[reading]) # Fin
          /\ received' = Append(received, Head(wire[reading]))
          /\ UNCHANGED <<reading, hungUp>>
       \/ /\ Head(wire[reading]) = Fin
          /\ reading' = NoConn
          /\ hungUp' = [hungUp EXCEPT ![reading] = TRUE]
          /\ UNCHANGED received
    /\ UNCHANGED <<writerVars, wakeups, muxVars, fetchVars, connVars, opens, faults>>

\* The connection breaks, or the reader leaves it: what was on the way is lost.
Disconnect ==
    /\ reading # NoConn
    /\ wire' = [wire EXCEPT ![reading] = <<>>]
    /\ hungUp' = [hungUp EXCEPT ![reading] = TRUE]
    /\ reading' = NoConn
    /\ UNCHANGED <<writerVars, wakeups, muxVars, fetchVars, connVars, received, opens,
                   faults>>

----------------------------------------------------------------------------
ServeStream(c) ==
    \/ FetchRows(c) \/ WriteEvent(c) \/ StopWriting(c)
    \/ ReadStatus(c) \/ CountRemaining(c) \/ EndResponse(c) \/ RequestCloses(c)
    \/ HandlerReturns(c)

Next ==
    \/ InsertEvent
    \/ \E i \in Ids, k \in Kinds : CommitEvent(i, k)
    \/ PublishWakeup
    \/ SubscriptionGranted \/ SubscriptionFails \/ Unsubscribed
    \/ \E c \in Conns : OpenStream(c) \/ ServeStream(c) \/ FetchFails(c)
    \/ CrashApi
    \/ ReceiveEvent \/ Disconnect

Spec == Init /\ [][Next]_vars

\* What the platform does of itself, and the reader reading.  Events need not
\* happen or commit, streams are opened, left and broken at will.
Progress ==
    \/ PublishWakeup \/ SubscriptionGranted \/ Unsubscribed \/ ReceiveEvent
    \/ \E c \in Conns : ServeStream(c)

\* Something of it happens as long as something can.  Nothing more is needed:
\* with bounded events and streams every process has finitely many steps to do.
StreamFairness == WF_vars(Progress)

FairSpec == Spec /\ StreamFairness

----------------------------------------------------------------------------
(* Safety.                                                                  *)

TypeOK ==
    /\ nextId \in 1..(LastId + 1)
    /\ open \in SUBSET Ids /\ turn \in 0..LastId
    /\ log \in SUBSET Ids /\ ends \in SUBSET Ids /\ quiet \in SUBSET Ids
    /\ late \in SUBSET Ids
    /\ terminal \in BOOLEAN
    /\ wakeups \in Nat
    /\ commands \in Seq({"SUBSCRIBE", "UNSUBSCRIBE"})
    /\ channel \in BOOLEAN
    /\ listeners \in SUBSET Conns
    /\ pendingSubscription \in BOOLEAN
    /\ handler \in [Conns -> HandlerState]
    /\ fetch \in [Conns -> FetchState]
    /\ rows \in [Conns -> SUBSET Ids]
    /\ hasPendingWakeup \in [Conns -> BOOLEAN]
    /\ closed \in [Conns -> BOOLEAN]
    /\ unsubscribe \in [Conns -> BOOLEAN]
    /\ lastSentId \in [Conns -> 0..LastId]
    /\ wire \in [Conns -> Seq(0..LastId)]
    /\ hungUp \in [Conns -> BOOLEAN]
    /\ reading \in Conns \union {NoConn}
    /\ received \in Seq(Ids)
    /\ opens \in 0..Opens
    /\ faults \in 0..FaultBound

\* A listener whose subscription was granted is never left deaf, whichever
\* streams of the run came, failed to subscribe, and went in between: the channel
\* is subscribed, and no command on its way will change that.
ChannelHeld ==
    (\E c \in Conns : unsubscribe[c]) =>
        channel /\ \A n \in DOMAIN commands : commands[n] # "UNSUBSCRIBE"

\* A stream that is over leaves no listener behind, also when it ended before
\* its own subscription was answered.
NoListenerLeft ==
    \A c \in Conns : handler[c] = "free" \/ (handler[c] = "serving" /\ closed[c]) =>
        c \notin listeners /\ ~unsubscribe[c]

\* Behind the two: where a connection is, and who is in the listeners' set.
ConnectionInv ==
    \A c \in Conns :
        /\ handler[c] = "free" => /\ fetch[c] = "idle" /\ ~closed[c] /\ ~hungUp[c]
                                 /\ reading # c
        /\ reading # c => wire[c] = <<>> /\ (handler[c] = "free" \/ hungUp[c])
        /\ reading = c => ~hungUp[c]
        /\ handler[c] = "subscribing" => c \in listeners /\ pendingSubscription
        /\ unsubscribe[c] => handler[c] = "serving" /\ c \in listeners /\ ~closed[c]
        /\ c \in listeners => handler[c] = "subscribing" \/ unsubscribe[c]
        /\ fetch[c] = "end" => closed[c]

\* A SUBSCRIBE is on its way, as the last command, exactly while its subscribers
\* wait.
CommandsInv ==
    /\ \A n \in DOMAIN commands :
          commands[n] = "SUBSCRIBE" => pendingSubscription /\ n = Len(commands)
    /\ pendingSubscription => /\ \E c \in Conns : handler[c] = "subscribing"
                              /\ commands # <<>>
                              /\ commands[Len(commands)] = "SUBSCRIBE"

\* Between two ids that follow one another on their way to the reader there are
\* only late ones.
Follows(a, b) == b \in log /\ a < b /\ \A j \in log : a < j /\ j < b => j \in late

LastOf(s) == IF s = <<>> THEN 0 ELSE s[Len(s)]

\* Behind the feed, for the connection the reader reads: what is on the wire
\* follows what it was given,
WireInOrder(c) ==
    \A n \in DOMAIN wire[c] :
        IF wire[c][n] = Fin
        THEN n = Len(wire[c]) /\ closed[c] /\ fetch[c] = "idle"
        ELSE Follows(IF n = 1 THEN LastOf(received) ELSE wire[c][n - 1], wire[c][n])

\* the cursor stands at the last id written,
CursorAtLast(c) ==
    \/ lastSentId[c] = IF wire[c] = <<>> THEN LastOf(received) ELSE LastOf(wire[c])
    \/ closed[c] /\ fetch[c] = "idle"

\* and the rows still to be written hold every event after the cursor that is
\* not late.
RowsComplete(c) ==
    fetch[c] = "rows" =>
        /\ rows[c] # {} /\ rows[c] \subseteq log
        /\ \A i \in rows[c] : lastSentId[c] < i
        /\ \A i \in rows[c], j \in log \ rows[c] :
              lastSentId[c] < j /\ j < i => j \in late

CursorInv ==
    \A c \in Conns : reading = c => WireInOrder(c) /\ CursorAtLast(c) /\ RowsComplete(c)

\* The inductive invariant.
StreamInv ==
    /\ TypeOK
    /\ ConnectionInv /\ CommandsInv /\ ChannelHeld /\ NoListenerLeft
    /\ CursorInv

\* Over all its connections the reader is given the events that commit in the
\* order of their ids once each, in that order and without a gap: whatever
\* connections break and wake-ups are lost, the handler and its cursor implement
\* the feed.
Feed == INSTANCE EventFeed
ImplementsEventFeed == Feed!FeedSpec

----------------------------------------------------------------------------
(* Liveness.                                                                *)

Given == {received[j] : j \in DOMAIN received}

\* Events that the reader's stream owes it.
Due == {i \in log \ (late \union quiet) : i \notin Given}

\* The run has events after the last that ended it.
Trailed == \E i \in log : \A e \in ends : e < i

\* A reader that stays is given every event that commits in order and that a
\* wake-up follows, and its stream ends when the run has: however commits and
\* wake-ups fall between the subscription, the fetches and the handler's reads
\* of the status.  Without faults, that is; an event that no wake-up follows may
\* stay unsent; and the stream of a run that has events after its end may stay
\* open, for a fetch that sends events does not look at the status.
Settled == Due = {} /\ (terminal => quiet \ Given # {} \/ Trailed)
StreamSettles == reading # NoConn ~> reading = NoConn \/ Settled \/ faults > 0

\* A stream at rest: no wake-up is to be published, its handler has its
\* subscription and fetches nothing, and nothing is on the wire.
AtRest(c) ==
    wakeups = 0 /\ handler[c] = "serving" /\ fetch[c] = "idle" /\ wire[c] = <<>>

\* No wake-up is lost, whatever it meets: a stream comes to rest only when it is
\* settled, for at rest nothing but a new event or the reader will move it.
\* (StreamSettles says that it comes to rest or ends.)
RestIsSettled ==
    \A c \in Conns : reading = c /\ faults = 0 /\ AtRest(c) => Settled

\* Behind it: the log,
Newest(i) == \A j \in log : j <= i
WritersInv ==
    /\ \A i \in open \union log : i < nextId
    /\ open \intersect log = {}
    /\ ends \subseteq log
    /\ \A e \in ends : e <= turn
    /\ \A i \in late : \E j \in log : i < j
    /\ terminal => ends # {}
    /\ \A e \in ends : Newest(e) => terminal
    /\ log # {} => \E i \in log : Newest(i)

\* what the reader was given over all its connections,
GivenInv ==
    /\ Given \subseteq log
    /\ \A i \in Given : i <= LastOf(received)
    /\ \A i \in log \ late : i <= LastOf(received) => i \in Given

OnWire(c) == {wire[c][n] : n \in DOMAIN wire[c]}

\* and, of the connection it reads: up to the cursor nothing is forgotten,
CursorAccounts(c) ==
    /\ lastSentId[c] \in log \union {0}
    /\ LastOf(received) <= lastSentId[c]
    /\ \A i \in OnWire(c) : i <= lastSentId[c]
    /\ \A i \in log \ late : i <= lastSentId[c] => i \in Given \union OnWire(c)

\* the reader is told when the stream is over,
EndAnnounced(c) == closed[c] => fetch[c] = "end" \/ Fin \in OnWire(c)

\* the handler hears of wake-ups,
Listening(c) == handler[c] = "serving" /\ ~closed[c] => unsubscribe[c]

\* whatever is due is on its way, or will be found by the next query,
Pursued(c) ==
    closed[c] \/ \A i \in Due :
        \/ wakeups > 0
        \/ handler[c] = "subscribing"
        \/ fetch[c] = "query"
        \/ fetch[c] # "idle" /\ hasPendingWakeup[c]
        \/ fetch[c] = "rows" /\ i \in rows[c]
        \/ i \in OnWire(c)

\* and a stream that was opened behind the run's end will read the status.
EndNoticed(c) ==
    ~closed[c] /\ lastSentId[c] \in ends /\ Newest(lastSentId[c]) =>
        handler[c] = "subscribing" \/ fetch[c] \in {"query", "status", "count"}

PursuitInv ==
    /\ WritersInv /\ GivenInv
    /\ \A c \in Conns : reading = c =>
          /\ CursorAccounts(c) /\ EndAnnounced(c)
          /\ faults = 0 => Listening(c) /\ Pursued(c) /\ EndNoticed(c)
=============================================================================
