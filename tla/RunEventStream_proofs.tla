------------------------ MODULE RunEventStream_proofs -------------------------
(***************************************************************************)
(* Proofs about RunEventStream: type correctness, the invariant of the      *)
(* multiplexer, the invariant of the cursor, and that the stream implements *)
(* EventFeed.                                                               *)
(***************************************************************************)
EXTENDS RunEventStream, SequenceTheorems, TLAPS

\* The sets of the types, and the mark that ends a response.
USE DEF Ids, Kinds, HandlerState, FetchState, Fin

----------------------------------------------------------------------------
(* Type correctness.                                                        *)

LEMMA InitType == Init => TypeOK
<1> SUFFICES ASSUME Init PROVE TypeOK
  OBVIOUS
<1> USE LastIdAssumption, BoundsAssumption
<1>1. nextId \in 1..(LastId + 1) /\ turn \in 0..LastId /\ wakeups \in Nat
      /\ opens \in 0..Opens /\ faults \in 0..FaultBound
  BY DEF Init
<1>2. commands \in Seq({"SUBSCRIBE", "UNSUBSCRIBE"}) /\ received \in Seq(Ids)
  BY DEF Init
<1>3. lastSentId \in [Conns -> 0..LastId]
  BY DEF Init
<1>4. wire \in [Conns -> Seq(0..LastId)]
  <2>1. <<>> \in Seq(0..LastId)
    OBVIOUS
  <2> QED BY <2>1, Zenon DEF Init
<1>5. handler \in [Conns -> HandlerState] /\ fetch \in [Conns -> FetchState]
      /\ rows \in [Conns -> SUBSET Ids] /\ hasPendingWakeup \in [Conns -> BOOLEAN]
      /\ closed \in [Conns -> BOOLEAN] /\ unsubscribe \in [Conns -> BOOLEAN]
      /\ hungUp \in [Conns -> BOOLEAN]
  BY DEF Init
<1>6. /\ open \in SUBSET Ids /\ log \in SUBSET Ids /\ ends \in SUBSET Ids
      /\ quiet \in SUBSET Ids /\ late \in SUBSET Ids /\ terminal \in BOOLEAN
      /\ channel \in BOOLEAN /\ listeners \in SUBSET Conns
      /\ pendingSubscription \in BOOLEAN /\ reading \in Conns \union {NoConn}
  BY DEF Init
<1> QED BY <1>1, <1>2, <1>3, <1>4, <1>5, <1>6 DEF TypeOK

\* The two counters that a bound or a guard keeps in their range.
LEMMA FaultType ==
    ASSUME TypeOK, Fault
    PROVE  faults' \in 0..FaultBound
BY BoundsAssumption DEF TypeOK, Fault

\* Of a sequence that is not empty.
LEMMA HeadTail ==
    ASSUME NEW S, NEW s \in Seq(S), s # <<>>
    PROVE  Head(s) \in S /\ Tail(s) \in Seq(S)
OBVIOUS

\* Words of the multiplexer's commands.
LEMMA AppendCommand ==
    ASSUME NEW s \in Seq({"SUBSCRIBE", "UNSUBSCRIBE"}),
           NEW w \in {"SUBSCRIBE", "UNSUBSCRIBE"}
    PROVE  /\ Append(s, w) \in Seq({"SUBSCRIBE", "UNSUBSCRIBE"})
           /\ s # <<>> => Tail(s) \in Seq({"SUBSCRIBE", "UNSUBSCRIBE"})
OBVIOUS

LEMMA WokenType ==
    ASSUME TypeOK, NEW S \in SUBSET Conns, Woken(S)
    PROVE  /\ fetch' \in [Conns -> FetchState]
           /\ hasPendingWakeup' \in [Conns -> BOOLEAN]
           /\ rows' \in [Conns -> SUBSET Ids]
           /\ lastSentId' \in [Conns -> 0..LastId]
BY DEF TypeOK, Woken

LEMMA LeaveType ==
    ASSUME TypeOK, NEW S \in SUBSET Conns,
           NEW sent \in Seq({"SUBSCRIBE", "UNSUBSCRIBE"}), Leave(S, sent)
    PROVE  /\ listeners' \in SUBSET Conns
           /\ commands' \in Seq({"SUBSCRIBE", "UNSUBSCRIBE"})
BY AppendCommand DEF TypeOK, Leave

LEMMA CleanupType ==
    ASSUME TypeOK, NEW c \in Conns, Cleanup(c)
    PROVE  /\ listeners' \in SUBSET Conns
           /\ commands' \in Seq({"SUBSCRIBE", "UNSUBSCRIBE"})
           /\ channel' \in BOOLEAN /\ pendingSubscription' \in BOOLEAN
           /\ closed' \in [Conns -> BOOLEAN]
           /\ unsubscribe' \in [Conns -> BOOLEAN]
<1>1. CASE unsubscribe[c]
  <2>1. Leave({c}, commands) BY <1>1 DEF Cleanup
  <2>2. listeners' \in SUBSET Conns /\ commands' \in Seq({"SUBSCRIBE", "UNSUBSCRIBE"})
    BY <2>1, LeaveType DEF TypeOK
  <2> QED BY <1>1, <2>2 DEF Cleanup, TypeOK
<1>2. CASE ~unsubscribe[c] BY <1>2 DEF Cleanup, TypeOK, muxVars
<1> QED BY <1>1, <1>2

LEMMA LoopType ==
    ASSUME TypeOK, NEW c \in Conns, LoopEnds(c)
    PROVE  /\ fetch' \in [Conns -> FetchState]
           /\ hasPendingWakeup' \in [Conns -> BOOLEAN]
BY DEF TypeOK, LoopEnds, Repeats

LEMMA StepType == TypeOK /\ [Next]_vars => TypeOK'
<1> SUFFICES ASSUME TypeOK, [Next]_vars PROVE TypeOK'
  OBVIOUS
<1> USE LastIdAssumption, NoConnAssumption, BoundsAssumption
<1> USE DEF writerVars, muxVars, fetchVars, connVars, readerVars
<1>1. CASE UNCHANGED vars BY <1>1 DEF vars, TypeOK
<1>2. CASE InsertEvent BY <1>2 DEF InsertEvent, TypeOK
<1>3. ASSUME NEW i \in Ids, NEW k \in Kinds, CommitEvent(i, k) PROVE TypeOK'
  <2>1. wakeups' \in Nat
    BY <1>3 DEF CommitEvent, TypeOK
  <2>2. turn' \in 0..LastId
    BY <1>3 DEF CommitEvent, TypeOK
  <2>3. open' \in SUBSET Ids /\ log' \in SUBSET Ids /\ ends' \in SUBSET Ids
        /\ quiet' \in SUBSET Ids
    BY <1>3 DEF CommitEvent, TypeOK
  <2>4. late' \in SUBSET Ids
    BY <1>3 DEF CommitEvent, TypeOK
  <2>5. terminal' \in BOOLEAN
    BY <1>3 DEF CommitEvent, TypeOK
  <2>6. UNCHANGED <<nextId, muxVars, fetchVars, connVars, wire, hungUp, readerVars, faults>>
    BY <1>3 DEF CommitEvent
  <2> QED BY <2>1, <2>2, <2>3, <2>4, <2>5, <2>6 DEF TypeOK
<1>4. CASE PublishWakeup
  <2>1. fetch' \in [Conns -> FetchState] /\ hasPendingWakeup' \in [Conns -> BOOLEAN]
        /\ rows' \in [Conns -> SUBSET Ids] /\ lastSentId' \in [Conns -> 0..LastId]
    BY <1>4, WokenType DEF PublishWakeup, TypeOK
  <2>2. wakeups' \in Nat
    BY <1>4 DEF PublishWakeup, TypeOK
  <2>3. UNCHANGED <<writerVars, muxVars, connVars, wire, hungUp, readerVars, faults>>
    BY <1>4 DEF PublishWakeup
  <2> QED BY <2>1, <2>2, <2>3 DEF TypeOK
<1>5. CASE SubscriptionGranted
  <2>1. fetch' \in [Conns -> FetchState] /\ hasPendingWakeup' \in [Conns -> BOOLEAN]
        /\ rows' \in [Conns -> SUBSET Ids] /\ lastSentId' \in [Conns -> 0..LastId]
    BY <1>5, WokenType DEF SubscriptionGranted, Subscribers
  <2>2. listeners' \in SUBSET Conns /\ commands' \in Seq({"SUBSCRIBE", "UNSUBSCRIBE"})
    <3>1. Tail(commands) \in Seq({"SUBSCRIBE", "UNSUBSCRIBE"})
      BY <1>5, AppendCommand DEF SubscriptionGranted, TypeOK
    <3> QED BY <1>5, <3>1, LeaveType DEF SubscriptionGranted, Subscribers
  <2> QED BY <1>5, <2>1, <2>2 DEF SubscriptionGranted, TypeOK
<1>6. CASE SubscriptionFails
  <2>1. fetch' \in [Conns -> FetchState] /\ hasPendingWakeup' \in [Conns -> BOOLEAN]
        /\ rows' \in [Conns -> SUBSET Ids] /\ lastSentId' \in [Conns -> 0..LastId]
    BY <1>6, WokenType DEF SubscriptionFails, Subscribers
  <2>2. commands' \in Seq({"SUBSCRIBE", "UNSUBSCRIBE"})
    BY <1>6, AppendCommand DEF SubscriptionFails, TypeOK
  <2>3. faults' \in 0..FaultBound
    BY <1>6, FaultType DEF SubscriptionFails
  <2> QED BY <1>6, <2>1, <2>2, <2>3 DEF SubscriptionFails, TypeOK
<1>7. CASE Unsubscribed
  <2>1. commands' \in Seq({"SUBSCRIBE", "UNSUBSCRIBE"})
    BY <1>7, AppendCommand DEF Unsubscribed, TypeOK
  <2> QED BY <1>7, <2>1 DEF Unsubscribed, TypeOK
<1>8. ASSUME NEW c \in Conns, OpenStream(c) PROVE TypeOK'
  <2>1. commands' \in Seq({"SUBSCRIBE", "UNSUBSCRIBE"})
    BY <1>8, AppendCommand DEF OpenStream, Subscribe, TypeOK
  <2>2. lastSentId' \in [Conns -> 0..LastId]
    <3>1. received # <<>> => received[Len(received)] \in Ids
      BY DEF TypeOK
    <3> QED BY <1>8, <3>1 DEF OpenStream, TypeOK
  <2>3. opens' \in 0..Opens
    BY <1>8 DEF OpenStream, TypeOK
  <2>4. /\ listeners' \in SUBSET Conns /\ pendingSubscription' \in BOOLEAN
        /\ handler' \in [Conns -> HandlerState] /\ reading' \in Conns \union {NoConn}
    BY <1>8 DEF OpenStream, Subscribe, TypeOK
  <2>5. UNCHANGED <<writerVars, wakeups, channel, fetch, rows, hasPendingWakeup, closed,
                    unsubscribe, wire, hungUp, received, faults>>
    BY <1>8 DEF OpenStream, Subscribe
  <2> QED BY <2>1, <2>2, <2>3, <2>4, <2>5 DEF TypeOK
<1>9. ASSUME NEW c \in Conns, FetchRows(c) PROVE TypeOK'
  BY <1>9 DEF FetchRows, TypeOK
<1>10. ASSUME NEW c \in Conns, WriteEvent(c) PROVE TypeOK'
  <2>1. PICK i \in rows[c] :
          /\ lastSentId' = [lastSentId EXCEPT ![c] = i]
          /\ wire' = [wire EXCEPT ![c] = IF hungUp[c] THEN @ ELSE Append(@, i)]
          /\ \/ /\ Cleanup(c)
                /\ rows' = [rows EXCEPT ![c] = {}]
                /\ fetch' = [fetch EXCEPT ![c] = "end"]
                /\ UNCHANGED hasPendingWakeup
             \/ /\ rows' = [rows EXCEPT ![c] = @ \ {i}]
                /\ IF rows[c] = {i} THEN LoopEnds(c)
                                    ELSE UNCHANGED <<fetch, hasPendingWakeup>>
                /\ UNCHANGED <<muxVars, closed, unsubscribe>>
    BY <1>10 DEF WriteEvent
  <2>2. i \in Ids BY DEF TypeOK
  <2>3. /\ lastSentId' \in [Conns -> 0..LastId] /\ wire' \in [Conns -> Seq(0..LastId)]
        /\ rows' \in [Conns -> SUBSET Ids]
    <3>1. i \in 0..LastId /\ wire[c] \in Seq(0..LastId)
      BY <2>2 DEF TypeOK
    <3>2. Append(wire[c], i) \in Seq(0..LastId)
      BY <3>1
    <3>3. wire' \in [Conns -> Seq(0..LastId)]
      BY <2>1, <3>2, Zenon DEF TypeOK
    <3>4. lastSentId' \in [Conns -> 0..LastId]
      BY <2>1, <3>1 DEF TypeOK
    <3>5. rows' = [rows EXCEPT ![c] = {}] \/ rows' = [rows EXCEPT ![c] = rows[c] \ {i}]
      BY <2>1
    <3>6. rows[c] \ {i} \in SUBSET Ids /\ {} \in SUBSET Ids
      BY DEF TypeOK
    <3>7. rows' \in [Conns -> SUBSET Ids]
      BY <3>5, <3>6, Zenon DEF TypeOK
    <3> QED BY <3>3, <3>4, <3>7
  <2>4. /\ fetch' \in [Conns -> FetchState]
        /\ hasPendingWakeup' \in [Conns -> BOOLEAN]
    BY <2>1, LoopType DEF TypeOK
  <2>5. /\ listeners' \in SUBSET Conns
        /\ commands' \in Seq({"SUBSCRIBE", "UNSUBSCRIBE"})
        /\ channel' \in BOOLEAN /\ pendingSubscription' \in BOOLEAN
        /\ closed' \in [Conns -> BOOLEAN]
        /\ unsubscribe' \in [Conns -> BOOLEAN]
    BY <2>1, CleanupType DEF TypeOK
  <2> QED BY <1>10, <2>3, <2>4, <2>5 DEF WriteEvent, TypeOK
<1>11. ASSUME NEW c \in Conns, StopWriting(c) PROVE TypeOK'
  BY <1>11 DEF StopWriting, TypeOK
<1>12. ASSUME NEW c \in Conns, ReadStatus(c) PROVE TypeOK'
  <2>1. /\ fetch' \in [Conns -> FetchState]
        /\ hasPendingWakeup' \in [Conns -> BOOLEAN]
    BY <1>12, LoopType DEF ReadStatus, TypeOK
  <2> QED BY <1>12, <2>1 DEF ReadStatus, TypeOK
<1>13. ASSUME NEW c \in Conns, CountRemaining(c) PROVE TypeOK'
  <2>1. /\ fetch' \in [Conns -> FetchState]
        /\ hasPendingWakeup' \in [Conns -> BOOLEAN]
    BY <1>13, LoopType DEF CountRemaining, TypeOK
  <2>2. /\ listeners' \in SUBSET Conns
        /\ commands' \in Seq({"SUBSCRIBE", "UNSUBSCRIBE"})
        /\ channel' \in BOOLEAN /\ pendingSubscription' \in BOOLEAN
        /\ closed' \in [Conns -> BOOLEAN]
        /\ unsubscribe' \in [Conns -> BOOLEAN]
    BY <1>13, CleanupType DEF CountRemaining, TypeOK
  <2> QED BY <1>13, <2>1, <2>2 DEF CountRemaining, TypeOK
<1>14. ASSUME NEW c \in Conns, FetchFails(c) PROVE TypeOK'
  <2>1. /\ listeners' \in SUBSET Conns
        /\ commands' \in Seq({"SUBSCRIBE", "UNSUBSCRIBE"})
        /\ channel' \in BOOLEAN /\ pendingSubscription' \in BOOLEAN
        /\ closed' \in [Conns -> BOOLEAN]
        /\ unsubscribe' \in [Conns -> BOOLEAN]
    BY <1>14, CleanupType DEF FetchFails
  <2>2. faults' \in 0..FaultBound
    BY <1>14, FaultType DEF FetchFails
  <2> QED BY <1>14, <2>1, <2>2 DEF FetchFails, TypeOK
<1>15. ASSUME NEW c \in Conns, EndResponse(c) PROVE TypeOK'
  <2>1. wire' \in [Conns -> Seq(0..LastId)]
    <3>1. wire[c] \in Seq(0..LastId) /\ Fin \in 0..LastId
      BY DEF TypeOK
    <3>2. Append(wire[c], Fin) \in Seq(0..LastId)
      BY <3>1
    <3> QED BY <1>15, <3>2, Zenon DEF EndResponse, TypeOK
  <2>2. fetch' \in [Conns -> FetchState]
    BY <1>15 DEF EndResponse, TypeOK
  <2> QED BY <1>15, <2>1, <2>2 DEF EndResponse, TypeOK
<1>16. ASSUME NEW c \in Conns, RequestCloses(c) PROVE TypeOK'
  <2>1. /\ listeners' \in SUBSET Conns
        /\ commands' \in Seq({"SUBSCRIBE", "UNSUBSCRIBE"})
        /\ channel' \in BOOLEAN /\ pendingSubscription' \in BOOLEAN
        /\ closed' \in [Conns -> BOOLEAN]
        /\ unsubscribe' \in [Conns -> BOOLEAN]
    BY <1>16, CleanupType DEF RequestCloses
  <2> QED BY <1>16, <2>1 DEF RequestCloses, TypeOK
<1>17. ASSUME NEW c \in Conns, HandlerReturns(c) PROVE TypeOK'
  BY <1>17 DEF HandlerReturns, TypeOK
<1>18. CASE CrashApi
  <2>1. faults' \in 0..FaultBound
    BY <1>18, FaultType DEF CrashApi
  <2>2. wire' \in [Conns -> Seq(0..LastId)]
    <3>1. <<>> \in Seq(0..LastId)
      OBVIOUS
    <3> QED BY <1>18, <3>1, Zenon DEF CrashApi
  <2>3. commands' \in Seq({"SUBSCRIBE", "UNSUBSCRIBE"}) /\ lastSentId' \in [Conns -> 0..LastId]
    BY <1>18 DEF CrashApi
  <2>4. /\ handler' \in [Conns -> HandlerState] /\ fetch' \in [Conns -> FetchState]
        /\ rows' \in [Conns -> SUBSET Ids] /\ hasPendingWakeup' \in [Conns -> BOOLEAN]
        /\ closed' \in [Conns -> BOOLEAN] /\ unsubscribe' \in [Conns -> BOOLEAN]
        /\ hungUp' \in [Conns -> BOOLEAN]
    BY <1>18 DEF CrashApi
  <2>5. /\ channel' \in BOOLEAN /\ listeners' \in SUBSET Conns
        /\ pendingSubscription' \in BOOLEAN /\ reading' \in Conns \union {NoConn}
    BY <1>18 DEF CrashApi
  <2>6. UNCHANGED <<writerVars, wakeups, received, opens>>
    BY <1>18 DEF CrashApi
  <2> QED BY <2>1, <2>2, <2>3, <2>4, <2>5, <2>6 DEF TypeOK
<1>19. CASE ReceiveEvent
  <2>1. reading \in Conns /\ wire[reading] \in Seq(0..LastId) /\ wire[reading] # <<>>
    BY <1>19 DEF ReceiveEvent, TypeOK
  <2>2. Head(wire[reading]) \in 0..LastId /\ Tail(wire[reading]) \in Seq(0..LastId)
    BY <2>1, HeadTail
  <2>3. wire' \in [Conns -> Seq(0..LastId)]
    <3>1. wire' = [wire EXCEPT ![reading] = Tail(wire[reading])]
      BY <1>19 DEF ReceiveEvent
    <3> QED BY <2>2, <3>1, Zenon DEF TypeOK
  <2>4. received' \in Seq(Ids)
    <3>1. CASE Head(wire[reading]) = Fin
      BY <1>19, <3>1 DEF ReceiveEvent, TypeOK
    <3>2. CASE Head(wire[reading]) # Fin
      <4>1. received' = Append(received, Head(wire[reading]))
        BY <1>19, <3>2 DEF ReceiveEvent
      <4>2. Head(wire[reading]) \in Ids
        BY <2>2, <3>2
      <4> QED BY <4>1, <4>2 DEF TypeOK
    <3> QED BY <3>1, <3>2
  <2>5. reading' \in Conns \union {NoConn} /\ hungUp' \in [Conns -> BOOLEAN]
    BY <1>19, <2>1 DEF ReceiveEvent, TypeOK
  <2>6. UNCHANGED <<writerVars, wakeups, muxVars, fetchVars, connVars, opens, faults>>
    BY <1>19 DEF ReceiveEvent
  <2> QED BY <2>3, <2>4, <2>5, <2>6 DEF TypeOK
<1>20. CASE Disconnect
  <2>1. wire' \in [Conns -> Seq(0..LastId)]
    <3>1. <<>> \in Seq(0..LastId)
      OBVIOUS
    <3> QED BY <1>20, <3>1, Zenon DEF Disconnect, TypeOK
  <2> QED BY <1>20, <2>1 DEF Disconnect, TypeOK
<1> QED
  BY <1>1, <1>2, <1>3, <1>4, <1>5, <1>6, <1>7, <1>8, <1>9, <1>10, <1>11, <1>12,
     <1>13, <1>14, <1>15, <1>16, <1>17, <1>18, <1>19, <1>20 DEF Next, ServeStream

\* The state stays of its type: in particular no wake-up is published twice, and
\* the bounded counters stay within their bounds.
THEOREM StreamTypeCorrect == Spec => []TypeOK
BY InitType, StepType, PTL DEF Spec
----------------------------------------------------------------------------
(* The multiplexer.                                                         *)

MuxInv == ConnectionInv /\ CommandsInv /\ ChannelHeld /\ NoListenerLeft

\* A command taken from the queue leaves the others, one place further on.
LEMMA TailCommands ==
    ASSUME NEW s \in Seq({"SUBSCRIBE", "UNSUBSCRIBE"}), s # <<>>
    PROVE  /\ Len(Tail(s)) = Len(s) - 1
           /\ \A n \in DOMAIN Tail(s) : n + 1 \in DOMAIN s /\ Tail(s)[n] = s[n + 1]
           /\ Head(s) = s[1] /\ 1 \in DOMAIN s
           /\ Tail(s) # <<>> => Tail(s)[Len(Tail(s))] = s[Len(s)]
OBVIOUS

LEMMA TailOfOne ==
    ASSUME NEW S, NEW s \in Seq(S), Len(s) = 1
    PROVE  Tail(s) = <<>>
<1>1. s # <<>>
  OBVIOUS
<1>2. Tail(s) \in Seq(S) /\ Len(Tail(s)) = 0
  BY <1>1, HeadTailProperties
<1> QED BY <1>2, EmptySeq

LEMMA AppendedCommand ==
    ASSUME NEW s \in Seq({"SUBSCRIBE", "UNSUBSCRIBE"}), NEW w
    PROVE  /\ Len(Append(s, w)) = Len(s) + 1
           /\ Append(s, w)[Len(s) + 1] = w
           /\ Append(s, w) # <<>>
           /\ \A n \in DOMAIN Append(s, w) :
                 n = Len(s) + 1 \/ (n \in DOMAIN s /\ Append(s, w)[n] = s[n])
OBVIOUS

\* Nobody but the connection leaves the listeners, and UNSUBSCRIBE is sent only
\* when it was the last of them and no SUBSCRIBE is under way.
LEMMA CleanupMux ==
    ASSUME TypeOK, MuxInv, NEW c \in Conns, Cleanup(c), handler' = handler
    PROVE  /\ CommandsInv' /\ ChannelHeld'
           /\ \A d \in Conns : /\ d # c => /\ (d \in listeners') = (d \in listeners)
                                           /\ closed'[d] = closed[d]
                                           /\ unsubscribe'[d] = unsubscribe[d]
           /\ closed'[c] /\ ~unsubscribe'[c]
           /\ c \notin listeners' \/ handler[c] = "subscribing"
           /\ handler[c] = "subscribing" => c \in listeners'
           /\ pendingSubscription' = pendingSubscription
<1>1. CASE unsubscribe[c]
  <2>1. Leave({c}, commands) /\ channel' = channel
        /\ pendingSubscription' = pendingSubscription
    BY <1>1 DEF Cleanup
  <2>2. listeners' = listeners \ {c}
    BY <2>1 DEF Leave
  <2>3. handler[c] = "serving"
    BY <1>1 DEF MuxInv, ConnectionInv
  <2>4. closed' = [closed EXCEPT ![c] = TRUE] /\ unsubscribe' = [unsubscribe EXCEPT ![c] = FALSE]
    BY DEF Cleanup
  <2>5. CASE listeners \subseteq {c}
    <3>1. commands' = Append(commands, "UNSUBSCRIBE")
      BY <2>1, <2>5 DEF Leave
    <3>2. ~pendingSubscription
      <4>1. \A d \in Conns : handler[d] = "subscribing" => d \in listeners
        BY DEF MuxInv, ConnectionInv
      <4> QED BY <2>3, <2>5, <4>1 DEF MuxInv, CommandsInv
    <3>3. CommandsInv'
      <4>1. \A n \in DOMAIN commands : commands[n] # "SUBSCRIBE"
        BY <3>2 DEF MuxInv, CommandsInv
      <4>2. commands \in Seq({"SUBSCRIBE", "UNSUBSCRIBE"})
        BY DEF TypeOK
      <4>3. \A n \in DOMAIN commands' : commands'[n] # "SUBSCRIBE"
        BY <3>1, <4>1, <4>2, AppendedCommand
      <4> QED BY <2>1, <3>2, <4>3 DEF CommandsInv
    <3>4. ChannelHeld'
      <4>1. \A d \in Conns : ~unsubscribe'[d]
        BY <2>4, <2>5 DEF MuxInv, ConnectionInv, TypeOK
      <4> QED BY <4>1 DEF ChannelHeld
    <3> QED BY <2>1, <2>2, <2>3, <2>4, <3>3, <3>4 DEF TypeOK
  <2>6. CASE ~(listeners \subseteq {c})
    <3>1. commands' = commands
      BY <2>1, <2>6 DEF Leave
    <3>2. CommandsInv'
      BY <2>1, <3>1 DEF MuxInv, CommandsInv
    <3>3. ChannelHeld'
      BY <2>1, <2>4, <3>1 DEF MuxInv, ChannelHeld, TypeOK
    <3> QED BY <2>1, <2>2, <2>3, <2>4, <3>2, <3>3 DEF TypeOK
  <2> QED BY <2>5, <2>6
<1>2. CASE ~unsubscribe[c]
  <2>1. UNCHANGED muxVars
    BY <1>2 DEF Cleanup
  <2>2. closed' = [closed EXCEPT ![c] = TRUE] /\ unsubscribe' = [unsubscribe EXCEPT ![c] = FALSE]
    BY DEF Cleanup
  <2>3. CommandsInv'
    BY <2>1 DEF MuxInv, CommandsInv, muxVars
  <2>4. ChannelHeld'
    BY <2>1, <2>2 DEF MuxInv, ChannelHeld, muxVars, TypeOK
  <2>5. c \notin listeners \/ handler[c] = "subscribing"
    BY <1>2 DEF MuxInv, ConnectionInv
  <2>6. handler[c] = "subscribing" => c \in listeners
    BY DEF MuxInv, ConnectionInv
  <2> QED BY <2>1, <2>2, <2>3, <2>4, <2>5, <2>6 DEF muxVars, TypeOK
<1> QED BY <1>1, <1>2

\* The connections after a cleanup, when nothing else of them changes but where
\* the fetch is, and no fetch but this one's comes to its end.
LEMMA CleanupConnections ==
    ASSUME TypeOK, MuxInv, NEW c \in Conns, Cleanup(c), handler' = handler,
           handler[c] # "free",
           UNCHANGED <<hungUp, reading>>,
           \A d \in Conns : reading # d => wire'[d] = wire[d],
           \A d \in Conns : d # c => fetch'[d] = fetch[d]
    PROVE  MuxInv'
<1>1. /\ CommandsInv' /\ ChannelHeld'
      /\ \A d \in Conns : /\ d # c => /\ (d \in listeners') = (d \in listeners)
                                      /\ closed'[d] = closed[d]
                                      /\ unsubscribe'[d] = unsubscribe[d]
      /\ closed'[c] /\ ~unsubscribe'[c]
      /\ c \notin listeners' \/ handler[c] = "subscribing"
      /\ handler[c] = "subscribing" => c \in listeners'
      /\ pendingSubscription' = pendingSubscription
  BY CleanupMux
<1>2. ConnectionInv'
  BY <1>1 DEF MuxInv, ConnectionInv
<1>3. NoListenerLeft'
  BY <1>1 DEF MuxInv, NoListenerLeft
<1> QED BY <1>1, <1>2, <1>3 DEF MuxInv

\* A step that leaves the multiplexer alone, and of a connection changes only
\* where its fetch is.
LEMMA FetchConnections ==
    ASSUME TypeOK, MuxInv, UNCHANGED <<muxVars, connVars, hungUp, reading>>,
           \A d \in Conns : reading # d => wire'[d] = wire[d],
           \A d \in Conns : fetch'[d] # fetch[d] =>
               fetch'[d] # "end" /\ (handler[d] = "free" => fetch'[d] = "idle")
    PROVE  MuxInv'
<1> USE DEF muxVars, connVars
<1>1. ConnectionInv'
  BY DEF MuxInv, ConnectionInv
<1>2. CommandsInv' /\ ChannelHeld'
  BY DEF MuxInv, CommandsInv, ChannelHeld
<1>3. NoListenerLeft'
  BY DEF MuxInv, NoListenerLeft
<1> QED BY <1>1, <1>2, <1>3 DEF MuxInv

\* Only fetches of connections in the set change.
LEMMA WokenFetch ==
    ASSUME TypeOK, NEW S \in SUBSET Conns, Woken(S), NEW d \in Conns
    PROVE  /\ fetch'[d] # fetch[d] => d \in S /\ ~closed[d] /\ fetch[d] = "idle"
                                      /\ fetch'[d] = "query"
           /\ rows'[d] = rows[d] /\ lastSentId'[d] = lastSentId[d]
BY DEF TypeOK, Woken

LEMMA LoopFetch ==
    ASSUME TypeOK, NEW c \in Conns, LoopEnds(c), NEW d \in Conns
    PROVE  /\ d # c => fetch'[d] = fetch[d]
           /\ d = c => fetch'[d] \in {"query", "idle"}
BY DEF TypeOK, LoopEnds

LEMMA InitMux == Init => MuxInv
BY NoConnAssumption DEF Init, MuxInv, ConnectionInv, CommandsInv, ChannelHeld, NoListenerLeft

LEMMA StepMux == TypeOK /\ TypeOK' /\ MuxInv /\ CursorInv /\ [Next]_vars => MuxInv'
<1> SUFFICES ASSUME TypeOK, TypeOK', MuxInv, CursorInv, [Next]_vars PROVE MuxInv'
  OBVIOUS
<1> USE DEF writerVars, muxVars, fetchVars, connVars, readerVars
<1>1. CASE UNCHANGED vars
  BY <1>1, FetchConnections DEF vars
<1>2. CASE InsertEvent
  BY <1>2, FetchConnections DEF InsertEvent
<1>3. ASSUME NEW i \in Ids, NEW k \in Kinds, CommitEvent(i, k) PROVE MuxInv'
  BY <1>3, FetchConnections DEF CommitEvent
<1>4. CASE PublishWakeup
  <2>1. \A d \in Conns : fetch'[d] # fetch[d] =>
               fetch'[d] # "end" /\ (handler[d] = "free" => fetch'[d] = "idle")
    <3>1. CASE ~channel
      BY <1>4, <3>1 DEF PublishWakeup
    <3>2. CASE channel
      <4>1. Woken(listeners) /\ listeners \in SUBSET Conns
        BY <1>4, <3>2 DEF PublishWakeup, TypeOK
      <4>2. \A d \in listeners : handler[d] # "free"
        BY DEF MuxInv, ConnectionInv, TypeOK
      <4> QED BY <4>1, <4>2, WokenFetch
    <3> QED BY <3>1, <3>2
  <2> QED BY <1>4, <2>1, FetchConnections DEF PublishWakeup
<1>5. CASE SubscriptionGranted
  <2> DEFINE S == {d \in Subscribers : closed[d]}
  <2>1. /\ commands \in Seq({"SUBSCRIBE", "UNSUBSCRIBE"}) /\ commands # <<>>
        /\ Head(commands) = "SUBSCRIBE"
        /\ channel' = TRUE /\ pendingSubscription' = FALSE
        /\ UNCHANGED <<closed, wire, hungUp, readerVars>>
    BY <1>5 DEF SubscriptionGranted, TypeOK
  <2>2. Tail(commands) = <<>>
    <3>1. Len(commands) = 1
      BY <2>1, TailCommands DEF MuxInv, CommandsInv
    <3> QED BY <2>1, <3>1, TailOfOne
  <2>3. /\ listeners' = listeners \ S
        /\ commands' = <<>> \/ (commands' = <<"UNSUBSCRIBE">> /\ listeners \subseteq S)
    <3>1. Leave(S, <<>>)
      BY <1>5, <2>2 DEF SubscriptionGranted
    <3> QED BY <3>1 DEF Leave
  <2>4. \A d \in Conns :
           /\ unsubscribe'[d] = (unsubscribe[d] \/ (d \in Subscribers /\ ~closed[d]))
           /\ handler'[d] = IF d \in Subscribers THEN "serving" ELSE handler[d]
    BY <1>5 DEF SubscriptionGranted
  <2>5. \A d \in Conns : fetch'[d] # fetch[d] =>
               fetch'[d] = "query" /\ d \in Subscribers
    BY <1>5, WokenFetch DEF SubscriptionGranted, Subscribers
  <2>6. \A d \in Conns : unsubscribe'[d] => d \in listeners /\ d \notin S
    BY <2>4 DEF MuxInv, ConnectionInv, Subscribers
  <2>7. CommandsInv'
    BY <2>1, <2>3 DEF CommandsInv
  <2>8. ChannelHeld'
    BY <2>1, <2>3, <2>6 DEF ChannelHeld
  <2>9. ConnectionInv'
    BY <2>1, <2>3, <2>4, <2>5, <2>6 DEF MuxInv, ConnectionInv, Subscribers
  <2>10. NoListenerLeft'
    BY <2>1, <2>3, <2>4 DEF MuxInv, NoListenerLeft, ConnectionInv, Subscribers
  <2> QED BY <2>7, <2>8, <2>9, <2>10 DEF MuxInv
<1>6. CASE SubscriptionFails
  <2>1. /\ commands \in Seq({"SUBSCRIBE", "UNSUBSCRIBE"}) /\ commands # <<>>
        /\ Head(commands) = "SUBSCRIBE" /\ commands' = Tail(commands)
        /\ pendingSubscription' = FALSE
        /\ UNCHANGED <<channel, closed, unsubscribe, wire, hungUp, readerVars>>
    BY <1>6 DEF SubscriptionFails, TypeOK
  <2>2. commands' = <<>>
    <3>1. Len(commands) = 1
      BY <2>1, TailCommands DEF MuxInv, CommandsInv
    <3> QED BY <2>1, <3>1, TailOfOne
  <2>3. /\ listeners' = listeners \ Subscribers
        /\ \A d \in Conns : handler'[d] = IF d \in Subscribers THEN "serving" ELSE handler[d]
    BY <1>6 DEF SubscriptionFails
  <2>4. \A d \in Conns : fetch'[d] # fetch[d] => fetch'[d] = "query" /\ d \in Subscribers
    BY <1>6, WokenFetch DEF SubscriptionFails, Subscribers
  <2>5. CommandsInv' /\ ChannelHeld'
    BY <2>1, <2>2 DEF MuxInv, CommandsInv, ChannelHeld
  <2>6. ConnectionInv'
    BY <2>1, <2>3, <2>4 DEF MuxInv, ConnectionInv, Subscribers
  <2>7. NoListenerLeft'
    BY <2>1, <2>3 DEF MuxInv, NoListenerLeft, ConnectionInv, Subscribers
  <2> QED BY <2>5, <2>6, <2>7 DEF MuxInv
<1>7. CASE Unsubscribed
  <2>1. /\ commands \in Seq({"SUBSCRIBE", "UNSUBSCRIBE"}) /\ commands # <<>>
        /\ Head(commands) = "UNSUBSCRIBE" /\ commands' = Tail(commands)
        /\ UNCHANGED <<listeners, pendingSubscription, fetchVars, connVars, wire, hungUp,
                       readerVars>>
    BY <1>7 DEF Unsubscribed, TypeOK
  <2>2. \A d \in Conns : ~unsubscribe[d]
    BY <2>1, TailCommands DEF MuxInv, ChannelHeld
  <2>3. ChannelHeld'
    BY <2>1, <2>2 DEF ChannelHeld
  <2>4. CommandsInv'
    <3>1. \A n \in DOMAIN commands' : commands'[n] = "SUBSCRIBE" =>
             pendingSubscription' /\ n = Len(commands')
      BY <2>1, TailCommands DEF MuxInv, CommandsInv
    <3>2. pendingSubscription => commands' # <<>> /\ commands'[Len(commands')] = "SUBSCRIBE"
      <4>1. SUFFICES ASSUME pendingSubscription
                     PROVE  commands' # <<>> /\ commands'[Len(commands')] = "SUBSCRIBE"
        OBVIOUS
      <4>2. commands[Len(commands)] = "SUBSCRIBE" /\ commands[1] = "UNSUBSCRIBE"
        BY <2>1, <4>1 DEF MuxInv, CommandsInv
      <4>3. Len(commands) # 1
        BY <4>2
      <4>4. Len(commands) \in Nat /\ Len(commands') = Len(commands) - 1 /\ Len(commands) # 0
        BY <2>1, TailCommands
      <4>5. commands' # <<>>
        BY <4>3, <4>4
      <4> QED BY <2>1, <4>2, <4>5, TailCommands
    <3> QED BY <2>1, <3>1, <3>2 DEF MuxInv, CommandsInv
  <2>5. ConnectionInv' /\ NoListenerLeft'
    BY <2>1 DEF MuxInv, ConnectionInv, NoListenerLeft
  <2> QED BY <2>3, <2>4, <2>5 DEF MuxInv
<1>8. ASSUME NEW c \in Conns, OpenStream(c) PROVE MuxInv'
  <2>1. /\ handler[c] = "free" /\ reading = NoConn /\ reading' = c
        /\ handler' = [handler EXCEPT ![c] = "subscribing"]
        /\ listeners' = listeners \union {c}
        /\ pendingSubscription' = TRUE
        /\ UNCHANGED <<fetch, closed, unsubscribe, wire, hungUp, channel>>
    BY <1>8 DEF OpenStream, Subscribe
  <2>2. ConnectionInv'
    <3>1. \A d \in Conns : handler'[d] = IF d = c THEN "subscribing" ELSE handler[d]
      BY <2>1 DEF TypeOK
    <3>2. \A d \in Conns : reading # d
      BY <2>1, NoConnAssumption
    <3> QED BY <2>1, <3>1, <3>2 DEF MuxInv, ConnectionInv
  <2>3. NoListenerLeft'
    BY <2>1 DEF MuxInv, NoListenerLeft, TypeOK
  <2>4. CASE pendingSubscription
    <3>1. commands' = commands
      BY <1>8, <2>4 DEF OpenStream, Subscribe
    <3>2. CommandsInv' /\ ChannelHeld'
      BY <2>1, <2>4, <3>1 DEF MuxInv, CommandsInv, ChannelHeld, TypeOK
    <3> QED BY <2>2, <2>3, <3>2 DEF MuxInv
  <2>5. CASE ~pendingSubscription
    <3>1. commands' = Append(commands, "SUBSCRIBE") /\ commands \in Seq({"SUBSCRIBE", "UNSUBSCRIBE"})
      BY <1>8, <2>5 DEF OpenStream, Subscribe, TypeOK
    <3>2. \A n \in DOMAIN commands : commands[n] # "SUBSCRIBE"
      BY <2>5 DEF MuxInv, CommandsInv
    <3>3. CommandsInv'
      <4>1. \A n \in DOMAIN commands' : commands'[n] = "SUBSCRIBE" => n = Len(commands')
        BY <3>1, <3>2, AppendedCommand
      <4>2. commands' # <<>> /\ commands'[Len(commands')] = "SUBSCRIBE"
        BY <3>1, AppendedCommand
      <4>3. handler'[c] = "subscribing"
        BY <2>1 DEF TypeOK
      <4> QED BY <2>1, <4>1, <4>2, <4>3 DEF CommandsInv
    <3>4. ChannelHeld'
      <4>1. (\E d \in Conns : unsubscribe[d]) =>
               channel /\ \A n \in DOMAIN commands : commands[n] # "UNSUBSCRIBE"
        BY DEF MuxInv, ChannelHeld
      <4>2. (\E d \in Conns : unsubscribe[d]) =>
               \A n \in DOMAIN commands' : commands'[n] # "UNSUBSCRIBE"
        BY <3>1, <4>1, AppendedCommand
      <4> QED BY <2>1, <4>1, <4>2 DEF ChannelHeld
    <3> QED BY <2>2, <2>3, <3>3, <3>4 DEF MuxInv
  <2> QED BY <2>4, <2>5
<1>9. ASSUME NEW c \in Conns, FetchRows(c) PROVE MuxInv'
  <2>1. \A d \in Conns : fetch'[d] # fetch[d] =>
               fetch'[d] # "end" /\ (handler[d] = "free" => fetch'[d] = "idle")
    BY <1>9 DEF FetchRows, TypeOK, MuxInv, ConnectionInv
  <2> QED BY <1>9, <2>1, FetchConnections DEF FetchRows
<1>10. ASSUME NEW c \in Conns, WriteEvent(c) PROVE MuxInv'
  <2>1. /\ fetch[c] = "rows" /\ handler[c] # "free"
        /\ UNCHANGED <<handler, hungUp, reading>>
    BY <1>10 DEF WriteEvent, MuxInv, ConnectionInv
  <2>2. \A d \in Conns : reading # d => wire'[d] = wire[d]
    <3>1. PICK i \in rows[c] : wire' = [wire EXCEPT ![c] = IF hungUp[c] THEN @ ELSE Append(@, i)]
      BY <1>10 DEF WriteEvent
    <3>2. reading # c => hungUp[c]
      BY <2>1 DEF MuxInv, ConnectionInv
    <3> QED BY <3>1, <3>2 DEF TypeOK
  <2>3. CASE Cleanup(c) /\ fetch' = [fetch EXCEPT ![c] = "end"]
    <3>1. \A d \in Conns : d # c => fetch'[d] = fetch[d]
      BY <2>3 DEF TypeOK
    <3> QED BY <2>1, <2>2, <2>3, <3>1, CleanupConnections
  <2>4. CASE /\ LoopEnds(c) \/ UNCHANGED fetch
             /\ UNCHANGED <<muxVars, closed, unsubscribe>>
    <3>1. \A d \in Conns : fetch'[d] # fetch[d] =>
               fetch'[d] # "end" /\ (handler[d] = "free" => fetch'[d] = "idle")
      BY <2>1, <2>4, LoopFetch
    <3> QED BY <2>1, <2>2, <2>4, <3>1, FetchConnections
  <2> QED BY <1>10, <2>3, <2>4 DEF WriteEvent
<1>11. ASSUME NEW c \in Conns, StopWriting(c) PROVE MuxInv'
  <2>1. \A d \in Conns : fetch'[d] # fetch[d] => fetch'[d] = "idle"
    BY <1>11 DEF StopWriting, TypeOK
  <2> QED BY <1>11, <2>1, FetchConnections DEF StopWriting
<1>12. ASSUME NEW c \in Conns, ReadStatus(c) PROVE MuxInv'
  <2>1. \A d \in Conns : fetch'[d] # fetch[d] =>
               fetch'[d] # "end" /\ (handler[d] = "free" => fetch'[d] = "idle")
    <3>1. handler[c] # "free"
      BY <1>12 DEF ReadStatus, MuxInv, ConnectionInv
    <3>2. CASE terminal
      BY <1>12, <3>1, <3>2 DEF ReadStatus, TypeOK
    <3>3. CASE ~terminal
      BY <1>12, <3>1, <3>3, LoopFetch DEF ReadStatus
    <3> QED BY <3>2, <3>3
  <2> QED BY <1>12, <2>1, FetchConnections DEF ReadStatus
<1>13. ASSUME NEW c \in Conns, CountRemaining(c) PROVE MuxInv'
  <2>1. handler[c] # "free"
    BY <1>13 DEF CountRemaining, MuxInv, ConnectionInv
  <2>2. CASE fetch' = [fetch EXCEPT ![c] = "end"] /\ Cleanup(c)
    <3>1. \A d \in Conns : d # c => fetch'[d] = fetch[d]
      BY <2>2 DEF TypeOK
    <3> QED BY <1>13, <2>1, <2>2, <3>1, CleanupConnections DEF CountRemaining
  <2>3. CASE LoopEnds(c) /\ UNCHANGED <<muxVars, closed, unsubscribe>>
    <3>1. \A d \in Conns : fetch'[d] # fetch[d] =>
               fetch'[d] # "end" /\ (handler[d] = "free" => fetch'[d] = "idle")
      BY <2>1, <2>3, LoopFetch
    <3> QED BY <1>13, <2>3, <3>1, FetchConnections DEF CountRemaining
  <2> QED BY <1>13, <2>2, <2>3 DEF CountRemaining
<1>14. ASSUME NEW c \in Conns, FetchFails(c) PROVE MuxInv'
  <2>1. handler[c] # "free"
    BY <1>14 DEF FetchFails, MuxInv, ConnectionInv
  <2>2. \A d \in Conns : d # c => fetch'[d] = fetch[d]
    BY <1>14 DEF FetchFails, TypeOK
  <2> QED BY <1>14, <2>1, <2>2, CleanupConnections DEF FetchFails
<1>15. ASSUME NEW c \in Conns, EndResponse(c) PROVE MuxInv'
  <2>1. \A d \in Conns : fetch'[d] # fetch[d] => fetch'[d] = "idle"
    BY <1>15 DEF EndResponse, TypeOK
  <2>2. \A d \in Conns : reading # d => wire'[d] = wire[d]
    <3>1. reading # c => hungUp[c]
      BY <1>15 DEF EndResponse, MuxInv, ConnectionInv
    <3> QED BY <1>15, <3>1 DEF EndResponse, TypeOK
  <2> QED BY <1>15, <2>1, <2>2, FetchConnections DEF EndResponse
<1>16. ASSUME NEW c \in Conns, RequestCloses(c) PROVE MuxInv'
  BY <1>16, CleanupConnections DEF RequestCloses
<1>17. ASSUME NEW c \in Conns, HandlerReturns(c) PROVE MuxInv'
  <2>1. /\ handler[c] = "serving" /\ closed[c] /\ fetch[c] = "idle" /\ reading # c
        /\ handler' = [handler EXCEPT ![c] = "free"]
        /\ closed' = [closed EXCEPT ![c] = FALSE]
        /\ hungUp' = [hungUp EXCEPT ![c] = FALSE]
        /\ UNCHANGED <<commands, channel, listeners, pendingSubscription, fetch, unsubscribe,
                       wire, reading>>
    BY <1>17 DEF HandlerReturns
  <2>2. c \notin listeners /\ ~unsubscribe[c]
    BY <2>1 DEF MuxInv, NoListenerLeft
  <2>3. ConnectionInv'
    <3>1. \A d \in Conns : /\ handler'[d] = IF d = c THEN "free" ELSE handler[d]
                           /\ closed'[d] = IF d = c THEN FALSE ELSE closed[d]
                           /\ hungUp'[d] = IF d = c THEN FALSE ELSE hungUp[d]
      BY <2>1 DEF TypeOK
    <3> SUFFICES ASSUME NEW d \in Conns PROVE ConnectionInv!(d)'
      BY DEF ConnectionInv
    <3>2. CASE d = c
      <4>1. wire[c] = <<>>
        BY <2>1 DEF MuxInv, ConnectionInv
      <4>2. /\ handler'[c] = "free" /\ ~closed'[c] /\ ~hungUp'[c] /\ fetch'[c] = "idle"
            /\ reading' # c /\ wire'[c] = <<>> /\ c \notin listeners' /\ ~unsubscribe'[c]
        BY <2>1, <2>2, <3>1, <4>1
      <4> QED BY <3>2, <4>2
    <3>3. CASE d # c
      BY <2>1, <3>1, <3>3 DEF MuxInv, ConnectionInv
    <3> QED BY <3>2, <3>3
  <2>4. NoListenerLeft'
    BY <2>1, <2>2 DEF MuxInv, NoListenerLeft, TypeOK
  <2>5. CommandsInv' /\ ChannelHeld'
    BY <2>1 DEF MuxInv, CommandsInv, ChannelHeld, TypeOK
  <2> QED BY <2>3, <2>4, <2>5 DEF MuxInv
<1>18. CASE CrashApi
  <2>1. /\ commands' = <<>> /\ channel' = FALSE /\ listeners' = {} /\ pendingSubscription' = FALSE
        /\ \A d \in Conns : /\ handler'[d] = "free" /\ fetch'[d] = "idle" /\ ~closed'[d]
                            /\ ~unsubscribe'[d] /\ ~hungUp'[d] /\ wire'[d] = <<>>
        /\ reading' = NoConn
    BY <1>18 DEF CrashApi
  <2> QED BY <2>1, NoConnAssumption
          DEF MuxInv, ConnectionInv, CommandsInv, ChannelHeld, NoListenerLeft
<1>19. CASE ReceiveEvent
  <2>1. /\ reading \in Conns /\ wire[reading] # <<>>
        /\ wire' = [wire EXCEPT ![reading] = Tail(@)]
        /\ UNCHANGED <<muxVars, connVars, fetch>>
    BY <1>19 DEF ReceiveEvent, TypeOK
  <2>2. CASE Head(wire[reading]) # Fin
    <3>1. UNCHANGED <<reading, hungUp>>
      BY <1>19, <2>2 DEF ReceiveEvent
    <3>2. \A d \in Conns : reading # d => wire'[d] = wire[d]
      BY <2>1 DEF TypeOK
    <3> QED BY <2>1, <3>1, <3>2, FetchConnections
  <2>3. CASE Head(wire[reading]) = Fin
    <3>1. reading' = NoConn /\ hungUp' = [hungUp EXCEPT ![reading] = TRUE]
      BY <1>19, <2>3 DEF ReceiveEvent
    <3>2. wire'[reading] = <<>>
      <4>1. wire[reading] \in Seq(0..LastId)
        BY <2>1 DEF TypeOK
      <4>2. 1 \in DOMAIN wire[reading] /\ wire[reading][1] = Fin
        BY <2>1, <2>3, <4>1
      <4>3. Len(wire[reading]) = 1
        BY <2>1, <4>2 DEF CursorInv, WireInOrder
      <4>4. Tail(wire[reading]) = <<>>
        BY <4>1, <4>3, TailOfOne
      <4>5. wire' = [wire EXCEPT ![reading] = <<>>]
        BY <2>1, <4>4
      <4> QED BY <2>1, <4>5, Zenon DEF TypeOK
    <3>3. \A d \in Conns : /\ d # reading => wire'[d] = wire[d] /\ hungUp'[d] = hungUp[d]
                           /\ hungUp'[reading]
      BY <2>1, <3>1 DEF TypeOK
    <3>4. handler[reading] # "free"
      BY <2>1 DEF MuxInv, ConnectionInv
    <3>5. ConnectionInv'
      BY <2>1, <3>1, <3>2, <3>3, <3>4, NoConnAssumption DEF MuxInv, ConnectionInv
    <3>6. CommandsInv' /\ ChannelHeld' /\ NoListenerLeft'
      BY <2>1 DEF MuxInv, CommandsInv, ChannelHeld, NoListenerLeft
    <3> QED BY <3>5, <3>6 DEF MuxInv
  <2> QED BY <2>2, <2>3
<1>20. CASE Disconnect
  <2>1. /\ reading \in Conns /\ reading' = NoConn
        /\ wire' = [wire EXCEPT ![reading] = <<>>]
        /\ hungUp' = [hungUp EXCEPT ![reading] = TRUE]
        /\ UNCHANGED <<muxVars, connVars, fetch>>
    BY <1>20 DEF Disconnect, TypeOK
  <2>2. handler[reading] # "free"
    BY <2>1 DEF MuxInv, ConnectionInv
  <2>3. ConnectionInv'
    <3>1. \A d \in Conns : /\ d # reading => wire'[d] = wire[d]
                           /\ hungUp'[d] = IF d = reading THEN TRUE ELSE hungUp[d]
      BY <2>1 DEF TypeOK
    <3>2. wire'[reading] = <<>>
      BY <2>1, Zenon DEF TypeOK
    <3> QED BY <2>1, <2>2, <3>1, <3>2, NoConnAssumption DEF MuxInv, ConnectionInv
  <2>4. CommandsInv' /\ ChannelHeld' /\ NoListenerLeft'
    BY <2>1 DEF MuxInv, CommandsInv, ChannelHeld, NoListenerLeft
  <2> QED BY <2>3, <2>4 DEF MuxInv
<1> QED
  BY <1>1, <1>2, <1>3, <1>4, <1>5, <1>6, <1>7, <1>8, <1>9, <1>10, <1>11, <1>12,
     <1>13, <1>14, <1>15, <1>16, <1>17, <1>18, <1>19, <1>20 DEF Next, ServeStream
----------------------------------------------------------------------------
(* The cursor and the feed.                                                 *)

\* What follows keeps following when an event commits, which is late if others
\* with greater ids are there.
LEMMA FollowsKept ==
    ASSUME TypeOK, NEW a \in 0..LastId, NEW b \in 0..LastId, Follows(a, b),
           \/ UNCHANGED <<log, late>>
           \/ \E i \in Ids : /\ log' = log \union {i}
                             /\ late' = IF \E j \in log : j > i THEN late \union {i} ELSE late
    PROVE  Follows(a, b)'
<1>1. CASE UNCHANGED <<log, late>>
  BY <1>1 DEF Follows
<1>2. ASSUME NEW i \in Ids, log' = log \union {i},
             late' = IF \E j \in log : j > i THEN late \union {i} ELSE late
      PROVE  Follows(a, b)'
  <2>1. b \in log' /\ a < b /\ late \subseteq late'
    BY <1>2 DEF Follows
  <2>2. \A j \in log' : a < j /\ j < b => j \in late'
    <3>1. SUFFICES ASSUME NEW j \in log', a < j, j < b PROVE j \in late'
      OBVIOUS
    <3>2. CASE j \in log
      BY <2>1, <3>1, <3>2 DEF Follows
    <3>3. CASE j = i
      BY <1>2, <3>1, <3>3 DEF Follows
    <3> QED BY <1>2, <3>2, <3>3
  <2> QED BY <2>1, <2>2 DEF Follows
<1> QED BY <1>1, <1>2

\* The entries of the wire, and the last id the reader was given.
LEMMA WireType ==
    ASSUME TypeOK, NEW c \in Conns
    PROVE  /\ wire[c] \in Seq(0..LastId)
           /\ \A n \in DOMAIN wire[c] : wire[c][n] \in 0..LastId
           /\ LastOf(received) \in 0..LastId
           /\ \A n \in DOMAIN wire[c] : n # 1 => n - 1 \in DOMAIN wire[c]
<1>1. wire[c] \in Seq(0..LastId) /\ received \in Seq(Ids)
  BY DEF TypeOK
<1>2. LastOf(received) \in 0..LastId
  <2>1. CASE received = <<>>
    BY <2>1, LastIdAssumption DEF LastOf
  <2>2. CASE received # <<>>
    <3>1. Len(received) \in 1..Len(received)
      BY <1>1, <2>2, EmptySeq
    <3>2. received[Len(received)] \in Ids
      BY <1>1, <3>1, ElementOfSeq
    <3> QED BY <2>2, <3>2 DEF LastOf
  <2> QED BY <2>1, <2>2
<1>3. DOMAIN wire[c] = 1..Len(wire[c])
  BY <1>1, LenProperties
<1>4. \A n \in DOMAIN wire[c] : wire[c][n] \in 0..LastId
  BY <1>1, <1>3, ElementOfSeq
<1>5. \A n \in DOMAIN wire[c] : n # 1 => n - 1 \in DOMAIN wire[c]
  BY <1>3
<1> QED BY <1>1, <1>2, <1>4, <1>5

\* A step that writes nothing and reads nothing keeps the wire in order.
LEMMA WireKept ==
    ASSUME TypeOK, NEW c \in Conns, WireInOrder(c),
           wire'[c] = wire[c], received' = received,
           closed[c] => closed'[c],
           closed[c] /\ fetch[c] = "idle" => fetch'[c] = "idle",
           \/ UNCHANGED <<log, late>>
           \/ \E i \in Ids : /\ log' = log \union {i}
                             /\ late' = IF \E j \in log : j > i THEN late \union {i} ELSE late
    PROVE  WireInOrder(c)'
<1>1. SUFFICES ASSUME NEW n \in DOMAIN wire[c]
               PROVE  IF wire[c][n] = Fin
                      THEN n = Len(wire[c]) /\ closed'[c] /\ fetch'[c] = "idle"
                      ELSE Follows(IF n = 1 THEN LastOf(received) ELSE wire[c][n - 1],
                                   wire[c][n])'
  BY DEF WireInOrder, LastOf
<1>2. CASE wire[c][n] = Fin
  BY <1>2 DEF WireInOrder
<1>3. CASE wire[c][n] # Fin
  <2> DEFINE a == IF n = 1 THEN LastOf(received) ELSE wire[c][n - 1]
             b == wire[c][n]
  <2>1. a \in 0..LastId /\ b \in 0..LastId
    BY WireType
  <2>2. Follows(a, b)
    BY <1>3 DEF WireInOrder
  <2>3. a' = a /\ b' = b
    BY DEF LastOf
  <2> HIDE DEF a, b
  <2>4. Follows(a, b)'
    <3>1. \A x, y : Follows(x, y)' <=> /\ y \in log' /\ x < y
                                       /\ \A j \in log' : x < j /\ j < y => j \in late'
      BY DEF Follows
    <3> QED BY <2>1, <2>2, <2>3, FollowsKept DEF Follows
  <2> QED BY <1>3, <2>4 DEF a, b
<1> QED BY <1>2, <1>3

\* The same of the whole invariant, for a step that leaves the cursor and the rows
\* alone and begins no writing.
LEMMA CursorKept ==
    ASSUME TypeOK, NEW c \in Conns, WireInOrder(c), CursorAtLast(c), RowsComplete(c),
           wire'[c] = wire[c], received' = received,
           lastSentId'[c] = lastSentId[c],
           closed[c] => closed'[c],
           closed[c] /\ fetch[c] = "idle" => fetch'[c] = "idle",
           fetch'[c] = "rows" => fetch[c] = "rows" /\ rows'[c] = rows[c],
           \/ UNCHANGED <<log, late>>
           \/ \E i \in Ids : /\ log' = log \union {i}
                             /\ late' = IF \E j \in log : j > i THEN late \union {i} ELSE late
    PROVE  WireInOrder(c)' /\ CursorAtLast(c)' /\ RowsComplete(c)'
<1>1. WireInOrder(c)'
  BY WireKept
<1>2. CursorAtLast(c)'
  BY DEF CursorAtLast, LastOf
<1>3. RowsComplete(c)'
  <2>1. SUFFICES ASSUME fetch[c] = "rows", fetch'[c] = "rows", rows'[c] = rows[c]
                 PROVE  RowsComplete(c)'
    BY DEF RowsComplete
  <2>2. rows[c] # {} /\ rows[c] \subseteq log /\ \A i \in rows[c] : lastSentId[c] < i
    BY <2>1 DEF RowsComplete
  <2>3. log \subseteq log' /\ late \subseteq late'
    OBVIOUS
  <2>4. ASSUME NEW i \in rows[c], NEW j \in log' \ rows[c], lastSentId[c] < j, j < i
        PROVE  j \in late'
    <3>1. CASE j \in log
      BY <2>1, <2>3, <2>4, <3>1 DEF RowsComplete
    <3>2. CASE j \notin log
      BY <2>2, <2>4, <3>2
    <3> QED BY <3>1, <3>2
  <2> QED BY <2>1, <2>2, <2>3, <2>4 DEF RowsComplete
<1> QED BY <1>1, <1>2, <1>3

LEMMA InitCursor == Init => CursorInv
BY NoConnAssumption DEF Init, CursorInv

LEMMA StepCursor == TypeOK /\ MuxInv /\ CursorInv /\ [Next]_vars => CursorInv'
<1> SUFFICES ASSUME TypeOK, MuxInv, CursorInv, [Next]_vars, NEW c \in Conns, reading' = c
             PROVE  WireInOrder(c)' /\ CursorAtLast(c)' /\ RowsComplete(c)'
  BY DEF CursorInv
<1> USE DEF writerVars, muxVars, fetchVars, connVars, readerVars
<1> DEFINE Goal == WireInOrder(c)' /\ CursorAtLast(c)' /\ RowsComplete(c)'
<1>a. reading = c => WireInOrder(c) /\ CursorAtLast(c) /\ RowsComplete(c)
  BY DEF CursorInv
<1>1. CASE UNCHANGED vars
  BY <1>1, <1>a, CursorKept DEF vars
<1>2. CASE InsertEvent
  BY <1>2, <1>a, CursorKept DEF InsertEvent
<1>3. ASSUME NEW i \in Ids, NEW k \in Kinds, CommitEvent(i, k) PROVE Goal
  <2>1. \E e \in Ids : /\ log' = log \union {e}
                       /\ late' = IF \E j \in log : j > e THEN late \union {e} ELSE late
    BY <1>3 DEF CommitEvent
  <2> QED BY <1>3, <1>a, <2>1, CursorKept DEF CommitEvent
<1>4. CASE PublishWakeup
  <2>1. /\ lastSentId'[c] = lastSentId[c]
        /\ closed[c] /\ fetch[c] = "idle" => fetch'[c] = "idle"
        /\ fetch'[c] = "rows" => fetch[c] = "rows" /\ rows'[c] = rows[c]
    <3>1. CASE ~channel
      BY <1>4, <3>1 DEF PublishWakeup
    <3>2. CASE channel
      <4>1. Woken(listeners) /\ listeners \in SUBSET Conns
        BY <1>4, <3>2 DEF PublishWakeup, TypeOK
      <4> QED BY <4>1, WokenFetch
    <3> QED BY <3>1, <3>2
  <2> QED BY <1>4, <1>a, <2>1, CursorKept DEF PublishWakeup
<1>5. CASE SubscriptionGranted
  <2>1. /\ lastSentId'[c] = lastSentId[c]
        /\ closed[c] /\ fetch[c] = "idle" => fetch'[c] = "idle"
        /\ fetch'[c] = "rows" => fetch[c] = "rows" /\ rows'[c] = rows[c]
    BY <1>5, WokenFetch DEF SubscriptionGranted, Subscribers
  <2> QED BY <1>5, <1>a, <2>1, CursorKept DEF SubscriptionGranted
<1>6. CASE SubscriptionFails
  <2>1. /\ lastSentId'[c] = lastSentId[c]
        /\ closed[c] /\ fetch[c] = "idle" => fetch'[c] = "idle"
        /\ fetch'[c] = "rows" => fetch[c] = "rows" /\ rows'[c] = rows[c]
    BY <1>6, WokenFetch DEF SubscriptionFails, Subscribers
  <2> QED BY <1>6, <1>a, <2>1, CursorKept DEF SubscriptionFails
<1>7. CASE Unsubscribed
  BY <1>7, <1>a, CursorKept DEF Unsubscribed
<1>8. ASSUME NEW d \in Conns, OpenStream(d) PROVE Goal
  <2>1. /\ d = c /\ handler[c] = "free" /\ received' = received
        /\ lastSentId' = [lastSentId EXCEPT ![c] = IF received = <<>> THEN 0
                                                   ELSE received[Len(received)]]
        /\ UNCHANGED <<fetch, wire>>
    BY <1>8 DEF OpenStream
  <2>2. wire[c] = <<>> /\ fetch[c] = "idle"
    BY <2>1 DEF MuxInv, ConnectionInv
  <2>3. lastSentId'[c] = LastOf(received)
    BY <2>1 DEF LastOf, TypeOK
  <2> QED BY <2>1, <2>2, <2>3 DEF WireInOrder, CursorAtLast, RowsComplete, LastOf
<1>9. ASSUME NEW d \in Conns, FetchRows(d) PROVE Goal
  <2>1. /\ reading = c /\ fetch[d] = "query"
        /\ rows' = [rows EXCEPT ![d] = {i \in log : i > lastSentId[d]}]
        /\ fetch' = [fetch EXCEPT ![d] = IF rows'[d] = {} THEN "status" ELSE "rows"]
        /\ UNCHANGED <<log, late, wire, received, lastSentId, closed>>
    BY <1>9 DEF FetchRows
  <2>2. CASE d # c
    <3>1. fetch'[c] = fetch[c] /\ rows'[c] = rows[c]
      BY <2>1, <2>2 DEF TypeOK
    <3> QED BY <1>a, <2>1, <3>1, CursorKept
  <2>3. CASE d = c
    <3>1. rows'[c] = {i \in log : i > lastSentId[c]}
      BY <2>1, <2>3 DEF TypeOK
    <3>2. RowsComplete(c)'
      <4>1. fetch'[c] = "rows" => rows'[c] # {}
        BY <2>1, <2>3 DEF TypeOK
      <4>2. \A j \in log' \ rows'[c] : ~(lastSentId[c] < j)
        BY <2>1, <3>1 DEF TypeOK
      <4>3. \A i \in rows'[c] : i \in log /\ lastSentId[c] < i
        BY <3>1 DEF TypeOK
      <4> QED BY <2>1, <4>1, <4>2, <4>3 DEF RowsComplete
    <3>3. WireInOrder(c)'
      BY <1>a, <2>1, <2>3, WireKept
    <3>4. CursorAtLast(c)'
      BY <1>a, <2>1, <2>3 DEF CursorAtLast, LastOf
    <3> QED BY <3>2, <3>3, <3>4
  <2> QED BY <2>2, <2>3
<1>10. ASSUME NEW d \in Conns, WriteEvent(d) PROVE Goal
  <2>1. /\ reading = c /\ fetch[d] = "rows" /\ ~closed[d]
        /\ UNCHANGED <<log, late, received>>
    BY <1>10 DEF WriteEvent
  <2>2. PICK i \in rows[d] :
          /\ \A j \in rows[d] : i <= j
          /\ lastSentId' = [lastSentId EXCEPT ![d] = i]
          /\ wire' = [wire EXCEPT ![d] = IF hungUp[d] THEN @ ELSE Append(@, i)]
          /\ \/ /\ Cleanup(d)
                /\ rows' = [rows EXCEPT ![d] = {}]
                /\ fetch' = [fetch EXCEPT ![d] = "end"]
             \/ /\ rows' = [rows EXCEPT ![d] = @ \ {i}]
                /\ IF rows[d] = {i} THEN LoopEnds(d) ELSE UNCHANGED fetch
                /\ UNCHANGED closed
    BY <1>10 DEF WriteEvent
  <2>3. /\ fetch'[d] = "rows" => rows'[d] = rows[d] \ {i} /\ rows[d] # {i}
        /\ \A e \in Conns : e # d => fetch'[e] = fetch[e] /\ rows'[e] = rows[e]
                                     /\ (closed[e] => closed'[e])
    <3>1. CASE Cleanup(d) /\ rows' = [rows EXCEPT ![d] = {}]
                /\ fetch' = [fetch EXCEPT ![d] = "end"]
      BY <3>1 DEF Cleanup, TypeOK
    <3>2. CASE /\ rows' = [rows EXCEPT ![d] = @ \ {i}]
               /\ rows[d] = {i} /\ LoopEnds(d) /\ UNCHANGED closed
      BY <3>2, LoopFetch DEF TypeOK
    <3>3. CASE /\ rows' = [rows EXCEPT ![d] = @ \ {i}]
               /\ rows[d] # {i} /\ UNCHANGED <<fetch, closed>>
      BY <3>3 DEF TypeOK
    <3> QED BY <2>2, <3>1, <3>2, <3>3
  <2>4. CASE d # c
    <3>1. wire'[c] = wire[c] /\ lastSentId'[c] = lastSentId[c]
      BY <2>2, <2>4 DEF TypeOK
    <3> QED BY <1>a, <2>1, <2>3, <2>4, <3>1, CursorKept
  <2>5. CASE d = c
    <3>1. ~hungUp[c]
      BY <2>1 DEF MuxInv, ConnectionInv
    <3>2. wire'[c] = Append(wire[c], i) /\ lastSentId'[c] = i
      BY <2>2, <2>5, <3>1 DEF TypeOK
    <3>3. i \in log /\ i \in Ids /\ lastSentId[c] < i /\ rows[c] \subseteq log
      BY <1>a, <2>1, <2>2, <2>5 DEF RowsComplete, TypeOK
    <3>4. wire[c] \in Seq(0..LastId)
      BY DEF TypeOK
    <3>5. lastSentId[c] = IF wire[c] = <<>> THEN LastOf(received) ELSE LastOf(wire[c])
      BY <1>a, <2>1, <2>5 DEF CursorAtLast
    <3>6. Follows(lastSentId[c], i)
      <4>1. ASSUME NEW j \in log, lastSentId[c] < j, j < i PROVE j \in late
        <5>1. j \notin rows[c]
          BY <2>2, <2>5, <3>3, <4>1 DEF TypeOK
        <5> QED BY <1>a, <2>1, <2>2, <2>5, <4>1, <5>1 DEF RowsComplete
      <4> QED BY <3>3, <4>1 DEF Follows
    <3>7. WireInOrder(c)'
      <4>1. SUFFICES ASSUME NEW n \in DOMAIN wire'[c]
                     PROVE  /\ wire'[c][n] # Fin
                            /\ Follows(IF n = 1 THEN LastOf(received) ELSE wire'[c][n - 1],
                                       wire'[c][n])
        BY <2>1 DEF WireInOrder, LastOf, Follows
      <4>2. CASE n = Len(wire[c]) + 1
        <5>1. wire'[c][n] = i
          BY <3>2, <3>4, <4>2
        <5>2. (IF n = 1 THEN LastOf(received) ELSE wire'[c][n - 1]) = lastSentId[c]
          BY <3>2, <3>4, <3>5, <4>2 DEF LastOf
        <5> QED BY <3>3, <3>6, <5>1, <5>2
      <4>3. CASE n \in DOMAIN wire[c]
        <5>1. wire'[c][n] = wire[c][n] /\ (n # 1 => wire'[c][n - 1] = wire[c][n - 1])
          BY <3>2, <3>4, <4>3
        <5>2. wire[c][n] # Fin
          BY <1>a, <2>1, <2>5, <4>3 DEF WireInOrder
        <5> QED BY <1>a, <2>1, <4>3, <5>1, <5>2 DEF WireInOrder
      <4> QED BY <3>2, <3>4, <4>1, <4>2, <4>3
    <3>8. CursorAtLast(c)'
      BY <3>2, <3>4 DEF CursorAtLast, LastOf
    <3>9. RowsComplete(c)'
      <4>1. SUFFICES ASSUME fetch'[c] = "rows", rows'[c] = rows[c] \ {i}, rows[c] # {i}
                     PROVE  RowsComplete(c)'
        BY <2>3, <2>5 DEF RowsComplete
      <4>2. \A j \in rows[c] : j \in Ids /\ i <= j
        BY <2>2, <2>5 DEF TypeOK
      <4>3. rows'[c] # {} /\ rows'[c] \subseteq log'
        BY <2>1, <2>2, <2>5, <3>3, <4>1
      <4>4. \A j \in rows'[c] : lastSentId'[c] < j
        BY <3>2, <3>3, <4>1, <4>2
      <4>5. ASSUME NEW e \in rows'[c], NEW j \in log' \ rows'[c], lastSentId'[c] < j, j < e
            PROVE  j \in late'
        <5>1. j \notin rows[c] /\ j \in Ids
          BY <2>1, <3>2, <3>3, <4>1, <4>5 DEF TypeOK
        <5>2. lastSentId[c] < j
          BY <3>2, <3>3, <4>5, <5>1 DEF TypeOK
        <5> QED BY <1>a, <2>1, <2>5, <4>1, <4>5, <5>1, <5>2 DEF RowsComplete
      <4> QED BY <4>3, <4>4, <4>5 DEF RowsComplete
    <3> QED BY <3>7, <3>8, <3>9
  <2> QED BY <2>4, <2>5
<1>11. ASSUME NEW d \in Conns, StopWriting(d) PROVE Goal
  <2>1. fetch' = [fetch EXCEPT ![d] = "idle"] /\ rows' = [rows EXCEPT ![d] = {}]
    BY <1>11 DEF StopWriting
  <2>2. fetch'[c] \in {fetch[c], "idle"} /\ (fetch'[c] = "rows" => rows'[c] = rows[c])
    BY <2>1 DEF TypeOK
  <2> QED BY <1>11, <1>a, <2>2, CursorKept DEF StopWriting
<1>12. ASSUME NEW d \in Conns, ReadStatus(d) PROVE Goal
  <2>1. fetch[d] = "status" /\ \A e \in Conns : fetch'[e] # fetch[e] => e = d /\ fetch'[e] # "rows"
    BY <1>12, LoopFetch DEF ReadStatus, TypeOK
  <2> QED BY <1>12, <1>a, <2>1, CursorKept DEF ReadStatus
<1>13. ASSUME NEW d \in Conns, CountRemaining(d) PROVE Goal
  <2>1. fetch[d] = "count" /\ \A e \in Conns : fetch'[e] # fetch[e] => e = d /\ fetch'[e] # "rows"
    BY <1>13, LoopFetch DEF CountRemaining, TypeOK
  <2>2. closed[c] => closed'[c]
    BY <1>13 DEF CountRemaining, Cleanup, TypeOK
  <2> QED BY <1>13, <1>a, <2>1, <2>2, CursorKept DEF CountRemaining
<1>14. ASSUME NEW d \in Conns, FetchFails(d) PROVE Goal
  <2>1. fetch[d] # "idle" /\ \A e \in Conns : fetch'[e] # fetch[e] => e = d /\ fetch'[e] = "end"
    BY <1>14 DEF FetchFails, TypeOK
  <2>2. closed[c] => closed'[c]
    BY <1>14 DEF FetchFails, Cleanup, TypeOK
  <2> QED BY <1>14, <1>a, <2>1, <2>2, CursorKept DEF FetchFails
<1>15. ASSUME NEW d \in Conns, EndResponse(d) PROVE Goal
  <2>1. /\ reading = c /\ fetch[d] = "end"
        /\ fetch' = [fetch EXCEPT ![d] = "idle"]
        /\ wire' = [wire EXCEPT ![d] = IF hungUp[d] THEN @ ELSE Append(@, Fin)]
        /\ UNCHANGED <<log, late, received, lastSentId, rows, closed>>
    BY <1>15 DEF EndResponse
  <2>2. CASE d # c
    <3>1. wire'[c] = wire[c] /\ fetch'[c] = fetch[c]
      BY <2>1, <2>2 DEF TypeOK
    <3> QED BY <1>a, <2>1, <3>1, CursorKept
  <2>3. CASE d = c
    <3>1. ~hungUp[c] /\ closed[c]
      BY <2>1, <2>3 DEF MuxInv, ConnectionInv
    <3>2. wire'[c] = Append(wire[c], Fin) /\ fetch'[c] = "idle"
      BY <2>1, <2>3, <3>1 DEF TypeOK
    <3>3. wire[c] \in Seq(0..LastId)
      BY DEF TypeOK
    <3>4. WireInOrder(c)'
      <4>1. SUFFICES ASSUME NEW n \in DOMAIN wire'[c]
                     PROVE  IF wire'[c][n] = Fin
                            THEN n = Len(wire'[c])
                            ELSE Follows(IF n = 1 THEN LastOf(received) ELSE wire'[c][n - 1],
                                         wire'[c][n])
        BY <2>1, <3>1, <3>2 DEF WireInOrder, LastOf, Follows
      <4>2. CASE n = Len(wire[c]) + 1
        BY <3>2, <3>3, <4>2
      <4>3. CASE n \in DOMAIN wire[c]
        <5>1. wire'[c][n] = wire[c][n] /\ (n # 1 => wire'[c][n - 1] = wire[c][n - 1])
          BY <3>2, <3>3, <4>3
        <5>2. wire[c][n] # Fin
          BY <1>a, <2>1, <2>3, <4>3 DEF WireInOrder
        <5> QED BY <1>a, <2>1, <4>3, <5>1, <5>2 DEF WireInOrder
      <4> QED BY <3>2, <3>3, <4>1, <4>2, <4>3
    <3>5. CursorAtLast(c)' /\ RowsComplete(c)'
      BY <2>1, <3>1, <3>2 DEF CursorAtLast, RowsComplete
    <3> QED BY <3>4, <3>5
  <2> QED BY <2>2, <2>3
<1>16. ASSUME NEW d \in Conns, RequestCloses(d) PROVE Goal
  <2>1. closed[c] => closed'[c]
    BY <1>16 DEF RequestCloses, Cleanup, TypeOK
  <2> QED BY <1>16, <1>a, <2>1, CursorKept DEF RequestCloses
<1>17. ASSUME NEW d \in Conns, HandlerReturns(d) PROVE Goal
  <2>1. d # c
    BY <1>17 DEF HandlerReturns
  <2>2. closed'[c] = closed[c] /\ lastSentId'[c] = lastSentId[c]
    BY <1>17, <2>1 DEF HandlerReturns, TypeOK
  <2> QED BY <1>17, <1>a, <2>2, CursorKept DEF HandlerReturns
<1>18. CASE CrashApi
  BY <1>18, NoConnAssumption DEF CrashApi
<1>19. CASE ReceiveEvent
  <2>1. /\ reading = c /\ wire[c] # <<>> /\ Head(wire[c]) # Fin
        /\ wire' = [wire EXCEPT ![c] = Tail(@)]
        /\ received' = Append(received, Head(wire[c]))
        /\ UNCHANGED <<log, late, rows, lastSentId, fetch, closed>>
    BY <1>19, NoConnAssumption DEF ReceiveEvent
  <2>2. wire'[c] = Tail(wire[c]) /\ wire[c] \in Seq(0..LastId) /\ received \in Seq(Ids)
    BY <2>1 DEF TypeOK
  <2>3. /\ Len(wire'[c]) = Len(wire[c]) - 1 /\ Len(wire[c]) \in Nat \ {0}
        /\ Head(wire[c]) = wire[c][1]
        /\ \A n \in DOMAIN wire'[c] : n + 1 \in DOMAIN wire[c] /\ wire'[c][n] = wire[c][n + 1]
                                      /\ n \in Nat \ {0}
    <3>1. /\ Len(wire'[c]) = Len(wire[c]) - 1 /\ wire'[c] \in Seq(0..LastId)
          /\ \A n \in 1..Len(wire'[c]) : wire'[c][n] = wire[c][n + 1]
      BY <2>1, <2>2, HeadTailProperties
    <3>2. Len(wire[c]) \in Nat \ {0} /\ Head(wire[c]) = wire[c][1]
      BY <2>1, <2>2, EmptySeq
    <3>3. DOMAIN wire'[c] = 1..Len(wire'[c]) /\ DOMAIN wire[c] = 1..Len(wire[c])
      BY <2>2, <3>1, LenProperties
    <3> QED BY <3>1, <3>2, <3>3
  <2>4. LastOf(received)' = wire[c][1]
    BY <2>1, <2>2, <2>3 DEF LastOf
  <2>5. WireInOrder(c)'
    <3>1. SUFFICES ASSUME NEW n \in DOMAIN wire'[c]
                   PROVE  IF wire'[c][n] = Fin
                          THEN n = Len(wire'[c]) /\ closed[c] /\ fetch[c] = "idle"
                          ELSE Follows(IF n = 1 THEN wire[c][1] ELSE wire'[c][n - 1],
                                       wire'[c][n])
      BY <2>1, <2>4 DEF WireInOrder, Follows
    <3>2. n + 1 \in DOMAIN wire[c] /\ n + 1 # 1 /\ (n + 1) - 1 = n /\ wire'[c][n] = wire[c][n + 1]
      BY <2>3
    <3>3. IF wire[c][n + 1] = Fin
          THEN n + 1 = Len(wire[c]) /\ closed[c] /\ fetch[c] = "idle"
          ELSE Follows(wire[c][n], wire[c][n + 1])
      BY <1>a, <2>1, <3>2 DEF WireInOrder
    <3>4. (IF n = 1 THEN wire[c][1] ELSE wire'[c][n - 1]) = wire[c][n]
      <4>1. n # 1 => n - 1 \in DOMAIN wire'[c]
        BY <2>2, <2>3, HeadTailProperties
      <4> QED BY <2>3, <4>1
    <3> QED BY <2>3, <3>2, <3>3, <3>4
  <2>6. CursorAtLast(c)'
    <3>1. CASE Len(wire[c]) = 1
      <4>1. wire'[c] = <<>>
        BY <2>2, <3>1, TailOfOne
      <4>2. LastOf(wire[c]) = wire[c][1]
        BY <2>1, <3>1 DEF LastOf
      <4> QED BY <1>a, <2>1, <2>4, <4>1, <4>2 DEF CursorAtLast, LastOf
    <3>2. CASE Len(wire[c]) # 1
      <4>1. wire'[c] # <<>> /\ Len(wire'[c]) \in DOMAIN wire'[c]
        <5>1. Len(wire'[c]) \in Nat \ {0}
          BY <2>3, <3>2
        <5>2. wire'[c] \in Seq(0..LastId)
          BY <2>1, <2>2, HeadTailProperties
        <5> QED BY <5>1, <5>2, EmptySeq, LenProperties
      <4>2. wire'[c][Len(wire'[c])] = wire[c][Len(wire[c])]
        BY <2>3, <4>1
      <4> QED BY <1>a, <2>1, <4>1, <4>2 DEF CursorAtLast, LastOf
    <3> QED BY <3>1, <3>2
  <2>7. RowsComplete(c)'
    BY <1>a, <2>1 DEF RowsComplete
  <2> QED BY <2>5, <2>6, <2>7
<1>20. CASE Disconnect
  BY <1>20, NoConnAssumption DEF Disconnect
<1> QED
  BY <1>1, <1>2, <1>3, <1>4, <1>5, <1>6, <1>7, <1>8, <1>9, <1>10, <1>11, <1>12,
     <1>13, <1>14, <1>15, <1>16, <1>17, <1>18, <1>19, <1>20 DEF Next, ServeStream

----------------------------------------------------------------------------
(* The theorems.                                                            *)

\* The inductive invariant of the stream: the multiplexer's listeners and
\* commands agree with the handlers, and what is on its way to the reader follows
\* what it was given.
THEOREM StreamInvariant == Spec => []StreamInv
<1>1. Init => StreamInv
  BY InitType, InitMux, InitCursor DEF StreamInv, MuxInv
<1>2. StreamInv /\ [Next]_vars => StreamInv'
  BY StepType, StepMux, StepCursor DEF StreamInv, MuxInv
<1> QED BY <1>1, <1>2, PTL DEF Spec

\* A granted listener's channel stays subscribed, for any number of streams,
\* events and faults: RunEventsMultiplexer.
THEOREM SubscriptionHeld == Spec => []ChannelHeld
<1>1. StreamInv => ChannelHeld
  BY DEF StreamInv
<1> QED BY <1>1, StreamInvariant, PTL

\* Whatever way a stream ends, its listener is gone: handleEventsStream.
THEOREM ListenersCleanedUp == Spec => []NoListenerLeft
<1>1. StreamInv => NoListenerLeft
  BY DEF StreamInv
<1> QED BY <1>1, StreamInvariant, PTL

\* The stream implements the feed: every step writes an event of the run, gives
\* the reader the next one, or is a step the feed does not see.
LEMMA FeedStep == StreamInv /\ [Next]_vars => [Feed!FeedNext]_(Feed!feedVars)
<1> SUFFICES ASSUME StreamInv, [Next]_vars
             PROVE  Feed!FeedNext \/ UNCHANGED <<log, late, received>>
  BY DEF Feed!feedVars
<1> USE DEF writerVars, muxVars, fetchVars, connVars, readerVars
<1>1. CASE UNCHANGED vars
  BY <1>1 DEF vars
<1>2. ASSUME NEW i \in Ids, NEW k \in Kinds, CommitEvent(i, k) PROVE Feed!FeedNext
  BY <1>2 DEF CommitEvent, Feed!FeedNext, Feed!Publishes, Feed!Ids
<1>3. CASE ReceiveEvent
  <2>1. CASE Head(wire[reading]) = Fin
    BY <1>3, <2>1 DEF ReceiveEvent
  <2>2. CASE Head(wire[reading]) # Fin
    <3> DEFINE i == Head(wire[reading])
    <3>1. /\ reading \in Conns /\ wire[reading] # <<>>
          /\ received' = Append(received, i) /\ UNCHANGED <<log, late>>
      BY <1>3, <2>2 DEF ReceiveEvent, StreamInv, TypeOK
    <3>2. wire[reading] \in Seq(0..LastId)
      BY <3>1 DEF StreamInv, TypeOK
    <3>3. 1 \in DOMAIN wire[reading] /\ wire[reading][1] = i
      BY <3>1, <3>2, EmptySeq, LenProperties
    <3>4. Follows(LastOf(received), i)
      BY <2>2, <3>1, <3>3 DEF StreamInv, CursorInv, WireInOrder
    <3>5. Feed!LastOf(received) = LastOf(received)
      BY DEF LastOf, Feed!LastOf
    <3>6. LastOf(received) \in 0..LastId /\ i \in Ids
      BY <3>4, <3>1, WireType DEF StreamInv, TypeOK, Follows
    <3>7. Feed!Delivers(i)
      BY <3>1, <3>4, <3>5, <3>6 DEF Feed!Delivers, Follows
    <3> QED BY <3>6, <3>7 DEF Feed!FeedNext, Feed!Ids
  <2> QED BY <2>1, <2>2
<1>4. CASE \/ InsertEvent \/ PublishWakeup \/ SubscriptionGranted \/ SubscriptionFails
           \/ Unsubscribed \/ CrashApi \/ Disconnect
  BY <1>4 DEF InsertEvent, PublishWakeup, SubscriptionGranted, SubscriptionFails,
              Unsubscribed, CrashApi, Disconnect
<1>5. ASSUME NEW c \in Conns, OpenStream(c) \/ ServeStream(c) \/ FetchFails(c)
      PROVE  UNCHANGED <<log, late, received>>
  BY <1>5 DEF OpenStream, ServeStream, FetchRows, WriteEvent, StopWriting, ReadStatus,
              CountRemaining, EndResponse, RequestCloses, HandlerReturns, FetchFails
<1> QED BY <1>1, <1>2, <1>3, <1>4, <1>5 DEF Next

\* Over all its connections the reader is given the events in order, once each,
\* and none is skipped but those that committed late: GET /runs/:runId/events.
THEOREM StreamImplementsFeed == Spec => ImplementsEventFeed
<1>1. Init => Feed!FeedInit
  BY DEF Init, Feed!FeedInit
<1> QED BY <1>1, FeedStep, StreamInvariant, PTL DEF Spec, ImplementsEventFeed, Feed!FeedSpec
=============================================================================
