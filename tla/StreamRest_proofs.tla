--------------------------- MODULE StreamRest_proofs ---------------------------
(***************************************************************************)
(* Proofs about RunEventStream, continued: no wake-up is lost.  The safety  *)
(* half of StreamSettles: a stream that came to rest without a fault owes   *)
(* its reader nothing, and is not open behind the end of its run.           *)
(***************************************************************************)
EXTENDS RunEventStream_proofs

USE DEF Ids, Kinds, HandlerState, FetchState, Fin

----------------------------------------------------------------------------
(* The sets of the elements of a sequence.                                  *)

LEMMA ElementsAppend ==
    ASSUME NEW S, NEW s \in Seq(S), NEW x \in S
    PROVE  {Append(s, x)[n] : n \in DOMAIN Append(s, x)} = {s[n] : n \in DOMAIN s} \union {x}
<1> DEFINE t == Append(s, x)
<1>1. /\ Len(s) \in Nat /\ DOMAIN s = 1..Len(s) /\ DOMAIN t = 1..(Len(s) + 1)
      /\ \A n \in 1..Len(s) : t[n] = s[n]
      /\ t[Len(s) + 1] = x
  OBVIOUS
<1> HIDE DEF t
<1>2. {t[n] : n \in DOMAIN t} = {s[n] : n \in DOMAIN s} \union {x}
  <2>1. ASSUME NEW n \in DOMAIN t PROVE t[n] \in {s[m] : m \in DOMAIN s} \union {x}
    <3>1. CASE n = Len(s) + 1 BY <1>1, <3>1
    <3>2. CASE n \in 1..Len(s) BY <1>1, <3>2
    <3> QED BY <1>1, <3>1, <3>2
  <2>2. ASSUME NEW n \in DOMAIN s PROVE s[n] \in {t[m] : m \in DOMAIN t}
    <3>1. n \in DOMAIN t /\ t[n] = s[n] BY <1>1
    <3> QED BY <3>1
  <2>3. x \in {t[m] : m \in DOMAIN t}
    <3>1. Len(s) + 1 \in DOMAIN t BY <1>1
    <3> QED BY <1>1, <3>1
  <2> QED BY <2>1, <2>2, <2>3
<1> QED BY <1>2 DEF t

LEMMA ElementsTail ==
    ASSUME NEW S, NEW s \in Seq(S), s # <<>>
    PROVE  /\ {s[n] : n \in DOMAIN s} = {Tail(s)[n] : n \in DOMAIN Tail(s)} \union {Head(s)}
           /\ Head(s) = s[1] /\ 1 \in DOMAIN s
<1> DEFINE t == Tail(s)
<1>1. /\ t \in Seq(S) /\ Len(t) = Len(s) - 1
      /\ \A n \in 1..Len(t) : t[n] = s[n + 1]
  BY HeadTailProperties
<1>2. Len(s) \in Nat \ {0} /\ Head(s) = s[1]
  BY EmptySeq
<1>3. DOMAIN s = 1..Len(s) /\ DOMAIN t = 1..Len(t)
  BY <1>1, LenProperties
<1> HIDE DEF t
<1>4. {s[n] : n \in DOMAIN s} = {t[n] : n \in DOMAIN t} \union {Head(s)}
  <2>1. ASSUME NEW n \in DOMAIN s PROVE s[n] \in {t[m] : m \in DOMAIN t} \union {Head(s)}
    <3>1. CASE n = 1 BY <1>2, <3>1
    <3>2. CASE n # 1
      <4>1. n - 1 \in DOMAIN t /\ t[n - 1] = s[n]
        BY <1>1, <1>2, <1>3, <3>2
      <4> QED BY <4>1
    <3> QED BY <3>1, <3>2
  <2>2. ASSUME NEW n \in DOMAIN t PROVE t[n] \in {s[m] : m \in DOMAIN s}
    <3>1. n + 1 \in DOMAIN s /\ t[n] = s[n + 1]
      BY <1>1, <1>2, <1>3
    <3> QED BY <3>1
  <2>3. Head(s) \in {s[m] : m \in DOMAIN s}
    BY <1>2, <1>3
  <2> QED BY <2>1, <2>2, <2>3
<1>5. 1 \in DOMAIN s
  BY <1>2, <1>3
<1> QED BY <1>2, <1>4, <1>5, Zenon DEF t

LEMMA GivenAppend ==
    ASSUME received \in Seq(Ids), NEW x \in Ids, received' = Append(received, x)
    PROVE  Given' = Given \union {x}
<1>1. {Append(received, x)[n] : n \in DOMAIN Append(received, x)} = Given \union {x}
  BY ElementsAppend DEF Given
<1> QED BY <1>1 DEF Given

\* What a read event does to the sets the properties speak of.
LEMMA ReadEvent ==
    ASSUME TypeOK, NEW c \in Conns, wire[c] # <<>>, Head(wire[c]) # Fin,
           wire' = [wire EXCEPT ![c] = Tail(@)],
           received' = Append(received, Head(wire[c]))
    PROVE  /\ Head(wire[c]) \in Ids /\ Head(wire[c]) \in OnWire(c)
           /\ OnWire(c) = OnWire(c)' \union {Head(wire[c])}
           /\ Given' = Given \union {Head(wire[c])}
           /\ LastOf(received)' = Head(wire[c])
<1>1. wire[c] \in Seq(0..LastId) /\ received \in Seq(Ids)
  BY DEF TypeOK
<1>2. Head(wire[c]) \in Ids
  <2>1. Head(wire[c]) \in 0..LastId
    BY <1>1, HeadTail
  <2> QED BY <2>1
<1>3. wire'[c] = Tail(wire[c])
  BY DEF TypeOK
<1>4. OnWire(c) = OnWire(c)' \union {Head(wire[c])}
  BY <1>1, <1>3, ElementsTail, Zenon DEF OnWire
<1>5. Given' = Given \union {Head(wire[c])}
  BY <1>1, <1>2, GivenAppend
<1>6. LastOf(received)' = Head(wire[c])
  BY <1>1, <1>2 DEF LastOf
<1> QED BY <1>2, <1>4, <1>5, <1>6

\* The same of a write.
LEMMA WireAppend ==
    ASSUME TypeOK, NEW c \in Conns, NEW x \in 0..LastId,
           wire' = [wire EXCEPT ![c] = Append(@, x)]
    PROVE  OnWire(c)' = OnWire(c) \union {x}
<1>1. wire[c] \in Seq(0..LastId) /\ wire'[c] = Append(wire[c], x)
  BY DEF TypeOK
<1> DEFINE w == Append(wire[c], x)
<1>2. {w[n] : n \in DOMAIN w} = {wire[c][n] : n \in DOMAIN wire[c]} \union {x}
  BY <1>1, ElementsAppend
<1> HIDE DEF w
<1>3. wire'[c] = w
  BY <1>1 DEF w
<1> QED BY <1>2, <1>3 DEF OnWire

\* What is set and written is of its type.
LEMMA SetTypes ==
    ASSUME TypeOK, NEW c \in Conns
    PROVE  /\ OnWire(c) \subseteq 0..LastId /\ Given \subseteq Ids
           /\ LastOf(received) \in 0..LastId
           /\ lastSentId[c] \in 0..LastId
           /\ 0 \notin log /\ log \subseteq Int
<1>1. OnWire(c) \subseteq 0..LastId
  BY WireType DEF OnWire
<1>2. Given \subseteq Ids
  <2>1. received \in Seq(Ids) BY DEF TypeOK
  <2>2. \A n \in DOMAIN received : received[n] \in Ids
    BY <2>1, ElementOfSeq, LenProperties
  <2> QED BY <2>2 DEF Given
<1> QED BY <1>1, <1>2, WireType DEF TypeOK

----------------------------------------------------------------------------
(* The log, and what the reader was given of it.                            *)

\* A commit is the only step that changes the log; the sequence only grows.
LEMMA WritersUntouched ==
    ASSUME [Next]_vars, ~InsertEvent,
           \A i \in Ids, k \in Kinds : ~CommitEvent(i, k)
    PROVE  UNCHANGED writerVars
<1> USE DEF writerVars
<1>1. CASE UNCHANGED vars BY <1>1 DEF vars
<1>2. CASE PublishWakeup \/ SubscriptionGranted \/ SubscriptionFails \/ Unsubscribed
  BY <1>2 DEF PublishWakeup, SubscriptionGranted, SubscriptionFails, Unsubscribed
<1>3. ASSUME NEW c \in Conns, OpenStream(c) \/ FetchFails(c) PROVE UNCHANGED writerVars
  BY <1>3 DEF OpenStream, FetchFails
<1>4. ASSUME NEW c \in Conns, ServeStream(c) PROVE UNCHANGED writerVars
  BY <1>4 DEF ServeStream, FetchRows, WriteEvent, StopWriting, ReadStatus,
              CountRemaining, EndResponse, RequestCloses, HandlerReturns
<1>5. CASE CrashApi \/ ReceiveEvent \/ Disconnect
  BY <1>5 DEF CrashApi, ReceiveEvent, Disconnect
<1> QED BY <1>1, <1>2, <1>3, <1>4, <1>5 DEF Next

LEMMA WritersStep == TypeOK /\ WritersInv /\ [Next]_vars => WritersInv'
<1> SUFFICES ASSUME TypeOK, WritersInv, [Next]_vars PROVE WritersInv'
  OBVIOUS
<1> USE DEF writerVars
<1>1. CASE InsertEvent
  BY <1>1 DEF InsertEvent, WritersInv, Newest, TypeOK
<1>2. ASSUME NEW i \in Ids, NEW k \in Kinds, CommitEvent(i, k) PROVE WritersInv'
  <2>1. /\ i \in open /\ i \notin log /\ i < nextId
        /\ log' = log \union {i} /\ open' = open \ {i} /\ nextId' = nextId
        /\ k # "step" => i > turn
        /\ turn' = IF k = "step" THEN turn ELSE i
        /\ ends' = IF k = "end" THEN ends \union {i} ELSE ends
        /\ terminal' = (k = "end" \/ (k = "step" /\ terminal))
        /\ late' = IF \E j \in log : j > i THEN late \union {i} ELSE late
    BY <1>2 DEF CommitEvent, WritersInv
  <2>2. turn \in 0..LastId /\ log \subseteq Int /\ ends \subseteq Int /\ late \subseteq Int
    BY DEF TypeOK
  <2>3. /\ \A j \in open' \union log' : j < nextId'
        /\ open' \intersect log' = {} /\ ends' \subseteq log'
    BY <2>1 DEF WritersInv
  <2>4. \A e \in ends' : e <= turn'
    <3>1. \A e \in ends : e <= turn
      BY DEF WritersInv
    <3> QED BY <2>1, <2>2, <3>1
  <2>5. \A j \in late' : \E m \in log' : j < m
    <3>1. ASSUME NEW j \in late PROVE \E m \in log' : j < m
      BY <2>1, <3>1 DEF WritersInv
    <3>2. (\E j \in log : j > i) => \E m \in log' : i < m
      BY <2>1, <2>2
    <3> QED BY <2>1, <3>1, <3>2
  <2>6. terminal' => ends' # {}
    BY <2>1 DEF WritersInv
  <2>7. ASSUME NEW e \in ends', Newest(e)' PROVE terminal'
    <3>1. CASE k = "step"
      <4>1. e \in ends /\ Newest(e)
        BY <2>1, <2>7, <3>1 DEF Newest
      <4> QED BY <2>1, <3>1, <4>1 DEF WritersInv
    <3>2. CASE k = "end"
      BY <2>1, <3>2
    <3>3. CASE k = "reopen"
      <4>1. e <= turn /\ turn < i /\ i <= e
        BY <2>1, <2>7, <3>3 DEF Newest, WritersInv
      <4> QED BY <2>1, <2>2, <2>7, <3>3, <4>1
    <3> QED BY <3>1, <3>2, <3>3
  <2>8. \E m \in log' : Newest(m)'
    <3>1. CASE log = {}
      BY <2>1, <3>1 DEF Newest
    <3>2. CASE log # {}
      <4>1. PICK m \in log : \A j \in log : j <= m
        BY <3>2 DEF WritersInv, Newest
      <4>2. CASE i <= m
        BY <2>1, <4>1, <4>2 DEF Newest
      <4>3. CASE m < i
        BY <2>1, <2>2, <4>1, <4>3 DEF Newest
      <4> QED BY <2>2, <4>2, <4>3
    <3> QED BY <3>1, <3>2
  <2> QED BY <2>3, <2>4, <2>5, <2>6, <2>7, <2>8 DEF WritersInv
<1>3. CASE UNCHANGED writerVars
  BY <1>3 DEF WritersInv, Newest
<1> QED BY <1>1, <1>2, <1>3, WritersUntouched

\* Only reading adds to what the reader was given.
LEMMA ReceivedUntouched ==
    ASSUME [Next]_vars, ~ReceiveEvent
    PROVE  UNCHANGED received
<1> USE DEF readerVars
<1>1. CASE UNCHANGED vars BY <1>1 DEF vars
<1>2. CASE PublishWakeup \/ SubscriptionGranted \/ SubscriptionFails \/ Unsubscribed
  BY <1>2 DEF PublishWakeup, SubscriptionGranted, SubscriptionFails, Unsubscribed
<1>3. ASSUME NEW c \in Conns, OpenStream(c) \/ FetchFails(c) PROVE UNCHANGED received
  BY <1>3 DEF OpenStream, FetchFails
<1>4. ASSUME NEW c \in Conns, ServeStream(c) PROVE UNCHANGED received
  BY <1>4 DEF ServeStream, FetchRows, WriteEvent, StopWriting, ReadStatus,
              CountRemaining, EndResponse, RequestCloses, HandlerReturns
<1>5. CASE CrashApi \/ Disconnect \/ InsertEvent
  BY <1>5 DEF CrashApi, Disconnect, InsertEvent
<1>6. ASSUME NEW i \in Ids, NEW k \in Kinds, CommitEvent(i, k) PROVE UNCHANGED received
  BY <1>6 DEF CommitEvent
<1> QED BY <1>1, <1>2, <1>3, <1>4, <1>5, <1>6 DEF Next

\* The last id the reader was given is that of an event, and is 0 at first.
LEMMA LastGiven ==
    ASSUME TypeOK, GivenInv
    PROVE  LastOf(received) \in log \union {0}
<1>1. CASE received = <<>>
  BY <1>1 DEF LastOf
<1>2. CASE received # <<>>
  <2>1. Len(received) \in DOMAIN received
    BY <1>2 DEF TypeOK
  <2> QED BY <1>2, <2>1 DEF LastOf, GivenInv, Given
<1> QED BY <1>1, <1>2

LEMMA GivenStep ==
    TypeOK /\ MuxInv /\ CursorInv /\ WritersInv /\ GivenInv /\ [Next]_vars => GivenInv'
<1> SUFFICES ASSUME TypeOK, MuxInv, CursorInv, WritersInv, GivenInv, [Next]_vars
             PROVE  GivenInv'
  OBVIOUS
<1> USE DEF writerVars
<1>1. CASE ReceiveEvent
  <2>1. CASE Head(wire[reading]) = Fin
    BY <1>1, <2>1 DEF ReceiveEvent, GivenInv, Given, LastOf
  <2>2. CASE Head(wire[reading]) # Fin
    <3>1. PICK c \in Conns : c = reading
      BY <1>1 DEF ReceiveEvent, TypeOK
    <3>2. /\ wire[c] # <<>> /\ wire' = [wire EXCEPT ![c] = Tail(@)]
          /\ received' = Append(received, Head(wire[c]))
          /\ log' = log /\ late' = late
      BY <1>1, <2>2, <3>1 DEF ReceiveEvent
    <3>3. PICK h \in Ids : h = Head(wire[c])
      BY <2>2, <3>1, <3>2, ReadEvent
    <3>4. Given' = Given \union {h} /\ LastOf(received)' = h
      BY <2>2, <3>1, <3>2, <3>3, ReadEvent
    <3>5. Follows(LastOf(received), h)
      <4>1. h = wire[c][1] /\ 1 \in DOMAIN wire[c]
        BY <3>2, <3>3, ElementsTail DEF TypeOK
      <4> QED BY <3>1, <4>1 DEF CursorInv, WireInOrder
    <3>6. h \in log /\ LastOf(received) < h /\ LastOf(received) \in Int /\ log \subseteq Int
      BY <3>1, <3>5, SetTypes DEF Follows
    <3>7. \A i \in Given : i <= h
      BY <3>1, <3>6, SetTypes DEF GivenInv
    <3>8. \A i \in log \ late : i <= h => i \in Given \union {h}
      BY <3>5, <3>6 DEF GivenInv, Follows
    <3> QED BY <3>2, <3>4, <3>6, <3>7, <3>8 DEF GivenInv
  <2> QED BY <2>1, <2>2
<1>2. ASSUME NEW i \in Ids, NEW k \in Kinds, CommitEvent(i, k) PROVE GivenInv'
  <2>1. /\ log' = log \union {i} /\ i \notin log
        /\ late' = IF \E j \in log : j > i THEN late \union {i} ELSE late
        /\ received' = received
    BY <1>2 DEF CommitEvent, WritersInv, readerVars
  <2>2. i <= LastOf(received) => i \in late'
    <3>1. PICK m \in log \union {0} : m = LastOf(received)
      BY LastGiven
    <3>2. log \subseteq Ids
      BY DEF TypeOK
    <3>3. i <= m => m \in log /\ i < m
      BY <2>1, <3>2
    <3> QED BY <2>1, <3>1, <3>3
  <2> QED BY <2>1, <2>2 DEF GivenInv, Given, LastOf
<1>3. CASE ~ReceiveEvent /\ UNCHANGED writerVars
  BY <1>3, ReceivedUntouched DEF GivenInv, Given, LastOf
<1>4. CASE InsertEvent
  BY <1>4 DEF InsertEvent, GivenInv, Given, LastOf, readerVars
<1> QED BY <1>1, <1>2, <1>3, <1>4, WritersUntouched

----------------------------------------------------------------------------
(* The connection the reader reads.                                         *)

PursuitAt(c) ==
    /\ CursorAccounts(c) /\ EndAnnounced(c)
    /\ faults = 0 => Listening(c) /\ Pursued(c) /\ EndNoticed(c)

\* A step that leaves a connection and the log alone.
LEMMA PursuitKept ==
    ASSUME NEW c \in Conns, PursuitAt(c),
           UNCHANGED <<log, ends, quiet, late, wakeups, received>>,
           wire'[c] = wire[c], fetch'[c] = fetch[c], rows'[c] = rows[c],
           hasPendingWakeup'[c] = hasPendingWakeup[c], lastSentId'[c] = lastSentId[c],
           handler'[c] = handler[c], closed'[c] = closed[c],
           unsubscribe'[c] = unsubscribe[c],
           faults' = 0 => faults = 0
    PROVE  PursuitAt(c)'
<1>1. /\ Given' = Given /\ OnWire(c)' = OnWire(c) /\ LastOf(received)' = LastOf(received)
      /\ Newest(lastSentId[c])' <=> Newest(lastSentId[c])
  BY DEF Given, OnWire, LastOf, Newest
<1>2. Due' = Due
  BY <1>1 DEF Due
<1>3. CursorAccounts(c)' /\ EndAnnounced(c)'
  BY <1>1 DEF PursuitAt, CursorAccounts, EndAnnounced
<1>4. ASSUME faults' = 0 PROVE Listening(c)' /\ Pursued(c)' /\ EndNoticed(c)'
  BY <1>1, <1>2, <1>4 DEF PursuitAt, Listening, Pursued, EndNoticed, Newest
<1> QED BY <1>3, <1>4 DEF PursuitAt

\* So does a step of the handler of another connection.
LEMMA OthersStep ==
    ASSUME TypeOK, NEW c \in Conns, reading = c, PursuitAt(c), NEW d \in Conns, d # c,
           ServeStream(d) \/ FetchFails(d)
    PROVE  PursuitAt(c)'
<1> USE DEF writerVars, muxVars, fetchVars, connVars, readerVars
<1> DEFINE Same == /\ wire'[c] = wire[c] /\ fetch'[c] = fetch[c] /\ rows'[c] = rows[c]
                   /\ hasPendingWakeup'[c] = hasPendingWakeup[c]
                   /\ lastSentId'[c] = lastSentId[c] /\ handler'[c] = handler[c]
                   /\ closed'[c] = closed[c] /\ unsubscribe'[c] = unsubscribe[c]
           Rest == /\ UNCHANGED <<log, ends, quiet, late, wakeups, received>>
                   /\ faults' = 0 => faults = 0
<1>a. ASSUME Cleanup(d) PROVE closed'[c] = closed[c] /\ unsubscribe'[c] = unsubscribe[c]
  BY <1>a DEF Cleanup, TypeOK
<1>b. ASSUME LoopEnds(d)
      PROVE  fetch'[c] = fetch[c] /\ hasPendingWakeup'[c] = hasPendingWakeup[c]
  BY <1>b DEF LoopEnds, TypeOK
<1>1. CASE FetchRows(d)
  <2>1. Same /\ Rest BY <1>1 DEF FetchRows, TypeOK
  <2> QED BY <2>1, PursuitKept
<1>2. CASE WriteEvent(d)
  <2>1. Rest /\ handler'[c] = handler[c]
    BY <1>2 DEF WriteEvent
  <2>2. PICK i \in rows[d] :
          /\ lastSentId' = [lastSentId EXCEPT ![d] = i]
          /\ wire' = [wire EXCEPT ![d] = IF hungUp[d] THEN @ ELSE Append(@, i)]
          /\ \/ /\ Cleanup(d)
                /\ rows' = [rows EXCEPT ![d] = {}]
                /\ fetch' = [fetch EXCEPT ![d] = "end"]
                /\ UNCHANGED hasPendingWakeup
             \/ /\ rows' = [rows EXCEPT ![d] = @ \ {i}]
                /\ LoopEnds(d) \/ UNCHANGED <<fetch, hasPendingWakeup>>
                /\ UNCHANGED <<closed, unsubscribe>>
    BY <1>2 DEF WriteEvent
  <2>3. lastSentId'[c] = lastSentId[c] /\ wire'[c] = wire[c] /\ rows'[c] = rows[c]
    BY <2>2 DEF TypeOK
  <2>4. fetch'[c] = fetch[c] /\ hasPendingWakeup'[c] = hasPendingWakeup[c]
    BY <2>2, <1>b DEF TypeOK
  <2>5. closed'[c] = closed[c] /\ unsubscribe'[c] = unsubscribe[c]
    BY <2>2, <1>a
  <2> QED BY <2>1, <2>3, <2>4, <2>5, PursuitKept
<1>3. CASE StopWriting(d)
  <2>1. Same /\ Rest BY <1>3 DEF StopWriting, TypeOK
  <2> QED BY <2>1, PursuitKept
<1>4. CASE ReadStatus(d)
  <2>1. Same /\ Rest BY <1>4, <1>b DEF ReadStatus, TypeOK
  <2> QED BY <2>1, PursuitKept
<1>5. CASE CountRemaining(d)
  <2>1. Same /\ Rest BY <1>5, <1>a, <1>b DEF CountRemaining, TypeOK
  <2> QED BY <2>1, PursuitKept
<1>6. CASE EndResponse(d)
  <2>1. Same /\ Rest BY <1>6 DEF EndResponse, TypeOK
  <2> QED BY <2>1, PursuitKept
<1>7. CASE RequestCloses(d)
  <2>1. Same /\ Rest BY <1>7, <1>a DEF RequestCloses, TypeOK
  <2> QED BY <2>1, PursuitKept
<1>8. CASE HandlerReturns(d)
  <2>1. Same /\ Rest BY <1>8 DEF HandlerReturns, TypeOK
  <2> QED BY <2>1, PursuitKept
<1>9. CASE FetchFails(d)
  <2>1. Same /\ Rest BY <1>9, <1>a DEF FetchFails, Fault, TypeOK
  <2> QED BY <2>1, PursuitKept
<1> QED
  BY <1>1, <1>2, <1>3, <1>4, <1>5, <1>6, <1>7, <1>8, <1>9 DEF ServeStream


\* What is accounted for, and due, depends on the log, the reader and the cursor.
LEMMA AccountsKept ==
    ASSUME NEW c \in Conns, CursorAccounts(c),
           UNCHANGED <<log, late, received>>,
           wire'[c] = wire[c], lastSentId'[c] = lastSentId[c]
    PROVE  CursorAccounts(c)'
<1>1. Given' = Given /\ OnWire(c)' = OnWire(c) /\ LastOf(received)' = LastOf(received)
  BY DEF Given, OnWire, LastOf
<1> QED BY <1>1 DEF CursorAccounts

LEMMA DueKept ==
    ASSUME UNCHANGED <<log, late, quiet, received>>
    PROVE  Due' = Due /\ Given' = Given
BY DEF Due, Given

\* The end of the loop loses no wake-up that came while it ran, when whatever else
\* was due is on the wire.
LEMMA LoopPursues ==
    ASSUME TypeOK, NEW c \in Conns, ~closed[c], closed'[c] = closed[c],
           LoopEnds(c), fetch[c] \in {"status", "count"}, Pursued(c),
           UNCHANGED <<log, late, quiet, received, wakeups>>,
           handler'[c] = handler[c], wire'[c] = wire[c]
    PROVE  Pursued(c)'
<1>1. Due' = Due /\ OnWire(c)' = OnWire(c)
  BY DueKept DEF OnWire
<1>2. hasPendingWakeup[c] => fetch'[c] = "query"
  BY DEF LoopEnds, Repeats, TypeOK
<1> QED BY <1>1, <1>2 DEF Pursued

\* A step of the handler itself: the query finds what is due, or it was sent; the
\* rows are sent in order; and a wake-up that comes meanwhile has it query again.
LEMMA OwnStep ==
    ASSUME TypeOK, MuxInv, CursorInv, WritersInv, NEW c \in Conns, reading = c,
           PursuitAt(c), ServeStream(c) \/ FetchFails(c)
    PROVE  PursuitAt(c)'
<1> USE DEF writerVars, muxVars, fetchVars, connVars, readerVars
<1>a. /\ CursorAccounts(c) /\ EndAnnounced(c)
      /\ WireInOrder(c) /\ CursorAtLast(c) /\ RowsComplete(c)
  BY DEF CursorInv, PursuitAt
<1>b. ~hungUp[c] /\ handler[c] # "free" /\ (fetch[c] = "end" => closed[c])
  BY DEF MuxInv, ConnectionInv
<1>c. ASSUME Cleanup(c) PROVE closed'[c]
  BY <1>c DEF Cleanup, TypeOK
<1>1. CASE FetchRows(c)
  <2>1. /\ fetch[c] = "query" /\ rows'[c] = {i \in log : i > lastSentId[c]}
        /\ fetch'[c] = IF rows'[c] = {} THEN "status" ELSE "rows"
        /\ UNCHANGED <<log, ends, late, quiet, received, wakeups, wire, lastSentId, handler,
                       closed, unsubscribe, faults>>
    BY <1>1 DEF FetchRows, TypeOK
  <2>2. CursorAccounts(c)' /\ EndAnnounced(c)'
    BY <1>a, <2>1, AccountsKept DEF EndAnnounced, OnWire
  <2>3. Due' = Due /\ Given' = Given /\ OnWire(c)' = OnWire(c)
    BY <2>1, DueKept DEF OnWire
  <2>4. ASSUME faults = 0 PROVE Pursued(c)'
    <3>1. SUFFICES ASSUME NEW i \in Due
                   PROVE  (fetch'[c] = "rows" /\ i \in rows'[c]) \/ i \in OnWire(c)
      BY <2>3 DEF Pursued
    <3>2. i \in log \ late /\ i \notin Given
      BY DEF Due
    <3>3. CASE i <= lastSentId[c]
      BY <1>a, <3>2, <3>3 DEF CursorAccounts
    <3>4. CASE i > lastSentId[c]
      BY <2>1, <3>2, <3>4
    <3> QED BY <3>2, <3>3, <3>4, SetTypes
  <2>5. ASSUME faults = 0 PROVE Listening(c)' /\ EndNoticed(c)'
    <3>1. Newest(lastSentId[c]) => fetch'[c] = "status"
      BY <2>1, SetTypes DEF Newest
    <3> QED BY <2>1, <2>5, <3>1 DEF PursuitAt, Listening, EndNoticed, Newest
  <2> QED BY <2>1, <2>2, <2>4, <2>5 DEF PursuitAt
<1>2. CASE WriteEvent(c)
  <2>1. PICK i \in rows[c] :
          /\ fetch[c] = "rows" /\ ~closed[c]
          /\ \A j \in rows[c] : i <= j
          /\ lastSentId'[c] = i
          /\ wire' = [wire EXCEPT ![c] = Append(@, i)]
          /\ \/ Cleanup(c) /\ fetch'[c] = "end"
             \/ /\ i \notin ends
                /\ rows'[c] = rows[c] \ {i}
                /\ IF rows[c] = {i} THEN LoopEnds(c)
                                    ELSE UNCHANGED <<fetch, hasPendingWakeup>>
                /\ UNCHANGED <<closed, unsubscribe>>
          /\ UNCHANGED <<log, ends, late, quiet, received, wakeups, handler, faults>>
    BY <1>2, <1>b DEF WriteEvent, TypeOK
  <2>2. /\ i \in log /\ i \in 0..LastId /\ lastSentId[c] < i /\ rows[c] \subseteq log
    BY <1>a, <2>1 DEF RowsComplete, TypeOK
  <2>3. OnWire(c)' = OnWire(c) \union {i}
    BY <2>1, <2>2, WireAppend
  <2>4. Due' = Due /\ Given' = Given /\ LastOf(received)' = LastOf(received)
    BY <2>1, DueKept DEF LastOf
  <2>5. CursorAccounts(c)'
    <3>1. LastOf(received) <= i /\ \A j \in OnWire(c) \union {i} : j <= i
      BY <1>a, <2>2, SetTypes DEF CursorAccounts
    <3>2. ASSUME NEW j \in log \ late, j <= i PROVE j \in Given \union OnWire(c) \union {i}
      <4>1. CASE j <= lastSentId[c]
        BY <1>a, <4>1 DEF CursorAccounts
      <4>2. CASE j > lastSentId[c] /\ j # i
        <5>1. j \notin rows[c]
          BY <2>1, <2>2, <3>2, <4>2, SetTypes
        <5>2. j < i
          <6>1. j \in Int /\ i \in Int
            BY <2>2, <3>2 DEF TypeOK
          <6> QED BY <3>2, <4>2, <6>1
        <5> QED BY <1>a, <2>1, <3>2, <4>2, <5>1, <5>2 DEF RowsComplete
      <4> QED BY <4>1, <4>2, SetTypes
    <3> QED BY <2>1, <2>2, <2>3, <2>4, <3>1, <3>2 DEF CursorAccounts
  <2>6. CASE Cleanup(c) /\ fetch'[c] = "end"
    <3>1. closed'[c]
      BY <1>c, <2>6
    <3> QED BY <2>5, <2>6, <3>1 DEF PursuitAt, EndAnnounced, Listening, Pursued, EndNoticed
  <2>7. CASE /\ i \notin ends
             /\ rows'[c] = rows[c] \ {i}
             /\ IF rows[c] = {i} THEN LoopEnds(c)
                                 ELSE UNCHANGED <<fetch, hasPendingWakeup>>
             /\ UNCHANGED <<closed, unsubscribe>>
    <3>1. EndAnnounced(c)' /\ EndNoticed(c)'
      BY <2>1, <2>7 DEF EndAnnounced, EndNoticed
    <3>2. ASSUME faults = 0 PROVE Listening(c)'
      BY <2>1, <2>7, <3>2 DEF PursuitAt, Listening
    <3>3. ASSUME faults = 0 PROVE Pursued(c)'
      <4>1. hasPendingWakeup[c] => \/ fetch'[c] = "query"
                                   \/ fetch'[c] = "rows" /\ hasPendingWakeup'[c]
        BY <2>1, <2>7 DEF LoopEnds, Repeats, TypeOK
      <4>2. rows[c] # {i} => fetch'[c] = "rows"
        BY <2>1, <2>7
      <4>3. SUFFICES ASSUME NEW j \in Due
                     PROVE  \/ wakeups > 0
                            \/ handler[c] = "subscribing"
                            \/ hasPendingWakeup[c]
                            \/ rows[c] # {i} /\ j \in rows'[c]
                            \/ j \in OnWire(c) \union {i}
        BY <2>1, <2>3, <2>4, <4>1, <4>2 DEF Pursued
      <4> QED BY <2>1, <2>7, <3>3 DEF PursuitAt, Pursued
    <3> QED BY <2>1, <2>5, <3>1, <3>2, <3>3 DEF PursuitAt
  <2> QED BY <2>1, <2>6, <2>7
<1>3. CASE StopWriting(c)
  <2>1. /\ fetch[c] = "rows" /\ closed[c] /\ fetch'[c] = "idle"
        /\ UNCHANGED <<log, late, received, wire, lastSentId, closed>>
    BY <1>3 DEF StopWriting, TypeOK
  <2> QED BY <1>a, <2>1, AccountsKept
          DEF PursuitAt, EndAnnounced, OnWire, Listening, Pursued, EndNoticed
<1>4. CASE ReadStatus(c)
  <2>1. /\ fetch[c] = "status"
        /\ UNCHANGED <<log, ends, late, quiet, received, wakeups, wire, lastSentId, handler,
                       closed, unsubscribe, faults>>
    BY <1>4 DEF ReadStatus
  <2>2. CursorAccounts(c)'
    BY <1>a, <2>1, AccountsKept
  <2>3. CASE closed[c]
    <3>1. Fin \in OnWire(c)' /\ closed'[c]
      BY <1>a, <2>1, <2>3 DEF EndAnnounced, OnWire
    <3> QED BY <2>2, <3>1 DEF PursuitAt, EndAnnounced, Listening, Pursued, EndNoticed
  <2>4. CASE ~closed[c] /\ terminal
    <3>1. fetch'[c] = "count" /\ UNCHANGED hasPendingWakeup
      BY <1>4, <2>4 DEF ReadStatus, TypeOK
    <3>2. Due' = Due /\ OnWire(c)' = OnWire(c)
      BY <2>1, DueKept DEF OnWire
    <3> QED BY <2>1, <2>2, <2>4, <3>1, <3>2
            DEF PursuitAt, EndAnnounced, Listening, Pursued, EndNoticed
  <2>5. CASE ~closed[c] /\ ~terminal
    <3>1. LoopEnds(c)
      BY <1>4, <2>5 DEF ReadStatus
    <3>2. ASSUME faults = 0 PROVE Pursued(c)'
      BY <2>1, <2>5, <3>1, <3>2, LoopPursues DEF PursuitAt
    <3>3. EndNoticed(c)'
      BY <2>1, <2>5 DEF EndNoticed, Newest, WritersInv
    <3> QED BY <2>1, <2>2, <2>5, <3>2, <3>3 DEF PursuitAt, EndAnnounced, Listening
  <2> QED BY <2>3, <2>4, <2>5
<1>5. CASE CountRemaining(c)
  <2>1. /\ fetch[c] = "count"
        /\ UNCHANGED <<log, ends, late, quiet, received, wakeups, wire, lastSentId, handler,
                       faults>>
    BY <1>5 DEF CountRemaining
  <2>2. CursorAccounts(c)'
    BY <1>a, <2>1, AccountsKept
  <2>3. CASE \A i \in log : i <= lastSentId[c]
    <3>1. fetch'[c] = "end" /\ closed'[c]
      BY <1>5, <1>c, <2>3 DEF CountRemaining, TypeOK
    <3> QED BY <2>2, <3>1 DEF PursuitAt, EndAnnounced, Listening, Pursued, EndNoticed
  <2>4. CASE ~(\A i \in log : i <= lastSentId[c])
    <3>1. LoopEnds(c) /\ UNCHANGED <<closed, unsubscribe>>
      BY <1>5, <2>4 DEF CountRemaining
    <3>2. CASE closed[c]
      <4>1. Fin \in OnWire(c)' /\ closed'[c]
        BY <1>a, <2>1, <3>1, <3>2 DEF EndAnnounced, OnWire
      <4> QED BY <2>2, <4>1 DEF PursuitAt, EndAnnounced, Listening, Pursued, EndNoticed
    <3>3. CASE ~closed[c]
      <4>1. ASSUME faults = 0 PROVE Pursued(c)'
        BY <2>1, <3>1, <3>3, <4>1, LoopPursues DEF PursuitAt
      <4>2. EndNoticed(c)'
        BY <2>1, <2>4 DEF EndNoticed, Newest
      <4> QED BY <2>1, <2>2, <3>1, <3>3, <4>1, <4>2 DEF PursuitAt, EndAnnounced, Listening
    <3> QED BY <3>2, <3>3
  <2> QED BY <2>3, <2>4
<1>6. CASE EndResponse(c)
  <2>1. /\ fetch[c] = "end" /\ wire' = [wire EXCEPT ![c] = Append(@, Fin)]
        /\ UNCHANGED <<log, late, received, lastSentId, closed>>
    BY <1>6, <1>b DEF EndResponse
  <2>2. OnWire(c)' = OnWire(c) \union {Fin}
    <3>1. PICK x \in 0..LastId : x = Fin
      BY LastIdAssumption
    <3> QED BY <2>1, <3>1, WireAppend
  <2>3. Given' = Given /\ LastOf(received)' = LastOf(received)
    BY <2>1 DEF Given, LastOf
  <2>4. CursorAccounts(c)'
    BY <1>a, <2>1, <2>2, <2>3, SetTypes DEF CursorAccounts
  <2> QED BY <1>b, <2>1, <2>2, <2>4 DEF PursuitAt, EndAnnounced, Listening, Pursued, EndNoticed
<1>7. CASE RequestCloses(c)
  BY <1>7, <1>b DEF RequestCloses
<1>8. CASE HandlerReturns(c)
  BY <1>8 DEF HandlerReturns
<1>9. CASE FetchFails(c)
  <2>1. /\ fetch'[c] = "end"
        /\ UNCHANGED <<log, late, received, wire, lastSentId>>
    BY <1>9 DEF FetchFails, TypeOK
  <2>2. CursorAccounts(c)' /\ EndAnnounced(c)'
    BY <1>a, <2>1, AccountsKept DEF EndAnnounced
  <2>3. faults' # 0
    BY <1>9, BoundsAssumption DEF FetchFails, Fault, TypeOK
  <2> QED BY <2>2, <2>3 DEF PursuitAt
<1> QED
  BY <1>1, <1>2, <1>3, <1>4, <1>5, <1>6, <1>7, <1>8, <1>9 DEF ServeStream


\* A fetch that is woken begins, or remembers to query again.
LEMMA WokenAt ==
    ASSUME TypeOK, NEW S \in SUBSET Conns, Woken(S), NEW c \in Conns
    PROVE  /\ c \in S /\ ~closed[c] => \/ fetch'[c] = "query"
                                       \/ fetch'[c] # "idle" /\ hasPendingWakeup'[c]
           /\ c \notin S \/ closed[c] => /\ fetch'[c] = fetch[c]
                                         /\ hasPendingWakeup'[c] = hasPendingWakeup[c]
           /\ fetch'[c] = fetch[c] \/ (fetch[c] = "idle" /\ fetch'[c] = "query")
           /\ rows' = rows /\ lastSentId' = lastSentId
BY DEF Woken, TypeOK

\* The wake-ups, and the subscription that hears them.
LEMMA WakeupStep ==
    ASSUME TypeOK, MuxInv, NEW c \in Conns, reading = c, PursuitAt(c), PublishWakeup
    PROVE  PursuitAt(c)'
<1> USE DEF writerVars, muxVars, fetchVars, connVars, readerVars
<1>1. UNCHANGED <<log, ends, late, quiet, received, wire, handler, closed, unsubscribe,
                  faults>>
  BY DEF PublishWakeup
<1>2. /\ fetch'[c] = fetch[c] \/ (fetch[c] = "idle" /\ fetch'[c] = "query")
      /\ lastSentId' = lastSentId
  <2>1. CASE channel
    BY <2>1, WokenAt DEF PublishWakeup, TypeOK
  <2>2. CASE ~channel
    BY <2>2 DEF PublishWakeup
  <2> QED BY <2>1, <2>2
<1>3. CursorAccounts(c)' /\ EndAnnounced(c)'
  BY <1>1, <1>2, AccountsKept DEF PursuitAt, EndAnnounced, OnWire
<1>4. ASSUME faults = 0 PROVE Listening(c)' /\ EndNoticed(c)' /\ Pursued(c)'
  <2>1. Listening(c)' /\ EndNoticed(c)'
    BY <1>1, <1>2, <1>4 DEF PursuitAt, Listening, EndNoticed, Newest
  <2>2. CASE closed[c] \/ handler[c] = "subscribing"
    BY <1>1, <2>1, <2>2 DEF Pursued
  <2>3. CASE ~closed[c] /\ handler[c] # "subscribing"
    <3>1. handler[c] = "serving"
      BY <2>3 DEF MuxInv, ConnectionInv, TypeOK
    <3>2. unsubscribe[c]
      BY <1>4, <2>3, <3>1 DEF PursuitAt, Listening
    <3>3. channel /\ c \in listeners
      BY <3>2 DEF MuxInv, ConnectionInv, ChannelHeld
    <3>4. fetch'[c] = "query" \/ (fetch'[c] # "idle" /\ hasPendingWakeup'[c])
      BY <2>3, <3>3, WokenAt DEF PublishWakeup, TypeOK
    <3> QED BY <2>1, <3>4 DEF Pursued
  <2> QED BY <2>2, <2>3
<1> QED BY <1>1, <1>3, <1>4 DEF PursuitAt

LEMMA GrantStep ==
    ASSUME TypeOK, MuxInv, CursorInv, NEW c \in Conns, reading = c, PursuitAt(c),
           SubscriptionGranted \/ SubscriptionFails
    PROVE  PursuitAt(c)'
<1> USE DEF writerVars, muxVars, fetchVars, connVars, readerVars
<1>1. UNCHANGED <<log, ends, late, quiet, received, wire, closed, wakeups>>
  BY DEF SubscriptionGranted, SubscriptionFails
<1>2. Woken(Subscribers) /\ Subscribers \in SUBSET Conns
  BY DEF SubscriptionGranted, SubscriptionFails, Subscribers
<1>3. CursorAccounts(c)' /\ EndAnnounced(c)'
  BY <1>1, <1>2, WokenAt, AccountsKept DEF PursuitAt, EndAnnounced, OnWire
<1>4. CASE SubscriptionFails
  <2>1. faults' # 0
    BY <1>4 DEF SubscriptionFails, Fault, TypeOK
  <2> QED BY <1>3, <2>1 DEF PursuitAt
<1>5. CASE SubscriptionGranted
  <2>1. /\ handler'[c] = IF handler[c] = "subscribing" THEN "serving" ELSE handler[c]
        /\ unsubscribe'[c] = (unsubscribe[c] \/ (handler[c] = "subscribing" /\ ~closed[c]))
        /\ faults' = faults
    BY <1>5 DEF SubscriptionGranted, Subscribers, TypeOK
  <2>2. CASE handler[c] # "subscribing"
    <3>1. /\ fetch'[c] = fetch[c] /\ hasPendingWakeup'[c] = hasPendingWakeup[c]
          /\ rows' = rows /\ lastSentId' = lastSentId
      BY <1>2, <2>2, WokenAt DEF Subscribers
    <3>2. unsubscribe'[c] = unsubscribe[c]
      BY <2>1, <2>2 DEF TypeOK
    <3> QED BY <1>1, <2>1, <2>2, <3>1, <3>2, PursuitKept
  <2>3. CASE handler[c] = "subscribing" /\ closed[c]
    BY <1>1, <1>3, <2>3 DEF PursuitAt, Listening, Pursued, EndNoticed
  <2>4. CASE handler[c] = "subscribing" /\ ~closed[c]
    <3>1. /\ fetch'[c] = "query" \/ (fetch'[c] # "idle" /\ hasPendingWakeup'[c])
          /\ fetch'[c] = fetch[c] \/ fetch'[c] = "query"
          /\ lastSentId' = lastSentId
      BY <1>2, <2>4, WokenAt DEF Subscribers
    <3>2. Listening(c)' /\ Pursued(c)'
      BY <2>1, <2>4, <3>1 DEF Listening, Pursued
    <3>3. EndNoticed(c)'
      <4>1. SUFFICES ASSUME Newest(lastSentId[c]), fetch'[c] # "query"
                     PROVE  fetch'[c] \in {"status", "count"}
        BY <1>1, <3>1 DEF EndNoticed, Newest
      <4>2. fetch'[c] = fetch[c] /\ fetch[c] # "idle" /\ fetch[c] # "query"
        BY <3>1, <4>1
      <4>3. fetch[c] # "end"
        BY <2>4 DEF MuxInv, ConnectionInv
      <4>4. fetch[c] # "rows"
        <5>1. SUFFICES ASSUME fetch[c] = "rows" PROVE FALSE
          OBVIOUS
        <5>2. PICK i \in rows[c] : i \in log /\ lastSentId[c] < i
          BY <5>1 DEF CursorInv, RowsComplete
        <5> QED BY <4>1, <5>2 DEF Newest, TypeOK
      <4> QED BY <4>2, <4>3, <4>4 DEF TypeOK
    <3> QED BY <1>3, <3>2, <3>3 DEF PursuitAt
  <2> QED BY <2>2, <2>3, <2>4
<1> QED BY <1>4, <1>5

\* An event that commits is followed by a wake-up, or owed to nobody.
LEMMA CommitStep ==
    ASSUME TypeOK, WritersInv, NEW c \in Conns, PursuitAt(c),
           NEW i \in Ids, NEW k \in Kinds, CommitEvent(i, k)
    PROVE  PursuitAt(c)'
<1> USE DEF writerVars, muxVars, fetchVars, connVars, readerVars
<1>1. /\ i \notin log /\ log' = log \union {i}
      /\ late' = IF \E j \in log : j > i THEN late \union {i} ELSE late
      /\ ends' \subseteq ends \union {i}
      /\ \/ wakeups' = wakeups + 1 /\ quiet' = quiet
         \/ wakeups' = wakeups /\ quiet' = quiet \union {i}
      /\ UNCHANGED <<fetch, rows, hasPendingWakeup, lastSentId, handler, closed, unsubscribe,
                     wire, received, faults>>
  BY DEF CommitEvent, WritersInv
<1>2. Given' = Given /\ OnWire(c)' = OnWire(c) /\ LastOf(received)' = LastOf(received)
  BY <1>1 DEF Given, OnWire, LastOf
<1>3. lastSentId[c] # i
  BY <1>1 DEF PursuitAt, CursorAccounts
<1>4. CursorAccounts(c)'
  <2>1. i <= lastSentId[c] => i \in late'
    <3>1. lastSentId[c] \in log \union {0}
      BY DEF PursuitAt, CursorAccounts
    <3>2. i <= lastSentId[c] => lastSentId[c] \in log /\ i < lastSentId[c]
      BY <1>3, <3>1, SetTypes
    <3> QED BY <1>1, <3>2
  <2> QED BY <1>1, <1>2, <2>1 DEF PursuitAt, CursorAccounts
<1>5. EndAnnounced(c)'
  BY <1>1, <1>2 DEF PursuitAt, EndAnnounced
<1>6. ASSUME faults = 0 PROVE Listening(c)' /\ EndNoticed(c)' /\ Pursued(c)'
  <2>1. Listening(c)'
    BY <1>1, <1>6 DEF PursuitAt, Listening
  <2>2. EndNoticed(c)'
    BY <1>1, <1>3, <1>6 DEF PursuitAt, EndNoticed, Newest
  <2>3. CASE wakeups' = wakeups + 1
    <3>1. wakeups' > 0
      BY <2>3 DEF TypeOK
    <3> QED BY <2>1, <2>2, <3>1 DEF Pursued
  <2>4. CASE wakeups' = wakeups /\ quiet' = quiet \union {i}
    <3>1. Due' \subseteq Due
      BY <1>1, <1>2, <2>4 DEF Due
    <3>2. Pursued(c)'
      BY <1>1, <1>2, <1>6, <2>4, <3>1 DEF PursuitAt, Pursued
    <3> QED BY <2>1, <2>2, <3>2
  <2> QED BY <1>1, <2>3, <2>4
<1> QED BY <1>1, <1>4, <1>5, <1>6 DEF PursuitAt

\* The reader takes an event from the wire, which is then no longer due.
LEMMA ReceiveStep ==
    ASSUME TypeOK, NEW c \in Conns, PursuitAt(c), ReceiveEvent, reading' = c
    PROVE  PursuitAt(c)'
<1> USE DEF writerVars, muxVars, fetchVars, connVars, readerVars
<1>1. /\ reading = c /\ wire[c] # <<>> /\ Head(wire[c]) # Fin
      /\ wire' = [wire EXCEPT ![c] = Tail(@)]
      /\ received' = Append(received, Head(wire[c]))
      /\ UNCHANGED <<log, ends, late, quiet, wakeups, fetch, rows, hasPendingWakeup,
                     lastSentId, handler, closed, unsubscribe, faults>>
  BY NoConnAssumption DEF ReceiveEvent
<1>2. PICK h \in Ids : h = Head(wire[c])
  BY <1>1, ReadEvent
<1>3. /\ h \in OnWire(c) /\ OnWire(c) = OnWire(c)' \union {h}
      /\ Given' = Given \union {h} /\ LastOf(received)' = h
  BY <1>1, <1>2, ReadEvent
<1>4. CursorAccounts(c)'
  BY <1>1, <1>3 DEF PursuitAt, CursorAccounts
<1>5. EndAnnounced(c)'
  BY <1>1, <1>2, <1>3 DEF PursuitAt, EndAnnounced
<1>6. Due' = Due \ {h}
  BY <1>1, <1>3 DEF Due
<1>7. ASSUME faults = 0 PROVE Listening(c)' /\ EndNoticed(c)' /\ Pursued(c)'
  <2>1. Listening(c)' /\ EndNoticed(c)'
    BY <1>1, <1>7 DEF PursuitAt, Listening, EndNoticed, Newest
  <2>2. Pursued(c)'
    BY <1>1, <1>3, <1>6, <1>7 DEF PursuitAt, Pursued
  <2> QED BY <2>1, <2>2
<1> QED BY <1>1, <1>4, <1>5, <1>7 DEF PursuitAt

\* A stream that opens goes on from the last id the reader was given, and fetches
\* once it has its subscription.
LEMMA OpenStep ==
    ASSUME TypeOK, MuxInv, GivenInv, NEW c \in Conns, OpenStream(c)
    PROVE  PursuitAt(c)'
<1>1. /\ handler[c] = "free" /\ handler'[c] = "subscribing"
      /\ lastSentId'[c] = LastOf(received)
      /\ UNCHANGED <<log, late, received, wire, closed>>
  BY DEF OpenStream, LastOf, TypeOK, writerVars
<1>2. ~closed[c] /\ wire[c] = <<>>
  BY <1>1 DEF MuxInv, ConnectionInv
<1>3. OnWire(c)' = {} /\ Given' = Given /\ LastOf(received)' = LastOf(received)
  BY <1>1, <1>2 DEF OnWire, Given, LastOf
<1>4. CursorAccounts(c)'
  BY <1>1, <1>3, LastGiven, SetTypes DEF CursorAccounts, GivenInv
<1> QED BY <1>1, <1>2, <1>4 DEF PursuitAt, EndAnnounced, Listening, Pursued, EndNoticed

LEMMA PursuitStep == StreamInv /\ PursuitInv /\ [Next]_vars => PursuitInv'
<1> SUFFICES ASSUME StreamInv, PursuitInv, [Next]_vars PROVE PursuitInv'
  OBVIOUS
<1>1. TypeOK /\ MuxInv /\ CursorInv /\ WritersInv /\ GivenInv
  BY DEF StreamInv, MuxInv, PursuitInv
<1>2. WritersInv' /\ GivenInv'
  BY <1>1, WritersStep, GivenStep
<1>3. SUFFICES ASSUME NEW c \in Conns, reading' = c PROVE PursuitAt(c)'
  BY <1>2 DEF PursuitInv, PursuitAt
<1>4. reading = c => PursuitAt(c)
  BY DEF PursuitInv, PursuitAt
<1> USE DEF writerVars, muxVars, fetchVars, connVars, readerVars
<1>5. CASE UNCHANGED vars
  BY <1>3, <1>4, <1>5, PursuitKept DEF vars
<1>6. CASE InsertEvent
  BY <1>3, <1>4, <1>6, PursuitKept DEF InsertEvent
<1>7. ASSUME NEW i \in Ids, NEW k \in Kinds, CommitEvent(i, k) PROVE PursuitAt(c)'
  <2>1. reading = c
    BY <1>3, <1>7 DEF CommitEvent
  <2> QED BY <1>1, <1>4, <1>7, <2>1, CommitStep
<1>8. CASE PublishWakeup
  <2>1. reading = c
    BY <1>3, <1>8 DEF PublishWakeup
  <2> QED BY <1>1, <1>4, <1>8, <2>1, WakeupStep
<1>9. CASE SubscriptionGranted \/ SubscriptionFails
  <2>1. reading = c
    BY <1>3, <1>9 DEF SubscriptionGranted, SubscriptionFails
  <2> QED BY <1>1, <1>4, <1>9, <2>1, GrantStep
<1>10. CASE Unsubscribed
  BY <1>3, <1>4, <1>10, PursuitKept DEF Unsubscribed
<1>11. ASSUME NEW d \in Conns, OpenStream(d) PROVE PursuitAt(c)'
  <2>1. d = c
    BY <1>3, <1>11 DEF OpenStream
  <2> QED BY <1>1, <1>11, <2>1, OpenStep
<1>12. ASSUME NEW d \in Conns, ServeStream(d) \/ FetchFails(d) PROVE PursuitAt(c)'
  <2>1. reading = c
    BY <1>3, <1>12 DEF ServeStream, FetchFails, FetchRows, WriteEvent, StopWriting,
                      ReadStatus, CountRemaining, EndResponse, RequestCloses, HandlerReturns
  <2>2. CASE d = c
    BY <1>1, <1>4, <1>12, <2>1, <2>2, OwnStep
  <2>3. CASE d # c
    BY <1>1, <1>4, <1>12, <2>1, <2>3, OthersStep
  <2> QED BY <2>2, <2>3
<1>13. CASE CrashApi \/ Disconnect
  BY <1>3, <1>13, NoConnAssumption DEF CrashApi, Disconnect
<1>14. CASE ReceiveEvent
  <2>1. reading = c
    BY <1>3, <1>14, NoConnAssumption DEF ReceiveEvent
  <2> QED BY <1>1, <1>3, <1>4, <1>14, <2>1, ReceiveStep
<1> QED
  BY <1>5, <1>6, <1>7, <1>8, <1>9, <1>10, <1>11, <1>12, <1>13, <1>14 DEF Next

----------------------------------------------------------------------------
(* The theorems.                                                            *)

\* What is due to a reader that stays is always on its way or will be found by
\* the handler's next query, as long as no fault happens.
THEOREM WakeupsPursued == Spec => []PursuitInv
<1>1. Init => PursuitInv
  <2>1. ASSUME Init PROVE WritersInv /\ GivenInv
    BY <2>1 DEF Init, WritersInv, GivenInv, Given, Newest
  <2>2. ASSUME Init PROVE \A c \in Conns : reading # c
    BY <2>2, NoConnAssumption DEF Init
  <2> QED BY <2>1, <2>2 DEF PursuitInv
<1>2. StreamInv /\ PursuitInv /\ [Next]_vars => PursuitInv'
  BY PursuitStep
<1> QED BY <1>1, <1>2, StreamInvariant, PTL DEF Spec

\* A stream at rest is settled: handleEventsStream loses no wake-up between its
\* subscription, its fetches and the reads that decide whether the run is over.
THEOREM StreamRests == Spec => []RestIsSettled
<1>1. ASSUME StreamInv, PursuitInv, NEW c \in Conns, reading = c, faults = 0, AtRest(c)
      PROVE  Settled
  <2>1. /\ wakeups = 0 /\ handler[c] = "serving" /\ fetch[c] = "idle" /\ OnWire(c) = {}
        /\ CursorAccounts(c) /\ EndAnnounced(c) /\ Pursued(c) /\ EndNoticed(c)
        /\ WritersInv /\ GivenInv /\ TypeOK
    BY <1>1 DEF AtRest, OnWire, PursuitInv, StreamInv
  <2>2. ~closed[c]
    BY <2>1 DEF EndAnnounced
  <2>3. Due = {}
    BY <2>1, <2>2 DEF Pursued
  <2>4. ASSUME terminal, quiet \subseteq Given, ~Trailed PROVE FALSE
    <3>1. PICK m \in log : Newest(m)
      <4>1. log # {}
        BY <2>1, <2>4 DEF WritersInv
      <4> QED BY <2>1, <4>1 DEF WritersInv
    <3>2. PICK e \in ends : ~(e < m)
      BY <2>4 DEF Trailed
    <3>3. m \in ends
      <4>1. e \in log /\ e <= m
        BY <2>1, <3>1 DEF WritersInv, Newest
      <4> QED BY <2>1, <3>2, <4>1 DEF TypeOK
    <3>4. m \notin late
      BY <2>1, <3>1 DEF WritersInv, Newest, TypeOK
    <3>5. m \in Given
      BY <2>3, <2>4, <3>4 DEF Due
    <3>6. lastSentId[c] = m
      <4>1. m <= LastOf(received) /\ LastOf(received) <= lastSentId[c]
        BY <2>1, <3>5 DEF GivenInv, CursorAccounts
      <4>2. lastSentId[c] \in log \union {0} /\ m \in Int /\ m > 0
        BY <2>1 DEF CursorAccounts, TypeOK
      <4> QED BY <2>1, <3>1, <4>1, <4>2, SetTypes DEF Newest
    <3> QED BY <2>1, <2>2, <3>1, <3>3, <3>6 DEF EndNoticed
  <2> QED BY <2>3, <2>4 DEF Settled
<1>2. StreamInv /\ PursuitInv => RestIsSettled
  BY <1>1 DEF RestIsSettled
<1> QED BY <1>2, StreamInvariant, WakeupsPursued, PTL
=============================================================================
