------------------------- MODULE StepFencing_proofs -------------------------
(***************************************************************************)
(* Proofs about StepFencing, for any step keys, callers, bounds, delays and *)
(* limits: its type invariant, the safety invariants and action properties  *)
(* the TLC runs check on small instances, and that it implements            *)
(* DurableStep.                                                             *)
(***************************************************************************)
EXTENDS StepFencing, TLAPS

USE AttemptBoundAssumption, LeaseAssumption, DelaysAssumption,
    RetryAssumption, HeartbeatsAssumption
    DEF Attempts, Null

\* The initial state is well typed: empty tables and idle callers.
LEMMA InitTypeOK == Init => TypeOK
BY DEF Init, TypeOK, StepStatus, AttemptStatus, CallerState, Snapshot, NoSnapshot

\* Overwriting one entry of one row keeps the type of a table of attempts.
LEMMA UpdateAttempt ==
    ASSUME NEW D, NEW f \in [Keys -> [Attempts -> D]],
           NEW k \in Keys, NEW n, NEW v \in D
    PROVE  /\ [f EXCEPT ![k][n] = v] \in [Keys -> [Attempts -> D]]
           /\ \A i \in Keys, j \in Attempts :
                 [f EXCEPT ![k][n] = v][i][j] =
                     IF i = k /\ j = n THEN v ELSE f[i][j]
<1>1. [f[k] EXCEPT ![n] = v] \in [Attempts -> D]
  OBVIOUS
<1>2. [f EXCEPT ![k][n] = v] = [f EXCEPT ![k] = [f[k] EXCEPT ![n] = v]]
  OBVIOUS
<1> QED BY <1>1, <1>2

\* Ending a call leaves the caller's fields well typed.
LEMMA CallEndsTypeOK ==
    ASSUME TypeOK, NEW c \in Callers, CallEnds(c)
    PROVE  /\ pc' \in [Callers -> CallerState]
           /\ key' \in [Callers -> Keys]
           /\ snapshot' \in [Callers -> Snapshot]
           /\ held' \in [Callers -> Attempts \union {Null}]
<1>1. NoSnapshot \in Snapshot
  BY DEF NoSnapshot, Snapshot
<1> QED BY <1>1 DEF CallEnds, CallerState, TypeOK

\* Writing one attempt's status, or one lease, keeps the table well typed.
LEMMA SetAttemptStatus ==
    ASSUME TypeOK, NEW k \in Keys, NEW n, NEW v \in AttemptStatus,
           attemptStatus' = [attemptStatus EXCEPT ![k][n] = v]
    PROVE  /\ attemptStatus' \in [Keys -> [Attempts -> AttemptStatus]]
           /\ \A i \in Keys, j \in Attempts :
                 attemptStatus'[i][j] =
                     IF i = k /\ j = n THEN v ELSE attemptStatus[i][j]
<1>1. attemptStatus \in [Keys -> [Attempts -> AttemptStatus]]
  BY DEF TypeOK
<1> HIDE DEF Attempts
<1> QED BY <1>1, UpdateAttempt

\* The same for one lease.
LEMMA SetLease ==
    ASSUME TypeOK, NEW k \in Keys, NEW n, NEW v \in Nat,
           leaseLeft' = [leaseLeft EXCEPT ![k][n] = v]
    PROVE  leaseLeft' \in [Keys -> [Attempts -> Nat]]
<1>1. leaseLeft \in [Keys -> [Attempts -> Nat]]
  BY DEF TypeOK
<1> HIDE DEF Attempts
<1> QED BY <1>1, UpdateAttempt

\* Every transaction and every step of a caller keeps the columns' types.
LEMMA StepTypeOK == TypeOK /\ [Next]_stepVars => TypeOK'
<1> SUFFICES ASSUME TypeOK, [Next]_stepVars PROVE TypeOK'
  OBVIOUS
<1> USE DEF StepStatus, CallerState, rows, timers, callers
<1>0. /\ {"RUNNING", "COMPLETED", "FAILED", "TIMED_OUT", "ABANDONED"}
            \subseteq AttemptStatus
      /\ \A c \in Callers : key[c] \in Keys
      /\ NoSnapshot \in Snapshot
  BY DEF TypeOK, AttemptStatus, NoSnapshot, Snapshot
<1>1. ASSUME NEW c \in Callers, NEW k \in Keys, ClaimSelect(c, k) PROVE TypeOK'
  <2>1. [row |-> status[k] # "NoRow", active |-> activeAttempt[k],
         lease |-> IF activeAttempt[k] = Null THEN 0
                   ELSE leaseLeft[k][activeAttempt[k]]] \in Snapshot
    BY DEF TypeOK, Snapshot
  <2> QED BY <1>1, <2>1 DEF ClaimSelect, TypeOK
<1>2. ASSUME NEW c \in Callers, ClaimMemoized(c) PROVE TypeOK'
  <2>1. <<key[c], output[key[c]]>> \in Keys \X (Attempts \union {Null})
    BY DEF TypeOK
  <2> QED BY <1>2, <2>1, CallEndsTypeOK DEF ClaimMemoized, TypeOK
<1>3. ASSUME NEW c \in Callers, ClaimSuspends(c) PROVE TypeOK'
  BY <1>3, CallEndsTypeOK DEF ClaimSuspends, TypeOK
<1>4. ASSUME NEW c \in Callers, ClaimCollides(c) PROVE TypeOK'
  BY <1>4, CallEndsTypeOK DEF ClaimCollides, TypeOK
<1>5. ASSUME NEW c \in Callers, ClaimStartsAttempt(c) PROVE TypeOK'
  <2>1. /\ attemptCount[key[c]] + 1 \in Attempts
        /\ attemptStatus' = [attemptStatus EXCEPT
               ![key[c]][attemptCount[key[c]] + 1] = "RUNNING"]
        /\ leaseLeft' = [leaseLeft EXCEPT
               ![key[c]][attemptCount[key[c]] + 1] = LeaseDuration]
    BY <1>0, <1>5 DEF ClaimStartsAttempt, NextAttempt, FenceMoves, TypeOK
  <2>2. attemptStatus' \in [Keys -> [Attempts -> AttemptStatus]]
    BY <1>0, <2>1, SetAttemptStatus
  <2>3. leaseLeft' \in [Keys -> [Attempts -> Nat]]
    BY <1>0, <2>1, SetLease
  <2> QED BY <1>0, <1>5, <2>1, <2>2, <2>3 DEF ClaimStartsAttempt, NextAttempt, FenceMoves, TypeOK
<1>6. ASSUME NEW c \in Callers, CompleteStep(c) PROVE TypeOK'
  <2>1. attemptStatus' =
            [attemptStatus EXCEPT ![key[c]][held[c]] = "COMPLETED"]
    BY <1>6 DEF CompleteStep
  <2>2. attemptStatus' \in [Keys -> [Attempts -> AttemptStatus]]
    BY <1>0, <2>1, SetAttemptStatus
  <2>3. <<key[c], held[c]>> \in Keys \X (Attempts \union {Null})
    BY DEF TypeOK
  <2> QED BY <1>6, <2>2, <2>3, CallEndsTypeOK DEF CompleteStep, TypeOK
<1>7. ASSUME NEW c \in Callers, NEW how \in {"FAILED", "TIMED_OUT"},
             NEW st \in {"FAILED", "RETRY_WAIT"}, NEW d \in Nat,
             FailFenced(c, how, st),
             retryLeft' = [retryLeft EXCEPT ![key[c]] = d]
      PROVE TypeOK'
  <2>1. attemptStatus' = [attemptStatus EXCEPT ![key[c]][held[c]] = how]
    BY <1>7 DEF FailFenced
  <2>2. attemptStatus' \in [Keys -> [Attempts -> AttemptStatus]]
    BY <1>0, <2>1, SetAttemptStatus
  <2>3. retryLeft' \in [Keys -> Nat]
    BY <1>7 DEF TypeOK
  <2>4. /\ pc' \in [Callers -> CallerState]
        /\ key' \in [Callers -> Keys]
        /\ snapshot' \in [Callers -> Snapshot]
        /\ held' \in [Callers -> Attempts \union {Null}]
    BY <1>7, CallEndsTypeOK DEF FailFenced
  <2> QED BY <1>7, <2>2, <2>3, <2>4 DEF FailFenced, TypeOK
<1>8. ASSUME NEW c \in Callers, RejectStale(c) PROVE TypeOK'
  BY <1>8, CallEndsTypeOK DEF RejectStale, TypeOK
<1>9. ASSUME NEW c \in Callers, RenewLease(c) PROVE TypeOK'
  <2>1. leaseLeft' = [leaseLeft EXCEPT ![key[c]][held[c]] = LeaseDuration]
    BY <1>9 DEF RenewLease
  <2>2. leaseLeft' \in [Keys -> [Attempts -> Nat]]
    BY <1>0, <2>1, SetLease
  <2> QED BY <1>9, <2>2 DEF RenewLease, TypeOK
<1>10. ASSUME NEW c \in Callers, CallLost(c) PROVE TypeOK'
  BY <1>10, CallEndsTypeOK DEF CallLost, TypeOK
<1>11. ASSUME NEW k \in Keys, NEW n \in Attempts, Abandon(k, n) PROVE TypeOK'
  <2>1. attemptStatus' = [attemptStatus EXCEPT ![k][n] = "ABANDONED"]
    BY <1>11 DEF Abandon
  <2>2. attemptStatus' \in [Keys -> [Attempts -> AttemptStatus]]
    BY <1>0, <2>1, SetAttemptStatus
  <2>3. /\ activeAttempt' \in [Keys -> Attempts \union {Null}]
        /\ status' \in [Keys -> StepStatus]
        /\ retryLeft' \in [Keys -> Nat]
    <3>1. CASE activeAttempt[k] # n
      BY <1>11, <3>1 DEF Abandon, TypeOK
    <3>2. CASE activeAttempt[k] = n
      <4>1. /\ activeAttempt' = [activeAttempt EXCEPT ![k] = Null]
            /\ \/ /\ status' = [status EXCEPT ![k] = "RETRY_WAIT"]
                  /\ retryLeft' = [retryLeft EXCEPT ![k] = 0]
               \/ /\ status' = [status EXCEPT ![k] = "FAILED"]
                  /\ UNCHANGED retryLeft
        BY <1>11, <3>2 DEF Abandon, ReleaseStep
      <4>2. activeAttempt' \in [Keys -> Attempts \union {Null}]
        BY <4>1 DEF TypeOK
      <4>3. retryLeft' \in [Keys -> Nat]
        <5>1. retryLeft \in [Keys -> Nat] /\ 0 \in Nat
          BY DEF TypeOK
        <5>2. retryLeft' = [retryLeft EXCEPT ![k] = 0] \/ retryLeft' = retryLeft
          BY <4>1
        <5> QED BY <5>1, <5>2
      <4>4. status' \in [Keys -> StepStatus]
        BY <4>1 DEF TypeOK
      <4> QED BY <4>2, <4>3, <4>4
    <3> QED BY <3>1, <3>2
  <2> QED BY <1>11, <2>2, <2>3 DEF Abandon, TypeOK
<1>12. CASE Tick
  <2>1. \A t \in Nat : Sooner(t) \in Nat
    BY DEF Sooner
  <2>2. /\ retryLeft' \in [Keys -> Nat]
        /\ leaseLeft' \in [Keys -> [Attempts -> Nat]]
    BY <1>12, <2>1 DEF Tick, TypeOK
  <2>3. snapshot' \in [Callers -> Snapshot]
    BY <1>12, <2>1 DEF Tick, TypeOK, Snapshot
  <2> QED BY <1>12, <2>2, <2>3 DEF Tick, TypeOK
<1>13. CASE UNCHANGED stepVars
  BY <1>13 DEF stepVars, TypeOK
<1>14. ASSUME NEW c \in Callers, HandlerEnds(c) PROVE TypeOK'
  <2>1. CASE \E how \in {"FAILED", "TIMED_OUT"} : FailTerminally(c, how)
    <3>1. PICK how \in {"FAILED", "TIMED_OUT"} :
             /\ FailFenced(c, how, "FAILED")
             /\ retryLeft' = [retryLeft EXCEPT ![key[c]] = 0]
      BY <2>1 DEF FailTerminally
    <3>2. "FAILED" \in {"FAILED", "RETRY_WAIT"} /\ 0 \in Nat
      OBVIOUS
    <3> QED BY <1>7, <3>1, <3>2
  <2>2. CASE \E how \in {"FAILED", "TIMED_OUT"} : FailAndRetry(c, how)
    <3>1. PICK how \in {"FAILED", "TIMED_OUT"}, d \in Delays :
             /\ FailFenced(c, how, "RETRY_WAIT")
             /\ retryLeft' = [retryLeft EXCEPT ![key[c]] = d]
      BY <2>2 DEF FailAndRetry
    <3>2. "RETRY_WAIT" \in {"FAILED", "RETRY_WAIT"} /\ d \in Nat
      OBVIOUS
    <3> QED BY <1>7, <3>1, <3>2
  <2> QED BY <1>6, <1>8, <1>14, <2>1, <2>2 DEF HandlerEnds
<1> QED
  BY <1>1, <1>2, <1>3, <1>4, <1>5, <1>9, <1>10, <1>11, <1>12, <1>13, <1>14
     DEF Next, ClaimDecides

\* Type correctness of the specification.
THEOREM TypeCorrect == Spec => []TypeOK
BY InitTypeOK, StepTypeOK, PTL DEF Spec
----------------------------------------------------------------------------
(* The inductive invariant.                                                 *)

\* Attempt numbers are positive; Null is none of them.
LEMMA AttemptsPositive ==
    /\ \A n \in Attempts : n \in Nat /\ n # Null
    /\ Null \in Nat
OBVIOUS

HIDE DEF Attempts

\* The invariant holds of the empty tables.
LEMMA InitIInv == Init => IInv
<1> SUFFICES ASSUME Init PROVE IInv
  OBVIOUS
<1>1. TypeOK
  BY InitTypeOK
<1> QED BY <1>1, AttemptsPositive DEF Init, IInv, ActiveIsLatest, RunningIsRecoverable,
           OneWinner, OneOwner, Numbered, FenceHolds, DeliveredIsStored

\* A step that writes no row and returns no result, and after which the only
\* caller that moved runs no handler, keeps the invariant.
LEMMA NoRowWritten ==
    ASSUME IInv, TypeOK', NEW c \in Callers, NEW how \in CallerState \ {"handler"},
           pc' = [pc EXCEPT ![c] = how],
           \A d \in Callers \ {c} : key'[d] = key[d] /\ held'[d] = held[d],
           UNCHANGED <<rows, delivered>>
    PROVE  IInv'
<1>1. \A d \in Callers : pc'[d] = "handler" =>
          d # c /\ pc[d] = "handler" /\ key'[d] = key[d] /\ held'[d] = held[d]
  BY DEF IInv, TypeOK
<1>2. OneOwner'
  BY <1>1 DEF IInv, OneOwner, rows
<1> QED BY <1>2 DEF IInv, rows, ActiveIsLatest, RunningIsRecoverable,
           OneWinner, Numbered, FenceHolds, DeliveredIsStored

\* A call that ends writes its own fields and no other caller's.
LEMMA CallEndsIsLocal ==
    ASSUME TypeOK, NEW c \in Callers, CallEnds(c)
    PROVE  /\ pc' = [pc EXCEPT ![c] = "idle"]
           /\ \A d \in Callers \ {c} :
                 key'[d] = key[d] /\ held'[d] = held[d]
BY DEF CallEnds, TypeOK

\* A caller in its handler that passes the fence owns the unsettled attempt of
\* a RUNNING step that has no output.
LEMMA FenceMeansRunning ==
    ASSUME IInv, NEW c \in Callers, pc[c] = "handler", Fenced(c)
    PROVE  /\ key[c] \in Keys /\ held[c] \in Attempts
           /\ attemptStatus[key[c]][held[c]] = "RUNNING"
           /\ status[key[c]] = "RUNNING"
           /\ output[key[c]] = Null
<1>1. key[c] \in Keys /\ held[c] \in Attempts
  BY DEF IInv, TypeOK, OneOwner
<1>2. attemptStatus[key[c]][held[c]] = "RUNNING" /\ status[key[c]] = "RUNNING"
  BY <1>1 DEF IInv, OneOwner, FenceHolds, Fenced
<1> QED BY <1>1, <1>2 DEF IInv, OneWinner

\* Each action of the transactions, the callers and the reconciler keeps IInv.
LEMMA StepIInv == IInv /\ [Next]_stepVars => IInv'
<1> SUFFICES ASSUME IInv, [Next]_stepVars PROVE IInv'
  OBVIOUS
<1>0. TypeOK /\ TypeOK'
  BY StepTypeOK DEF IInv
<1> USE DEF CallerState
<1>1. ASSUME NEW c \in Callers, NEW k \in Keys, ClaimSelect(c, k) PROVE IInv'
  <2>1. /\ pc' = [pc EXCEPT ![c] = "selecting"]
        /\ \A d \in Callers \ {c} : key'[d] = key[d] /\ held'[d] = held[d]
        /\ UNCHANGED <<rows, delivered>>
    BY <1>0, <1>1 DEF ClaimSelect, TypeOK
  <2> QED BY <1>0, <2>1, NoRowWritten
<1>2. ASSUME NEW c \in Callers, CallEnds(c), UNCHANGED <<rows, delivered>>
      PROVE IInv'
  BY <1>0, <1>2, CallEndsIsLocal, NoRowWritten
<1>3. ASSUME NEW c \in Callers, ClaimMemoized(c) PROVE IInv'
  <2>0. /\ pc' = [pc EXCEPT ![c] = "idle"]
        /\ \A d \in Callers \ {c} : key'[d] = key[d] /\ held'[d] = held[d]
        /\ UNCHANGED attemptStatus
    BY <1>0, <1>3, CallEndsIsLocal DEF ClaimMemoized, rows
  <2>1. OneOwner'
    <3>1. \A d \in Callers : pc'[d] = "handler" =>
            d # c /\ pc[d] = "handler" /\ key'[d] = key[d] /\ held'[d] = held[d]
      BY <1>0, <2>0 DEF TypeOK
    <3> QED BY <2>0, <3>1 DEF IInv, OneOwner
  <2>2. DeliveredIsStored'
    <3>1. /\ delivered' = delivered \union {<<key[c], output[key[c]]>>}
          /\ status[key[c]] = "COMPLETED" /\ UNCHANGED output
      BY <1>3 DEF ClaimMemoized, SeesCompleted, RowSeen, rows
    <3>2. output[key[c]] # Null
      BY <1>0, <3>1 DEF IInv, OneWinner, TypeOK
    <3> QED BY <3>1, <3>2 DEF IInv, DeliveredIsStored
  <2> QED BY <1>0, <1>3, <2>1, <2>2 DEF IInv, ClaimMemoized, rows,
             ActiveIsLatest, RunningIsRecoverable, OneWinner, Numbered, FenceHolds
<1>4. ASSUME NEW c \in Callers, ClaimStartsAttempt(c) PROVE IInv'
  <2> DEFINE k == key[c]
             n == attemptCount[k] + 1
  <2>1. /\ k \in Keys /\ n \in Attempts /\ attemptCount[k] \in Nat
        /\ status' = [status EXCEPT ![k] = "RUNNING"]
        /\ attemptCount' = [attemptCount EXCEPT ![k] = n]
        /\ activeAttempt' = [activeAttempt EXCEPT ![k] = n]
        /\ attemptStatus' = [attemptStatus EXCEPT ![k][n] = "RUNNING"]
        /\ pc' = [pc EXCEPT ![c] = "handler"]
        /\ held' = [held EXCEPT ![c] = n]
        /\ UNCHANGED <<output, key, delivered>>
    <3>1. k \in Keys /\ attemptCount[k] \in Attempts \union {Null}
      BY <1>0 DEF TypeOK
    <3>2. attemptCount[k] \in Nat
      BY <3>1, AttemptsPositive
    <3> QED BY <3>1, <3>2, <1>4 DEF ClaimStartsAttempt, NextAttempt, FenceMoves
  <2>2. status[k] # "COMPLETED"
    BY <1>4 DEF ClaimStartsAttempt, NextAttempt, FenceMoves, MayStartAttempt, SeesCompleted, RowSeen
  <2>3. output[k] = Null /\ attemptStatus[k][n] = "NoRow"
    BY <2>1, <2>2 DEF IInv, OneWinner, Numbered
  <2>4. \A i \in Keys, j \in Attempts :
           attemptStatus'[i][j] =
               IF i = k /\ j = n THEN "RUNNING" ELSE attemptStatus[i][j]
    <3>1. "RUNNING" \in AttemptStatus
      BY DEF AttemptStatus
    <3> HIDE DEF k, n
    <3> QED BY <1>0, <2>1, <3>1, SetAttemptStatus
  <2> HIDE DEF n, k
  <2>5. ActiveIsLatest'
    BY <1>0, <2>1 DEF IInv, ActiveIsLatest, TypeOK
  <2>6. RunningIsRecoverable'
    <3> SUFFICES ASSUME NEW i \in Keys, status'[i] = "RUNNING"
                 PROVE  /\ activeAttempt'[i] # Null
                        /\ attemptStatus'[i][activeAttempt'[i]] = "RUNNING"
      BY DEF RunningIsRecoverable
    <3>1. CASE i = k
      BY <1>0, <2>1, <2>4, <3>1, AttemptsPositive DEF TypeOK
    <3>2. CASE i # k
      <4>1. /\ status[i] = "RUNNING"
            /\ activeAttempt'[i] = activeAttempt[i]
        BY <1>0, <2>1, <3>2 DEF TypeOK
      <4>2. activeAttempt[i] \in Attempts
            /\ attemptStatus[i][activeAttempt[i]] = "RUNNING"
        BY <1>0, <4>1 DEF IInv, RunningIsRecoverable, TypeOK
      <4> QED BY <2>4, <3>2, <4>1, <4>2, AttemptsPositive
    <3> QED BY <3>1, <3>2
  <2>7. OneWinner'
    <3>1. \A i \in Keys : status'[i] = "COMPLETED" <=> status[i] = "COMPLETED"
      BY <1>0, <2>1, <2>2 DEF TypeOK
    <3>2. \A i \in Keys, j \in Attempts :
             attemptStatus'[i][j] = "COMPLETED" <=> attemptStatus[i][j] = "COMPLETED"
      BY <2>3, <2>4
    <3> QED BY <2>1, <3>1, <3>2 DEF IInv, OneWinner
  <2>8. Numbered'
    <3> SUFFICES ASSUME NEW i \in Keys, NEW j \in Attempts
                 PROVE  attemptStatus'[i][j] = "NoRow" <=> j > attemptCount'[i]
      BY DEF Numbered
    <3>1. attemptStatus[i][j] = "NoRow" <=> j > attemptCount[i]
      BY DEF IInv, Numbered
    <3>2. j \in Nat /\ (i = k => attemptCount'[i] = attemptCount[k] + 1)
          /\ (i # k => attemptCount'[i] = attemptCount[i])
      BY <1>0, <2>1, AttemptsPositive DEF TypeOK, n
    <3>3. n = attemptCount[k] + 1
      BY DEF n
    <3> QED BY <2>1, <2>4, <3>1, <3>2, <3>3
  <2>9. FenceHolds'
    BY <1>0, <2>1, <2>4 DEF IInv, FenceHolds, TypeOK
  <2>10. OneOwner'
    <3>1. \A d \in Callers \ {c} : pc[d] = "handler" /\ key[d] = k => held[d] # n
      BY <1>0, <2>1, <2>3 DEF IInv, OneOwner, TypeOK
    <3>2. /\ pc'[c] = "handler" /\ key'[c] = k /\ held'[c] = n
          /\ \A d \in Callers \ {c} :
                pc'[d] = pc[d] /\ key'[d] = key[d] /\ held'[d] = held[d]
      BY <1>0, <2>1 DEF TypeOK, k
    <3>3. \A d \in Callers \ {c} : pc[d] = "handler" =>
             /\ key[d] \in Keys /\ held[d] \in Attempts
             /\ attemptStatus'[key[d]][held[d]] \in {"RUNNING", "ABANDONED"}
      BY <1>0, <2>4 DEF IInv, OneOwner, TypeOK
    <3>4. attemptStatus'[k][n] = "RUNNING" /\ n # Null
      BY <2>1, <2>4, AttemptsPositive
    <3>5. \A d, e \in Callers \ {c} :
             d # e /\ pc[d] = "handler" /\ pc[e] = "handler" /\ key[e] = key[d]
                => held[e] # held[d]
      BY DEF IInv, OneOwner
    <3> SUFFICES ASSUME NEW d \in Callers, pc'[d] = "handler"
                 PROVE  /\ held'[d] # Null
                        /\ attemptStatus'[key'[d]][held'[d]]
                              \in {"RUNNING", "ABANDONED"}
                        /\ \A e \in Callers \ {d} :
                              pc'[e] = "handler" /\ key'[e] = key'[d]
                                 => held'[e] # held'[d]
      BY DEF OneOwner
    <3>6. CASE d = c
      BY <3>1, <3>2, <3>4, <3>6
    <3>7. CASE d # c
      BY <3>1, <3>2, <3>3, <3>5, <3>7, AttemptsPositive
    <3> QED BY <3>6, <3>7
  <2>11. DeliveredIsStored'
    BY <2>1 DEF IInv, DeliveredIsStored
  <2> QED BY <1>0, <2>5, <2>6, <2>7, <2>8, <2>9, <2>10, <2>11 DEF IInv
<1>5. ASSUME NEW c \in Callers, CompleteStep(c) PROVE IInv'
  <2> DEFINE k == key[c]
             n == held[c]
  <2>1. /\ k \in Keys /\ n \in Attempts /\ n # Null
        /\ attemptStatus[k][n] = "RUNNING" /\ output[k] = Null
        /\ activeAttempt[k] = n
    <3>1. pc[c] = "handler" /\ Fenced(c)
      BY <1>5 DEF CompleteStep
    <3> QED BY <3>1, FenceMeansRunning, AttemptsPositive DEF Fenced
  <2>2. /\ status' = [status EXCEPT ![k] = "COMPLETED"]
        /\ output' = [output EXCEPT ![k] = n]
        /\ attemptStatus' = [attemptStatus EXCEPT ![k][n] = "COMPLETED"]
        /\ delivered' = delivered \union {<<k, n>>}
        /\ UNCHANGED <<attemptCount, activeAttempt>>
        /\ pc[c] = "handler"
        /\ CallEnds(c)
    BY <1>5 DEF CompleteStep
  <2>3. \A i \in Keys, j \in Attempts :
           attemptStatus'[i][j] =
               IF i = k /\ j = n THEN "COMPLETED" ELSE attemptStatus[i][j]
    <3>1. "COMPLETED" \in AttemptStatus
      BY DEF AttemptStatus
    <3> HIDE DEF k, n
    <3>2. attemptStatus' = [attemptStatus EXCEPT ![k][n] = "COMPLETED"]
          /\ k \in Keys /\ n \in Attempts
      BY <2>1, <2>2
    <3> QED BY <1>0, <3>1, <3>2, SetAttemptStatus
  <2>4. /\ pc' = [pc EXCEPT ![c] = "idle"]
        /\ \A d \in Callers \ {c} : key'[d] = key[d] /\ held'[d] = held[d]
    BY <1>0, <2>2, CallEndsIsLocal
  <2>5. \A d \in Callers \ {c} :
           pc[d] = "handler" /\ key[d] = k => held[d] # n
    BY <2>2 DEF IInv, OneOwner
  <2> HIDE DEF n, k
  <2>6. ActiveIsLatest'
    BY <2>2 DEF IInv, ActiveIsLatest
  <2>7. RunningIsRecoverable'
    <3>1. \A i \in Keys : status'[i] = "RUNNING" => i # k /\ status[i] = "RUNNING"
      BY <1>0, <2>2 DEF TypeOK
    <3> QED BY <1>0, <2>2, <2>3, <3>1 DEF IInv, RunningIsRecoverable, TypeOK
  <2>8. OneWinner'
    <3>1. /\ status'[k] = "COMPLETED" /\ output'[k] = n
          /\ \A i \in Keys \ {k} : status'[i] = status[i] /\ output'[i] = output[i]
      BY <1>0, <2>1, <2>2 DEF TypeOK
    <3>2. \A j \in Attempts : attemptStatus[k][j] # "COMPLETED"
      BY <2>1, AttemptsPositive DEF IInv, OneWinner
    <3> SUFFICES ASSUME NEW i \in Keys
                 PROVE  /\ status'[i] = "COMPLETED" <=> output'[i] # Null
                        /\ \A j \in Attempts :
                              attemptStatus'[i][j] = "COMPLETED" <=> output'[i] = j
      BY DEF OneWinner
    <3>3. CASE i = k
      BY <2>1, <2>3, <3>1, <3>2, <3>3
    <3>4. CASE i # k
      BY <2>3, <3>1, <3>4 DEF IInv, OneWinner
    <3> QED BY <3>3, <3>4
  <2>9. Numbered'
    <3>1. \A i \in Keys, j \in Attempts :
             attemptStatus'[i][j] = "NoRow" <=> attemptStatus[i][j] = "NoRow"
      BY <2>1, <2>3
    <3> QED BY <2>2, <3>1 DEF IInv, Numbered
  <2>10. FenceHolds'
    <3> SUFFICES ASSUME NEW i \in Keys, activeAttempt[i] # Null
                 PROVE  /\ attemptStatus'[i][activeAttempt[i]] # "ABANDONED"
                        /\ attemptStatus'[i][activeAttempt[i]] = "RUNNING"
                              => status'[i] = "RUNNING"
      BY <2>2 DEF FenceHolds
    <3>1. activeAttempt[i] \in Attempts
      BY <1>0 DEF TypeOK
    <3>2. CASE i = k
      BY <2>1, <2>3, <3>2
    <3>3. CASE i # k
      <4>1. status'[i] = status[i]
        BY <1>0, <2>2, <3>3 DEF TypeOK
      <4> QED BY <2>3, <3>1, <3>3, <4>1 DEF IInv, FenceHolds
    <3> QED BY <3>2, <3>3
  <2>11. OneOwner'
    <3>1. \A d \in Callers : pc'[d] = "handler" =>
            d # c /\ pc[d] = "handler" /\ key'[d] = key[d] /\ held'[d] = held[d]
      BY <1>0, <2>4 DEF TypeOK
    <3>2. ASSUME NEW d \in Callers \ {c}, pc[d] = "handler"
          PROVE  attemptStatus'[key[d]][held[d]] \in {"RUNNING", "ABANDONED"}
      <4>1. key[d] \in Keys /\ held[d] \in Attempts
            /\ attemptStatus[key[d]][held[d]] \in {"RUNNING", "ABANDONED"}
        BY <1>0, <3>2 DEF IInv, OneOwner, TypeOK
      <4> QED BY <2>3, <2>5, <3>2, <4>1
    <3> QED BY <3>1, <3>2 DEF IInv, OneOwner
  <2>12. DeliveredIsStored'
    <3>1. /\ output'[k] = n
          /\ \A i \in Keys \ {k} : output'[i] = output[i]
      BY <1>0, <2>1, <2>2 DEF TypeOK
    <3>2. \A r \in delivered :
             r[1] \in Keys /\ output[r[1]] = r[2] /\ r[2] # Null
      BY <1>0 DEF IInv, DeliveredIsStored, TypeOK
    <3> QED BY <2>1, <2>2, <3>1, <3>2 DEF DeliveredIsStored
  <2> QED BY <1>0, <2>6, <2>7, <2>8, <2>9, <2>10, <2>11, <2>12 DEF IInv
<1>6. ASSUME NEW c \in Callers, NEW how \in {"FAILED", "TIMED_OUT"},
             NEW st \in {"FAILED", "RETRY_WAIT"}, FailFenced(c, how, st)
      PROVE IInv'
  <2> DEFINE k == key[c]
             n == held[c]
  <2>1. /\ k \in Keys /\ n \in Attempts /\ n # Null
        /\ attemptStatus[k][n] = "RUNNING" /\ status[k] = "RUNNING"
        /\ output[k] = Null /\ activeAttempt[k] = n
    <3>1. pc[c] = "handler" /\ Fenced(c)
      BY <1>6 DEF FailFenced
    <3> QED BY <3>1, FenceMeansRunning, AttemptsPositive DEF Fenced
  <2>2. status' = [status EXCEPT ![k] = st] /\ CallEnds(c)
    BY <1>6 DEF FailFenced
  <2>3. /\ attemptStatus' = [attemptStatus EXCEPT ![k][n] = how]
        /\ UNCHANGED <<attemptCount, activeAttempt, output, delivered>>
        /\ pc[c] = "handler"
    BY <1>6 DEF FailFenced
  <2>4. \A i \in Keys, j \in Attempts :
           attemptStatus'[i][j] =
               IF i = k /\ j = n THEN how ELSE attemptStatus[i][j]
    <3>1. how \in AttemptStatus
      BY DEF AttemptStatus
    <3> HIDE DEF k, n
    <3>2. attemptStatus' = [attemptStatus EXCEPT ![k][n] = how]
          /\ k \in Keys /\ n \in Attempts
      BY <2>1, <2>3
    <3> QED BY <1>0, <3>1, <3>2, SetAttemptStatus
  <2>5. /\ pc' = [pc EXCEPT ![c] = "idle"]
        /\ \A d \in Callers \ {c} : key'[d] = key[d] /\ held'[d] = held[d]
    BY <1>0, <2>2, CallEndsIsLocal
  <2>6. \A d \in Callers \ {c} :
           pc[d] = "handler" /\ key[d] = k => held[d] # n
    BY <2>3 DEF IInv, OneOwner
  <2> HIDE DEF n, k
  <2>7. /\ status'[k] \in {"FAILED", "RETRY_WAIT"}
        /\ \A i \in Keys \ {k} : status'[i] = status[i]
    BY <1>0, <2>1, <2>2 DEF TypeOK
  <2>8. ActiveIsLatest'
    BY <2>3 DEF IInv, ActiveIsLatest
  <2>9. RunningIsRecoverable'
    <3>1. \A i \in Keys : status'[i] = "RUNNING" => i # k /\ status[i] = "RUNNING"
      BY <2>7
    <3> QED BY <1>0, <2>3, <2>4, <3>1 DEF IInv, RunningIsRecoverable, TypeOK
  <2>10. OneWinner'
    <3>1. \A i \in Keys : status'[i] = "COMPLETED" <=> status[i] = "COMPLETED"
      BY <2>1, <2>7
    <3>2. \A i \in Keys, j \in Attempts :
             attemptStatus'[i][j] = "COMPLETED" <=> attemptStatus[i][j] = "COMPLETED"
      BY <2>1, <2>4
    <3> QED BY <2>3, <3>1, <3>2 DEF IInv, OneWinner
  <2>11. Numbered'
    <3>1. \A i \in Keys, j \in Attempts :
             attemptStatus'[i][j] = "NoRow" <=> attemptStatus[i][j] = "NoRow"
      BY <2>1, <2>4
    <3> QED BY <2>3, <3>1 DEF IInv, Numbered
  <2>12. FenceHolds'
    <3> SUFFICES ASSUME NEW i \in Keys, activeAttempt[i] # Null
                 PROVE  /\ attemptStatus'[i][activeAttempt[i]] # "ABANDONED"
                        /\ attemptStatus'[i][activeAttempt[i]] = "RUNNING"
                              => status'[i] = "RUNNING"
      BY <2>3 DEF FenceHolds
    <3>1. activeAttempt[i] \in Attempts
      BY <1>0 DEF TypeOK
    <3>2. CASE i = k
      BY <2>1, <2>4, <3>2
    <3>3. CASE i # k
      BY <2>4, <2>7, <3>1, <3>3 DEF IInv, FenceHolds
    <3> QED BY <3>2, <3>3
  <2>13. OneOwner'
    <3>1. \A d \in Callers : pc'[d] = "handler" =>
            d # c /\ pc[d] = "handler" /\ key'[d] = key[d] /\ held'[d] = held[d]
      BY <1>0, <2>5 DEF TypeOK
    <3>2. ASSUME NEW d \in Callers \ {c}, pc[d] = "handler"
          PROVE  attemptStatus'[key[d]][held[d]] \in {"RUNNING", "ABANDONED"}
      <4>1. key[d] \in Keys /\ held[d] \in Attempts
            /\ attemptStatus[key[d]][held[d]] \in {"RUNNING", "ABANDONED"}
        BY <1>0, <3>2 DEF IInv, OneOwner, TypeOK
      <4> QED BY <2>4, <2>6, <3>2, <4>1
    <3> QED BY <3>1, <3>2 DEF IInv, OneOwner
  <2>14. DeliveredIsStored'
    BY <2>3 DEF IInv, DeliveredIsStored
  <2> QED BY <1>0, <2>8, <2>9, <2>10, <2>11, <2>12, <2>13, <2>14 DEF IInv
<1>7. ASSUME NEW c \in Callers, RenewLease(c) PROVE IInv'
  BY <1>0, <1>7 DEF RenewLease, callers, rows, IInv, ActiveIsLatest,
     RunningIsRecoverable, OneWinner, OneOwner, Numbered, FenceHolds,
     DeliveredIsStored
<1>8. ASSUME NEW k \in Keys, NEW n \in Attempts, Abandon(k, n) PROVE IInv'
  <2>1. /\ attemptStatus' = [attemptStatus EXCEPT ![k][n] = "ABANDONED"]
        /\ attemptStatus[k][n] = "RUNNING"
        /\ UNCHANGED <<attemptCount, output, callers, delivered>>
    BY <1>8 DEF Abandon, LeaseExpired
  <2>2. \A i \in Keys, j \in Attempts :
           attemptStatus'[i][j] =
               IF i = k /\ j = n THEN "ABANDONED" ELSE attemptStatus[i][j]
    <3>1. "ABANDONED" \in AttemptStatus
      BY DEF AttemptStatus
    <3> QED BY <1>0, <2>1, <3>1, SetAttemptStatus
  <2>3. \/ activeAttempt[k] # n /\ UNCHANGED <<status, activeAttempt>>
        \/ /\ activeAttempt[k] = n
           /\ activeAttempt' = [activeAttempt EXCEPT ![k] = Null]
           /\ \E st \in {"RETRY_WAIT", "FAILED"} :
                 status' = [status EXCEPT ![k] = st]
    BY <1>8 DEF Abandon, ReleaseStep
  <2>4. /\ \A i \in Keys \ {k} :
              status'[i] = status[i] /\ activeAttempt'[i] = activeAttempt[i]
        /\ \/ /\ activeAttempt[k] # n
              /\ status'[k] = status[k] /\ activeAttempt'[k] = activeAttempt[k]
           \/ /\ activeAttempt[k] = n /\ activeAttempt'[k] = Null
              /\ status'[k] \in {"RETRY_WAIT", "FAILED"}
    BY <1>0, <2>3 DEF TypeOK
  <2>5. ActiveIsLatest'
    BY <2>1, <2>4 DEF IInv, ActiveIsLatest
  <2>6. RunningIsRecoverable'
    <3> SUFFICES ASSUME NEW i \in Keys, status'[i] = "RUNNING"
                 PROVE  /\ activeAttempt'[i] # Null
                        /\ attemptStatus'[i][activeAttempt'[i]] = "RUNNING"
      BY DEF RunningIsRecoverable
    <3>1. /\ status[i] = "RUNNING" /\ activeAttempt'[i] = activeAttempt[i]
          /\ ~(i = k /\ activeAttempt[i] = n)
      BY <2>4
    <3>2. activeAttempt[i] \in Attempts
          /\ attemptStatus[i][activeAttempt[i]] = "RUNNING"
      BY <1>0, <3>1 DEF IInv, RunningIsRecoverable, TypeOK
    <3> QED BY <2>2, <3>1, <3>2, AttemptsPositive
  <2>7. OneWinner'
    <3>1. \A i \in Keys : status'[i] = "COMPLETED" <=> status[i] = "COMPLETED"
      BY <2>1, <2>4, AttemptsPositive DEF IInv, FenceHolds
    <3>2. \A i \in Keys, j \in Attempts :
             attemptStatus'[i][j] = "COMPLETED" <=> attemptStatus[i][j] = "COMPLETED"
      BY <2>1, <2>2
    <3> QED BY <2>1, <3>1, <3>2 DEF IInv, OneWinner
  <2>8. Numbered'
    <3>1. \A i \in Keys, j \in Attempts :
             attemptStatus'[i][j] = "NoRow" <=> attemptStatus[i][j] = "NoRow"
      BY <2>1, <2>2
    <3> QED BY <2>1, <3>1 DEF IInv, Numbered
  <2>9. FenceHolds'
    <3> SUFFICES ASSUME NEW i \in Keys, activeAttempt'[i] # Null
                 PROVE  /\ attemptStatus'[i][activeAttempt'[i]] # "ABANDONED"
                        /\ attemptStatus'[i][activeAttempt'[i]] = "RUNNING"
                              => status'[i] = "RUNNING"
      BY DEF FenceHolds
    <3>1. /\ activeAttempt'[i] = activeAttempt[i] /\ status'[i] = status[i]
          /\ ~(i = k /\ activeAttempt[i] = n)
      BY <2>4
    <3>2. activeAttempt[i] \in Attempts
      BY <1>0, <3>1 DEF TypeOK
    <3> QED BY <2>2, <3>1, <3>2 DEF IInv, FenceHolds
  <2>10. OneOwner'
    <3>1. ASSUME NEW d \in Callers, pc[d] = "handler"
          PROVE  attemptStatus'[key[d]][held[d]] \in {"RUNNING", "ABANDONED"}
      <4>1. key[d] \in Keys /\ held[d] \in Attempts
            /\ attemptStatus[key[d]][held[d]] \in {"RUNNING", "ABANDONED"}
        BY <1>0, <3>1 DEF IInv, OneOwner, TypeOK
      <4> QED BY <2>2, <4>1
    <3> QED BY <2>1, <3>1 DEF IInv, OneOwner, callers
  <2>11. DeliveredIsStored'
    BY <2>1 DEF IInv, DeliveredIsStored
  <2> QED BY <1>0, <2>5, <2>6, <2>7, <2>8, <2>9, <2>10, <2>11 DEF IInv
<1>9. ASSUME UNCHANGED <<rows, pc, key, held, delivered>> PROVE IInv'
  BY <1>0, <1>9 DEF rows, IInv, ActiveIsLatest, RunningIsRecoverable,
     OneWinner, OneOwner, Numbered, FenceHolds, DeliveredIsStored
<1>10. ASSUME NEW c \in Callers,
              ClaimSuspends(c) \/ ClaimCollides(c) \/ RejectStale(c) \/ CallLost(c)
       PROVE IInv'
  BY <1>2, <1>10 DEF ClaimSuspends, ClaimCollides, RejectStale, CallLost
<1>11. ASSUME Tick \/ UNCHANGED stepVars PROVE IInv'
  BY <1>9, <1>11 DEF Tick, stepVars, callers
<1>12. ASSUME NEW c \in Callers, HandlerEnds(c) PROVE IInv'
  BY <1>5, <1>6, <1>10, <1>12 DEF HandlerEnds, FailTerminally, FailAndRetry
<1> QED
  BY <1>1, <1>3, <1>4, <1>7, <1>8, <1>10, <1>11, <1>12 DEF Next, ClaimDecides

\* IInv holds in every reachable state.
THEOREM Inductive == Spec => []IInv
BY InitIInv, StepIInv, PTL DEF Spec

----------------------------------------------------------------------------
(* The safety properties, each from the inductive invariant.                *)

\* The fence of a step names its newest attempt or none (ActiveIsLatest).
THEOREM FenceIsNewest == Spec => []ActiveIsLatest
<1>1. IInv => ActiveIsLatest
  BY DEF IInv
<1> QED BY <1>1, Inductive, PTL

\* A RUNNING step always names an attempt the reconciler can find.
THEOREM Recoverable == Spec => []RunningIsRecoverable
<1>1. IInv => RunningIsRecoverable
  BY DEF IInv
<1> QED BY <1>1, Inductive, PTL

\* At most one attempt of a step is ever COMPLETED, and it is the step's output.
THEOREM AtMostOneWinner == Spec => []OneWinner
<1>1. IInv => OneWinner
  BY DEF IInv
<1> QED BY <1>1, Inductive, PTL

\* An attempt is owned by at most one caller and committed at most once.
THEOREM AttemptHasOneOwner == Spec => []OneOwner
<1>1. IInv => OneOwner
  BY DEF IInv
<1> QED BY <1>1, Inductive, PTL

\* All executions that get a result for a step key get the same one.
THEOREM ReplayIsDeterministic == Spec => []ReplayAgrees
<1>1. IInv => ReplayAgrees
  BY DEF IInv, DeliveredIsStored, ReplayAgrees
<1> QED BY <1>1, Inductive, PTL

----------------------------------------------------------------------------
(* The action properties, and the refinement of DurableStep.  All three rest *)
(* on what a step may do to a row that is COMPLETED, or to an attempt that   *)
(* is settled: nothing.                                                      *)

\* Which actions write a step's status, output or attempt_count at all, and in
\* what state they find the step; and where a returned result comes from.
LEMMA RowWrites ==
    ASSUME IInv, Next
    PROVE  \/ /\ UNCHANGED <<output, delivered>>
              /\ \A k \in Keys : status[k] = "COMPLETED" =>
                    status'[k] = status[k] /\ attemptCount'[k] = attemptCount[k]
           \/ /\ UNCHANGED <<status, output, attemptCount>>
              /\ \E k \in Keys :
                    /\ output[k] # Null
                    /\ delivered' = delivered \union {<<k, output[k]>>}
           \/ /\ UNCHANGED attemptCount
              /\ \E k \in Keys, n \in Attempts :
                    /\ status[k] = "RUNNING" /\ output[k] = Null
                    /\ \A i \in Keys \ {k} : status'[i] = status[i]
                    /\ output' = [output EXCEPT ![k] = n]
                    /\ delivered' = delivered \union {<<k, n>>}
<1> DEFINE Quiet == /\ UNCHANGED <<output, delivered>>
                    /\ \A k \in Keys : status[k] = "COMPLETED" =>
                          /\ status'[k] = status[k]
                          /\ attemptCount'[k] = attemptCount[k]
<1>0. TypeOK
  BY DEF IInv
<1>1. ASSUME UNCHANGED <<rows, delivered>> PROVE Quiet
  BY <1>1 DEF rows
<1>2. ASSUME NEW c \in Callers, ClaimStartsAttempt(c) PROVE Quiet
  <2>1. status[key[c]] # "COMPLETED"
    BY <1>2 DEF ClaimStartsAttempt, NextAttempt, FenceMoves, MayStartAttempt, SeesCompleted, RowSeen
  <2> QED BY <1>0, <1>2, <2>1 DEF ClaimStartsAttempt, NextAttempt, FenceMoves, TypeOK
<1>3. ASSUME NEW c \in Callers, NEW how, NEW st, FailFenced(c, how, st)
      PROVE Quiet
  <2>1. status[key[c]] = "RUNNING"
    BY <1>3, FenceMeansRunning DEF FailFenced
  <2> QED BY <1>0, <1>3, <2>1 DEF FailFenced, TypeOK
<1>4. ASSUME NEW k \in Keys, NEW n \in Attempts, Abandon(k, n) PROVE Quiet
  <2>1. UNCHANGED <<output, delivered, attemptCount>>
    BY <1>4 DEF Abandon
  <2>2. CASE activeAttempt[k] # n
    BY <1>4, <2>1, <2>2 DEF Abandon
  <2>3. CASE activeAttempt[k] = n
    <3>1. status[k] = "RUNNING"
      BY <1>4, <2>3, AttemptsPositive DEF Abandon, LeaseExpired, IInv, FenceHolds
    <3>2. \E st \in {"RETRY_WAIT", "FAILED"} :
             status' = [status EXCEPT ![k] = st]
      BY <1>4, <2>3 DEF Abandon, ReleaseStep
    <3> QED BY <1>0, <2>1, <3>1, <3>2 DEF TypeOK
  <2> QED BY <2>2, <2>3
<1>5. ASSUME NEW c \in Callers, ClaimMemoized(c)
      PROVE  /\ UNCHANGED <<status, output, attemptCount>>
             /\ key[c] \in Keys /\ output[key[c]] # Null
             /\ delivered' = delivered \union {<<key[c], output[key[c]]>>}
  <2>1. key[c] \in Keys
    BY <1>0 DEF TypeOK
  <2> QED BY <1>5, <2>1 DEF ClaimMemoized, SeesCompleted, RowSeen, rows, IInv, OneWinner
<1>6. ASSUME NEW c \in Callers, CompleteStep(c)
      PROVE  /\ UNCHANGED attemptCount
             /\ key[c] \in Keys /\ held[c] \in Attempts
             /\ status[key[c]] = "RUNNING" /\ output[key[c]] = Null
             /\ \A i \in Keys \ {key[c]} : status'[i] = status[i]
             /\ output' = [output EXCEPT ![key[c]] = held[c]]
             /\ delivered' = delivered \union {<<key[c], held[c]>>}
  <2>1. pc[c] = "handler" /\ Fenced(c)
    BY <1>6 DEF CompleteStep
  <2>2. /\ key[c] \in Keys /\ held[c] \in Attempts
        /\ status[key[c]] = "RUNNING" /\ output[key[c]] = Null
    BY <2>1, FenceMeansRunning
  <2> QED BY <1>0, <1>6, <2>2 DEF CompleteStep, TypeOK
<1>7. ASSUME NEW c \in Callers, NEW k \in Keys,
             ClaimSelect(c, k) \/ ClaimSuspends(c) \/ ClaimCollides(c)
                \/ RejectStale(c) \/ RenewLease(c) \/ CallLost(c)
      PROVE Quiet
  BY <1>1, <1>7 DEF ClaimSelect, ClaimSuspends, ClaimCollides, RejectStale,
     RenewLease, CallLost
<1>8. ASSUME Tick PROVE Quiet
  BY <1>1, <1>8 DEF Tick
<1>9. CASE \E k \in Keys, n \in Attempts : Abandon(k, n)
  BY <1>4, <1>9
<1>10. CASE Tick
  BY <1>8, <1>10
<1>11. ASSUME NEW c \in Callers,
              (\E k \in Keys : ClaimSelect(c, k)) \/ ClaimDecides(c)
                 \/ HandlerEnds(c) \/ RenewLease(c) \/ CallLost(c)
       PROVE  Quiet \/ ClaimMemoized(c) \/ CompleteStep(c)
  <2>1. key[c] \in Keys
    BY <1>0 DEF TypeOK
  <2> HIDE DEF Quiet
  <2> QED BY <1>2, <1>3, <1>7, <1>11, <2>1
          DEF ClaimDecides, HandlerEnds, FailTerminally, FailAndRetry
<1>12. CASE \E c \in Callers :
              (\E k \in Keys : ClaimSelect(c, k)) \/ ClaimDecides(c)
                 \/ HandlerEnds(c) \/ RenewLease(c) \/ CallLost(c)
  <2>1. PICK c \in Callers : Quiet \/ ClaimMemoized(c) \/ CompleteStep(c)
    <3> HIDE DEF Quiet
    <3> QED BY <1>11, <1>12
  <2>2. CASE Quiet
    BY <2>2
  <2>3. CASE ClaimMemoized(c)
    BY <1>5, <2>3
  <2>4. CASE CompleteStep(c)
    BY <1>6, <2>4
  <2> QED BY <2>1, <2>2, <2>3, <2>4
<1> QED BY <1>9, <1>10, <1>12 DEF Next

\* A COMPLETED step is never executed, failed, abandoned or overwritten again.
THEOREM CompletedStays == Spec => CompletedIsFinal
<1> DEFINE Final == \A k \in Keys : status[k] = "COMPLETED" =>
                       /\ status'[k] = "COMPLETED"
                       /\ output'[k] = output[k]
                       /\ attemptCount'[k] = attemptCount[k]
<1>1. IInv /\ [Next]_stepVars => [Final]_stepVars
  <2> SUFFICES ASSUME IInv, Next PROVE Final
    OBVIOUS
  <2>1. TypeOK
    BY DEF IInv
  <2> QED BY <2>1, RowWrites DEF TypeOK
<1> QED BY <1>1, Inductive, PTL DEF Spec, CompletedIsFinal

\* The record of a settled attempt is never rewritten.
THEOREM SettledStays == Spec => SettledIsFinal
<1> DEFINE Final == \A k \in Keys, n \in Attempts :
                       attemptStatus[k][n] \in Settled =>
                           attemptStatus'[k][n] = attemptStatus[k][n]
<1>1. IInv /\ [Next]_stepVars => [Final]_stepVars
  <2> SUFFICES ASSUME IInv, Next PROVE Final
    OBVIOUS
  <2>0. TypeOK
    BY DEF IInv
  <2>1. ASSUME NEW k \in Keys, NEW n \in Attempts, NEW v \in AttemptStatus,
               attemptStatus[k][n] \notin Settled,
               attemptStatus' = [attemptStatus EXCEPT ![k][n] = v]
        PROVE  Final
    BY <2>0, <2>1, SetAttemptStatus
  <2>2. ASSUME UNCHANGED attemptStatus PROVE Final
    BY <2>2
  <2>3. {"RUNNING", "COMPLETED", "FAILED", "TIMED_OUT", "ABANDONED"}
           \subseteq AttemptStatus
    BY DEF AttemptStatus
  <2>4. ASSUME NEW c \in Callers, ClaimStartsAttempt(c) PROVE Final
    <3> DEFINE k == key[c]
               n == attemptCount[k] + 1
    <3>1. k \in Keys /\ n \in Attempts /\ attemptCount[k] \in Nat
      <4>1. k \in Keys /\ attemptCount[k] \in Attempts \union {Null}
        BY <2>0 DEF TypeOK
      <4>2. attemptCount[k] \in Nat
        BY <4>1, AttemptsPositive
      <4> QED BY <2>4, <4>1, <4>2 DEF ClaimStartsAttempt, NextAttempt, FenceMoves
    <3>2. attemptStatus[k][n] = "NoRow"
      BY <3>1 DEF IInv, Numbered
    <3>3. attemptStatus' = [attemptStatus EXCEPT ![k][n] = "RUNNING"]
      BY <2>4 DEF ClaimStartsAttempt, NextAttempt, FenceMoves
    <3>4. attemptStatus[k][n] \notin Settled
      BY <3>2 DEF Settled
    <3> HIDE DEF k, n, Final
    <3> QED BY <2>1, <2>3, <3>1, <3>3, <3>4
  <2>5. ASSUME NEW c \in Callers, NEW how \in {"COMPLETED", "FAILED", "TIMED_OUT"},
               pc[c] = "handler", Fenced(c),
               attemptStatus' = [attemptStatus EXCEPT ![key[c]][held[c]] = how]
        PROVE  Final
    <3>1. /\ key[c] \in Keys /\ held[c] \in Attempts
          /\ attemptStatus[key[c]][held[c]] = "RUNNING"
      BY <2>5, FenceMeansRunning
    <3>2. attemptStatus[key[c]][held[c]] \notin Settled /\ how \in AttemptStatus
      BY <2>3, <3>1 DEF Settled
    <3> HIDE DEF Final
    <3> QED BY <2>1, <2>5, <3>1, <3>2
  <2>6. ASSUME NEW k \in Keys, NEW n \in Attempts, Abandon(k, n) PROVE Final
    <3>1. /\ attemptStatus' = [attemptStatus EXCEPT ![k][n] = "ABANDONED"]
          /\ attemptStatus[k][n] \notin Settled
      BY <2>6 DEF Abandon, LeaseExpired, Settled
    <3> HIDE DEF Final
    <3> QED BY <2>1, <2>3, <3>1
  <2>7. ASSUME NEW c \in Callers, HandlerEnds(c) PROVE Final
    <3>1. CASE CompleteStep(c)
      BY <2>5, <3>1 DEF CompleteStep
    <3>2. CASE \E how \in {"FAILED", "TIMED_OUT"} :
                 FailTerminally(c, how) \/ FailAndRetry(c, how)
      BY <2>5, <3>2 DEF FailTerminally, FailAndRetry, FailFenced
    <3>3. CASE RejectStale(c)
      BY <2>2, <3>3 DEF RejectStale, rows
    <3> QED BY <2>7, <3>1, <3>2, <3>3 DEF HandlerEnds
  <2>8. ASSUME NEW c \in Callers, NEW k \in Keys,
               ClaimSelect(c, k) \/ ClaimMemoized(c) \/ ClaimSuspends(c)
                  \/ ClaimCollides(c) \/ RenewLease(c) \/ CallLost(c)
        PROVE  Final
    BY <2>2, <2>8 DEF ClaimSelect, ClaimMemoized, ClaimSuspends, ClaimCollides,
       RenewLease, CallLost, rows
  <2>9. CASE Tick
    BY <2>2, <2>9 DEF Tick, rows
  <2>10. \A c \in Callers : key[c] \in Keys
    BY <2>0 DEF TypeOK
  <2> HIDE DEF Final
  <2> QED BY <2>4, <2>6, <2>7, <2>8, <2>9, <2>10 DEF Next, ClaimDecides
<1> QED BY <1>1, Inductive, PTL DEF Spec, SettledIsFinal

\* Each step key is a write-once register: StepFencing implements DurableStep,
\* with a step's stored output as the result of its key.
THEOREM ImplementsDurableStep == Spec => WriteOnce
<1>1. Init => Promise!Init
  BY DEF Init, Promise!Init
<1>2. IInv /\ [Next]_stepVars => [Promise!Next]_(Promise!vars)
  <2> SUFFICES ASSUME IInv, [Next]_stepVars PROVE [Promise!Next]_(Promise!vars)
    OBVIOUS
  <2>1. CASE Next
    BY <2>1, RowWrites DEF Promise!Next, Promise!vars, Promise!Commit, Promise!Replay
  <2>2. CASE UNCHANGED stepVars
    BY <2>2 DEF stepVars, rows, Promise!vars
  <2> QED BY <2>1, <2>2
<1> QED BY <1>1, <1>2, Inductive, PTL DEF Spec, WriteOnce, Promise!Spec
============================================================================
