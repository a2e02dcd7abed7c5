------------------------- MODULE FailureCauses_proofs --------------------------
(***************************************************************************)
(* Proofs about what fails a run whose handler awaits one step at a time:   *)
(* while no worker crashes, Redis keeps its data and the database refuses   *)
(* no transaction there is one job that waits for a worker or one live      *)
(* pass, never two, so the step for which a pass fails the run is still     *)
(* FAILED when the statement that writes FAILED commits.                    *)
(***************************************************************************)
EXTENDS SequentialRuns_proofs

USE CallersAssumption, StageAssumption

----------------------------------------------------------------------------
(* Steps, fences and passes.                                                *)

\* Of steps that follow one another, one at most has begun and not completed.
LEMMA OnlyOneOpen ==
    ASSUME Sequential, StagesInOrder, NEW i \in Keys, NEW k \in Keys,
           status[i] \notin {"NoRow", "COMPLETED"},
           status[k] \notin {"NoRow", "COMPLETED"}
    PROVE  i = k
<1>1. Stage[i] \in Nat /\ Stage[k] \in Nat
  OBVIOUS
<1>2. ~ (Stage[i] < Stage[k]) /\ ~ (Stage[k] < Stage[i])
  BY DEF StagesInOrder, Before
<1> QED BY <1>1, <1>2 DEF Sequential

\* A call that does not have the fence does not get it back.
LEMMA FenceNotRegained ==
    ASSUME IInv, [Next]_stepVars, NEW c \in Callers, pc[c] = "handler",
           pc'[c] = "handler", held'[c] = held[c], key'[c] = key[c], Fenced(c)'
    PROVE  Fenced(c)
<1>0. /\ TypeOK /\ key[c] \in Keys /\ held[c] \in Attempts /\ held[c] # Null
      /\ attemptStatus[key[c]][held[c]] # "NoRow"
  BY DEF IInv, TypeOK, OneOwner
<1>1. held[c] \in Nat /\ attemptCount[key[c]] \in Nat /\ ~ (held[c] > attemptCount[key[c]])
  BY <1>0, AttemptsPositive DEF IInv, Numbered, TypeOK
<1>2. ASSUME NEW d \in Callers, ClaimStartsAttempt(d) PROVE Fenced(c)
  <2>1. activeAttempt' = [activeAttempt EXCEPT ![key[d]] = attemptCount[key[d]] + 1]
    BY <1>2 DEF ClaimStartsAttempt, FenceMoves, NextAttempt
  <2>2. CASE key[d] = key[c]
    BY <1>0, <1>1, <2>1, <2>2 DEF Fenced, TypeOK
  <2>3. CASE key[d] # key[c]
    BY <1>0, <2>1, <2>3 DEF Fenced, TypeOK
  <2> QED BY <2>2, <2>3
<1>3. ASSUME NEW k \in Keys, NEW n \in Attempts, Abandon(k, n) PROVE Fenced(c)
  <2>1. \/ UNCHANGED activeAttempt
        \/ activeAttempt' = [activeAttempt EXCEPT ![k] = Null]
    BY <1>3 DEF Abandon, ReleaseStep
  <2> QED BY <1>0, <2>1 DEF Fenced, TypeOK
<1>4. UNCHANGED activeAttempt => Fenced(c)
  BY DEF Fenced
<1>5. ASSUME NEW d \in Callers,
             \/ ClaimDecides(d) /\ ~ ClaimStartsAttempt(d)
             \/ HandlerEnds(d) \/ RenewLease(d) \/ CallLost(d)
             \/ \E k \in Keys : ClaimSelect(d, k)
      PROVE  Fenced(c)
  BY <1>4, <1>5 DEF ClaimDecides, ClaimMemoized, ClaimSuspends, ClaimCollides, HandlerEnds,
     CompleteStep, FailTerminally, FailAndRetry, FailFenced, RejectStale, RenewLease,
     CallLost, ClaimSelect, rows
<1>6. CASE Tick \/ UNCHANGED stepVars
  BY <1>4, <1>6 DEF Tick, stepVars, rows
<1> HIDE DEF stepVars
<1> QED BY <1>2, <1>3, <1>5, <1>6 DEF Next

\* A pass that a step leaves alone does not come to life.
LEMMA LiveNotGained ==
    ASSUME EngineInv, [EngineNext]_vars, NEW t \in Slots, Live(t)',
           slot'[t] = slot[t], rejection'[t] = rejection[t],
           \A k \in Keys : pc'[<<t, k>>] = pc[<<t, k>>] /\ held'[<<t, k>>] = held[<<t, k>>]
    PROVE  Live(t)
<1>1. IInv /\ [Next]_stepVars /\ \A k \in Keys : <<t, k>> \in Callers
  BY EngineStepIsStep, CallIsCaller DEF EngineInv
<1>2. \A k \in Keys : key[<<t, k>>] = k /\ key'[<<t, k>>] = k
  <2>1. EngineInv'
    BY EngineInvStep
  <2> QED BY <2>1 DEF EngineInv, PassOK
<1>3. ASSUME NEW k \in Keys, pc[<<t, k>>] = "handler", Fenced(<<t, k>>)'
      PROVE  Fenced(<<t, k>>)
  BY <1>1, <1>2, <1>3, FenceNotRegained
<1> QED BY <1>3 DEF Live

\* A pass with a claim under way, or a handler that has the fence, is live.
LEMMA CallerIsLive ==
    ASSUME Sequential, NEW s \in Slots, PassOK(s), OneAtATime(s), slot[s] = "handler",
           NEW k \in Keys, pc[<<s, k>>] # "idle",
           pc[<<s, k>>] = "handler" => Fenced(<<s, k>>)
    PROVE  Live(s) /\ rejection[s] = "none"
<1>1. rejection[s] = "none"
  BY DEF OneAtATime
<1>2. \A i \in Keys : pc[<<s, i>>] = "handler" => i = k
  BY OneCall
<1> QED BY <1>1, <1>2 DEF Live

----------------------------------------------------------------------------
(* Steps that make no token, and change no row.                             *)

LEMMA TokenFrame ==
    ASSUME IInv, RowsCounted, TokenInv,
           UNCHANGED <<status, attemptCount>>,
           \A t \in Slots : Live(t)' => Live(t),
           \A j \in JobIds : job'[j] = "queued" => job[j] = "queued",
           \A j \in JobIds : job[j] # "absent" => job'[j] # "absent",
           runStatus' = "FAILED" =>
               runStatus = "FAILED" \/ (~ Token' /\ \E k \in Keys : status[k] = "FAILED"),
           \A r \in Retriers : request'[r] = "retrying" =>
               request[r] = "retrying" \/ runStatus = "FAILED",
           \A t \in Slots : slot[t] = "idle" => slot'[t] = "idle",
           \A t \in Slots, k \in Keys : pc'[<<t, k>>] = "selecting" =>
               \/ /\ pc[<<t, k>>] = "selecting"
                  /\ snapshot'[<<t, k>>].row = snapshot[<<t, k>>].row
               \/ snapshot'[<<t, k>>].row <=> status[k] # "NoRow",
           \A t \in Slots, k \in Keys :
               slot[t] = "handler" /\ pc[<<t, k>>] = "handler" /\ Fenced(<<t, k>>)
               => slot'[t] = "handler" /\ pc'[<<t, k>>] = "handler" /\ Fenced(<<t, k>>)',
           \A t \in Slots :
               slot'[t] = "fail" \/ (slot'[t] = "handler" /\ rejection'[t] = "error")
               => slot[t] = "fail" \/ (slot[t] = "handler" /\ rejection[t] = "error")
    PROVE  TokenInv'
<1>1. Token' => Token
  BY DEF Token, Queued
<1>2. OneToken'
  BY DEF OneToken, Queued, TokenInv
<1>3. RetryTaken'
  <2>1. \A k \in Keys : status[k] = "RETRY_WAIT" => RetryJob(k, attemptCount[k]) \in JobIds
    BY RowHasAttempt, JobIdsDiffer
  <2> QED BY <1>1, <2>1 DEF RetryTaken, TokenInv
<1>4. FailureRests'
  BY <1>1 DEF FailureRests, TokenInv
<1>5. FirstJobFirst'
  BY JobIdsDiffer DEF FirstJobFirst, Queued, TokenInv
<1>6. RunningIsHeld'
  BY DEF RunningIsHeld, TokenInv
<1>7. SelectionHolds'
  BY DEF SelectionHolds, TokenInv
<1>8. ErrorHasCause'
  BY DEF ErrorHasCause, TokenInv
<1> QED BY <1>2, <1>3, <1>4, <1>5, <1>6, <1>7, <1>8 DEF TokenInv

\* A slot that has no call under way and moves on, or is freed.
LEMMA SlotTokenFrame ==
    ASSUME EngineInv, RowsCounted, TokenInv, [EngineNext]_vars, NEW s \in Slots,
           UNCHANGED stepVars, UNCHANGED request,
           \A k \in Keys : pc[<<s, k>>] = "idle",
           slot[s] # "idle", Live(s)' => Live(s),
           \A t \in Slots \ {s} : slot'[t] = slot[t] /\ rejection'[t] = rejection[t],
           slot'[s] = "fail" \/ (slot'[s] = "handler" /\ rejection'[s] = "error")
               => slot[s] = "fail" \/ (slot[s] = "handler" /\ rejection[s] = "error"),
           \A j \in JobIds : job'[j] = "queued" => job[j] = "queued",
           \A j \in JobIds : job[j] # "absent" => job'[j] # "absent",
           runStatus' = "FAILED" =>
               runStatus = "FAILED" \/ (~ Token' /\ \E k \in Keys : status[k] = "FAILED")
    PROVE  TokenInv'
<1>1. UNCHANGED <<status, attemptCount, activeAttempt, pc, held, key, snapshot>>
  BY DEF stepVars, rows, callers
<1>2. IInv
  BY DEF EngineInv
<1>3. \A t \in Slots : Live(t)' => Live(t)
  BY <1>1, LiveNotGained
<1>4. \A t \in Slots, k \in Keys : pc[<<t, k>>] # "idle" => t # s
  OBVIOUS
<1> QED BY <1>1, <1>2, <1>3, <1>4, TokenFrame DEF Fenced

\* The jobs when one ends.
LEMMA KeptJobs ==
    ASSUME EngineTypeOK, NEW s \in Slots
    PROVE  \A j \in JobIds :
               /\ Kept(job, slotJob[s])[j] = "queued" <=> job[j] = "queued"
               /\ Kept(job, slotJob[s])[j] = "absent" <=> job[j] = "absent"
BY DEF Kept, EngineTypeOK

LEMMA FreedIsNotLive ==
    ASSUME EngineTypeOK, NEW s \in Slots, SlotFreed(s)
    PROVE  /\ slot'[s] = "idle" /\ ~ Live(s)'
           /\ \A t \in Slots \ {s} : slot'[t] = slot[t] /\ rejection'[t] = rejection[t]
<1>1. /\ slot'[s] = "idle"
      /\ \A t \in Slots \ {s} : slot'[t] = slot[t] /\ rejection'[t] = rejection[t]
  BY DEF SlotFreed, EngineTypeOK
<1> QED BY <1>1 DEF Live

\* A job that ends, with nothing in its place, but for the run's status.
LEMMA EndTokenFrame ==
    ASSUME EngineInv, RowsCounted, TokenInv, [EngineNext]_vars, NEW s \in Slots,
           JobEnds(s), UNCHANGED stepVars, UNCHANGED request, slot[s] # "idle",
           \A k \in Keys : pc[<<s, k>>] = "idle",
           runStatus' = "FAILED" =>
               runStatus = "FAILED" \/ (~ Token' /\ \E k \in Keys : status[k] = "FAILED")
    PROVE  TokenInv'
<1>1. EngineTypeOK /\ SlotFreed(s) /\ job' = Kept(job, slotJob[s])
  BY DEF EngineInv, JobEnds
<1>2. \A j \in JobIds : /\ job'[j] = "queued" => job[j] = "queued"
                        /\ job[j] # "absent" => job'[j] # "absent"
  BY <1>1, KeptJobs
<1>3. /\ slot'[s] = "idle" /\ ~ Live(s)'
      /\ \A t \in Slots \ {s} : slot'[t] = slot[t] /\ rejection'[t] = rejection[t]
  BY <1>1, FreedIsNotLive
<1> QED BY <1>2, <1>3, SlotTokenFrame

\* A live pass that moves on.
LEMMA MoveTokenFrame ==
    ASSUME EngineInv, RowsCounted, TokenInv, [EngineNext]_vars, NEW s \in Slots,
           NEW where, Goto(s, where), UNCHANGED job,
           UNCHANGED stepVars, UNCHANGED request, slot[s] # "idle",
           \A k \in Keys : pc[<<s, k>>] = "idle",
           Live(s) \/ where = "suspend",
           where = "fail" => slot[s] = "handler" /\ rejection[s] = "error",
           where = "handler" => rejection[s] # "error",
           runStatus' = "FAILED" => runStatus = "FAILED"
    PROVE  TokenInv'
<1>1. EngineTypeOK
  BY DEF EngineInv
<1>2. /\ slot'[s] = where /\ rejection'[s] = rejection[s]
      /\ \A t \in Slots \ {s} : slot'[t] = slot[t] /\ rejection'[t] = rejection[t]
  BY <1>1 DEF Goto, passVars, EngineTypeOK
<1>3. Live(s)' => Live(s)
  BY <1>2 DEF Live
<1> QED BY <1>2, <1>3, SlotTokenFrame

\* A pass that will fail the run is live.
LEMMA ErrorIsLive ==
    ASSUME NEW t \in Slots, OneAtATime(t),
           slot[t] = "fail" \/ (slot[t] = "handler" /\ rejection[t] = "error")
    PROVE  Live(t)
<1>1. slot[t] = "handler" => \A k \in Keys : pc[<<t, k>>] = "idle"
  BY DEF OneAtATime
<1> QED BY <1>1 DEF Live

\* When the one live pass ends there is no token.
LEMMA LastTokenEnds ==
    ASSUME EngineInv, OneToken, [EngineNext]_vars, NEW s \in Slots, Live(s), JobEnds(s),
           UNCHANGED stepVars
    PROVE  ~ Token'
<1>0. EngineTypeOK
  BY DEF EngineInv
<1>1. ASSUME NEW t \in Slots, Live(t)' PROVE FALSE
  <2>1. t # s /\ slot'[t] = slot[t] /\ rejection'[t] = rejection[t]
    BY <1>0, <1>1, FreedIsNotLive DEF JobEnds
  <2>2. Live(t)
    BY <1>1, <2>1, LiveNotGained DEF stepVars, callers
  <2> QED BY <2>1, <2>2 DEF OneToken
<1>2. ~ Queued'
  BY <1>0, KeptJobs DEF JobEnds, OneToken, Queued
<1> QED BY <1>1, <1>2 DEF Token

\* The steps of a slot outside its calls, but for the one that adds a job.
LEMMA SlotTokens ==
    ASSUME EngineInv, RowsCounted, TokenInv, [EngineNext]_vars,
           \A t \in Slots : OneAtATime(t), NEW s \in Slots,
           \/ DispatchJob(s) \/ BlockRun(s) \/ BeginExecution(s) \/ StartRun(s)
           \/ HandlerSettles(s) \/ CompleteRun(s) \/ FailRun(s)
    PROVE  TokenInv'
<1>0. /\ EngineTypeOK /\ PassOK(s) /\ slot \in [Slots -> SlotState]
      /\ rejection \in [Slots -> Rejection]
  BY DEF EngineInv, EngineTypeOK
<1>1. UNCHANGED stepVars /\ UNCHANGED request /\ slot[s] \notin {"idle", "crashed"}
  BY DEF DispatchJob, BlockRun, BeginExecution, StartRun, HandlerSettles, CompleteRun,
     FailRun, apiVars
<1>2. \A k \in Keys : pc[<<s, k>>] = "idle"
  <2>1. CASE slot[s] = "handler"
    BY <2>1 DEF DispatchJob, BlockRun, BeginExecution, StartRun, HandlerSettles,
       CompleteRun, FailRun, Settles
  <2>2. CASE slot[s] # "handler"
    BY <1>0, <1>1, <2>2 DEF PassOK
  <2> QED BY <2>1, <2>2
<1>3. CASE JobEnds(s) /\ ~ FailRun(s)
  <2>1. runStatus' = "FAILED" => runStatus = "FAILED"
    BY <1>3 DEF DispatchJob, BlockRun, BeginExecution, StartRun, HandlerSettles,
       CompleteRun, runVars
  <2> QED BY <1>1, <1>2, <1>3, <2>1, EndTokenFrame
<1>4. CASE FailRun(s)
  <2>1. slot[s] = "fail" /\ JobEnds(s)
    BY <1>4 DEF FailRun
  <2>2. Live(s) /\ \E k \in Keys : status[k] = "FAILED"
    BY <2>1 DEF Live, TokenInv, ErrorHasCause
  <2>3. ~ Token'
    BY <1>1, <2>1, <2>2, LastTokenEnds DEF TokenInv
  <2> QED BY <1>1, <1>2, <2>1, <2>2, <2>3, EndTokenFrame
<1>5. ASSUME NEW where, Goto(s, where), UNCHANGED job,
             runStatus' = "FAILED" => runStatus = "FAILED",
             Live(s) \/ where = "suspend",
             where = "fail" => slot[s] = "handler" /\ rejection[s] = "error",
             where = "handler" => rejection[s] # "error"
      PROVE  TokenInv'
  BY <1>1, <1>2, <1>5, MoveTokenFrame
<1>6. slot[s] \in {"dispatch", "begin", "start"} => Live(s)
  BY DEF Live
<1>7. CASE DispatchJob(s) /\ ~ JobEnds(s)
  <2>1. (Goto(s, "begin") \/ Goto(s, "block")) /\ UNCHANGED job /\ UNCHANGED runStatus
    BY <1>7 DEF DispatchJob, queueVars, runVars
  <2> QED BY <1>5, <1>6, <1>7, <2>1 DEF DispatchJob
<1>8. CASE BeginExecution(s) /\ ~ JobEnds(s)
  <2>1. (Goto(s, "start") \/ Goto(s, "handler")) /\ UNCHANGED job /\ UNCHANGED runStatus
    BY <1>8 DEF BeginExecution, queueVars, runVars
  <2>2. slot[s] = "begin" /\ rejection[s] = "none"
    BY <1>0, <1>8 DEF BeginExecution, PassOK
  <2> QED BY <1>5, <1>6, <2>1, <2>2
<1>9. CASE StartRun(s)
  <2>1. Goto(s, "handler") /\ UNCHANGED job /\ runStatus' = "RUNNING"
    BY <1>9 DEF StartRun, queueVars
  <2>2. slot[s] = "start" /\ rejection[s] = "none"
    BY <1>0, <1>9 DEF StartRun, PassOK
  <2> QED BY <1>5, <1>6, <2>1, <2>2
<1>10. CASE HandlerSettles(s) /\ ~ JobEnds(s)
  <2>1. /\ \/ rejection[s] = "none" /\ Goto(s, "complete")
           \/ rejection[s] = "suspended" /\ Goto(s, "suspend")
           \/ rejection[s] = "error" /\ Goto(s, "fail")
        /\ UNCHANGED job /\ UNCHANGED runStatus /\ slot[s] = "handler"
    BY <1>10 DEF HandlerSettles, queueVars, runVars
  <2>2. rejection[s] \in {"none", "error"} => Live(s)
    BY <1>2, <2>1 DEF Live
  <2> QED BY <1>5, <2>1, <2>2
<1>11. (BlockRun(s) \/ CompleteRun(s)) => JobEnds(s) /\ ~ FailRun(s)
  BY DEF BlockRun, CompleteRun, FailRun
<1> QED BY <1>3, <1>4, <1>7, <1>8, <1>9, <1>10, <1>11

----------------------------------------------------------------------------
(* The calls of a pass.                                                     *)

\* What one step of a call leaves alone.
LEMMA CallTouches ==
    ASSUME EngineInv, NEW s \in Slots, NEW k \in Keys, StepRun(s, k) \/ StepProgress(s, k)
    PROVE  /\ slot[s] = "handler"
           /\ UNCHANGED <<slot, slotJob, job, jobDelay, stalled, runStatus, request>>
           /\ UNCHANGED key
           /\ \A c \in Callers \ {<<s, k>>} :
                 pc'[c] = pc[c] /\ held'[c] = held[c] /\ snapshot'[c] = snapshot[c]
           /\ \A t \in Slots \ {s} : rejection'[t] = rejection[t]
           /\ UNCHANGED rejection \/ \E why : Rejects(s, why)
<1>0. /\ TypeOK /\ <<s, k>> \in Callers /\ key[<<s, k>>] = k /\ rejection \in [Slots -> Rejection]
  BY CallIsCaller DEF EngineInv, EngineTypeOK, PassOK
<1>1. /\ slot[s] = "handler"
      /\ UNCHANGED <<slot, slotJob, job, jobDelay, stalled, runStatus, request>>
      /\ UNCHANGED rejection \/ \E why : Rejects(s, why)
  BY DEF StepRun, StepProgress, Rejects, queueVars, runVars, slotVars, passVars, apiVars
<1>2. \A t \in Slots \ {s} : rejection'[t] = rejection[t]
  BY <1>0, <1>1 DEF Rejects
<1>3. ASSUME NEW how, NEW n, NEW snap,
             pc' = [pc EXCEPT ![<<s, k>>] = how],
             held' = [held EXCEPT ![<<s, k>>] = n],
             snapshot' = [snapshot EXCEPT ![<<s, k>>] = snap]
      PROVE  \A c \in Callers \ {<<s, k>>} :
                pc'[c] = pc[c] /\ held'[c] = held[c] /\ snapshot'[c] = snapshot[c]
  BY <1>0, <1>3 DEF TypeOK
<1>4. CASE StepRun(s, k)
  <2>1. UNCHANGED key
    <3>1. key' = [key EXCEPT ![<<s, k>>] = k]
      BY <1>4 DEF StepRun, ClaimSelect
    <3> QED BY <1>0, <3>1 DEF TypeOK
  <2>2. \A c \in Callers \ {<<s, k>>} :
           pc'[c] = pc[c] /\ held'[c] = held[c] /\ snapshot'[c] = snapshot[c]
    BY <1>0, <1>4 DEF StepRun, ClaimSelect, TypeOK
  <2> QED BY <1>1, <1>2, <2>1, <2>2
<1>5. CASE StepProgress(s, k)
  <2>1. CASE CallEnds(<<s, k>>)
    BY <1>1, <1>2, <1>3, <2>1 DEF CallEnds
  <2>2. CASE ClaimStartsAttempt(<<s, k>>)
    BY <1>1, <1>2, <1>3, <2>2 DEF ClaimStartsAttempt
  <2>3. CallEnds(<<s, k>>) \/ ClaimStartsAttempt(<<s, k>>)
    BY <1>5 DEF StepProgress, ClaimMemoized, CompleteStep, ClaimSuspends, ClaimCollides,
       RejectStale, FailTerminally, FailAndRetry, FailFenced
  <2> QED BY <2>1, <2>2, <2>3
<1> QED BY <1>4, <1>5

\* A step of a call makes no other pass live.
LEMMA CallWakesNone ==
    ASSUME EngineInv, [EngineNext]_vars, NEW s \in Slots, NEW k \in Keys,
           StepRun(s, k) \/ StepProgress(s, k), NEW t \in Slots \ {s}, Live(t)'
    PROVE  Live(t)
<1>1. \A i \in Keys : <<t, i>> \in Callers \ {<<s, k>>}
  BY CallIsCaller
<1> QED BY <1>1, CallTouches, LiveNotGained

\* The claim of a step, or the end of its handler, by the live pass that has it.
LEMMA RowTokens ==
    ASSUME Sequential, EngineInv, EngineInv', RowsCounted, TokenInv, [EngineNext]_vars,
           \A t \in Slots : OneAtATime(t),
           NEW s \in Slots, NEW k \in Keys, StepProgress(s, k), Live(s), rejection[s] = "none",
           \A i \in Keys \ {k} : status'[i] = status[i],
           pc[<<s, k>>] # "idle", pc'[<<s, k>>] # "selecting",
           \/ /\ status'[k] = "RUNNING" /\ rejection'[s] = "none"
              /\ pc'[<<s, k>>] = "handler" /\ Fenced(<<s, k>>)'
           \/ status[k] = "RUNNING" /\ status'[k] = "COMPLETED" /\ rejection'[s] = "none"
           \/ status[k] = "RUNNING" /\ status'[k] = "RETRY_WAIT" /\ rejection'[s] = "suspended"
           \/ status[k] = "RUNNING" /\ status'[k] = "FAILED"
    PROVE  TokenInv'
<1>0. /\ StagesInOrder /\ StagesInOrder' /\ \A t \in Slots : PassOK(t)
      /\ OneToken /\ ErrorHasCause /\ slot[s] = "handler"
      /\ UNCHANGED <<slot, job, runStatus, request>>
      /\ \A t \in Slots \ {s} : rejection'[t] = rejection[t]
      /\ \A c \in Callers \ {<<s, k>>} : pc'[c] = pc[c] /\ snapshot'[c] = snapshot[c]
      /\ \A t \in Slots, i \in Keys : <<t, i>> \in Callers
  BY CallTouches, CallIsCaller DEF EngineInv, TokenInv
<1>1. \A t \in Slots : Live(t) => t = s
  BY <1>0 DEF OneToken
<1>2. \A t \in Slots : Live(t)' => t = s
  BY <1>1, CallWakesNone
<1>3. ~ Queued /\ ~ Queued' /\ Token
  BY <1>0 DEF OneToken, Token, Queued
<1>4. \A i \in Keys : status'[i] \in {"RUNNING", "RETRY_WAIT", "FAILED"} => i = k
  <2>1. CASE status'[k] = "RUNNING"
    <3> SUFFICES ASSUME NEW i \in Keys,
                        status'[i] \in {"RUNNING", "RETRY_WAIT", "FAILED"}
                 PROVE  i = k
      OBVIOUS
    <3>1. Stage[i] \in Nat /\ Stage[k] \in Nat
      OBVIOUS
    <3>2. ~ (Stage[i] < Stage[k]) /\ ~ (Stage[k] < Stage[i])
      BY <1>0, <2>1 DEF StagesInOrder, Before
    <3> QED BY <3>1, <3>2 DEF Sequential
  <2>2. CASE status[k] = "RUNNING"
    <3> SUFFICES ASSUME NEW i \in Keys \ {k},
                        status'[i] \in {"RUNNING", "RETRY_WAIT", "FAILED"}
                 PROVE  FALSE
      OBVIOUS
    <3>1. status[i] \in {"RUNNING", "RETRY_WAIT", "FAILED"}
      OBVIOUS
    <3> QED BY <1>0, <2>2, <3>1, OnlyOneOpen
  <2> QED BY <2>1, <2>2
<1>5. OneToken'
  BY <1>2, <1>3 DEF OneToken, Queued
<1>6. RetryTaken'
  <2>1. CASE status'[k] = "RETRY_WAIT"
    <3>1. ~ Live(s)'
      BY <1>0, <2>1 DEF Live
    <3> QED BY <1>2, <1>3, <3>1 DEF RetryTaken, Token
  <2>2. CASE status'[k] # "RETRY_WAIT"
    BY <1>4, <2>2 DEF RetryTaken
  <2> QED BY <2>1, <2>2
<1>7. FailureRests'
  BY <1>0, <1>3 DEF FailureRests, TokenInv
<1>8. FirstJobFirst'
  BY <1>0 DEF FirstJobFirst, TokenInv
<1>9. RunningIsHeld'
  BY <1>0, <1>4 DEF RunningIsHeld
<1>10. SelectionHolds'
  <2> SUFFICES ASSUME NEW t \in Slots, NEW i \in Keys, Live(t)', pc'[<<t, i>>] = "selecting"
               PROVE  FALSE
    BY DEF SelectionHolds
  <2>1. t = s /\ i # k
    BY <1>2
  <2>2. pc[<<s, i>>] # "idle"
    BY <1>0, <2>1
  <2> QED BY <1>0, <2>1, <2>2, OneCall
<1>11. ErrorHasCause'
  <2> SUFFICES ASSUME NEW t \in Slots,
                      slot'[t] = "fail" \/ (slot'[t] = "handler" /\ rejection'[t] = "error")
               PROVE  status'[k] = "FAILED"
    BY DEF ErrorHasCause
  <2>1. CASE t = s
    BY <1>0, <2>1
  <2>2. CASE t # s
    BY <1>0, <1>1, <2>2, ErrorIsLive
  <2> QED BY <2>1, <2>2
<1> QED BY <1>5, <1>6, <1>7, <1>8, <1>9, <1>10, <1>11 DEF TokenInv

\* A step of a call that changes no row, by a pass that is live or rejected.
LEMMA QuietCallTokens ==
    ASSUME EngineInv, RowsCounted, TokenInv, [EngineNext]_vars,
           NEW s \in Slots, NEW k \in Keys, StepRun(s, k) \/ StepProgress(s, k),
           UNCHANGED rows, Live(s)' => Live(s),
           pc[<<s, k>>] = "handler" => ~ Fenced(<<s, k>>),
           pc'[<<s, k>>] = "selecting" => (snapshot'[<<s, k>>].row <=> status[k] # "NoRow"),
           rejection'[s] = "error" => rejection[s] = "error"
    PROVE  TokenInv'
<1>1. /\ slot[s] = "handler" /\ UNCHANGED <<slot, job, runStatus, request, key>>
      /\ \A c \in Callers \ {<<s, k>>} :
            pc'[c] = pc[c] /\ held'[c] = held[c] /\ snapshot'[c] = snapshot[c]
      /\ \A t \in Slots \ {s} : rejection'[t] = rejection[t]
  BY CallTouches
<1>2. /\ IInv /\ UNCHANGED <<status, attemptCount, activeAttempt>>
      /\ \A t \in Slots, i \in Keys : <<t, i>> \in Callers
  BY CallIsCaller DEF EngineInv, rows
<1>3. \A t \in Slots : Live(t)' => Live(t)
  BY CallWakesNone
<1>4. \A t \in Slots, i \in Keys : pc'[<<t, i>>] = "selecting" =>
         \/ pc[<<t, i>>] = "selecting" /\ snapshot'[<<t, i>>].row = snapshot[<<t, i>>].row
         \/ snapshot'[<<t, i>>].row <=> status[i] # "NoRow"
  <2> SUFFICES ASSUME NEW t \in Slots, NEW i \in Keys, pc'[<<t, i>>] = "selecting"
               PROVE  \/ /\ pc[<<t, i>>] = "selecting"
                         /\ snapshot'[<<t, i>>].row = snapshot[<<t, i>>].row
                      \/ snapshot'[<<t, i>>].row <=> status[i] # "NoRow"
    OBVIOUS
  <2>1. CASE t = s /\ i = k
    BY <2>1
  <2>2. CASE ~ (t = s /\ i = k)
    BY <1>1, <1>2, <2>2
  <2> QED BY <2>1, <2>2
<1>5. \A t \in Slots, i \in Keys :
         slot[t] = "handler" /\ pc[<<t, i>>] = "handler" /\ Fenced(<<t, i>>)
         => slot'[t] = "handler" /\ pc'[<<t, i>>] = "handler" /\ Fenced(<<t, i>>)'
  <2> SUFFICES ASSUME NEW t \in Slots, NEW i \in Keys, slot[t] = "handler",
                      pc[<<t, i>>] = "handler", Fenced(<<t, i>>)
               PROVE  slot'[t] = "handler" /\ pc'[<<t, i>>] = "handler" /\ Fenced(<<t, i>>)'
    OBVIOUS
  <2>1. <<t, i>> \in Callers \ {<<s, k>>}
    BY <1>2
  <2> QED BY <1>1, <1>2, <2>1 DEF Fenced
<1> QED BY <1>1, <1>2, <1>3, <1>4, <1>5, TokenFrame

\* Every step of a call.
LEMMA CallTokens ==
    ASSUME Sequential, EngineInv, EngineInv', RowsCounted, TokenInv, [EngineNext]_vars,
           \A t \in Slots : OneAtATime(t), NEW s \in Slots, NEW k \in Keys,
           StepRun(s, k) \/ StepProgress(s, k)
    PROVE  TokenInv'
<1>0. /\ TypeOK /\ IInv /\ PassOK(s) /\ OneAtATime(s) /\ <<s, k>> \in Callers
      /\ key[<<s, k>>] = k /\ SelectionHolds /\ slot[s] = "handler"
      /\ rejection \in [Slots -> Rejection] /\ called[s] \subseteq Keys
  BY CallTouches, CallIsCaller DEF EngineInv, EngineTypeOK, PassOK, TokenInv
<1> DEFINE c == <<s, k>>
<1>1. CASE StepRun(s, k)
  <2>1. /\ UNCHANGED rows /\ UNCHANGED rejection /\ k \in Ready(s) /\ pc[c] = "idle"
        /\ snapshot'[c].row <=> status[k] # "NoRow"
    BY <1>0, <1>1 DEF StepRun, ClaimSelect, TypeOK
  <2>2. rejection[s] = "none" /\ \A i \in Keys : pc[<<s, i>>] = "idle"
    BY <1>0, <2>1, NothingReady DEF OneAtATime, PassOK
  <2>3. Live(s)
    BY <1>0, <2>2 DEF Live
  <2> QED BY <1>1, <2>1, <2>3, QuietCallTokens
<1>2. ASSUME StepProgress(s, k), pc[c] = "selecting" \/ (pc[c] = "handler" /\ Fenced(c))
      PROVE  Live(s) /\ rejection[s] = "none"
  BY <1>0, <1>2, CallerIsLive
<1>3. ASSUME StepProgress(s, k), UNCHANGED rejection \/ Rejects(s, "suspended"),
             ClaimMemoized(c) \/ ClaimSuspends(c)
      PROVE  TokenInv'
  <2>1. /\ pc[c] = "selecting" /\ pc' = [pc EXCEPT ![c] = "idle"] /\ UNCHANGED rows
    BY <1>3 DEF ClaimMemoized, ClaimSuspends, CallEnds
  <2>2. Live(s) /\ rejection[s] = "none"
    BY <1>2, <1>3, <2>1
  <2>3. rejection'[s] # "error" /\ pc'[c] = "idle"
    BY <1>0, <1>3, <2>1, <2>2 DEF Rejects, TypeOK
  <2> QED BY <1>3, <2>1, <2>2, <2>3, QuietCallTokens
<1>4. ASSUME StepProgress(s, k), RejectStale(c), Rejects(s, "stale") PROVE TokenInv'
  <2>1. /\ pc[c] = "handler" /\ ~ Fenced(c) /\ UNCHANGED rows
        /\ pc' = [pc EXCEPT ![c] = "idle"]
    BY <1>4 DEF RejectStale, CallEnds
  <2>2. rejection[s] = "none"
    BY <1>0, <2>1 DEF OneAtATime
  <2>3. rejection'[s] = "stale" /\ pc'[c] = "idle" /\ slot'[s] = "handler"
    BY <1>0, <1>4, <2>1, <2>2 DEF Rejects, TypeOK
  <2>4. ~ Live(s)'
    BY <2>3 DEF Live
  <2> QED BY <1>4, <2>1, <2>3, <2>4, QuietCallTokens
<1>5. ASSUME StepProgress(s, k), ClaimCollides(c) PROVE FALSE
  <2>1. pc[c] = "selecting" /\ ~ snapshot[c].row /\ status[k] # "NoRow"
    BY <1>0, <1>5 DEF ClaimCollides
  <2> QED BY <1>0, <1>2, <1>5, <2>1 DEF SelectionHolds
<1>6. ASSUME StepProgress(s, k), ClaimStartsAttempt(c), UNCHANGED slotVars PROVE TokenInv'
  <2>1. /\ pc[c] = "selecting" /\ pc' = [pc EXCEPT ![c] = "handler"]
        /\ status' = [status EXCEPT ![k] = "RUNNING"]
        /\ \E n : /\ held' = [held EXCEPT ![c] = n]
                  /\ activeAttempt' = [activeAttempt EXCEPT ![k] = n]
        /\ UNCHANGED <<key, rejection>>
    BY <1>0, <1>6 DEF ClaimStartsAttempt, FenceMoves, slotVars, passVars
  <2>2. Live(s) /\ rejection[s] = "none"
    BY <1>2, <1>6, <2>1
  <2>3. /\ \A i \in Keys \ {k} : status'[i] = status[i]
        /\ status'[k] = "RUNNING" /\ rejection'[s] = "none" /\ pc'[c] = "handler"
        /\ Fenced(c)'
    BY <1>0, <2>1, <2>2 DEF TypeOK, Fenced
  <2>4. pc[c] # "idle" /\ pc'[c] # "selecting"
    BY <2>1, <2>3
  <2> QED BY <1>6, <2>2, <2>3, <2>4, RowTokens
<1>7. ASSUME StepProgress(s, k), NEW st \in StepStatus, pc[c] = "handler", Fenced(c),
             status' = [status EXCEPT ![k] = st], pc' = [pc EXCEPT ![c] = "idle"],
             \/ st = "COMPLETED" /\ UNCHANGED rejection
             \/ st = "RETRY_WAIT" /\ Rejects(s, "suspended")
             \/ st = "FAILED"
      PROVE  TokenInv'
  <2>1. Live(s) /\ rejection[s] = "none" /\ status[k] = "RUNNING"
    BY <1>0, <1>2, <1>7, FenceMeansRunning
  <2>2. /\ \A i \in Keys \ {k} : status'[i] = status[i]
        /\ status'[k] = st /\ pc'[c] = "idle"
    BY <1>0, <1>7 DEF TypeOK
  <2>3. \/ st = "COMPLETED" /\ rejection'[s] = "none"
        \/ st = "RETRY_WAIT" /\ rejection'[s] = "suspended"
        \/ st = "FAILED"
    BY <1>0, <1>7, <2>1 DEF Rejects
  <2>4. pc[c] # "idle" /\ pc'[c] # "selecting"
    BY <1>7, <2>2
  <2> QED BY <1>7, <2>1, <2>2, <2>3, <2>4, RowTokens
<1>8. ASSUME StepProgress(s, k), CompleteStep(c), UNCHANGED rejection PROVE TokenInv'
  BY <1>0, <1>7, <1>8 DEF CompleteStep, CallEnds, StepStatus
<1>9. ASSUME StepProgress(s, k), NEW how, FailAndRetry(c, how), Rejects(s, "suspended")
      PROVE  TokenInv'
  BY <1>0, <1>7, <1>9 DEF FailAndRetry, FailFenced, CallEnds, StepStatus
<1>10. ASSUME StepProgress(s, k), NEW how, FailTerminally(c, how) PROVE TokenInv'
  BY <1>0, <1>7, <1>10 DEF FailTerminally, FailFenced, CallEnds, StepStatus
<1> QED BY <1>1, <1>3, <1>4, <1>5, <1>6, <1>8, <1>9, <1>10 DEF StepProgress

----------------------------------------------------------------------------
(* Steps that make a token, or move it.                                     *)

\* A worker takes the one job that waits.
LEMMA TakeTokens ==
    ASSUME EngineInv, RowsCounted, TokenInv, [EngineNext]_vars, \A t \in Slots : OneAtATime(t),
           NEW s \in Slots, NEW j \in JobIds, TakeJob(s, j)
    PROVE  TokenInv'
<1>0. /\ slot \in [Slots -> SlotState] /\ job \in [JobIds -> JobState]
      /\ \A t \in Slots : PassOK(t)
      /\ OneToken /\ RetryTaken /\ FailureRests /\ FirstJobFirst /\ RunningIsHeld
      /\ ErrorHasCause
  BY DEF EngineInv, EngineTypeOK, TokenInv
<1>1. /\ slot[s] = "idle" /\ slot'[s] = "dispatch"
      /\ \A t \in Slots \ {s} : slot'[t] = slot[t]
      /\ job[j] = "queued" /\ \A i \in JobIds \ {j} : job'[i] = job[i]
      /\ job'[j] = "active"
      /\ UNCHANGED <<status, attemptCount, activeAttempt, pc, held, key, snapshot>>
      /\ UNCHANGED <<rejection, runStatus, request>>
  BY <1>0 DEF TakeJob, stepVars, rows, callers, runVars, passVars, apiVars
<1>2. Token /\ \A t \in Slots : ~ Live(t)
  BY <1>0, <1>1 DEF Token, Queued, OneToken
<1>3. \A t \in Slots : Live(t)' => t = s
  BY <1>1, <1>2, LiveNotGained
<1>4. ~ Queued'
  BY <1>0, <1>1 DEF Queued, OneToken
<1>5. OneToken'
  BY <1>3, <1>4 DEF OneToken, Queued
<1>6. RetryTaken'
  <2>1. \A k \in Keys : status[k] = "RETRY_WAIT" => RetryJob(k, attemptCount[k]) \in JobIds
    BY RowHasAttempt, JobIdsDiffer DEF EngineInv
  <2> QED BY <1>0, <1>1, <1>2, <2>1 DEF RetryTaken
<1>7. FailureRests'
  BY <1>0, <1>1, <1>2 DEF FailureRests
<1>8. FirstJobFirst'
  BY <1>0, <1>1, JobIdsDiffer DEF FirstJobFirst, Queued
<1>9. RunningIsHeld'
  BY <1>0, <1>1 DEF RunningIsHeld, Fenced
<1>10. SelectionHolds'
  BY <1>0, <1>1, <1>3 DEF SelectionHolds, PassOK
<1>11. ErrorHasCause'
  BY <1>0, <1>1 DEF ErrorHasCause
<1> QED BY <1>5, <1>6, <1>7, <1>8, <1>9, <1>10, <1>11 DEF TokenInv

\* A job is added while there is no token.
LEMMA AddTokens ==
    ASSUME EngineInv, TokenInv, [EngineNext]_vars, ~ Token,
           UNCHANGED <<status, attemptCount, activeAttempt, pc, held, key>>,
           \A t \in Slots : \/ slot'[t] = slot[t] /\ rejection'[t] = rejection[t]
                            \/ slot[t] = "suspend" /\ slot'[t] = "idle",
           NEW j \in JobIds, \A i \in JobIds : job'[i] = "queued" => i = j,
           job'[RunJob] # "absent", runStatus' # "FAILED",
           \A r \in Retriers : request'[r] # "retrying",
           \A k \in Keys : status[k] = "RETRY_WAIT" =>
               job'[RetryJob(k, attemptCount[k])] # "absent"
    PROVE  TokenInv'
<1>1. ASSUME NEW t \in Slots, Live(t)' PROVE FALSE
  <2>1. slot'[t] # "idle"
    BY <1>1 DEF Live
  <2>2. Live(t)
    BY <1>1, <2>1, LiveNotGained
  <2> QED BY <2>2 DEF Token
<1>2. OneToken'
  BY <1>1 DEF OneToken, Queued
<1>3. RetryTaken'
  BY DEF RetryTaken
<1>4. FailureRests' /\ FirstJobFirst'
  BY DEF FailureRests, FirstJobFirst
<1>5. RunningIsHeld'
  <2> SUFFICES ASSUME NEW k \in Keys, status[k] = "RUNNING"
               PROVE  \E s \in Slots : /\ slot'[s] = "handler"
                                       /\ pc[<<s, k>>] = "handler" /\ Fenced(<<s, k>>)
    BY DEF RunningIsHeld, Fenced
  <2>1. PICK s \in Slots : slot[s] = "handler" /\ pc[<<s, k>>] = "handler" /\ Fenced(<<s, k>>)
    BY DEF RunningIsHeld, TokenInv
  <2> QED BY <2>1
<1>6. SelectionHolds'
  BY <1>1 DEF SelectionHolds
<1>7. ErrorHasCause'
  BY DEF ErrorHasCause, TokenInv
<1> QED BY <1>2, <1>3, <1>4, <1>5, <1>6, <1>7 DEF TokenInv

\* The reconciler takes a RUNNING step from the pass that has it.
LEMMA AbandonTokens ==
    ASSUME Sequential, EngineInv, RowsCounted, TokenInv, [EngineNext]_vars,
           \A t \in Slots : OneAtATime(t), NEW k \in Keys, NEW n \in Attempts,
           Abandon(k, n), activeAttempt[k] = n,
           Enqueue(RetryJob(k, attemptCount[k]), 0),
           UNCHANGED slotVars, UNCHANGED runVars, UNCHANGED request
    PROVE  TokenInv'
<1>0. /\ job \in [JobIds -> JobState] /\ IInv /\ TypeOK /\ StagesInOrder
      /\ \A t \in Slots : PassOK(t)
      /\ OneToken /\ RetryTaken /\ FailureRests /\ FirstJobFirst /\ RunningIsHeld
      /\ UNCHANGED <<slot, rejection, runStatus, request, pc, held, key, attemptCount>>
  BY DEF EngineInv, EngineTypeOK, TokenInv, Abandon, callers, slotVars, passVars, runVars
<1>1. status[k] = "RUNNING" /\ attemptCount[k] = n /\ n # Null
  BY <1>0, ReleasedWasRunning, AttemptsPositive DEF Abandon
<1>2. PICK s \in Slots : slot[s] = "handler" /\ pc[<<s, k>>] = "handler" /\ Fenced(<<s, k>>)
  BY <1>0, <1>1 DEF RunningIsHeld
<1>3. Live(s) /\ rejection[s] = "none"
  BY <1>0, <1>2, CallerIsLive
<1>4. /\ activeAttempt'[k] = Null
      /\ status'[k] \in {"RETRY_WAIT", "FAILED"}
      /\ \A i \in Keys \ {k} : status'[i] = status[i]
  BY <1>0 DEF Abandon, ReleaseStep, TypeOK
<1>5. key[<<s, k>>] = k /\ held[<<s, k>>] = n
  BY <1>0, <1>2 DEF PassOK, Fenced
<1>6. ~ Fenced(<<s, k>>)' /\ ~ Live(s)'
  BY <1>0, <1>1, <1>2, <1>4, <1>5 DEF Fenced, Live
<1>7. \A t \in Slots : ~ Live(t)'
  <2> SUFFICES ASSUME NEW t \in Slots, Live(t)' PROVE FALSE
    OBVIOUS
  <2>1. Live(t)
    BY <1>0, LiveNotGained
  <2> QED BY <1>0, <1>3, <1>6, <2>1 DEF OneToken
<1>8. /\ RetryJob(k, n) \in JobIds
      /\ job' = Enqueued(job, RetryJob(k, n))
  BY <1>1, JobIdsDiffer DEF Enqueue
<1>9. /\ ~ Queued /\ Token
      /\ \A i \in JobIds : job'[i] = "queued" => i = RetryJob(k, n)
      /\ \A i \in JobIds : job[i] # "absent" => job'[i] # "absent"
      /\ job'[RetryJob(k, n)] # "absent"
  BY <1>0, <1>3, <1>8 DEF OneToken, Token, Queued, Enqueued
<1>10. \A i \in Keys \ {k} : status[i] \in {"NoRow", "COMPLETED"}
  BY <1>0, <1>1, OnlyOneOpen
<1>11. OneToken'
  BY <1>7, <1>9 DEF OneToken
<1>12. RetryTaken'
  BY <1>0, <1>1, <1>4, <1>9, <1>10 DEF RetryTaken
<1>13. FailureRests'
  BY <1>0, <1>9 DEF FailureRests
<1>14. FirstJobFirst'
  BY <1>0, <1>2, <1>9, JobIdsDiffer DEF FirstJobFirst
<1>15. RunningIsHeld'
  BY <1>4, <1>10 DEF RunningIsHeld
<1>16. SelectionHolds'
  BY <1>7 DEF SelectionHolds
<1>17. ErrorHasCause'
  <2> SUFFICES ASSUME NEW t \in Slots,
                      slot[t] = "fail" \/ (slot[t] = "handler" /\ rejection[t] = "error")
               PROVE  FALSE
    BY <1>0 DEF ErrorHasCause
  <2>1. t = s
    BY <1>0, <1>3, ErrorIsLive DEF OneToken
  <2> QED BY <1>2, <1>3, <2>1
<1> QED BY <1>11, <1>12, <1>13, <1>14, <1>15, <1>16, <1>17 DEF TokenInv

\* A step that leaves slots, jobs and rows alone.
LEMMA StillTokens ==
    ASSUME EngineInv, RowsCounted, TokenInv, [EngineNext]_vars,
           UNCHANGED <<status, attemptCount, activeAttempt, pc, held, key>>,
           UNCHANGED <<slot, rejection, job>>,
           \A c \in Callers : snapshot'[c].row = snapshot[c].row,
           runStatus' = "FAILED" => runStatus = "FAILED",
           \A r \in Retriers : request'[r] = "retrying" =>
               request[r] = "retrying" \/ runStatus = "FAILED"
    PROVE  TokenInv'
<1>1. \A t \in Slots : Live(t)' => Live(t)
  BY DEF Live, Fenced
<1>2. \A t \in Slots, k \in Keys : <<t, k>> \in Callers
  BY CallIsCaller
<1> QED BY <1>1, <1>2, TokenFrame DEF Fenced, EngineInv

\* A retry's job, for a step that waits for it, while Redis does not hold it.
LEMMA RetryTokens ==
    ASSUME Sequential, EngineInv, RowsCounted, TokenInv, [EngineNext]_vars,
           UNCHANGED stepVars, UNCHANGED <<runStatus, request>>,
           NEW k \in Keys, status[k] = "RETRY_WAIT",
           job[RetryJob(k, attemptCount[k])] = "absent",
           \A t \in Slots : \/ slot'[t] = slot[t] /\ rejection'[t] = rejection[t]
                            \/ slot[t] = "suspend" /\ slot'[t] = "idle",
           \A i \in JobIds : job'[i] = "queued" =>
               job[i] = "queued" \/ i = RetryJob(k, attemptCount[k]),
           \A i \in JobIds : job[i] # "absent" => job'[i] # "absent",
           job'[RetryJob(k, attemptCount[k])] # "absent"
    PROVE  TokenInv'
<1>0. /\ RetryTaken /\ FailureRests /\ FirstJobFirst /\ StagesInOrder /\ IInv
      /\ UNCHANGED <<status, attemptCount, activeAttempt, pc, held, key>>
  BY DEF EngineInv, TokenInv, stepVars, rows, callers
<1>1. RetryJob(k, attemptCount[k]) \in JobIds
  BY <1>0, RowHasAttempt, JobIdsDiffer
<1>2. ~ Token
  BY <1>0 DEF RetryTaken
<1>3. \A i \in Keys : status[i] \in {"RETRY_WAIT", "FAILED"} => i = k
  BY <1>0, OnlyOneOpen
<1>4. runStatus # "FAILED" /\ \A r \in Retriers : request[r] # "retrying"
  BY <1>0, <1>3 DEF FailureRests
<1>5. \A i \in JobIds : job'[i] = "queued" => i = RetryJob(k, attemptCount[k])
  BY <1>2 DEF Token, Queued
<1>6. job'[RunJob] # "absent"
  BY <1>0, JobIdsDiffer DEF FirstJobFirst
<1>7. \A i \in Keys : status[i] = "RETRY_WAIT" => job'[RetryJob(i, attemptCount[i])] # "absent"
  BY <1>3
<1> QED BY <1>0, <1>1, <1>2, <1>4, <1>5, <1>6, <1>7, AddTokens

\* execute returns undefined: the run waits for the retry that is due first.
LEMMA SuspendTokens ==
    ASSUME Sequential, EngineInv, RowsCounted, TokenInv, [EngineNext]_vars,
           \A t \in Slots : OneAtATime(t), NEW s \in Slots, SuspendRun(s)
    PROVE  TokenInv'
<1>0. /\ EngineTypeOK /\ IInv /\ PassOK(s) /\ job \in [JobIds -> JobState]
      /\ slot[s] = "suspend" /\ SlotFreed(s) /\ UNCHANGED stepVars
      /\ UNCHANGED <<runStatus, request, stalled>>
  BY DEF EngineInv, EngineTypeOK, SuspendRun, runVars
<1>1. \A k \in Keys : pc[<<s, k>>] = "idle"
  BY <1>0 DEF PassOK
<1>2. ASSUME JobEnds(s) PROVE TokenInv'
  BY <1>0, <1>1, <1>2, EndTokenFrame
<1>3. CASE job' = Kept(job, slotJob[s]) /\ UNCHANGED jobDelay
  BY <1>0, <1>2, <1>3 DEF JobEnds
<1>4. ASSUME NEW k \in FirstRetry,
             job' = Enqueued(Kept(job, slotJob[s]), RetryJob(k, attemptCount[k])),
             jobDelay' = IF job[RetryJob(k, attemptCount[k])] = "absent"
                         THEN [jobDelay EXCEPT ![RetryJob(k, attemptCount[k])] = retryLeft[k]]
                         ELSE jobDelay
      PROVE  TokenInv'
  <2> DEFINE j == RetryJob(k, attemptCount[k])
  <2>1. k \in Keys /\ status[k] = "RETRY_WAIT" /\ j \in JobIds
    BY <1>0, RowHasAttempt, JobIdsDiffer DEF FirstRetry
  <2>2. CASE job[j] = "absent"
    <3>1. Kept(job, slotJob[s])[j] = "absent"
      BY <1>0, <2>1, <2>2, KeptJobs
    <3>2. job' = [Kept(job, slotJob[s]) EXCEPT ![j] = "queued"]
      BY <1>4, <3>1 DEF Enqueued
    <3>3. /\ job'[j] = "queued"
          /\ \A i \in JobIds \ {j} : job'[i] = Kept(job, slotJob[s])[i]
      BY <2>1, <3>2 DEF Kept
    <3>4. /\ \A i \in JobIds : job'[i] = "queued" => job[i] = "queued" \/ i = j
          /\ \A i \in JobIds : job[i] # "absent" => job'[i] # "absent"
      BY <1>0, <3>3, KeptJobs
    <3>5. \A t \in Slots : \/ slot'[t] = slot[t] /\ rejection'[t] = rejection[t]
                           \/ slot[t] = "suspend" /\ slot'[t] = "idle"
      BY <1>0, FreedIsNotLive
    <3> QED BY <1>0, <2>1, <2>2, <3>3, <3>4, <3>5, RetryTokens
  <2>3. CASE job[j] # "absent"
    <3>1. Kept(job, slotJob[s])[j] # "absent"
      BY <1>0, <2>1, <2>3, KeptJobs
    <3> QED BY <1>3, <1>4, <2>3, <3>1 DEF Enqueued
  <2> QED BY <2>2, <2>3
<1> QED BY <1>3, <1>4 DEF SuspendRun

\* POST /runs/:id/retry queues the replay of a run that failed.
LEMMA ReplayTokens ==
    ASSUME Sequential, OneRetrier, EngineInv, EngineInv', RowsCounted, TokenInv,
           [EngineNext]_vars, NEW r \in Retriers, RetryRun(r)
    PROVE  TokenInv'
<1>0. /\ job \in [JobIds -> JobState] /\ request \in [Requests -> RequestState]
      /\ r \in Requests /\ StagesInOrder /\ FailureRests /\ FirstJobFirst
      /\ workflowAttempt' = workflowAttempt + 1 /\ workflowAttempt' \in WorkflowAttempts
      /\ request[r] = "retrying" /\ request' = [request EXCEPT ![r] = "done"]
      /\ runStatus' = "PENDING"
      /\ \/ Enqueue(ReplayJob(workflowAttempt'), 0)
         \/ UNCHANGED job
      /\ UNCHANGED <<status, attemptCount, activeAttempt, pc, held, key, snapshot>>
      /\ UNCHANGED <<slot, rejection>>
  BY DEF EngineInv, EngineTypeOK, TokenInv, RetryRun, Goes, Requests, stepVars, rows, callers,
     slotVars, passVars, queueVars
<1>1. ~ Token /\ \E k \in Keys : status[k] = "FAILED"
  BY <1>0 DEF FailureRests
<1>2. \A q \in Retriers : request'[q] # "retrying"
  BY <1>0 DEF OneRetrier
<1>3. PICK j \in JobIds : j = ReplayJob(workflowAttempt')
  BY <1>0, JobIdsDiffer
<1>4. job' = Enqueued(job, j) \/ UNCHANGED job
  BY <1>0, <1>3 DEF Enqueue
<1>5. CASE job' = Enqueued(job, j) /\ job[j] = "absent"
  <2>1. \A i \in JobIds : job'[i] = "queued" => i = j
    BY <1>0, <1>1, <1>5 DEF Enqueued, Token, Queued
  <2>2. job'[RunJob] # "absent"
    BY <1>0, <1>1, <1>5, JobIdsDiffer DEF Enqueued, FirstJobFirst
  <2>3. \A k \in Keys : status[k] # "RETRY_WAIT"
    BY <1>0, <1>1, OnlyOneOpen
  <2> QED BY <1>0, <1>1, <1>2, <2>1, <2>2, <2>3, AddTokens
<1>6. CASE UNCHANGED job
  BY <1>0, <1>2, <1>6, StillTokens
<1> QED BY <1>4, <1>5, <1>6 DEF Enqueued

\* Every step of the engine keeps the token one but a fault that does more than
\* to delay the run.
LEMMA TokenStep ==
    ASSUME Sequential, OneRetrier, EngineInv, EngineInv', RowsCounted, TokenInv,
           StallsCounted, Calm, [EngineNext]_vars,
           \A kind : Fault(kind) => kind \in Harmless,
           \A t \in Slots : OneAtATime(t)
    PROVE  TokenInv'
<1>0. /\ EngineTypeOK /\ IInv /\ job \in [JobIds -> JobState]
      /\ RetryTaken /\ FirstJobFirst
      /\ \A j \in JobIds : ~ Unowned(j)
      /\ \A t \in Slots : slot[t] # "crashed"
  BY DEF EngineInv, EngineTypeOK, TokenInv, StallsCounted, Spared, Calm, Harmless
<1>1. ASSUME NEW s \in Slots, NEW j \in JobIds, TakeJob(s, j) PROVE TokenInv'
  BY <1>1, TakeTokens
<1>2. ASSUME NEW s \in Slots, SlotStep(s) PROVE TokenInv'
  <2>1. CASE \E k \in Keys : StepRun(s, k) \/ StepProgress(s, k)
    BY <2>1, CallTokens
  <2>2. CASE SuspendRun(s)
    BY <2>2, SuspendTokens
  <2>3. CASE \/ DispatchJob(s) \/ BlockRun(s) \/ BeginExecution(s) \/ StartRun(s)
             \/ HandlerSettles(s) \/ CompleteRun(s) \/ FailRun(s)
    BY <2>3, SlotTokens
  <2> QED BY <1>2, <2>1, <2>2, <2>3 DEF SlotStep
<1>3. \A s \in Slots : /\ ~ RunDatabaseError(s) /\ ~ CrashWorker(s) /\ ~ RestartWorker(s)
                       /\ \A k \in Keys : ~ StepDatabaseError(s, k)
  BY <1>0 DEF RunDatabaseError, CrashWorker, RestartWorker, StepDatabaseError, Harmless
<1>4. ~ FlushRedis /\ \A j \in JobIds : ~ StalledJob(j)
  BY <1>0 DEF FlushRedis, StalledJob, Unowned, Harmless
<1>5. ASSUME UNCHANGED <<stepVars, slotVars, runStatus, request>>, UNCHANGED job
      PROVE  TokenInv'
  BY <1>5, StillTokens DEF stepVars, rows, callers, slotVars, passVars
<1>6. CASE ReconcilePendingRun
  <2>1. CASE job[RunJob] = "absent"
    <3>1. /\ job' = [job EXCEPT ![RunJob] = "queued"] /\ RunJob \in JobIds
          /\ runStatus = "PENDING" /\ UNCHANGED <<runStatus, request, slot, rejection>>
          /\ UNCHANGED <<status, attemptCount, activeAttempt, pc, held, key>>
      BY <1>6, <2>1, JobIdsDiffer DEF ReconcilePendingRun, Enqueue, Enqueued, runVars, slotVars,
         passVars, apiVars, stepVars, rows, callers
    <3>2. /\ ~ Queued /\ \A s \in Slots : slot[s] = "idle"
          /\ \A k \in Keys : status[k] = "NoRow"
      BY <1>0, <2>1 DEF FirstJobFirst
    <3>3. ~ Token
      BY <3>2 DEF Token, Live
    <3>4. \A r \in Retriers : request[r] # "retrying"
      BY <3>2 DEF TokenInv, FailureRests
    <3>5. job'[RunJob] = "queued" /\ \A i \in JobIds : job'[i] = "queued" => i = RunJob
      BY <1>0, <3>1, <3>2 DEF Queued
    <3> QED BY <3>1, <3>2, <3>3, <3>4, <3>5, AddTokens
  <2>2. CASE job[RunJob] # "absent"
    BY <1>5, <1>6, <2>2 DEF ReconcilePendingRun, Enqueue, Enqueued, runVars, apiVars
  <2> QED BY <2>1, <2>2
<1>7. ASSUME NEW k \in Keys, ReconcileDueRetry(k) PROVE TokenInv'
  <2> DEFINE j == RetryJob(k, attemptCount[k])
  <2>1. /\ status[k] = "RETRY_WAIT" /\ j \in JobIds /\ job' = Enqueued(job, j)
        /\ UNCHANGED stepVars /\ UNCHANGED slotVars /\ UNCHANGED <<runStatus, request>>
    BY <1>0, <1>7, RowHasAttempt, JobIdsDiffer DEF ReconcileDueRetry, Enqueue, runVars, apiVars
  <2>2. CASE job[j] = "absent"
    <3>1. /\ \A i \in JobIds : job'[i] = "queued" => job[i] = "queued" \/ i = j
          /\ \A i \in JobIds : job[i] # "absent" => job'[i] # "absent"
          /\ job'[j] # "absent"
      BY <1>0, <2>1, <2>2 DEF Enqueued
    <3>2. \A t \in Slots : slot'[t] = slot[t] /\ rejection'[t] = rejection[t]
      BY <2>1 DEF slotVars, passVars
    <3> QED BY <2>1, <2>2, <3>1, <3>2, RetryTokens
  <2>3. CASE job[j] # "absent"
    BY <1>5, <2>1, <2>3 DEF Enqueued
  <2> QED BY <2>2, <2>3
<1>8. ASSUME NEW k \in Keys, NEW n \in Attempts, ReconcileExpiredLease(k, n)
      PROVE  TokenInv'
  <2>1. /\ Abandon(k, n) /\ UNCHANGED slotVars /\ UNCHANGED runVars /\ UNCHANGED request
        /\ activeAttempt[k] = n => Enqueue(RetryJob(k, attemptCount[k]), 0)
        /\ activeAttempt[k] # n => UNCHANGED queueVars
    BY <1>8 DEF ReconcileExpiredLease, Harmless
  <2>2. CASE activeAttempt[k] = n
    BY <2>1, <2>2, AbandonTokens
  <2>3. CASE activeAttempt[k] # n
    <3>1. UNCHANGED <<status, attemptCount, activeAttempt, pc, held, key, snapshot>>
      BY <2>1, <2>3 DEF Abandon, callers
    <3> QED BY <2>1, <2>3, <3>1, StillTokens DEF slotVars, passVars, runVars, queueVars
  <2> QED BY <2>2, <2>3
<1>9. ASSUME NEW r \in Retriers, RetryReads(r) \/ RetryRun(r) PROVE TokenInv'
  <2>1. CASE RetryRun(r)
    BY <2>1, ReplayTokens
  <2>2. CASE RetryReads(r)
    <3>1. /\ runStatus = "FAILED"
          /\ UNCHANGED <<status, attemptCount, activeAttempt, pc, held, key, snapshot>>
          /\ UNCHANGED <<slot, rejection, job, runStatus>>
      BY <2>2 DEF RetryReads, stepVars, rows, callers, slotVars, passVars, runVars, queueVars
    <3> QED BY <3>1, StillTokens
  <2> QED BY <1>9, <2>1, <2>2
<1>10. ASSUME NEW r \in Cancellers, CancelReads(r) \/ CancelRun(r) PROVE TokenInv'
  <2>1. /\ runStatus' = "FAILED" => runStatus = "FAILED"
        /\ UNCHANGED <<status, attemptCount, activeAttempt, pc, held, key, snapshot>>
        /\ UNCHANGED <<slot, rejection, job>>
    BY <1>10 DEF CancelReads, CancelRun, stepVars, rows, callers, slotVars, passVars, runVars,
       queueVars
  <2>2. \E st \in RequestState \ {"retrying"} : request' = [request EXCEPT ![r] = st]
    BY <1>10 DEF CancelReads, CancelRun, Goes, RequestState
  <2>3. \A q \in Retriers : request'[q] = "retrying" => request[q] = "retrying"
    BY <1>0, <2>2 DEF EngineTypeOK, Requests
  <2> QED BY <2>1, <2>3, StillTokens
<1>11. CASE EngineTick
  <2>1. /\ UNCHANGED <<status, attemptCount, activeAttempt, pc, held, key>>
        /\ UNCHANGED <<slot, rejection, job, runStatus, request>>
        /\ snapshot' = [c \in Callers |->
              [snapshot[c] EXCEPT !.lease = Sooner(snapshot[c].lease)]]
    BY <1>11 DEF EngineTick, Tick, rows, runVars, slotVars, passVars
  <2>2. \A c \in Callers : snapshot'[c].row = snapshot[c].row
    BY <1>0, <2>1 DEF IInv, TypeOK, Snapshot
  <2> QED BY <2>1, <2>2, StillTokens
<1>12. CASE UNCHANGED vars
  BY <1>5, <1>12 DEF vars, engineVars, runVars, queueVars, apiVars
<1> HIDE DEF vars
<1> QED
  BY <1>1, <1>2, <1>3, <1>4, <1>6, <1>7, <1>8, <1>9, <1>10, <1>11, <1>12 DEF EngineNext

----------------------------------------------------------------------------
(* A run that has completed is left alone.                                  *)

\* Its steps are COMPLETED, so whatever still goes on makes no token.
LEMMA NoTokenMade ==
    ASSUME Sequential, EngineInv, FailureRests, ~ Token, [EngineNext]_vars,
           \A t \in Slots : OneAtATime(t), \A t \in Slots : slot[t] # "crashed",
           \A j \in JobIds : ~ Unowned(j),
           \A kind : Fault(kind) => kind \in Harmless, runStatus = "COMPLETED"
    PROVE  ~ Token'
<1>0. /\ EngineTypeOK /\ IInv /\ job \in [JobIds -> JobState] /\ slot \in [Slots -> SlotState]
      /\ rejection \in [Slots -> Rejection] /\ \A t \in Slots : PassOK(t)
      /\ \A k \in Keys : status[k] = "COMPLETED"
      /\ \A r \in Retriers : request[r] # "retrying"
  BY DEF EngineInv, EngineTypeOK, CompletedRunHasAllSteps, FailureRests
<1>1. \A t \in Slots : ~ Live(t)
  BY DEF Token
<1>2. \A j \in JobIds : job[j] # "queued"
  BY DEF Token, Queued
<1>3. ASSUME \A t \in Slots : ~ Live(t)', \A j \in JobIds : job'[j] # "queued"
      PROVE  ~ Token'
  BY <1>3 DEF Token, Queued
<1>4. ASSUME UNCHANGED <<slot, rejection, pc, held, job>> PROVE ~ Token'
  BY <1>1, <1>2, <1>3, <1>4, LiveNotGained
<1>5. ASSUME NEW s \in Slots, UNCHANGED <<pc, held>>,
             \A t \in Slots \ {s} : slot'[t] = slot[t] /\ rejection'[t] = rejection[t],
             slot'[s] \in {"idle", "suspend"},
             job' = job \/ job' = Kept(job, slotJob[s])
      PROVE  ~ Token'
  <2>1. ~ Live(s)'
    BY <1>5 DEF Live
  <2>2. \A t \in Slots : ~ Live(t)'
    BY <1>1, <1>5, <2>1, LiveNotGained
  <2>3. \A j \in JobIds : job'[j] # "queued"
    BY <1>0, <1>2, <1>5, KeptJobs
  <2> QED BY <1>3, <2>2, <2>3
<1>6. ASSUME NEW s \in Slots, NEW j \in JobIds, TakeJob(s, j) PROVE ~ Token'
  BY <1>2, <1>6 DEF TakeJob
<1>7. ASSUME NEW s \in Slots, NEW k \in Keys, StepRun(s, k) \/ StepProgress(s, k)
      PROVE  ~ Token'
  <2> DEFINE c == <<s, k>>
  <2>0. /\ slot[s] = "handler" /\ UNCHANGED job /\ UNCHANGED slot
        /\ c \in Callers /\ key[c] = k /\ PassOK(s) /\ OneAtATime(s)
    BY <1>0, <1>7, CallTouches, CallIsCaller DEF EngineInv, PassOK
  <2>1. CASE StepRun(s, k)
    <3>1. k \in Ready(s) /\ called[s] \subseteq Keys
      BY <1>0, <2>1 DEF StepRun, EngineTypeOK
    <3>2. rejection[s] = "none" /\ \A i \in Keys : pc[<<s, i>>] = "idle"
      BY <2>0, <3>1, NothingReady DEF OneAtATime, PassOK
    <3> QED BY <1>1, <2>0, <3>2 DEF Live
  <2>2. CASE StepProgress(s, k)
    <3>1. pc[c] # "idle"
      BY <2>2 DEF StepProgress, ClaimStartsAttempt, ClaimMemoized, ClaimSuspends,
         ClaimCollides, CompleteStep, FailAndRetry, FailTerminally, FailFenced, RejectStale
    <3>2. pc[c] = "handler" /\ ~ Fenced(c) /\ rejection[s] = "none"
      BY <1>1, <2>0, <3>1, CallerIsLive DEF OneAtATime
    <3>3. RejectStale(c) /\ Rejects(s, "stale")
      BY <2>2, <3>2 DEF StepProgress, ClaimStartsAttempt, ClaimMemoized, ClaimSuspends,
         ClaimCollides, CompleteStep, FailAndRetry, FailTerminally, FailFenced
    <3>4. ~ Live(s)'
      BY <1>0, <2>0, <3>2, <3>3 DEF Rejects, Live
    <3>5. \A t \in Slots : ~ Live(t)'
      BY <1>1, <1>7, <3>4, CallWakesNone
    <3> QED BY <1>2, <1>3, <2>0, <3>5
  <2> QED BY <1>7, <2>1, <2>2
<1>8. ASSUME NEW s \in Slots, SuspendRun(s) PROVE ~ Token'
  <2>1. /\ FirstRetry = {} /\ SlotFreed(s) /\ UNCHANGED stepVars
    BY <1>0, <1>8 DEF SuspendRun, FirstRetry
  <2>2. job' = Kept(job, slotJob[s])
    BY <1>8, <2>1 DEF SuspendRun
  <2> QED BY <1>0, <1>5, <2>1, <2>2, FreedIsNotLive DEF stepVars, callers
<1>9. ASSUME NEW s \in Slots, HandlerSettles(s) PROVE ~ Token'
  <2>1. \A k \in Keys : pc[<<s, k>>] = "idle"
    BY <1>9 DEF HandlerSettles, Settles
  <2>2. rejection[s] \notin {"none", "error"}
    BY <1>1, <1>9, <2>1 DEF HandlerSettles, Live
  <2>3. CASE Goto(s, "suspend") /\ UNCHANGED queueVars
    BY <1>0, <1>5, <1>9, <2>3 DEF HandlerSettles, Goto, passVars, queueVars, stepVars, callers
  <2>4. CASE JobEnds(s)
    BY <1>0, <1>5, <1>9, <2>4, FreedIsNotLive DEF HandlerSettles, JobEnds, stepVars, callers
  <2> QED BY <1>9, <2>2, <2>3, <2>4 DEF HandlerSettles
<1>10. ASSUME NEW s \in Slots, SlotStep(s) PROVE ~ Token'
  <2>1. slot[s] \in {"idle", "handler", "suspend"}
    BY <1>1 DEF Live
  <2> QED BY <1>7, <1>8, <1>9, <1>10, <2>1
    DEF SlotStep, DispatchJob, BlockRun, BeginExecution, StartRun, CompleteRun, FailRun
<1>11. \A s \in Slots : /\ ~ RunDatabaseError(s) /\ ~ CrashWorker(s) /\ ~ RestartWorker(s)
                        /\ \A k \in Keys : ~ StepDatabaseError(s, k)
  BY DEF RunDatabaseError, CrashWorker, RestartWorker, StepDatabaseError, Harmless
<1>12. ~ FlushRedis /\ \A j \in JobIds : ~ StalledJob(j)
  BY DEF FlushRedis, StalledJob, Unowned, Harmless
<1>13. ~ ReconcilePendingRun /\ \A k \in Keys : ~ ReconcileDueRetry(k)
  BY DEF ReconcilePendingRun, ReconcileDueRetry, Terminal
<1>14. ASSUME NEW k \in Keys, NEW n \in Attempts, ReconcileExpiredLease(k, n)
       PROVE  ~ Token'
  <2>1. Abandon(k, n) /\ UNCHANGED slotVars
    BY <1>14 DEF ReconcileExpiredLease, Harmless
  <2>2. activeAttempt[k] # n
    BY <1>0, <2>1, ReleasedWasRunning DEF Abandon
  <2> QED BY <1>4, <1>14, <2>1, <2>2
    DEF ReconcileExpiredLease, Abandon, callers, slotVars, passVars, queueVars
<1>15. \A r \in Retriers : ~ RetryReads(r) /\ ~ RetryRun(r)
  BY <1>0 DEF RetryReads, RetryRun
<1>16. ASSUME NEW r \in Cancellers, CancelReads(r) \/ CancelRun(r) PROVE ~ Token'
  BY <1>4, <1>16 DEF CancelReads, CancelRun, stepVars, callers, slotVars, passVars, queueVars
<1>17. CASE EngineTick
  BY <1>4, <1>17 DEF EngineTick, Tick, slotVars, passVars
<1>18. CASE UNCHANGED vars
  BY <1>4, <1>18 DEF vars, engineVars, queueVars, slotVars, passVars, stepVars, callers
<1> HIDE DEF vars
<1> QED
  BY <1>6, <1>10, <1>11, <1>12, <1>13, <1>14, <1>15, <1>16, <1>17, <1>18 DEF EngineNext

\* Who writes the run's status.
LEMMA StatusWriters ==
    ASSUME [EngineNext]_vars, runStatus' # runStatus
    PROVE  \/ \E s \in Slots : BlockRun(s) \/ StartRun(s) \/ CompleteRun(s) \/ FailRun(s)
           \/ \E r \in Retriers : RetryRun(r)
           \/ \E r \in Cancellers : CancelRun(r)
<1>1. ASSUME NEW s \in Slots, UNCHANGED runVars PROVE FALSE
  BY <1>1 DEF runVars
<1>2. ASSUME NEW s \in Slots, SlotStep(s)
      PROVE  BlockRun(s) \/ StartRun(s) \/ CompleteRun(s) \/ FailRun(s)
  BY <1>1, <1>2 DEF SlotStep, DispatchJob, BeginExecution, StepRun, StepProgress,
     HandlerSettles, SuspendRun
<1>3. UNCHANGED runVars => runStatus' = runStatus
  BY DEF runVars
<1>4. EngineNext
  BY DEF vars, engineVars, runVars
<1> HIDE DEF vars
<1> QED BY <1>2, <1>3, <1>4
  DEF EngineNext, TakeJob, StepDatabaseError, RunDatabaseError, CrashWorker, RestartWorker,
      StalledJob, FlushRedis, ReconcilePendingRun, ReconcileDueRetry, ReconcileExpiredLease,
      RetryReads, CancelReads, EngineTick

LEMMA CompletionStep ==
    ASSUME Sequential, EngineInv, TokenInv, CompletionRests, [EngineNext]_vars,
           \A t \in Slots : OneAtATime(t), \A t \in Slots : slot[t] # "crashed",
           \A j \in JobIds : ~ Unowned(j),
           \A kind : Fault(kind) => kind \in Harmless
    PROVE  CompletionRests'
<1> SUFFICES ASSUME runStatus' = "COMPLETED" PROVE ~ Token'
  BY DEF CompletionRests
<1>1. CASE runStatus = "COMPLETED"
  BY <1>1, NoTokenMade DEF CompletionRests, TokenInv
<1>2. CASE runStatus # "COMPLETED"
  <2>1. PICK s \in Slots : CompleteRun(s)
    BY <1>2, StatusWriters DEF BlockRun, StartRun, FailRun, RetryRun, CancelRun
  <2>2. slot[s] = "complete" /\ JobEnds(s) /\ UNCHANGED stepVars
    BY <2>1 DEF CompleteRun
  <2> QED BY <2>2, LastTokenEnds DEF Live, TokenInv
<1> QED BY <1>1, <1>2

----------------------------------------------------------------------------
(* The invariant, what fails a run, and what an end is safe from.           *)

LEMMA InitFailure == EngineInit => FailureInv
<1> SUFFICES ASSUME EngineInit PROVE FailureInv
  OBVIOUS
<1>1. ContinuationInv
  BY InitContinuation
<1>2. /\ slot = [s \in Slots |-> "idle"] /\ request = [r \in Requests |-> "new"]
      /\ status = [k \in Keys |-> "NoRow"] /\ runStatus = "PENDING"
  BY DEF EngineInit, Init
<1>3. /\ job[RunJob] \in {"queued", "absent"} /\ RunJob \in JobIds
      /\ \A j \in JobIds : j # RunJob => job[j] = "absent"
  BY JobIdsDiffer DEF EngineInit
<1>4. \A s \in Slots : ~ Live(s)
  BY <1>2 DEF Live
<1>5. OneToken /\ RetryTaken
  BY <1>2, <1>3, <1>4 DEF OneToken, RetryTaken
<1>6. FailureRests /\ FirstJobFirst
  BY <1>2, <1>3 DEF FailureRests, FirstJobFirst, Requests, Queued
<1>7. RunningIsHeld /\ SelectionHolds /\ ErrorHasCause
  BY <1>2, <1>4 DEF RunningIsHeld, SelectionHolds, ErrorHasCause
<1>8. CompletionRests
  BY <1>2 DEF CompletionRests
<1> QED BY <1>1, <1>5, <1>6, <1>7, <1>8 DEF FailureInv, ContinuationInv, TokenInv

LEMMA FailureStep ==
    ASSUME Sequential, OneRetrier, FailureInv, [EngineNext]_vars
    PROVE  FailureInv'
<1>0. /\ EngineInv /\ EngineTypeOK /\ IInv /\ [Next]_stepVars /\ RowsCounted
      /\ \A s \in Slots : OneAtATime(s)
  BY EngineStepIsStep DEF FailureInv, EngineInv
<1>1. EngineInv' /\ EngineTypeOK'
  BY <1>0, EngineInvStep DEF EngineInv
<1>2. RowsCounted' /\ \A s \in Slots : OneAtATime(s)'
  BY <1>0, RowsCountedStep, OneAtATimeStep
<1>3. ASSUME Calm'
      PROVE  JobsOwned' /\ StallsCounted' /\ TokenInv' /\ CompletionRests'
  <2>1. Calm /\ \A kind : Fault(kind) => kind \in Harmless
    BY <1>0, <1>3, CalmYet
  <2>2. JobsOwned /\ StallsCounted /\ TokenInv /\ CompletionRests
    BY <2>1 DEF FailureInv
  <2>3. /\ ~ FlushRedis /\ \A s \in Slots : ~ CrashWorker(s)
        /\ Spared("crash")' => Spared("crash")
    BY <2>1 DEF FlushRedis, CrashWorker, Spared, Calm, Harmless
  <2>4. JobMoves
    BY <1>0, <1>1, <2>3, StepMovesJobs
  <2>5. JobsOwned' /\ StallsCounted'
    BY <1>0, <2>2, <2>3, <2>4, JobsOwnedStep, StallsStep
  <2>6. (\A s \in Slots : slot[s] # "crashed") /\ (\A j \in JobIds : ~ Unowned(j))
    BY <2>1, <2>2 DEF StallsCounted, Spared, Calm, Harmless
  <2>7. TokenInv'
    BY <1>0, <1>1, <2>1, <2>2, TokenStep
  <2>8. CompletionRests'
    BY <1>0, <2>1, <2>2, <2>6, CompletionStep
  <2> QED BY <2>5, <2>7, <2>8
<1> QED BY <1>1, <1>2, <1>3 DEF FailureInv

\* What may change the status of a run that has ended.
LEMMA EndStands ==
    ASSUME FailureInv, [EngineNext]_vars, Calm', runStatus' # runStatus
    PROVE  /\ runStatus = "COMPLETED" => \E r \in Cancellers : CancelRun(r)
           /\ runStatus = "FAILED" => \/ \E r \in Retriers : RetryRun(r)
                                      \/ \E r \in Cancellers : CancelRun(r)
<1>1. Calm
  BY CalmYet DEF FailureInv, EngineInv
<1>2. /\ EngineInv /\ FailureRests /\ CompletionRests
  BY <1>1 DEF FailureInv, TokenInv
<1>3. ASSUME NEW s \in Slots, BlockRun(s) \/ StartRun(s) \/ CompleteRun(s) \/ FailRun(s)
      PROVE  Token
  BY <1>3 DEF BlockRun, StartRun, CompleteRun, FailRun, Live, Token
<1>4. ASSUME NEW r \in Retriers, RetryRun(r) PROVE runStatus # "COMPLETED"
  BY <1>2, <1>4 DEF RetryRun, FailureRests, EngineInv, CompletedRunHasAllSteps
<1> QED BY <1>2, <1>3, <1>4, StatusWriters DEF FailureRests, CompletionRests

\* While no worker crashes, Redis keeps its data and the database refuses no
\* transaction, a run with sequential steps has one token, a job that waits or a
\* live pass: no second pass can commit a step, claim one, or write the run's end,
\* though handlers outlive their leases, the reconciler takes its step, enqueues
\* are lost, or the run is retried while a rejected pass is on its way out.
THEOREM OneTokenAtATime ==
    ASSUME Sequential, OneRetrier
    PROVE  EngineSpec => []FailureInv
<1>1. FailureInv /\ [EngineNext]_vars => FailureInv'
  BY FailureStep
<1> QED BY <1>1, InitFailure, PTL DEF EngineSpec

\* Under the same condition a run that is FAILED has a step that is: suspensions,
\* lost fences, lost enqueues and retries fail no run (executor.ts writes
\* WORKFLOW_FAILED for any other rejection), and no two passes collide.
THEOREM FailureIsCaused ==
    ASSUME Sequential, OneRetrier
    PROVE  EngineSpec => []FailureHasCause
<1>1. FailureInv => FailureHasCause
  BY DEF FailureInv, TokenInv, FailureRests, FailureHasCause
<1> QED BY <1>1, OneTokenAtATime, PTL

\* And nothing but a request takes a run from COMPLETED or FAILED: no pass that
\* began before, and none that a retry, an expired lease or the reconciler starts
\* after it.  CANCELLED is not covered: passes write over it.
THEOREM EndIsFinal ==
    ASSUME Sequential, OneRetrier
    PROVE  EngineSpec => RunEndStands
<1> DEFINE A ==
      /\ Calm'
      /\ runStatus' # runStatus
      => /\ runStatus = "COMPLETED" => \E r \in Cancellers : CancelRun(r)
         /\ runStatus = "FAILED" => \/ \E r \in Retriers : RetryRun(r)
                                    \/ \E r \in Cancellers : CancelRun(r)
<1>1. FailureInv /\ [EngineNext]_vars => [A]_vars
  BY EndStands
<1> HIDE DEF A
<1>2. EngineSpec => [][A]_vars
  BY <1>1, OneTokenAtATime, PTL DEF EngineSpec
<1> QED BY <1>2 DEF A, RunEndStands
=============================================================================
