---------------------------- MODULE DurableStep ----------------------------
(***************************************************************************)
(* What step.run(key, handler) promises the author of a workflow: for each  *)
(* step key a write-once result.  Handlers may run many times, but the      *)
(* first result that is committed is the only one any execution of the      *)
(* workflow, first or replayed, is ever given for that key.                 *)
(***************************************************************************)
CONSTANTS Keys, Outputs, NoOutput

VARIABLES
    result,     \* the committed result of each step key
    delivered   \* the pairs <<key, result>> that step.run has returned

vars == <<result, delivered>>

Init ==
    /\ result = [k \in Keys |-> NoOutput]
    /\ delivered = {}

\* A handler's output becomes the step's result and is returned.
Commit(k, v) ==
    /\ result[k] = NoOutput
    /\ result' = [result EXCEPT ![k] = v]
    /\ delivered' = delivered \union {<<k, v>>}

\* A later execution of the workflow is given the memoized result.
Replay(k) ==
    /\ result[k] # NoOutput
    /\ delivered' = delivered \union {<<k, result[k]>>}
    /\ UNCHANGED result

Next ==
    \E k \in Keys : Replay(k) \/ \E v \in Outputs : Commit(k, v)

Spec == Init /\ [][Next]_vars
============================================================================
