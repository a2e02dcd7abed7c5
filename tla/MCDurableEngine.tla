-------------------------- MODULE MCDurableEngine --------------------------
(***************************************************************************)
(* DurableEngine on small instances: one or two steps, in one stage (the    *)
(* handler awaits Promise.all) or in two (it awaits one after the other).   *)
(***************************************************************************)
EXTENDS SequentialRuns, TLC

CONSTANTS s1, s2, s3, a, b, none, r1, x1
MCCallers == Slots \X Keys
OneStage == [k \in Keys |-> 1]
TwoStages == [k \in Keys |-> IF k = a THEN 1 ELSE 2]
SlotSymmetry == Permutations({s1, s2})
=============================================================================
