-------------------------- MODULE MCStepFencing ----------------------------
(***************************************************************************)
(* StepFencing on small instances.  Callers are interchangeable: no action  *)
(* or property names one.  Liveness runs use no symmetry.                   *)
(***************************************************************************)
EXTENDS StepFencing, TLC

CONSTANTS c1, c2, c3, k1, k2
CallerSymmetry == Permutations(Callers)
============================================================================
