------------------------- MODULE MCRunEventStream --------------------------
(* RunEventStream for TLC: two connections, of which one may be an old one. *)
EXTENDS RunEventStream

CONSTANTS c1, c2, none
=============================================================================
