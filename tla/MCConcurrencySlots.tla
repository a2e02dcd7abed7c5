------------------------- MODULE MCConcurrencySlots -------------------------
\* Instances of ConcurrencySlots: two runs share partition a, a third is
\* alone in b; one worker has two places, the other has one.
EXTENDS ConcurrencySlots, TLC

CONSTANTS r1, r2, r3, a, b, w1, w2

MCPasses == {<<w1, 1>>, <<w1, 2>>, <<w2, 1>>}
MCPartitionOf == (r1 :> a) @@ (r2 :> a) @@ (r3 :> b)
=============================================================================
