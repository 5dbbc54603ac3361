--------------------------- MODULE MCContextPool ---------------------------
(***************************************************************************)
(* Instances of ContextPool.                                               *)
(***************************************************************************)
EXTENDS ContextPool, TLC

CONSTANTS r1, r2, r3, c1, c2

ThreeRequests == {r1, r2, r3}
TwoContexts == {c1, c2}

Alike == Permutations(ThreeRequests) \cup Permutations(TwoContexts)
=============================================================================
