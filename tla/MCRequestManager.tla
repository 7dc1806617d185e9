-------------------------- MODULE MCRequestManager --------------------------
(* Three request objects, enough for a queued, an executed and a finished  *)
(* one to be neighbours in the vector while Think walks it.                *)
EXTENDS RequestManager, TLC

CONSTANTS r1, r2, r3

ThreeRequests == {r1, r2, r3}
Symmetry == Permutations(ThreeRequests)
=============================================================================
