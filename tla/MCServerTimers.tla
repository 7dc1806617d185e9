--------------------------- MODULE MCServerTimers ---------------------------
(* Three players; delays of one or two frames stand for minutes and       *)
(* seconds.                                                                *)
EXTENDS ServerTimers, TLC

CONSTANTS ann, bob, cid

ThreePlayers == {ann, bob, cid}
Symmetry     == Permutations(ThreePlayers)
=============================================================================
