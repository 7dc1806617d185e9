------------------------------ MODULE MCVotes ------------------------------
(* Three players and three indices; two frames stand for thirty seconds.   *)
EXTENDS Votes

CONSTANTS ann, bob, cid

ThreePlayers == {ann, bob, cid}
ThreeIndices == {1, 2, 3}
=============================================================================
