----------------------------- MODULE MCParties -----------------------------
(* Three players, two party names, two addresses; the rest is in the .cfg. *)
EXTENDS Parties, TLC

CONSTANTS ann, bob, cid, a1, a2, wolves, bears

ThreePlayers == {ann, bob, cid}
TwoAddrs     == {a1, a2}
TwoNames     == {wolves, bears}

Symmetry == Permutations(ThreePlayers) \cup Permutations(TwoAddrs)
              \cup Permutations(TwoNames)
=============================================================================
