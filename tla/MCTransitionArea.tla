-------------------------- MODULE MCTransitionArea --------------------------
(* Two areas and two client indices, each of which is given out again.     *)
(* The other bounds of the run are in its .cfg.                            *)
EXTENDS TransitionArea, TLC

CONSTANTS north, south

TwoAreas   == {north, south}
TwoIndices == {1, 2}

Symmetry == Permutations(TwoAreas)
=============================================================================
