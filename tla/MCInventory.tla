---------------------------- MODULE MCInventory ----------------------------
(* Two players, a pack that can be worn, two arrows that stack, and a      *)
(* spear that stacks with other spears and needs both hands.               *)
EXTENDS Inventory, TLC

CONSTANTS ann, bob, quiver, arrow1, arrow2, spear

TwoPlayers == {ann, bob}
FourItems == {quiver, arrow1, arrow2, spear}
OnePack == {quiver}
Prefs == (quiver :> "any") @@ (arrow1 :> "left") @@ (arrow2 :> "left") @@ (spear :> "both")
WornOnBack == [i \in FourItems |-> IF i = quiver THEN "back" ELSE ""]
Kinds == (quiver :> "quiver") @@ (arrow1 :> "arrow") @@ (arrow2 :> "arrow") @@ (spear :> "spear")
Arrows == {arrow1, arrow2}
AcceptsAll == quiver :> (Arrows \cup {spear})
Stacking == Arrows \cup {spear}
RoomForTwo == quiver :> 2

Symmetry == Permutations(TwoPlayers) \cup Permutations(Arrows)
=============================================================================
