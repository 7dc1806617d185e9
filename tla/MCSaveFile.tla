----------------------------- MODULE MCSaveFile -----------------------------
(* One player with one slot: the files of a slot do not touch another's.   *)
EXTENDS SaveFile

OneSlot == {1}
=============================================================================
