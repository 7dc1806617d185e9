--------------------------- MODULE MCCharTransfer ---------------------------
(* Two slots; characters of one to three pieces.                           *)
EXTENDS CharTransfer

TwoSlots == {1, 2}
=============================================================================
