--------------------------- MODULE MCScriptEvents ---------------------------
(* A script with an unnamed event, and two events of one name around one of *)
(* another.                                                                 *)
EXTENDS ScriptEvents

CONSTANTS die, main, none

FourEvents == <<none, die, main, die>>
=============================================================================
