--------------------------- MODULE MCFNCharacters ---------------------------
(* A small dedicated server: one player, one or two slots, and the ways    *)
(* requests fail.  The remaining bounds of a run are in its .cfg.          *)
EXTENDS FNCharacters

OnePlayer == {1}

TwoRequests   == [p \in Player |-> 2]
ThreeRequests == [p \in Player |-> 3]

\* Enough for two slots to be loaded, one of them filled, saved or emptied,
\* and both loaded again.
SixRequests == [p \in Player |-> 6]

\* Everything but what the clients were told and what of it the server keeps,
\* the cached statuses.  Nothing else is computed from these, so a run whose
\* properties do not mention them need not tell states apart by them.
Untold(ci) == [status |-> ci.status, guid |-> ci.guid, data |-> ci.data]

ServerView ==
  <<phase, central, loaded, validated, playVars, storeVars, queueVars,
    [p \in Player |-> [s \in Slot |-> Untold(info[p][s])]]>>

\* Every way to fail that takes another path through the code; "empty" and
\* "servererror" end like "unauthorized".
EveryPath == {"noresponse", "badjson", "unauthorized", "banned", "unsent"}
=============================================================================
