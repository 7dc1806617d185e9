----------------------------- MODULE Selection -----------------------------
(* Loops over a list that erase the entries they have dealt with, which    *)
(* the parties and the scripts have in common.                             *)
EXTENDS Naturals, Sequences

\* The entries of s that are in S, in their order.
Only(s, S) ==
  LET kept[n \in 0 .. Len(s)] ==
        IF n = 0 THEN <<>>
        ELSE IF s[n] \in S THEN Append(kept[n - 1], s[n])
        ELSE kept[n - 1]
  IN kept[Len(s)]
=============================================================================
