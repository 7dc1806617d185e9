------------------------------ MODULE CharCopy ------------------------------
(***************************************************************************)
(* What sending characters to a client is for (see CharTransfer): now and  *)
(* then the server offers the client a copy of a character as it is, and   *)
(* the client's file of that slot is replaced by the copy offered first,   *)
(* whole and in one step, unless the connection is lost before.            *)
(***************************************************************************)
EXTENDS Naturals, Sequences

CONSTANTS Slot, Char, NoChar

VARIABLES
  current,  \* the characters the server has
  offers,   \* the copies on their way, in the order they were made
  kept      \* the client's files

vars == <<current, offers, kept>>

Nothing == [s \in Slot |-> NoChar]

Init == current = Nothing /\ offers = <<>> /\ kept = Nothing

Change(s, c) == current' = [current EXCEPT ![s] = c] /\ UNCHANGED <<offers, kept>>

Offer(s) == /\ current[s] # NoChar
            /\ offers' = Append(offers, [slot |-> s, char |-> current[s]])
            /\ UNCHANGED <<current, kept>>

Deliver == /\ offers # <<>> /\ offers' = Tail(offers)
           /\ kept' = [kept EXCEPT ![Head(offers).slot] = Head(offers).char]
           /\ UNCHANGED current

Lose == current' = Nothing /\ offers' = <<>> /\ UNCHANGED kept

Delete(s) == kept' = [kept EXCEPT ![s] = NoChar] /\ UNCHANGED <<current, offers>>

Next == \/ Deliver \/ Lose
        \/ \E s \in Slot : Offer(s) \/ Delete(s) \/ \E c \in Char : Change(s, c)

Spec == Init /\ [][Next]_vars
=============================================================================
