---------------------------- MODULE RequestPool ----------------------------
(***************************************************************************)
(* What the request machinery promises to its users, without vector,       *)
(* frames or Steam: a submitted request is handed to its handler at most   *)
(* once, is forgotten only after the call it started has ended, is never   *)
(* handed to its handler once the map is over, and does not outlive the    *)
(* map it was submitted in.                                                *)
(*                                                                         *)
(* fate[r] is where request r stands:                                      *)
(*   "new"       not submitted                                             *)
(*   "waiting"   submitted, its call may or may not have started           *)
(*   "answered"  OnResponse has been called                                *)
(*   "dropped"   the call is over, OnResponse was never called             *)
(*   "gone"      the object is deleted                                     *)
(***************************************************************************)
CONSTANT Req

VARIABLES fate,   \* [Req -> Fate]
          open    \* TRUE while a map runs and handlers may be called

poolVars == <<fate, open>>

Fate == {"new", "waiting", "answered", "dropped", "gone"}

PoolInit == fate = [r \in Req |-> "new"] /\ open = FALSE

\* A map starts when every request of an earlier map is gone.
Open == /\ ~open
        /\ \A r \in Req : fate[r] \in {"new", "gone"}
        /\ open' = TRUE
        /\ UNCHANGED fate

Close == open /\ open' = FALSE /\ UNCHANGED fate

Submit(r) == /\ open
             /\ fate[r] = "new"
             /\ fate' = [fate EXCEPT ![r] = "waiting"]
             /\ UNCHANGED open

\* One frame: any calls end, any objects whose call is over are deleted.
Progress ==
  /\ fate' \in [Req -> Fate]
  /\ \A r \in Req :
       \/ fate'[r] = fate[r]
       \/ fate[r] = "waiting" /\ fate'[r] = "answered" /\ open
       \/ fate[r] = "waiting" /\ fate'[r] = "dropped"
       \/ fate[r] \in {"answered", "dropped"} /\ fate'[r] = "gone"
  /\ UNCHANGED open

PoolNext == Open \/ Close \/ Progress \/ \E r \in Req : Submit(r)

PoolSpec == PoolInit /\ [][PoolNext]_poolVars
=============================================================================
