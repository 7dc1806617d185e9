------------------------------- MODULE Votes -------------------------------
(***************************************************************************)
(* The votes of the players (CHalfLifeMultiplay::StartVote, TallyVote and  *)
(* UpdateVote): one at a time, to kick a player or to advance the time of  *)
(* day.  Votes are kept by the engine's client index in the bits of an     *)
(* integer and counted when the time is up, while the players may have     *)
(* left, and others come under their index, in between.                    *)
(*                                                                         *)
(* Times are what is left of them, in frames.                              *)
(***************************************************************************)
EXTENDS Naturals, FiniteSets, FiniteSetsExt

CONSTANTS
  Player,    \* Steam accounts: what GETPLAYERAUTHID tells apart
  Nobody,
  Index,     \* the client indices in use, out of 1 .. 32
  VoteTime,  \* the thirty seconds of a vote
  Cooldown   \* the ten more until its starter may start another

ASSUME ConstantsAssumption ==
  /\ Nobody \notin Player
  /\ Index \subseteq 1 .. 32 /\ IsFiniteSet(Index)
  /\ VoteTime \in Nat \ {0} /\ Cooldown \in Nat

VARIABLES
  seat,     \* the player under each index, or Nobody
  shown,    \* the indices whose m_fGameHUDInitialized is set
  canVote,  \* m_TimeCanVote of each player entity
  vote,     \* m_CurrentVote
  banned,   \* g_BanList
  kick,     \* the players named by "kick" commands the engine has to execute
  accused,  \* history: the player the running vote was started against
  said,     \* history: the players who have said yes in the running vote
  deserted, \* history: one of them has left since
  dodged    \* history: the players convicted under an index no longer theirs

room == <<seat, shown, canVote>>
history == <<accused, said, deserted, dodged>>
vars == <<room, vote, banned, kick, history>>

Kinds == {"kick", "advtime"}

Vote == [active : BOOLEAN, type : Kinds, target : Index \cup {0},
         id : Player \cup {Nobody}, left : 0 .. VoteTime, tally : SUBSET (1 .. 32)]

NoVote == [active |-> FALSE, type |-> "advtime", target |-> 0, id |-> Nobody,
           left |-> 0, tally |-> {}]

TypeOK ==
  /\ seat \in [Index -> Player \cup {Nobody}]
  /\ \A i, j \in Index : i # j /\ seat[i] = seat[j] => seat[i] = Nobody
  /\ shown \subseteq {i \in Index : seat[i] # Nobody}
  /\ canVote \in [Index -> 0 .. VoteTime + Cooldown]
  /\ vote \in Vote
  /\ banned \subseteq Player /\ kick \subseteq Player
  /\ accused \in Player \cup {Nobody}
  /\ said \subseteq Player /\ dodged \subseteq Player
  /\ deserted \in BOOLEAN

Init ==
  /\ seat = [i \in Index |-> Nobody] /\ shown = {}
  /\ canVote = [i \in Index |-> 0]
  /\ vote = NoVote
  /\ banned = {} /\ kick = {}
  /\ accused = Nobody /\ said = {} /\ deserted = FALSE /\ dodged = {}
-----------------------------------------------------------------------------
Seated(p) == \E i \in Index : seat[i] = p

\* A client whose commands are read, from before its first frame.
Speaks(i) == seat[i] # Nobody

\* 1 << (index - 1) in a byte.
PlayerBit(i) == IF i <= 8 THEN {i} ELSE {}

\* StartVote, with the starter's own vote (TallyVote).
StartVote(i, type, j) ==
  /\ Speaks(i) /\ ~vote.active
  /\ canVote[i] = 0
  /\ type = "kick" => seat[j] # Nobody
  /\ LET kicks == type = "kick"
     IN /\ vote' = [active |-> TRUE, type |-> type,
                    target |-> IF kicks THEN j ELSE 0,
                    id |-> IF kicks THEN seat[j] ELSE Nobody,
                    left |-> VoteTime, tally |-> PlayerBit(i)]
        /\ accused' = IF kicks THEN seat[j] ELSE Nobody
  /\ said' = {seat[i]} /\ deserted' = FALSE
  /\ canVote' = [canVote EXCEPT ![i] = VoteTime + Cooldown]
  /\ UNCHANGED <<seat, shown, banned, kick, dodged>>

\* TallyVote of a yes; a no changes nothing.
TallyVote(i) ==
  /\ Speaks(i) /\ vote.active
  /\ vote' = [vote EXCEPT !.tally = @ \cup PlayerBit(i)]
  /\ said' = said \cup {seat[i]}
  /\ UNCHANGED <<room, banned, kick, accused, deserted, dodged>>

\* Fault: whoever has the index now is kicked.
KickOf_Bug == {seat[vote.target]} \ {Nobody}

\* Fault: a player who is not spawned yet is let off.
KickOf_Spawned == IF seat[vote.target] = vote.id /\ vote.target \in shown THEN {vote.id} ELSE {}

\* The kick goes to the player the vote was started against, if he still has
\* the index he had.
KickOf == IF seat[vote.target] = vote.id THEN {vote.id} ELSE {}

\* Fault: half the players are enough.
Succeeds_Bug == 2 * Cardinality(vote.tally) >= Cardinality(shown)

\* iYesVotes / (float)iTotalPlayers > 0.50, also when nobody is there to be
\* counted and the quotient is infinite or not a number.
Succeeds == 2 * Cardinality(vote.tally) > Cardinality(shown)

\* Fault: with nobody but the starter left the vote goes on.
Due_Bug(left) == left = 0 /\ Cardinality(shown) > 1

\* The time is up, or at most one player is counted.
Due(left) == left = 0 \/ Cardinality(shown) <= 1

\* UpdateVote in a frame that leaves the vote so much time.
UpdateVote(left) ==
  IF ~vote.active \/ ~Due(left)
  THEN vote' = [vote EXCEPT !.left = left] /\ UNCHANGED <<banned, kick, dodged>>
  ELSE /\ vote' = NoVote
       /\ IF Succeeds /\ vote.type = "kick"
          THEN /\ kick' = kick \cup KickOf
               /\ banned' = banned \cup {vote.id}
               /\ dodged' = IF seat[vote.target] # vote.id THEN dodged \cup {vote.id} ELSE dodged
          ELSE UNCHANGED <<banned, kick, dodged>>

Less(t) == IF t = 0 THEN 0 ELSE t - 1

\* A frame: CHalfLifeMultiplay::Think.
Frame ==
  /\ UpdateVote(Less(vote.left))
  /\ canVote' = [i \in Index |-> Less(canVote[i])]
  /\ UNCHANGED <<seat, shown, accused, said, deserted>>
-----------------------------------------------------------------------------
(* Around the votes.                                                       *)

Empty(i) ==
  /\ seat' = [seat EXCEPT ![i] = Nobody]
  /\ shown' = shown \ {i}
  /\ canVote' = [canVote EXCEPT ![i] = 0]
  /\ deserted' = (deserted \/ seat[i] \in said)

\* ClientConnected refuses the banned; the engine gives out the lowest index.
ClientConnected(p) ==
  LET free == {i \in Index : seat[i] = Nobody}
  IN /\ ~Seated(p) /\ p \notin banned
     /\ free # {}
     /\ seat' = [seat EXCEPT ![Min(free)] = p]
     /\ UNCHANGED <<shown, canVote, vote, banned, kick, history>>

\* UpdateClientData, the first time.
InitHUD(i) ==
  /\ seat[i] # Nobody /\ i \notin shown
  /\ shown' = shown \cup {i}
  /\ UNCHANGED <<seat, canVote, vote, banned, kick, history>>

Disconnect(i) ==
  /\ seat[i] # Nobody
  /\ Empty(i)
  /\ UNCHANGED <<vote, banned, kick, accused, said, dodged>>

\* The engine executes "kick #id".
Kicked(p) ==
  /\ p \in kick /\ kick' = kick \ {p}
  /\ IF Seated(p) THEN \E i \in Index : seat[i] = p /\ Empty(i)
               ELSE UNCHANGED <<room, deserted>>
  /\ UNCHANGED <<vote, banned, accused, said, dodged>>

\* New rules and new player entities.
MapChange ==
  /\ seat' = [i \in Index |-> Nobody] /\ shown' = {}
  /\ canVote' = [i \in Index |-> 0]
  /\ vote' = NoVote
  /\ accused' = Nobody /\ said' = {} /\ deserted' = FALSE
  /\ UNCHANGED <<banned, kick, dodged>>

\* The engine executes its commands before it reads packets and runs a frame.
Next == \/ \E p \in Player : Kicked(p)
        \/ /\ kick = {}
           /\ \/ Frame \/ MapChange
              \/ \E i \in Index : \/ TallyVote(i) \/ InitHUD(i) \/ Disconnect(i)
                                  \/ \E t \in Kinds, j \in Index : StartVote(i, t, j)
              \/ \E p \in Player : ClientConnected(p)

\* The engine runs frames and executes its commands.
Fairness == WF_vars(kick = {} /\ Frame) /\ \A p \in Player : WF_vars(Kicked(p))

Spec == Init /\ [][Next]_vars /\ Fairness
-----------------------------------------------------------------------------
(* Properties.                                                             *)

Majority == 2 * Cardinality({i \in shown : seat[i] \in said}) > Cardinality(shown)

\* "If yes ratio is over 50%, take action": UpdateVote bans a player exactly
\* when more than half the players in the game have said yes to it, if
\* everybody who has is still in the game, under an index up to eight.
MajorityDecides ==
  [][vote.active /\ ~vote'.active /\ vote.type = "kick" /\ seat' = seat
     /\ ~deserted /\ said \subseteq {seat[i] : i \in shown \cap 1 .. 8} =>
       (vote.id \in banned' \ banned <=> Majority /\ vote.id \notin banned)]_vars

\* "If the player leaves and a new player joins, don't kick/ban the new
\* player": a kick names the player the vote was started against, whoever has
\* his index by then.
KickOnlyTarget ==
  [][/\ \A p \in kick' \ kick : p = accused
     /\ \A p \in banned' \ banned : p = accused]_vars

\* A vote does not block the next one for ever: UpdateVote ends it, however
\* many players come and go.
VoteEnds == vote.active ~> ~vote.active

\* "... was kicked by vote!": whoever a vote has banned goes and does not
\* come back, unless he had left and come back under another index before.
ConvictedLeave ==
  \A p \in Player : p \in banned \ dodged ~> [](p \in banned /\ ~Seated(p))
=============================================================================
