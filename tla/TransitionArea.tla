--------------------------- MODULE TransitionArea ---------------------------
(***************************************************************************)
(* The areas that take the players to another map (CAreaTransition).  A    *)
(* player who walks into one is registered in CurrentTransArea the next    *)
(* time his areas are checked; once every active player is registered in   *)
(* the same area, each "accept" is a vote, and the vote that completes     *)
(* them starts the journey.  Players come and go meanwhile, under the      *)
(* engine's client index, which the next player to connect inherits.       *)
(*                                                                         *)
(* Left out: bDidVote, which only decides whether the game master's script *)
(* is told of a first vote, and texts and sounds.  The level change itself *)
(* is made by a script, here MapChange.                                    *)
(***************************************************************************)
EXTENDS Naturals

CONSTANTS
  Index,      \* the client indices in use, out of 1 .. 32
  Area,       \* the msarea_transition entities of the map
  NoArea,     \* no area: CurrentTransArea is NULL, m_NextMap is this map
  MaxJoins    \* bound: connections made

ASSUME ConstantsAssumption ==
  /\ Index \subseteq 1 .. 32
  /\ NoArea \notin Area
  /\ MaxJoins \in Nat

VARIABLES
  here,      \* the players UTIL_PlayerByIndex finds
  loaded,    \* those of them whose m_CharacterState is not UNLOADED
  active,    \* those of these who are IsActive
  standing,  \* the area each one stands in
  current,   \* CurrentTransArea
  next,      \* m_NextMap, by the area that leads there
  saved,     \* m_NextMap in the player's last save
  votes,     \* PlayerVotes, as a set of bit numbers
  disabled,  \* GM_DISABLE_TRANSITIONS
  locked,    \* the areas whose master is not triggered
  leaving,   \* the area whose journey has started, or NoArea
  joins,     \* connections made so far
  agreed,    \* history: who has voted in each area since its votes were reset
  upset      \* history: the areas since whose votes were reset somebody active
             \* or one of the voters has left the server, or somebody has
             \* become active or inactive

players == <<here, loaded, active, standing>>
travel  == <<current, next, saved>>
doors   == <<disabled, locked>>
history == <<agreed, upset>>
vars    == <<players, travel, votes, doors, leaving, joins, history>>

TypeOK ==
  /\ here \subseteq Index /\ loaded \subseteq here /\ active \subseteq loaded
  /\ standing \in [Index -> Area \cup {NoArea}]
  /\ current \in [Index -> Area \cup {NoArea}]
  /\ next \in [Index -> Area \cup {NoArea}]
  /\ saved \in [Index -> Area \cup {NoArea}]
  /\ votes \in [Area -> SUBSET (1 .. 32)]
  /\ disabled \in BOOLEAN /\ locked \subseteq Area
  /\ leaving \in Area \cup {NoArea}
  /\ joins \in Nat
  /\ agreed \in [Area -> SUBSET Index]
  /\ upset \subseteq Area

Nowhere == [i \in Index |-> NoArea]

Init ==
  /\ here = {} /\ loaded = {} /\ active = {}
  /\ standing = Nowhere
  /\ current = Nowhere /\ next = Nowhere /\ saved = Nowhere
  /\ votes = [a \in Area |-> {}]
  /\ disabled = FALSE /\ locked = {}
  /\ leaving = NoArea
  /\ joins = 0
  /\ agreed = [a \in Area |-> {}] /\ upset = {}
-----------------------------------------------------------------------------
\* Fault: it is enough to be in some area.
FAllPlayersAreTouchingMe_Bug(a, cur) == \A i \in active : cur[i] # NoArea

\* CAreaTransition::FAllPlayersAreTouchingMe, with CurrentTransArea as cur.
FAllPlayersAreTouchingMe(a, cur) == \A i \in active : cur[i] = a

\* Fault: the shift is by one place less.
PlayerBits_Bug(i) == {i - 1}

\* The vote of a player: 1 << (index - 1) in a byte, which has no bit for an
\* index above eight.
PlayerBits(i) == IF i <= 8 THEN {i} ELSE {}

\* AllVotes, an int.
AllVotes == active

\* Fault: the votes of the last gathering are kept.
VotesOnTouch_Bug(a, cur) == votes

\* The votes start again whenever the last active player walks in.
VotesOnTouch(a, cur) == IF FAllPlayersAreTouchingMe(a, cur)
                        THEN [votes EXCEPT ![a] = {}] ELSE votes

\* CAreaTransition::OnControls: player i was found inside a.
OnControls(i, a) ==
  LET cur == [current EXCEPT ![i] = a]
  IN /\ ~disabled /\ a \notin locked
     /\ current[i] # a
     /\ current' = cur
     /\ votes' = VotesOnTouch(a, cur)
     /\ IF FAllPlayersAreTouchingMe(a, cur)
        THEN agreed' = [agreed EXCEPT ![a] = {}] /\ upset' = upset \ {a}
        ELSE UNCHANGED history
     /\ next' = [next EXCEPT ![i] = a]
     /\ \/ saved' = [saved EXCEPT ![i] = a]
        \/ i \notin active /\ UNCHANGED saved  \* SaveChar may refuse him
     /\ UNCHANGED <<players, doors, leaving, joins>>

\* CAreaTransition::DeathNotice: player i was found in no area.
DeathNotice(i, a) ==
  /\ ~disabled /\ a \notin locked
  /\ current' = [current EXCEPT ![i] = NoArea]
  /\ UNCHANGED <<players, next, saved, votes, doors, leaving, joins, history>>

\* The area check in a player's frame, every second and a half.
CheckAreas(i) ==
  /\ i \in here
  /\ \/ standing[i] # NoArea /\ OnControls(i, standing[i])
     \/ standing[i] = NoArea /\ current[i] # NoArea /\ DeathNotice(i, current[i])

\* CAreaTransition::MSQuery: player i, registered in a, enters "accept".
MSQuery(i, a) ==
  LET cast == votes[a] \cup PlayerBits(i)
  IN /\ ~disabled
     /\ FAllPlayersAreTouchingMe(a, current)
     /\ PlayerBits(i) = {} \/ ~ PlayerBits(i) \subseteq votes[a]
     /\ votes' = [votes EXCEPT ![a] = cast]
     /\ agreed' = [agreed EXCEPT ![a] = @ \cup {i}]
     /\ IF cast = AllVotes
        THEN /\ leaving' = a
             /\ saved' = [j \in Index |-> IF j \in active THEN next[j] ELSE saved[j]]
        ELSE UNCHANGED <<leaving, saved>>
     /\ UNCHANGED <<players, current, next, doors, joins, upset>>

\* The command "accept": neither it nor MSQuery asks whether the player is
\* active, so one who has fainted where he is registered still votes.
Accept(i) == /\ i \in here /\ leaving = NoArea
             /\ current[i] # NoArea /\ MSQuery(i, current[i])
-----------------------------------------------------------------------------
(* Around the areas.                                                       *)

\* A new player entity, all zero; an observer who cannot move.
Connect(i) ==
  /\ i \notin here /\ joins < MaxJoins
  /\ here' = here \cup {i} /\ joins' = joins + 1
  /\ UNCHANGED <<loaded, active, standing, travel, votes, doors, leaving, history>>

\* RestoreAllServer: the character is loaded and put into the world, at a
\* spot outside the areas.
Enter(i) ==
  /\ i \in here \ loaded
  /\ loaded' = loaded \cup {i} /\ active' = active \cup {i}
  /\ next' = [next EXCEPT ![i] = NoArea]
  /\ upset' = Area
  /\ UNCHANGED <<here, standing, current, saved, votes, doors, leaving, joins, agreed>>

\* MaxHP falls below 15, or a script takes him out of the world; and back.
Faint(i) ==
  /\ i \in loaded
  /\ active' = IF i \in active THEN active \ {i} ELSE active \cup {i}
  /\ upset' = Area
  /\ UNCHANGED <<here, loaded, standing, travel, votes, doors, leaving, joins, agreed>>

Disconnect(i) ==
  /\ i \in here
  /\ here' = here \ {i} /\ loaded' = loaded \ {i} /\ active' = active \ {i}
  /\ standing' = [standing EXCEPT ![i] = NoArea]
  /\ current' = [current EXCEPT ![i] = NoArea]
  /\ next' = [next EXCEPT ![i] = NoArea]
  /\ saved' = [saved EXCEPT ![i] = NoArea]
  /\ agreed' = [a \in Area |-> agreed[a] \ {i}]
  /\ upset' = IF i \in active THEN Area
              ELSE upset \cup {a \in Area : i \in agreed[a]}
  /\ UNCHANGED <<votes, doors, leaving, joins>>

\* EnableControl(FALSE) holds the players once the journey has started.
Walk(i) ==
  /\ i \in loaded /\ leaving = NoArea
  /\ \E a \in Area \cup {NoArea} :
       a # standing[i] /\ standing' = [standing EXCEPT ![i] = a]
  /\ UNCHANGED <<here, loaded, active, travel, votes, doors, leaving, joins, history>>

\* Scripts and triggers open and close the way.
SetDoors ==
  /\ \/ disabled' = ~disabled /\ UNCHANGED locked
     \/ \E a \in Area : /\ locked' = IF a \in locked THEN locked \ {a} ELSE locked \cup {a}
                        /\ UNCHANGED disabled
  /\ UNCHANGED <<players, travel, votes, leaving, joins, history>>

\* The script's changelevel: new entities, and everybody connects again.
MapChange ==
  /\ leaving # NoArea
  /\ here' = {} /\ loaded' = {} /\ active' = {} /\ standing' = Nowhere
  /\ current' = Nowhere /\ next' = Nowhere /\ saved' = Nowhere
  /\ votes' = [a \in Area |-> {}] /\ agreed' = [a \in Area |-> {}]
  /\ upset' = {}
  /\ disabled' = FALSE /\ locked' = {}
  /\ leaving' = NoArea
  /\ UNCHANGED joins

Next == \/ MapChange \/ SetDoors
        \/ \E i \in Index : \/ CheckAreas(i) \/ Accept(i)
                            \/ Connect(i) \/ Enter(i) \/ Faint(i)
                            \/ Disconnect(i) \/ Walk(i)

Spec == Init /\ [][Next]_vars
-----------------------------------------------------------------------------
(* Properties.                                                             *)

Gathered(a) == active # {} /\ \A i \in active : current[i] = a

\* MSQuery starts a journey only to where every active player is going: the
\* save each one has just made leads to that same map (JN_TRAVEL), so that
\* nobody arrives there without a character that may join.
NobodyLeftBehind ==
  [][leaving' # leaving /\ leaving' # NoArea =>
       \A i \in active : saved'[i] = leaving' /\ current[i] = leaving']_vars

\* "You can either vote yes or not vote, which means no": a journey starts
\* only when every active player himself has voted for it, if they are the
\* ones who were there when the votes began.
NobodyDraggedAlong ==
  [][leaving' # leaving /\ leaving' \notin upset \cup {NoArea} =>
       active \subseteq agreed'[leaving']]_vars

\* "Everyone voted, switch the map": when the active players stand in one
\* area and exactly they have voted there, the journey has started, if they
\* are the ones who were there when the votes began and none has an index
\* above eight.  PlayerVotes == AllVotes is an equality, and a vote from
\* somebody who is not active, which Accept allows, puts a bit into
\* PlayerVotes that AllVotes never has: such a vote holds up the journey
\* until the votes start again.
EveryoneVotedTravels ==
  \A a \in Area \ upset :
    Gathered(a) /\ agreed[a] = active /\ active \subseteq 1 .. 8 => leaving = a
=============================================================================
