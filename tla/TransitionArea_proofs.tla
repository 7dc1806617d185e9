----------------------- MODULE TransitionArea_proofs -----------------------
(* Theorems about TransitionArea, for any areas, client indices and number *)
(* of connections.                                                         *)
EXTENDS TransitionArea, TLAPS

USE ConstantsAssumption
-----------------------------------------------------------------------------
(* Types.                                                                  *)

LEMMA TypeStep == TypeOK /\ [Next]_vars => TypeOK'
<1> SUFFICES ASSUME TypeOK, [Next]_vars
             PROVE  TypeOK'
  OBVIOUS
<1>1. CASE MapChange
  BY <1>1 DEF MapChange, TypeOK, Nowhere
<1>2. CASE SetDoors
  BY <1>2 DEF SetDoors, TypeOK, players, travel, history
<1>3. ASSUME NEW i \in Index, NEW a \in Area, OnControls(i, a)
      PROVE  TypeOK'
  <2>1. votes' \in [Area -> SUBSET (1 .. 32)]
    BY <1>3 DEF OnControls, VotesOnTouch, TypeOK
  <2>2. agreed' \in [Area -> SUBSET Index] /\ upset' \subseteq Area
    BY <1>3 DEF OnControls, TypeOK, history
  <2> QED
    BY <1>3, <2>1, <2>2 DEF OnControls, TypeOK, players, doors
<1>4. ASSUME NEW i \in Index, NEW a \in Area, DeathNotice(i, a)
      PROVE  TypeOK'
  BY <1>4 DEF DeathNotice, TypeOK, players, doors, history
<1>5. ASSUME NEW i \in Index, CheckAreas(i)
      PROVE  TypeOK'
  <2>1. standing[i] # NoArea => standing[i] \in Area
    BY DEF TypeOK
  <2>2. current[i] # NoArea => current[i] \in Area
    BY DEF TypeOK
  <2> QED
    BY <1>3, <1>4, <1>5, <2>1, <2>2 DEF CheckAreas
<1>6. ASSUME NEW i \in Index, Accept(i)
      PROVE  TypeOK'
  <2>1. PICK a \in Area : MSQuery(i, a)
    BY <1>6 DEF Accept, TypeOK
  <2>2. PlayerBits(i) \subseteq 1 .. 32
    BY DEF PlayerBits
  <2>3. /\ votes' \in [Area -> SUBSET (1 .. 32)]
        /\ agreed' \in [Area -> SUBSET Index]
    BY <2>1, <2>2 DEF MSQuery, TypeOK
  <2>4. leaving' \in Area \cup {NoArea} /\ saved' \in [Index -> Area \cup {NoArea}]
    BY <2>1 DEF MSQuery, TypeOK
  <2> QED
    BY <2>1, <2>3, <2>4 DEF MSQuery, TypeOK, players, doors
<1>7. ASSUME NEW i \in Index, Connect(i)
      PROVE  TypeOK'
  BY <1>7 DEF Connect, TypeOK, travel, doors, history
<1>8. ASSUME NEW i \in Index, Enter(i)
      PROVE  TypeOK'
  BY <1>8 DEF Enter, TypeOK, doors
<1>9. ASSUME NEW i \in Index, Faint(i)
      PROVE  TypeOK'
  BY <1>9 DEF Faint, TypeOK, travel, doors
<1>10. ASSUME NEW i \in Index, Disconnect(i)
       PROVE  TypeOK'
  BY <1>10 DEF Disconnect, TypeOK, doors
<1>11. ASSUME NEW i \in Index, Walk(i)
       PROVE  TypeOK'
  BY <1>11 DEF Walk, TypeOK, travel, doors, history
<1>12. CASE UNCHANGED vars
  BY <1>12 DEF TypeOK, vars, players, travel, doors, history
<1> QED
  BY <1>1, <1>2, <1>5, <1>6, <1>7, <1>8, <1>9, <1>10, <1>11, <1>12 DEF Next

\* Every reachable state is well typed; above all, no bit is set that stands
\* for no client.
THEOREM TypeCorrect == Spec => []TypeOK
<1>1. ASSUME Init
      PROVE  TypeOK
  <2>1. Nowhere \in [Index -> Area \cup {NoArea}]
    BY DEF Nowhere
  <2>2. /\ [a \in Area |-> {}] \in [Area -> SUBSET (1 .. 32)]
        /\ [a \in Area |-> {}] \in [Area -> SUBSET Index]
    OBVIOUS
  <2>3. disabled \in BOOLEAN
    BY <1>1 DEF Init
  <2> QED
    BY <1>1, <2>1, <2>2, <2>3 DEF Init, TypeOK
<1> QED
  BY <1>1, TypeStep, PTL DEF Spec
-----------------------------------------------------------------------------
(* Where the players are going.                                            *)

\* Who is registered in an area is about to go where it leads, and only a
\* loaded player stands or is registered anywhere.
Bound ==
  \A i \in Index :
    /\ current[i] # NoArea => next[i] = current[i]
    /\ i \notin loaded => standing[i] = NoArea /\ current[i] = NoArea

LEMMA BoundStep == TypeOK /\ Bound /\ [Next]_vars => Bound'
<1> SUFFICES ASSUME TypeOK, Bound, [Next]_vars
             PROVE  Bound'
  OBVIOUS
<1>1. CASE MapChange
  BY <1>1 DEF MapChange, Bound, Nowhere
<1>2. CASE SetDoors
  BY <1>2 DEF SetDoors, Bound, players, travel
<1>3. ASSUME NEW i \in Index, CheckAreas(i)
      PROVE  Bound'
  BY <1>3 DEF CheckAreas, OnControls, DeathNotice, Bound, TypeOK, players
<1>4. ASSUME NEW i \in Index, Accept(i)
      PROVE  Bound'
  BY <1>4 DEF Accept, MSQuery, Bound, players
<1>5. ASSUME NEW i \in Index, Connect(i)
      PROVE  Bound'
  BY <1>5 DEF Connect, Bound, travel
<1>6. ASSUME NEW i \in Index, Enter(i)
      PROVE  Bound'
  BY <1>6 DEF Enter, Bound, TypeOK
<1>7. ASSUME NEW i \in Index, Faint(i)
      PROVE  Bound'
  BY <1>7 DEF Faint, Bound, travel
<1>8. ASSUME NEW i \in Index, Disconnect(i)
      PROVE  Bound'
  BY <1>8 DEF Disconnect, Bound, TypeOK
<1>9. ASSUME NEW i \in Index, Walk(i)
      PROVE  Bound'
  BY <1>9 DEF Walk, Bound, TypeOK, travel
<1>10. CASE UNCHANGED vars
  BY <1>10 DEF Bound, vars, players, travel
<1> QED
  BY <1>1, <1>2, <1>3, <1>4, <1>5, <1>6, <1>7, <1>8, <1>9, <1>10 DEF Next

LEMMA BoundHolds == Spec => [](TypeOK /\ Bound)
<1>1. Init => Bound
  BY DEF Init, Bound, Nowhere
<1> QED
  BY <1>1, TypeCorrect, BoundStep, PTL DEF Spec

\* Only an "accept" starts a journey.
LEMMA JourneyStep ==
  ASSUME TypeOK, [Next]_vars, leaving' # leaving, leaving' # NoArea
  PROVE  \E i \in Index :
           leaving = NoArea /\ leaving' = current[i] /\ leaving' \in Area /\ MSQuery(i, leaving')
<1>1. PICK i \in Index : Accept(i)
  BY DEF Next, MapChange, SetDoors, CheckAreas, OnControls, DeathNotice, Connect, Enter,
         Faint, Disconnect, Walk, vars
<1>2. leaving' = current[i]
  BY <1>1 DEF Accept, MSQuery
<1> QED
  BY <1>1, <1>2 DEF Accept, TypeOK

LEMMA ArrivalStep ==
  ASSUME TypeOK, Bound, [Next]_vars, leaving' # leaving, leaving' # NoArea
  PROVE  \A i \in active : saved'[i] = leaving' /\ current[i] = leaving'
<1>1. PICK i \in Index : leaving' \in Area /\ MSQuery(i, leaving')
  BY JourneyStep
<1>2. \A j \in active : current[j] = leaving'
  BY <1>1 DEF MSQuery, FAllPlayersAreTouchingMe
<1>3. \A j \in active : saved'[j] = next[j]
  BY <1>1 DEF MSQuery, TypeOK
<1>4. \A j \in active : j \in Index
  BY DEF TypeOK
<1> QED
  BY <1>2, <1>3, <1>4 DEF Bound

\* A journey takes every active player to the same map, the one his save
\* says he is travelling to.
THEOREM AllTravelTogether == Spec => NobodyLeftBehind
BY BoundHolds, ArrivalStep, PTL DEF Spec, NobodyLeftBehind
-----------------------------------------------------------------------------
(* The votes.                                                              *)

\* Where nothing has upset them since they began, the bits of an area are its
\* votes, as far as there is a bit for a player.
Tallied == \A a \in Area \ upset : votes[a] = {i \in agreed[a] : i <= 8}

LEMMA TalliedOnControls ==
  ASSUME TypeOK, Tallied, NEW i \in Index, NEW a \in Area, OnControls(i, a)
  PROVE  Tallied'
<1> DEFINE cur == [current EXCEPT ![i] = a]
<1>1. CASE FAllPlayersAreTouchingMe(a, cur)
  <2>1. /\ agreed' = [agreed EXCEPT ![a] = {}] /\ upset' = upset \ {a}
        /\ votes' = [votes EXCEPT ![a] = {}] /\ active' = active
    BY <1>1 DEF OnControls, VotesOnTouch, players
  <2> QED
    BY <2>1 DEF Tallied, TypeOK
<1>2. CASE ~FAllPlayersAreTouchingMe(a, cur)
  <2>1. /\ agreed' = agreed /\ upset' = upset
        /\ votes' = votes /\ active' = active
    BY <1>2 DEF OnControls, VotesOnTouch, players, history
  <2> QED
    BY <2>1 DEF Tallied
<1> QED
  BY <1>1, <1>2

LEMMA TalliedStep == TypeOK /\ Tallied /\ [Next]_vars => Tallied'
<1> SUFFICES ASSUME TypeOK, Tallied, [Next]_vars
             PROVE  Tallied'
  OBVIOUS
<1>1. CASE MapChange
  BY <1>1 DEF MapChange, Tallied
<1>2. CASE SetDoors
  BY <1>2 DEF SetDoors, Tallied, players, history
<1>3. ASSUME NEW i \in Index, CheckAreas(i)
      PROVE  Tallied'
  <2>1. CASE standing[i] # NoArea /\ OnControls(i, standing[i])
    <3>1. standing[i] \in Area
      BY <2>1 DEF TypeOK
    <3> QED
      BY <2>1, <3>1, TalliedOnControls
  <2>2. CASE DeathNotice(i, current[i])
    BY <2>2 DEF DeathNotice, Tallied, players, history
  <2> QED
    BY <1>3, <2>1, <2>2 DEF CheckAreas
<1>4. ASSUME NEW i \in Index, Accept(i)
      PROVE  Tallied'
  <2>1. PICK a \in Area : MSQuery(i, a)
    BY <1>4 DEF Accept, TypeOK
  <2>2. /\ votes' = [votes EXCEPT ![a] = @ \cup PlayerBits(i)]
        /\ agreed' = [agreed EXCEPT ![a] = @ \cup {i}]
        /\ upset' = upset
    BY <1>4, <2>1 DEF Accept, MSQuery
  <2> QED
    BY <2>2 DEF Tallied, TypeOK, PlayerBits
<1>5. ASSUME NEW i \in Index, Connect(i)
      PROVE  Tallied'
  BY <1>5 DEF Connect, Tallied, history
<1>6. ASSUME NEW i \in Index, Enter(i)
      PROVE  Tallied'
  BY <1>6 DEF Enter, Tallied
<1>7. ASSUME NEW i \in Index, Faint(i)
      PROVE  Tallied'
  BY <1>7 DEF Faint, Tallied
<1>8. ASSUME NEW i \in Index, Disconnect(i)
      PROVE  Tallied'
  <2>1. CASE i \in active
    BY <1>8, <2>1 DEF Disconnect, Tallied
  <2>2. CASE i \notin active
    <3>1. /\ \A a \in Area : agreed'[a] = agreed[a] \ {i}
          /\ \A a \in Area \ upset' : a \notin upset /\ i \notin agreed[a]
          /\ votes' = votes
      BY <1>8, <2>2 DEF Disconnect, TypeOK
    <3> QED
      BY <2>2, <3>1 DEF Tallied
  <2> QED
    BY <2>1, <2>2
<1>9. ASSUME NEW i \in Index, Walk(i)
      PROVE  Tallied'
  BY <1>9 DEF Walk, Tallied, history
<1>10. CASE UNCHANGED vars
  BY <1>10 DEF Tallied, vars, players, history
<1> QED
  BY <1>1, <1>2, <1>3, <1>4, <1>5, <1>6, <1>7, <1>8, <1>9, <1>10 DEF Next

LEMMA TalliedHolds == Spec => [](TypeOK /\ Tallied)
<1>1. Init => Tallied
  BY DEF Init, Tallied
<1> QED
  BY <1>1, TypeCorrect, TalliedStep, PTL DEF Spec

LEMMA ConsentStep ==
  ASSUME TypeOK, Tallied, [Next]_vars,
         leaving' # leaving, leaving' \notin upset \cup {NoArea}
  PROVE  active \subseteq agreed'[leaving']
<1>1. PICK i \in Index : leaving = NoArea /\ leaving' \in Area /\ MSQuery(i, leaving')
  BY JourneyStep
<1>2. active = votes[leaving'] \cup PlayerBits(i)
  BY <1>1 DEF MSQuery, AllVotes
<1>3. votes[leaving'] \subseteq agreed[leaving']
  BY <1>1 DEF Tallied
<1>4. agreed'[leaving'] = agreed[leaving'] \cup {i}
  BY <1>1 DEF MSQuery, TypeOK
<1> QED
  BY <1>2, <1>3, <1>4 DEF PlayerBits

\* No journey starts without the vote of every active player himself, as long
\* as the active players are those who were there when the votes began.
THEOREM EveryTravellerVoted == Spec => NobodyDraggedAlong
BY TalliedHolds, ConsentStep, PTL DEF Spec, NobodyDraggedAlong
-----------------------------------------------------------------------------
(* A complete vote starts the journey.                                     *)

LEMMA VotedOnControls ==
  ASSUME TypeOK, EveryoneVotedTravels, NEW i \in Index, NEW b \in Area, OnControls(i, b)
  PROVE  EveryoneVotedTravels'
<1> SUFFICES ASSUME NEW a \in Area, a \notin upset', Gathered(a)',
                    agreed'[a] = active', active' \subseteq 1 .. 8
             PROVE  leaving' = a
  BY DEF EveryoneVotedTravels
<1> DEFINE cur == [current EXCEPT ![i] = b]
<1>1. active' = active /\ current' = cur /\ leaving' = leaving
  BY DEF OnControls, players
<1>2. PICK j \in active : cur[j] = a
  BY <1>1 DEF Gathered
<1>3. CASE FAllPlayersAreTouchingMe(b, cur)
  <2>1. a = b /\ agreed'[a] = {}
    BY <1>2, <1>3 DEF FAllPlayersAreTouchingMe, OnControls, TypeOK
  <2> QED
    BY <1>1, <1>2, <2>1
<1>4. CASE ~FAllPlayersAreTouchingMe(b, cur)
  <2>1. agreed' = agreed /\ upset' = upset
    BY <1>4 DEF OnControls, history
  <2>2. a # b
    BY <1>1, <1>4 DEF Gathered, FAllPlayersAreTouchingMe
  <2>3. i \notin active
    BY <1>1, <2>2 DEF Gathered, TypeOK
  <2>4. Gathered(a)
    BY <1>1, <2>3 DEF Gathered, TypeOK
  <2> QED
    BY <1>1, <2>1, <2>4 DEF EveryoneVotedTravels
<1> QED
  BY <1>3, <1>4

LEMMA VotedAccept ==
  ASSUME TypeOK, Tallied, EveryoneVotedTravels, NEW i \in Index, Accept(i)
  PROVE  EveryoneVotedTravels'
<1> SUFFICES ASSUME NEW a \in Area, a \notin upset', Gathered(a)',
                    agreed'[a] = active', active' \subseteq 1 .. 8
             PROVE  leaving' = a
  BY DEF EveryoneVotedTravels
<1>1. PICK b \in Area : MSQuery(i, b)
  BY DEF Accept, TypeOK
<1>2. /\ active' = active /\ current' = current /\ upset' = upset
      /\ agreed' = [agreed EXCEPT ![b] = @ \cup {i}]
  BY <1>1 DEF MSQuery, players
<1>3. Gathered(a) /\ FAllPlayersAreTouchingMe(b, current)
  BY <1>1, <1>2 DEF Gathered, MSQuery
<1>4. a = b
  BY <1>3 DEF Gathered, FAllPlayersAreTouchingMe
<1>5. active = agreed[a] \cup {i}
  BY <1>2, <1>4 DEF TypeOK
<1>6. votes[a] = {j \in agreed[a] : j <= 8}
  BY <1>2 DEF Tallied
<1>7. votes[a] = agreed[a] /\ i <= 8
  <2>1. agreed[a] \subseteq 1 .. 8 /\ i \in 1 .. 8
    BY <1>2, <1>5, Zenon
  <2>2. \A j \in 1 .. 8 : j <= 8
    OBVIOUS
  <2> QED
    BY <1>6, <2>1, <2>2, Zenon
<1>8. votes[a] \cup PlayerBits(i) = AllVotes
  BY <1>5, <1>7 DEF AllVotes, PlayerBits
<1> QED
  BY <1>1, <1>4, <1>8 DEF MSQuery

LEMMA VotedStep ==
  TypeOK /\ Tallied /\ EveryoneVotedTravels /\ [Next]_vars => EveryoneVotedTravels'
<1> SUFFICES ASSUME TypeOK, Tallied, EveryoneVotedTravels, [Next]_vars
             PROVE  EveryoneVotedTravels'
  OBVIOUS
<1>1. CASE MapChange
  BY <1>1 DEF MapChange, EveryoneVotedTravels, Gathered
<1>2. CASE SetDoors
  BY <1>2 DEF SetDoors, EveryoneVotedTravels, Gathered, players, travel, history
<1>3. ASSUME NEW i \in Index, CheckAreas(i)
      PROVE  EveryoneVotedTravels'
  <2>1. CASE standing[i] # NoArea /\ OnControls(i, standing[i])
    <3>1. standing[i] \in Area
      BY <2>1 DEF TypeOK
    <3> QED
      BY <2>1, <3>1, VotedOnControls
  <2>2. CASE DeathNotice(i, current[i])
    BY <2>2 DEF DeathNotice, EveryoneVotedTravels, Gathered, TypeOK, players, history
  <2> QED
    BY <1>3, <2>1, <2>2 DEF CheckAreas
<1>4. ASSUME NEW i \in Index, Accept(i)
      PROVE  EveryoneVotedTravels'
  BY <1>4, VotedAccept
<1>5. ASSUME NEW i \in Index, Connect(i)
      PROVE  EveryoneVotedTravels'
  BY <1>5 DEF Connect, EveryoneVotedTravels, Gathered, travel, history
<1>6. ASSUME NEW i \in Index, Enter(i)
      PROVE  EveryoneVotedTravels'
  BY <1>6 DEF Enter, EveryoneVotedTravels
<1>7. ASSUME NEW i \in Index, Faint(i)
      PROVE  EveryoneVotedTravels'
  BY <1>7 DEF Faint, EveryoneVotedTravels
<1>8. ASSUME NEW i \in Index, Disconnect(i)
      PROVE  EveryoneVotedTravels'
  <2>1. CASE i \in active
    BY <1>8, <2>1 DEF Disconnect, EveryoneVotedTravels
  <2>2. CASE i \notin active
    <3>1. /\ \A a \in Area \ upset' : a \notin upset /\ agreed'[a] = agreed[a]
          /\ \A j \in active : current'[j] = current[j]
          /\ active' = active /\ leaving' = leaving
      BY <1>8, <2>2 DEF Disconnect, TypeOK
    <3> QED
      BY <3>1 DEF EveryoneVotedTravels, Gathered
  <2> QED
    BY <2>1, <2>2
<1>9. ASSUME NEW i \in Index, Walk(i)
      PROVE  EveryoneVotedTravels'
  BY <1>9 DEF Walk, EveryoneVotedTravels, Gathered, travel, history
<1>10. CASE UNCHANGED vars
  BY <1>10 DEF EveryoneVotedTravels, Gathered, vars, players, travel, history
<1> QED
  BY <1>1, <1>2, <1>3, <1>4, <1>5, <1>6, <1>7, <1>8, <1>9, <1>10 DEF Next

\* When every active player stands in one area and has voted there, the
\* journey has started, under the conditions EveryoneVotedTravels names.
THEOREM CompleteVoteTravels == Spec => []EveryoneVotedTravels
<1>1. Init => EveryoneVotedTravels
  BY DEF Init, EveryoneVotedTravels, Gathered
<1> QED
  BY <1>1, TalliedHolds, VotedStep, PTL DEF Spec
=============================================================================
