-------------------------- MODULE GameRules_proofs --------------------------
(* Theorems about what CHalfLifeMultiplay decides by itself: the votes      *)
(* (Votes), for any players, any of the thirty-two client indices and any   *)
(* length of a vote, and the timers that change the map (ServerTimers), for *)
(* any number of players, any length of the timers and however long a map   *)
(* is watched.                                                              *)
EXTENDS Votes, ServerTimers, TLAPS, WellFoundedInduction
-----------------------------------------------------------------------------
(* The votes.                                                               *)

USE ConstantsAssumption
-----------------------------------------------------------------------------
(* The lowest free index.                                                   *)

LEMMA LowestIndex ==
  ASSUME NEW S \in SUBSET Index, S # {}
  PROVE  Min(S) \in S
<1>1. S \subseteq Nat
  OBVIOUS
<1>2. PICK x \in S : \A y \in S : ~(<<y, x>> \in OpToRel(<, Nat))
  BY <1>1, NatLessThanWellFounded, WFMin
<1>3. \A y \in S : ~(y < x)
  BY <1>1, <1>2, Zenon DEF OpToRel
<1>4. \A y \in S : x <= y
  BY <1>1, <1>3
<1> QED
  BY <1>4 DEF Min
-----------------------------------------------------------------------------
(* Types.                                                                   *)

LEMMA VoteTypes ==
  /\ NoVote \in Vote
  /\ \A i \in Index : PlayerBit(i) \subseteq 1 .. 32
  /\ \A n \in Nat : Less(n) \in Nat /\ Less(n) <= n
  /\ \A v \in Vote, left \in 0 .. VoteTime : [v EXCEPT !.left = left] \in Vote
  /\ \A v \in Vote, bits \in SUBSET (1 .. 32) : [v EXCEPT !.tally = @ \cup bits] \in Vote
<1>1. NoVote \in Vote
  BY DEF NoVote, Vote, Kinds
<1>2. \A i \in Index : PlayerBit(i) \subseteq 1 .. 32
  BY DEF PlayerBit
<1>3. \A n \in Nat : Less(n) \in Nat /\ Less(n) <= n
  BY DEF Less
<1>4. \A v \in Vote, left \in 0 .. VoteTime : [v EXCEPT !.left = left] \in Vote
  BY DEF Vote
<1>5. \A v \in Vote, bits \in SUBSET (1 .. 32) : [v EXCEPT !.tally = @ \cup bits] \in Vote
  BY DEF Vote
<1> QED
  BY <1>1, <1>2, <1>3, <1>4, <1>5

LEMMA EmptyType ==
  ASSUME TypeOK, NEW i \in Index, Empty(i)
  PROVE  /\ seat' \in [Index -> Player \cup {Nobody}]
         /\ \A j, k \in Index : j # k /\ seat'[j] = seat'[k] => seat'[j] = Nobody
         /\ shown' \subseteq {j \in Index : seat'[j] # Nobody}
         /\ canVote' \in [Index -> 0 .. VoteTime + Cooldown]
         /\ deserted' \in BOOLEAN
<1>1. seat' = [seat EXCEPT ![i] = Nobody] /\ shown' = shown \ {i}
  BY DEF Empty
<1>2. canVote' \in [Index -> 0 .. VoteTime + Cooldown]
  BY DEF Empty, TypeOK
<1>3. deserted' \in BOOLEAN
  BY DEF Empty, TypeOK
<1> QED
  BY <1>1, <1>2, <1>3 DEF TypeOK

\* The running vote to kick names a player and where he sat, as he was when it
\* was started.
Charged ==
  vote.active /\ vote.type = "kick" =>
    vote.id \in Player /\ vote.id = accused /\ vote.target \in Index

LEMMA FrameType == TypeOK /\ Charged /\ Frame => TypeOK'
<1> SUFFICES ASSUME TypeOK, Charged, Frame
             PROVE  TypeOK'
  OBVIOUS
<1>1. Less(vote.left) \in 0 .. VoteTime
  <2>1. vote.left \in 0 .. VoteTime
    BY DEF TypeOK, Vote
  <2> QED
    BY <2>1, VoteTypes
<1>2. vote' \in Vote
  BY <1>1, VoteTypes DEF Frame, UpdateVote, TypeOK
<1>3. canVote' \in [Index -> 0 .. VoteTime + Cooldown]
  <2>1. \A i \in Index : canVote[i] \in 0 .. VoteTime + Cooldown
    BY DEF TypeOK
  <2>2. \A i \in Index : Less(canVote[i]) \in 0 .. VoteTime + Cooldown
    BY <2>1, VoteTypes
  <2> QED
    BY <2>2 DEF Frame
<1>4. banned' \subseteq Player /\ kick' \subseteq Player /\ dodged' \subseteq Player
  <2>1. CASE UNCHANGED <<banned, kick, dodged>>
    BY <2>1 DEF TypeOK
  <2>2. CASE vote.active /\ vote.type = "kick"
    BY <2>2 DEF Charged, Frame, UpdateVote, KickOf, TypeOK
  <2> QED
    BY <2>1, <2>2 DEF Frame, UpdateVote
<1> QED
  BY <1>2, <1>3, <1>4 DEF Frame, TypeOK

LEMMA StartVoteType ==
  ASSUME TypeOK, NEW i \in Index, NEW t \in Kinds, NEW j \in Index, StartVote(i, t, j)
  PROVE  TypeOK' /\ Charged'
<1>1. seat[i] \in Player /\ seat[j] \in Player \cup {Nobody}
  BY DEF StartVote, Speaks, TypeOK
<1>2. PlayerBit(i) \in SUBSET (1 .. 32)
  BY VoteTypes
<1>3. CASE t = "kick"
  <2>1. vote' = [active |-> TRUE, type |-> t, target |-> j, id |-> seat[j],
                 left |-> VoteTime, tally |-> PlayerBit(i)]
    BY <1>3 DEF StartVote
  <2>2. accused' = seat[j] /\ seat[j] \in Player
    BY <1>1, <1>3 DEF StartVote
  <2>3. vote' \in Vote
    BY <1>2, <2>1, <2>2 DEF Vote
  <2>4. canVote' \in [Index -> 0 .. VoteTime + Cooldown]
    BY DEF StartVote, TypeOK
  <2>5. Charged'
    BY <2>1, <2>2 DEF Charged
  <2> QED
    BY <1>1, <2>2, <2>3, <2>4, <2>5 DEF StartVote, TypeOK
<1>4. CASE t # "kick"
  <2>1. vote' = [active |-> TRUE, type |-> t, target |-> 0, id |-> Nobody,
                 left |-> VoteTime, tally |-> PlayerBit(i)]
    BY <1>4 DEF StartVote
  <2>2. accused' = Nobody
    BY <1>4 DEF StartVote
  <2>3. vote' \in Vote
    BY <1>2, <2>1 DEF Vote
  <2>4. canVote' \in [Index -> 0 .. VoteTime + Cooldown]
    BY DEF StartVote, TypeOK
  <2>5. Charged'
    BY <1>4, <2>1 DEF Charged
  <2> QED
    BY <1>1, <2>2, <2>3, <2>4, <2>5 DEF StartVote, TypeOK
<1> QED
  BY <1>3, <1>4

LEMMA ConnectType ==
  ASSUME TypeOK, NEW p \in Player, ClientConnected(p)
  PROVE  TypeOK'
<1> DEFINE free == {i \in Index : seat[i] = Nobody}
<1>1. Min(free) \in free
  <2>1. free # {} /\ free \subseteq Index
    BY DEF ClientConnected
  <2> HIDE DEF free
  <2> QED
    BY <2>1, LowestIndex
<1>2. seat' = [seat EXCEPT ![Min(free)] = p] /\ \A i \in Index : seat[i] # p
  BY DEF ClientConnected, Seated
<1> DEFINE k == Min(free)
<1>3. k \in Index /\ seat[k] = Nobody
  BY <1>1
<1>4. seat' = [seat EXCEPT ![k] = p]
  BY <1>2
<1> HIDE DEF k
<1>5. /\ seat' \in [Index -> Player \cup {Nobody}]
      /\ \A i, j \in Index : i # j /\ seat'[i] = seat'[j] => seat'[i] = Nobody
      /\ shown \subseteq {i \in Index : seat'[i] # Nobody}
  BY <1>2, <1>3, <1>4 DEF TypeOK
<1> QED
  BY <1>5 DEF ClientConnected, TypeOK, history

LEMMA TypeStep == TypeOK /\ Charged /\ [Next]_vars => TypeOK' /\ Charged'
<1> SUFFICES ASSUME TypeOK, Charged, [Next]_vars
             PROVE  TypeOK' /\ Charged'
  OBVIOUS
<1>1. CASE Frame
  <2>1. Charged'
    BY <1>1 DEF Frame, UpdateVote, Charged, NoVote, TypeOK, Vote
  <2> QED
    BY <1>1, <2>1, FrameType
<1>2. CASE MapChange
  <2>1. /\ seat' \in [Index -> Player \cup {Nobody}] /\ shown' = {}
        /\ \A i \in Index : seat'[i] = Nobody
    BY <1>2 DEF MapChange
  <2>2. canVote' \in [Index -> 0 .. VoteTime + Cooldown]
    BY <1>2 DEF MapChange
  <2>3. vote' \in Vote /\ Charged'
    BY <1>2, VoteTypes DEF MapChange, Charged, NoVote
  <2>4. /\ accused' = Nobody /\ said' = {} /\ deserted' = FALSE
        /\ UNCHANGED <<banned, kick, dodged>>
    BY <1>2 DEF MapChange
  <2> QED
    BY <2>1, <2>2, <2>3, <2>4 DEF TypeOK
<1>3. ASSUME NEW i \in Index, TallyVote(i)
      PROVE  TypeOK' /\ Charged'
  <2>1. vote' = [vote EXCEPT !.tally = @ \cup PlayerBit(i)] /\ seat[i] \in Player
    BY <1>3 DEF TallyVote, Speaks, TypeOK
  <2>2. vote' \in Vote
    BY <2>1, VoteTypes DEF TypeOK
  <2>3. Charged'
    BY <1>3, <2>1 DEF TallyVote, Charged, TypeOK, Vote
  <2> QED
    BY <1>3, <2>1, <2>2, <2>3 DEF TallyVote, TypeOK, room
<1>4. ASSUME NEW i \in Index, InitHUD(i)
      PROVE  TypeOK' /\ Charged'
  BY <1>4 DEF InitHUD, TypeOK, Charged, history
<1>5. ASSUME NEW i \in Index, Disconnect(i)
      PROVE  TypeOK' /\ Charged'
  BY <1>5, EmptyType DEF Disconnect, TypeOK, Charged
<1>6. ASSUME NEW i \in Index, NEW t \in Kinds, NEW j \in Index, StartVote(i, t, j)
      PROVE  TypeOK' /\ Charged'
  BY <1>6, StartVoteType
<1>7. ASSUME NEW p \in Player, ClientConnected(p)
      PROVE  TypeOK' /\ Charged'
  <2>1. Charged'
    BY <1>7 DEF ClientConnected, Charged, history
  <2> QED
    BY <1>7, <2>1, ConnectType
<1>8. ASSUME NEW p \in Player, Kicked(p)
      PROVE  TypeOK' /\ Charged'
  <2>1. CASE UNCHANGED <<room, deserted>>
    BY <1>8, <2>1 DEF Kicked, TypeOK, Charged, room
  <2>2. ASSUME NEW i \in Index, Empty(i)
        PROVE  TypeOK' /\ Charged'
    BY <1>8, <2>2, EmptyType DEF Kicked, TypeOK, Charged
  <2> QED
    BY <1>8, <2>1, <2>2 DEF Kicked
<1>9. CASE UNCHANGED vars
  BY <1>9 DEF TypeOK, Charged, vars, room, history
<1> QED
  BY <1>1, <1>2, <1>3, <1>4, <1>5, <1>6, <1>7, <1>8, <1>9 DEF Next

LEMMA ChargedHolds == Spec => [](TypeOK /\ Charged)
<1>1. ASSUME Init
      PROVE  TypeOK /\ Charged
  <2>1. /\ seat \in [Index -> Player \cup {Nobody}] /\ shown = {}
        /\ \A i \in Index : seat[i] = Nobody
    BY <1>1 DEF Init
  <2>2. canVote \in [Index -> 0 .. VoteTime + Cooldown]
    BY <1>1 DEF Init
  <2>3. vote \in Vote /\ Charged
    BY <1>1, VoteTypes DEF Init, Charged, NoVote
  <2>4. /\ accused = Nobody /\ said = {} /\ deserted = FALSE
        /\ banned = {} /\ kick = {} /\ dodged = {}
    BY <1>1 DEF Init
  <2> QED
    BY <2>1, <2>2, <2>3, <2>4 DEF TypeOK
<1> QED
  BY <1>1, TypeStep, PTL DEF Spec

\* Every reachable state is well typed; above all, no player is under two
\* indices, and only players are banned.
THEOREM TypeCorrect == Spec => []TypeOK
BY ChargedHolds, PTL
-----------------------------------------------------------------------------
(* Who is kicked.                                                           *)

LEMMA KickStep ==
  ASSUME Charged, [Next]_vars
  PROVE  /\ \A p \in kick' \ kick : p = accused
         /\ \A p \in banned' \ banned : p = accused
<1>1. CASE Frame
  <2>1. CASE UNCHANGED <<banned, kick>>
    BY <2>1
  <2>2. CASE vote.active /\ vote.type = "kick"
    <3>1. vote.id = accused
      BY <2>2 DEF Charged
    <3>2. kick' \subseteq kick \cup {vote.id} /\ banned' \subseteq banned \cup {vote.id}
      BY <1>1, <2>2 DEF Frame, UpdateVote, KickOf
    <3> QED
      BY <3>1, <3>2
  <2> QED
    BY <1>1, <2>1, <2>2 DEF Frame, UpdateVote
<1>2. CASE ~Frame
  <2>1. banned' = banned /\ kick' \subseteq kick
    BY <1>2 DEF Next, MapChange, TallyVote, InitHUD, Disconnect, StartVote, ClientConnected,
                Kicked, vars
  <2> QED
    BY <2>1
<1> QED
  BY <1>1, <1>2

\* A kick and a ban hit the player the vote was started against and nobody
\* else, whoever has left, come or changed his index since.
THEOREM OnlyAccusedKicked == Spec => KickOnlyTarget
BY ChargedHolds, KickStep, PTL DEF Spec, KickOnlyTarget
-----------------------------------------------------------------------------
(* Who decides.                                                             *)

\* As long as nobody who has said yes has left, the bits are the indices of
\* those who have, as far as there is a bit for an index.
Counted ==
  vote.active /\ ~deserted =>
    /\ said # {} /\ \A p \in said : p # Nobody /\ Seated(p)
    /\ vote.tally = {i \in Index : i <= 8 /\ seat[i] \in said}

LEMMA CountedStart ==
  ASSUME TypeOK, NEW i \in Index, NEW t \in Kinds, NEW j \in Index, StartVote(i, t, j)
  PROVE  Counted'
<1>1. /\ vote'.tally = PlayerBit(i) /\ said' = {seat[i]} /\ seat' = seat
      /\ seat[i] # Nobody
  BY DEF StartVote, Speaks
<1>2. \A k \in Index : seat[k] = seat[i] => k = i
  BY <1>1 DEF TypeOK
<1>3. PlayerBit(i) = {k \in Index : k <= 8 /\ seat[k] \in {seat[i]}}
  BY <1>2 DEF PlayerBit
<1> QED
  BY <1>1, <1>3 DEF Counted, Seated

LEMMA CountedTally ==
  ASSUME TypeOK, Counted, NEW i \in Index, TallyVote(i)
  PROVE  Counted'
<1> SUFFICES ASSUME ~deserted
             PROVE  Counted'
  BY DEF TallyVote, Counted
<1>1. /\ vote.active /\ said' = said \cup {seat[i]} /\ seat' = seat /\ seat[i] # Nobody
      /\ vote'.tally = vote.tally \cup PlayerBit(i)
  BY DEF TallyVote, Speaks, room, TypeOK, Vote
<1>2. \A k \in Index : seat[k] = seat[i] => k = i
  BY <1>1 DEF TypeOK
<1>3. vote.tally = {k \in Index : k <= 8 /\ seat[k] \in said}
  BY <1>1 DEF Counted
<1>4. vote'.tally = {k \in Index : k <= 8 /\ seat[k] \in said \cup {seat[i]}}
  BY <1>1, <1>2, <1>3 DEF PlayerBit
<1> QED
  BY <1>1, <1>4 DEF Counted, Seated

LEMMA CountedEmpty ==
  ASSUME TypeOK, Counted, NEW i \in Index, Empty(i), vote' = vote, said' = said
  PROVE  Counted'
<1> SUFFICES ASSUME vote.active, ~deserted'
             PROVE  Counted'
  BY DEF Counted
<1>1. ~deserted /\ seat[i] \notin said /\ seat' = [seat EXCEPT ![i] = Nobody]
  BY DEF Empty
<1>2. /\ said # {} /\ \A p \in said : p # Nobody /\ Seated(p)
      /\ vote.tally = {k \in Index : k <= 8 /\ seat[k] \in said}
  BY <1>1 DEF Counted
<1>3. \A k \in Index : seat'[k] \in said <=> seat[k] \in said
  BY <1>1, <1>2 DEF TypeOK
<1>4. \A p \in said : Seated(p)'
  BY <1>1, <1>2 DEF Seated, TypeOK
<1>5. vote.tally = {k \in Index : k <= 8 /\ seat'[k] \in said}
  BY <1>2, <1>3
<1> QED
  BY <1>2, <1>4, <1>5 DEF Counted

LEMMA CountedConnect ==
  ASSUME TypeOK, Counted, NEW p \in Player, ClientConnected(p)
  PROVE  Counted'
<1> SUFFICES ASSUME vote.active, ~deserted
             PROVE  Counted'
  BY DEF ClientConnected, Counted, history
<1>1. PICK k \in Index : seat[k] = Nobody /\ seat' = [seat EXCEPT ![k] = p]
  <2> DEFINE free == {i \in Index : seat[i] = Nobody}
  <2>1. free # {} /\ free \subseteq Index
    BY DEF ClientConnected
  <2>2. seat' = [seat EXCEPT ![Min(free)] = p]
    BY DEF ClientConnected
  <2>3. Min(free) \in free
    <3> HIDE DEF free
    <3> QED
      BY <2>1, LowestIndex
  <2> QED
    BY <2>2, <2>3
<1>2. /\ said # {} /\ \A q \in said : q # Nobody /\ Seated(q)
      /\ vote.tally = {i \in Index : i <= 8 /\ seat[i] \in said}
  BY DEF Counted
<1>3. p \notin said
  BY <1>2 DEF ClientConnected
<1>4. \A i \in Index : seat'[i] \in said <=> seat[i] \in said
  BY <1>1, <1>2, <1>3 DEF TypeOK
<1>5. \A q \in said : Seated(q)'
  BY <1>1, <1>2 DEF Seated, TypeOK
<1>6. vote.tally = {i \in Index : i <= 8 /\ seat'[i] \in said}
  BY <1>2, <1>4
<1> QED
  BY <1>2, <1>5, <1>6 DEF Counted, ClientConnected, history

LEMMA CountedStep == TypeOK /\ Counted /\ [Next]_vars => Counted'
<1> SUFFICES ASSUME TypeOK, Counted, [Next]_vars
             PROVE  Counted'
  OBVIOUS
<1>1. CASE Frame
  BY <1>1 DEF Frame, UpdateVote, NoVote, Counted, Seated, TypeOK, Vote
<1>2. CASE MapChange
  BY <1>2 DEF MapChange, NoVote, Counted
<1>3. ASSUME NEW i \in Index, TallyVote(i)
      PROVE  Counted'
  BY <1>3, CountedTally
<1>4. ASSUME NEW i \in Index, InitHUD(i)
      PROVE  Counted'
  BY <1>4 DEF InitHUD, Counted, Seated, history
<1>5. ASSUME NEW i \in Index, Disconnect(i)
      PROVE  Counted'
  BY <1>5, CountedEmpty DEF Disconnect
<1>6. ASSUME NEW i \in Index, NEW t \in Kinds, NEW j \in Index, StartVote(i, t, j)
      PROVE  Counted'
  BY <1>6, CountedStart
<1>7. ASSUME NEW p \in Player, ClientConnected(p)
      PROVE  Counted'
  BY <1>7, CountedConnect
<1>8. ASSUME NEW p \in Player, Kicked(p)
      PROVE  Counted'
  <2>1. CASE UNCHANGED <<room, deserted>>
    BY <1>8, <2>1 DEF Kicked, Counted, Seated, room
  <2>2. ASSUME NEW i \in Index, Empty(i)
        PROVE  Counted'
    BY <1>8, <2>2, CountedEmpty DEF Kicked
  <2> QED
    BY <1>8, <2>1, <2>2 DEF Kicked
<1>9. CASE UNCHANGED vars
  BY <1>9 DEF Counted, Seated, vars, room, history
<1> QED
  BY <1>1, <1>2, <1>3, <1>4, <1>5, <1>6, <1>7, <1>8, <1>9 DEF Next

LEMMA CountedHolds == Spec => [](TypeOK /\ Counted)
<1>1. Init => Counted
  BY DEF Init, Counted, NoVote
<1> QED
  BY <1>1, TypeCorrect, CountedStep, PTL DEF Spec

LEMMA SucceedsIsMajority ==
  ASSUME TypeOK, Counted, vote.active, ~deserted,
         said \subseteq {seat[i] : i \in shown \cap 1 .. 8}
  PROVE  Succeeds <=> Majority
<1>1. vote.tally = {i \in Index : i <= 8 /\ seat[i] \in said} /\ Nobody \notin said
  BY DEF Counted
<1>2. ASSUME NEW i \in Index, seat[i] \in said
      PROVE  i \in shown /\ i <= 8
  <2>1. PICK k \in shown \cap 1 .. 8 : seat[k] = seat[i]
    BY <1>2
  <2>2. k = i
    BY <1>1, <1>2, <2>1 DEF TypeOK
  <2> QED
    BY <2>1, <2>2
<1>3. vote.tally = {i \in shown : seat[i] \in said}
  BY <1>1, <1>2 DEF TypeOK
<1> QED
  BY <1>3 DEF Succeeds, Majority

LEMMA DecisionStep ==
  ASSUME TypeOK, Counted, [Next]_vars,
         vote.active, ~vote'.active, vote.type = "kick", seat' = seat,
         ~deserted, said \subseteq {seat[i] : i \in shown \cap 1 .. 8}
  PROVE  vote.id \in banned' \ banned <=> Majority /\ vote.id \notin banned
<1>1. Succeeds <=> Majority
  BY SucceedsIsMajority
<1>2. CASE Frame
  <2>1. Due(Less(vote.left))
    BY <1>2 DEF Frame, UpdateVote, TypeOK, Vote
  <2>2. banned' = IF Succeeds THEN banned \cup {vote.id} ELSE banned
    BY <1>2, <2>1 DEF Frame, UpdateVote
  <2> QED
    BY <1>1, <2>2
<1>3. CASE MapChange
  <2>1. \A i \in Index : seat[i] = Nobody
    BY <1>3 DEF MapChange
  <2>2. said = {}
    BY <2>1 DEF TypeOK
  <2> QED
    BY <2>2 DEF Counted
<1>4. CASE ~Frame /\ ~MapChange
  <2>1. vote'.active
    BY <1>4 DEF Next, TallyVote, InitHUD, Disconnect, StartVote, ClientConnected, Kicked,
                vars, TypeOK, Vote
  <2> QED
    BY <2>1
<1> QED
  BY <1>2, <1>3, <1>4

\* A vote bans its target exactly when more than half of the players in the
\* game have said yes, under the conditions MajorityDecides names.
THEOREM MoreThanHalfDecide == Spec => MajorityDecides
BY CountedHolds, DecisionStep, PTL DEF Spec, MajorityDecides
-----------------------------------------------------------------------------
(* The timers.                                                              *)

USE TimersAssumption
-----------------------------------------------------------------------------
(* Types.                                                                  *)

LEMMA ThinkType ==
  ASSUME TimersTypeOK, NEW t \in Nat, t = now + 1, Think(t)
  PROVE  /\ resetTimer' \in Nat
         /\ checkTime' \in 0 .. t + ms_joinreset
         /\ switchTime' \in 0 .. t + SwitchDelay
         /\ command' \in Command
<1>1. now \in Nat /\ resetTimer \in Nat
  BY DEF TimersTypeOK
<1>2. ResetTimer(t) \in Nat
  BY <1>1 DEF ResetTimer
<1>3. resetTimer' \in Nat
  BY <1>2 DEF Think
<1>4. checkTime' \in 0 .. t + ms_joinreset
  BY DEF Think, TimersTypeOK
<1>5. switchTime' \in 0 .. t + SwitchDelay
  BY DEF Think, TimersTypeOK
<1>6. command' \in Command
  BY DEF Think, Command
<1> QED
  BY <1>3, <1>4, <1>5, <1>6

LEMMA TimersTypeStep == TimersTypeOK /\ [TimersNext]_timersVars => TimersTypeOK'
<1> SUFFICES ASSUME TimersTypeOK, [TimersNext]_timersVars
             PROVE  TimersTypeOK'
  OBVIOUS
<1>1. CASE ThinkFrame
  <2>1. now + 1 \in 1 .. MaxTime /\ now + 1 \in Nat
    BY <1>1 DEF ThinkFrame, TimersTypeOK
  <2>2. /\ resetTimer' \in Nat
        /\ checkTime' \in 0 .. now' + ms_joinreset
        /\ switchTime' \in 0 .. now' + SwitchDelay
        /\ command' \in Command
    BY <1>1, <2>1, ThinkType DEF ThinkFrame
  <2>3. empty' \in 0 .. ms_reset_time
    BY <1>1 DEF ThinkFrame, TimersTypeOK
  <2> QED
    BY <1>1, <2>1, <2>2, <2>3 DEF ThinkFrame, TimersTypeOK, joined
<1>2. CASE NewMap
  <2>1. central' \in BOOLEAN
    BY <1>2, TimersAssumption, Zenon DEF NewMap, TimersAssumption
  <2>2. checkTime' \in 0 .. now' + ms_joinreset /\ switchTime' \in 0 .. now' + SwitchDelay
    BY <1>2, TimersAssumption DEF NewMap
  <2>3. /\ now' \in 1 .. MaxTime /\ resetTimer' \in Nat /\ command' \in Command
        /\ here' \subseteq Client /\ greeted' \subseteq here' /\ playing' \subseteq here'
        /\ status' \in [Client -> Status] /\ canJoin' \subseteq here'
        /\ empty' \in 0 .. ms_reset_time /\ unchecked' = FALSE
    BY <1>2 DEF NewMap, TimersTypeOK, Command, Status
  <2> QED
    BY <2>1, <2>2, <2>3, Zenon DEF TimersTypeOK
<1>3. ASSUME NEW p \in Client, Connect(p)
      PROVE  TimersTypeOK'
  BY <1>3 DEF Connect, TimersTypeOK, Status
<1>4. ASSUME NEW p \in Client, FirstInitHUD(p)
      PROVE  TimersTypeOK'
  BY <1>4 DEF FirstInitHUD, TimersTypeOK
<1>5. ASSUME NEW p \in Client, LoadAnswered(p)
      PROVE  TimersTypeOK'
  BY <1>5 DEF LoadAnswered, TimersTypeOK, Status, timers
<1>6. ASSUME NEW p \in Client, Choose(p)
      PROVE  TimersTypeOK'
  BY <1>6 DEF Choose, TimersTypeOK, timers, observed
<1>7. ASSUME NEW p \in Client, ClientDisconnected(p)
      PROVE  TimersTypeOK'
  BY <1>7 DEF ClientDisconnected, TimersTypeOK, Status, timers
<1>8. CASE UNCHANGED timersVars
  BY <1>8 DEF TimersTypeOK, timersVars, timers, joined, observed
<1> QED
  BY <1>1, <1>2, <1>3, <1>4, <1>5, <1>6, <1>7, <1>8 DEF TimersNext

LEMMA TimersTypeInit == TimersInit => TimersTypeOK
<1> SUFFICES ASSUME TimersInit
             PROVE  TimersTypeOK
  OBVIOUS
<1>1. central \in BOOLEAN
  BY TimersAssumption, Zenon DEF TimersInit, TimersAssumption
<1>2. checkTime \in 0 .. now + ms_joinreset /\ switchTime \in 0 .. now + SwitchDelay
  BY DEF TimersInit
<1>3. /\ now \in 1 .. MaxTime /\ resetTimer \in Nat /\ command \in Command
      /\ here \subseteq Client /\ greeted \subseteq here /\ playing \subseteq here
      /\ status \in [Client -> Status] /\ canJoin \subseteq here
      /\ empty \in 0 .. ms_reset_time /\ unchecked = FALSE
  BY DEF TimersInit, Status, Command
<1> QED
  BY <1>1, <1>2, <1>3, Zenon DEF TimersTypeOK

\* Every reachable state is well typed; above all, no timer is set further
\* ahead than its delay.
THEOREM TimersTypeCorrect == TimersSpec => []TimersTypeOK
BY TimersTypeInit, TimersTypeStep, PTL DEF TimersSpec
-----------------------------------------------------------------------------
(* Who plays, and who may.                                                 *)

\* A player who plays has a character that may join, and m_CanJoin says so of
\* exactly those who do.
Joining ==
  /\ playing \subseteq canJoin
  /\ \A p \in here : p \in canJoin <=> status[p] = "joinable"

LEMMA JoiningStep == TimersTypeOK /\ Joining /\ [TimersNext]_timersVars => Joining'
<1> SUFFICES ASSUME TimersTypeOK, Joining, [TimersNext]_timersVars
             PROVE  Joining'
  OBVIOUS
<1>1. CASE ThinkFrame
  BY <1>1 DEF ThinkFrame, Joining, joined
<1>2. CASE NewMap
  BY <1>2 DEF NewMap, Joining
<1>3. ASSUME NEW p \in Client, Connect(p)
      PROVE  Joining'
  BY <1>3 DEF Connect, Joining, TimersTypeOK, Joinable
<1>4. ASSUME NEW p \in Client, FirstInitHUD(p)
      PROVE  Joining'
  BY <1>4 DEF FirstInitHUD, Joining
<1>5. ASSUME NEW p \in Client, LoadAnswered(p)
      PROVE  Joining'
  BY <1>5 DEF LoadAnswered, Joining, TimersTypeOK, Joinable
<1>6. ASSUME NEW p \in Client, Choose(p)
      PROVE  Joining'
  BY <1>6 DEF Choose, Joining, TimersTypeOK
<1>7. ASSUME NEW p \in Client, ClientDisconnected(p)
      PROVE  Joining'
  BY <1>7 DEF ClientDisconnected, Joining, TimersTypeOK
<1>8. CASE UNCHANGED timersVars
  BY <1>8 DEF Joining, timersVars, timers, joined, observed
<1> QED
  BY <1>1, <1>2, <1>3, <1>4, <1>5, <1>6, <1>7, <1>8 DEF TimersNext

LEMMA JoiningHolds == TimersSpec => [](TimersTypeOK /\ Joining)
<1>1. TimersInit => Joining
  BY DEF TimersInit, Joining
<1> QED
  BY <1>1, TimersTypeInit, TimersTypeStep, JoiningStep, PTL DEF TimersSpec

LEMMA SwitchStep ==
  ASSUME TimersTypeOK, Joining, [TimersNext]_timersVars,
         command # "changelevel", command' = "changelevel"
  PROVE  playing = {} /\ \A p \in here : status[p] # "LOADING"
<1>1. ThinkFrame
  BY DEF TimersNext, NewMap, Connect, FirstInitHUD, LoadAnswered, Choose, ClientDisconnected, timersVars, timers
<1>2. ~IsAnyPlayerAllowedInMap
  BY <1>1 DEF ThinkFrame, Think
<1>3. \A p \in here : status[p] # "LOADING" /\ p \notin canJoin
  BY <1>2 DEF IsAnyPlayerAllowedInMap
<1> QED
  BY <1>3 DEF Joining, TimersTypeOK

\* The timer for players who cannot join never takes anybody from a map he
\* plays on, nor anybody whose character is still on its way.
THEOREM PlayersStay == TimersSpec => NobodyPlayingSentAway
BY JoiningHolds, SwitchStep, PTL DEF TimersSpec, NobodyPlayingSentAway
-----------------------------------------------------------------------------
(* The reset of an empty server.                                           *)

\* A running g_ServerResetTimer belongs to an empty server, and as many frames
\* have been empty as its clock has left behind; a new map sets the clock back
\* and only lengthens the wait.
Counting ==
  /\ here # {} => empty = 0
  /\ resetTimer # 0 =>
       /\ here = {}
       /\ empty = ms_reset_time \/ now + ms_reset_time < resetTimer + empty

LEMMA CountingFrame == TimersTypeOK /\ Counting /\ ThinkFrame => Counting'
<1> SUFFICES ASSUME TimersTypeOK, Counting, ThinkFrame
             PROVE  Counting'
  OBVIOUS
<1>1. /\ now \in Nat /\ resetTimer \in Nat /\ empty \in 0 .. ms_reset_time
      /\ now' = now + 1 /\ here' = here
  BY DEF TimersTypeOK, ThinkFrame, joined
<1>2. CASE here # {}
  <2>1. resetTimer' = 0 /\ empty' = 0
    BY <1>2 DEF ThinkFrame, Think, ResetTimer
  <2> QED
    BY <2>1 DEF Counting
<1>3. CASE here = {}
  <2>1. empty' = IF empty < ms_reset_time THEN empty + 1 ELSE empty
    BY <1>3 DEF ThinkFrame
  <2>2. \/ resetTimer' = 0
        \/ resetTimer' = resetTimer /\ resetTimer # 0
        \/ resetTimer' = now' + ms_reset_time /\ ms_reset_time > 0
    BY <1>1, <1>3 DEF ThinkFrame, Think, ResetTimer
  <2> QED
    BY <1>1, <1>3, <2>1, <2>2 DEF Counting
<1> QED
  BY <1>2, <1>3

LEMMA CountingStep == TimersTypeOK /\ Counting /\ [TimersNext]_timersVars => Counting'
<1> SUFFICES ASSUME TimersTypeOK, Counting, [TimersNext]_timersVars
             PROVE  Counting'
  OBVIOUS
<1>1. CASE ThinkFrame
  BY <1>1, CountingFrame
<1>2. CASE NewMap
  <2>1. /\ now' = 1 /\ here' = {} /\ resetTimer' = resetTimer /\ empty' = empty
        /\ now \in Nat /\ now >= 1
        /\ resetTimer \in Nat /\ empty \in 0 .. ms_reset_time
    BY <1>2 DEF NewMap, TimersTypeOK
  <2> QED
    BY <2>1 DEF Counting
<1>3. ASSUME NEW p \in Client, Connect(p)
      PROVE  Counting'
  BY <1>3 DEF Connect, Counting
<1>4. ASSUME NEW p \in Client, FirstInitHUD(p)
      PROVE  Counting'
  BY <1>4 DEF FirstInitHUD, Counting
<1>5. ASSUME NEW p \in Client, LoadAnswered(p)
      PROVE  Counting'
  BY <1>5 DEF LoadAnswered, Counting, timers
<1>6. ASSUME NEW p \in Client, Choose(p)
      PROVE  Counting'
  BY <1>6 DEF Choose, Counting, timers, observed
<1>7. ASSUME NEW p \in Client, ClientDisconnected(p)
      PROVE  Counting'
  BY <1>7 DEF ClientDisconnected, Counting, timers
<1>8. CASE UNCHANGED timersVars
  BY <1>8 DEF Counting, timersVars, timers, joined, observed
<1> QED
  BY <1>1, <1>2, <1>3, <1>4, <1>5, <1>6, <1>7, <1>8 DEF TimersNext

LEMMA CountingHolds == TimersSpec => [](TimersTypeOK /\ Counting)
<1>1. TimersInit => Counting
  BY DEF TimersInit, Counting
<1> QED
  BY <1>1, TimersTypeInit, TimersTypeStep, CountingStep, PTL DEF TimersSpec

LEMMA ResetStep ==
  ASSUME TimersTypeOK, Counting, [TimersNext]_timersVars, command # "map", command' = "map"
  PROVE  here = {} /\ empty' >= ms_reset_time
<1>1. ThinkFrame
  BY DEF TimersNext, NewMap, Connect, FirstInitHUD, LoadAnswered, Choose, ClientDisconnected, timersVars, timers
<1>2. /\ now \in Nat /\ resetTimer \in Nat /\ empty \in 0 .. ms_reset_time
      /\ now' = now + 1
  BY <1>1 DEF TimersTypeOK, ThinkFrame
<1>3. ms_reset_time > 0 /\ here = {} /\ now' >= ResetTimer(now')
  BY <1>1 DEF ThinkFrame, Think
<1>4. resetTimer # 0 /\ now + 1 >= resetTimer
  BY <1>2, <1>3 DEF ResetTimer
<1>5. empty' = IF empty < ms_reset_time THEN empty + 1 ELSE empty
  BY <1>1, <1>3 DEF ThinkFrame
<1> QED
  BY <1>2, <1>3, <1>4, <1>5 DEF Counting

\* Only a server that nobody was in for ms_reset_time is reset, over any
\* number of maps.
THEOREM OnlyEmptyServersReset == TimersSpec => ResetOnlyEmptyServer
BY CountingHolds, ResetStep, PTL DEF TimersSpec, ResetOnlyEmptyServer
-----------------------------------------------------------------------------
(* Players who cannot join.                                                *)

LEMMA StrandedFrame ==
  ASSUME TimersTypeOK, Joining, StrandedAreMoved, ThinkFrame
  PROVE  StrandedAreMoved'
<1> SUFFICES ASSUME Stranded', ~unchecked', ms_joinreset > 0,
                    checkTime' = 0, switchTime' = 0
             PROVE  command' = "changelevel"
  BY DEF StrandedAreMoved
<1>1. Stranded /\ ~unchecked /\ command = "none"
  BY DEF ThinkFrame, Stranded, joined
<1>2. checkTime # 0 \/ switchTime # 0
  BY <1>1 DEF StrandedAreMoved
<1>3. ~IsAnyPlayerAllowedInMap
  BY <1>1 DEF Stranded, IsAnyPlayerAllowedInMap, Joining
<1>4. now \in Nat /\ now' = now + 1 /\ checkTime \in Nat /\ switchTime \in Nat
  BY DEF ThinkFrame, TimersTypeOK
<1> QED
  BY <1>2, <1>3, <1>4 DEF ThinkFrame, Think

LEMMA StrandedStep ==
  TimersTypeOK /\ Joining /\ StrandedAreMoved /\ [TimersNext]_timersVars => StrandedAreMoved'
<1> SUFFICES ASSUME TimersTypeOK, Joining, StrandedAreMoved, [TimersNext]_timersVars
             PROVE  StrandedAreMoved'
  OBVIOUS
<1>1. CASE ThinkFrame
  BY <1>1, StrandedFrame
<1>2. CASE NewMap
  BY <1>2 DEF NewMap, StrandedAreMoved, Stranded
<1>3. ASSUME NEW p \in Client, Connect(p)
      PROVE  StrandedAreMoved'
  BY <1>3 DEF Connect, StrandedAreMoved, Stranded, TimersTypeOK
<1>4. ASSUME NEW p \in Client, FirstInitHUD(p)
      PROVE  StrandedAreMoved'
  <2>1. CASE p \in canJoin
    BY <1>4, <2>1 DEF FirstInitHUD, StrandedAreMoved, Stranded, Joining
  <2>2. CASE p \notin canJoin
    BY <1>4, <2>2 DEF FirstInitHUD, StrandedAreMoved, TimersTypeOK
  <2> QED
    BY <2>1, <2>2
<1>5. ASSUME NEW p \in Client, LoadAnswered(p)
      PROVE  StrandedAreMoved'
  <2>1. PICK s \in Status \ {"LOADING"} :
          /\ status' = [status EXCEPT ![p] = s]
          /\ unchecked' = (unchecked \/ (CheckIsOver /\ ~Joinable(s)))
    BY <1>5 DEF LoadAnswered
  <2>2. CASE Joinable(s)
    BY <1>5, <2>1, <2>2 DEF LoadAnswered, StrandedAreMoved, Stranded, Joinable, TimersTypeOK
  <2>3. CASE ~Joinable(s)
    BY <1>5, <2>1, <2>3 DEF LoadAnswered, StrandedAreMoved, CheckIsOver, timers
  <2> QED
    BY <2>2, <2>3
<1>6. ASSUME NEW p \in Client, Choose(p)
      PROVE  StrandedAreMoved'
  BY <1>6 DEF Choose, StrandedAreMoved, Stranded, timers, observed
<1>7. ASSUME NEW p \in Client, ClientDisconnected(p)
      PROVE  StrandedAreMoved'
  BY <1>7 DEF ClientDisconnected, StrandedAreMoved, CheckIsOver, timers
<1>8. CASE UNCHANGED timersVars
  BY <1>8 DEF StrandedAreMoved, Stranded, timersVars, timers, joined, observed
<1> QED
  BY <1>1, <1>2, <1>3, <1>4, <1>5, <1>6, <1>7, <1>8 DEF TimersNext

\* Players none of whom can join are not left without a timer that is going
\* to move them, except by a departure or an answer after the last check.
THEOREM NobodyStranded == TimersSpec => []StrandedAreMoved
<1>1. TimersInit => StrandedAreMoved
  BY DEF TimersInit, StrandedAreMoved, Stranded
<1> QED
  BY <1>1, JoiningHolds, StrandedStep, PTL DEF TimersSpec
=============================================================================
