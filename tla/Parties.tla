------------------------------ MODULE Parties ------------------------------
(***************************************************************************)
(* The parties of a server (CTeam).  A player points to his party          *)
(* (m_pTeam) and to one he asked to join (m_pJoinTeam); a party lists its  *)
(* members, the first of whom leads it.  A party is an object on the heap: *)
(* emptied, it is deleted in the next frame, and a later party may be      *)
(* allocated at its address, which m_pJoinTeam may still hold.             *)
(***************************************************************************)
EXTENDS Naturals, SequencesExt, Selection

CONSTANTS
  Player,
  Addr,       \* the addresses a party object can have
  PartyName,       \* party names
  Null,       \* a null pointer, and no name
  MaxSerial,  \* bound: parties ever created
  MaxMaps     \* bound: maps played

ASSUME PartiesAssumption ==
  /\ Null \notin Addr \cup PartyName
  /\ MaxSerial \in Nat /\ MaxMaps \in Nat

VARIABLES
  here,    \* the players in the server
  loaded,  \* those with a character
  team,    \* m_pTeam
  join,    \* m_pJoinTeam
  Teams,   \* CTeam::Teams, a sequence of addresses
  object,  \* the party object at each address, see Party
  serial,  \* parties created so far
  saved,   \* Party and PartyID in each player's save
  maps     \* maps started

partyVars == <<here, loaded, team, join, Teams, object, serial, saved, maps>>

\* m_ID is drawn at random; here no two draws agree, and the serial number
\* is the ID.  first is MemberList.m_First[0], which erase leaves in place
\* when the list becomes empty.
Party == [name : PartyName, id : Nat, members : Seq(Player), first : Player \cup {Null}]

NoParty == [name |-> Null, id |-> 0]

PartiesTypeOK ==
  /\ here \subseteq Player /\ loaded \subseteq here
  /\ team \in [Player -> Addr \cup {Null}]
  /\ join \in [Player -> Addr \cup {Null}]
  /\ Teams \in Seq(Addr) /\ IsInjective(Teams)
  /\ object \in [Addr -> Party \cup {Null}]
  /\ \A a \in ToSet(Teams) : object[a] \in Party
  /\ serial \in Nat /\ maps \in Nat
  /\ saved \in [Player -> [name : PartyName \cup {Null}, id : Nat]]

PartiesInit ==
  /\ here = {} /\ loaded = {}
  /\ team = [p \in Player |-> Null] /\ join = [p \in Player |-> Null]
  /\ Teams = <<>>
  /\ object = [a \in Addr |-> Null]
  /\ serial = 0 /\ maps = 1
  /\ saved = [p \in Player |-> NoParty]
-----------------------------------------------------------------------------
\* CTeam::GetTeam takes the first of these.
GetTeam(field, value) == Only(Teams, {a \in ToSet(Teams) : object[a][field] = value})

\* Where a new party may be put: a deleted one leaves its address.
Free == Addr \ ToSet(Teams)

\* RemoveFromTeam.
Without(o, p) ==
  LET rest == RemoveFirst(o.members, p)
  IN [o EXCEPT !.members = rest, !.first = IF rest = <<>> THEN @ ELSE rest[1]]

\* AddToTeam.
With(o, p) == IF p \in ToSet(o.members) THEN o
              ELSE [o EXCEPT !.members = Append(@, p), !.first = Append(o.members, p)[1]]

\* Fault: the old party is not told.
Moved_Bug(objs, p, t) == IF t = Null THEN objs ELSE [objs EXCEPT ![t] = With(@, p)]

\* CBasePlayer::SetTeam: out of the old party, then into the new one.
Moved(objs, p, t) ==
  LET left == IF team[p] = Null THEN objs ELSE [objs EXCEPT ![team[p]] = Without(@, p)]
  IN IF t = Null THEN left ELSE [left EXCEPT ![t] = With(@, p)]

SetTeam(p, t) == team' = [team EXCEPT ![p] = t] /\ object' = Moved(object, p, t)

\* CTeam::CreateTeam of a party that does not exist yet, and SetTeam to it.
\* Its ID is a new one, whatever ID was asked for.
FoundAndJoin(p, name) ==
  /\ serial < MaxSerial /\ serial' = serial + 1
  /\ \E a \in Free :
       /\ Teams' = Append(Teams, a)
       /\ team' = [team EXCEPT ![p] = a]
       /\ object' = Moved([object EXCEPT ![a] =
                     [name |-> name, id |-> serial + 1, members |-> <<>>, first |-> Null]], p, a)

PutInServer(p) ==
  /\ p \notin here /\ here' = here \cup {p}
  /\ UNCHANGED <<loaded, team, join, Teams, object, serial, saved, maps>>

\* RestoreAllServer: SetTeam(CTeam::CreateTeam(Data.Party, Data.PartyID)).
RestoreAllServer(p) ==
  LET same == GetTeam("id", saved[p].id)
  IN /\ p \in here \ loaded /\ loaded' = loaded \cup {p}
     /\ \/ saved[p].name = Null /\ SetTeam(p, Null) /\ UNCHANGED <<Teams, serial>>
        \/ saved[p].name # Null /\ same # <<>> /\ SetTeam(p, same[1]) /\ UNCHANGED <<Teams, serial>>
        \/ saved[p].name # Null /\ same = <<>> /\ FoundAndJoin(p, saved[p].name)
     /\ UNCHANGED <<here, join, saved, maps>>

\* The command "joinparty": ask the leader, or found the party.
JoinParty(p, name) ==
  LET same == GetTeam("name", name)
  IN /\ p \in loaded /\ team[p] = Null
     /\ IF same = <<>>
        THEN FoundAndJoin(p, name) /\ UNCHANGED join
        ELSE /\ object[same[1]].first \in here  \* MemberList[0], even of an empty list
             /\ join' = [join EXCEPT ![p] = same[1]]
             /\ UNCHANGED <<Teams, team, object, serial>>
     /\ UNCHANGED <<here, loaded, saved, maps>>

LeaveParty(p) ==
  /\ p \in here /\ team[p] # Null
  /\ SetTeam(p, Null)
  /\ UNCHANGED <<here, loaded, join, Teams, serial, saved, maps>>

\* The command "accept" of a leader: the first waiting player joins; which one
\* that is depends on the client indices, here any.
Accept(p, q) ==
  /\ p \in here /\ q \in here /\ team[p] # Null
  /\ object[team[p]].members # <<>> /\ object[team[p]].members[1] = p
  /\ join[q] = team[p]
  /\ SetTeam(q, team[p])
  /\ join' = [join EXCEPT ![q] = Null]
  /\ UNCHANGED <<here, loaded, Teams, serial, saved, maps>>

\* What SaveChar writes of a party.
PartyOf(p) == IF team[p] = Null THEN NoParty
              ELSE [name |-> object[team[p]].name, id |-> object[team[p]].id]

\* The last save, then Deactivate calls SetTeam(NULL).
Disconnect(p) ==
  /\ p \in here
  /\ here' = here \ {p} /\ loaded' = loaded \ {p}
  /\ saved' = IF p \in loaded THEN [saved EXCEPT ![p] = PartyOf(p)] ELSE saved
  /\ SetTeam(p, Null)
  /\ join' = [join EXCEPT ![p] = Null]
  /\ UNCHANGED <<Teams, serial, maps>>

Empty(a) == object[a].members = <<>>

\* CHalfLifeMultiplay::Think deletes the empty parties.
DeleteEmptyTeams ==
  /\ \E a \in ToSet(Teams) : Empty(a)
  /\ Teams' = Only(Teams, {a \in ToSet(Teams) : ~Empty(a)})
  /\ UNCHANGED <<here, loaded, team, join, object, serial, saved, maps>>

\* Everybody is saved and deactivated; the first frame of the next map comes
\* before anybody is back.
MapChange ==
  /\ maps < MaxMaps /\ maps' = maps + 1
  /\ here' = {} /\ loaded' = {}
  /\ saved' = [p \in Player |-> IF p \in loaded THEN PartyOf(p) ELSE saved[p]]
  /\ team' = [p \in Player |-> Null] /\ join' = [p \in Player |-> Null]
  /\ object' = [a \in Addr |-> IF a \in ToSet(Teams)
                                THEN [object[a] EXCEPT !.members = <<>>] ELSE object[a]]
  /\ Teams' = <<>>
  /\ UNCHANGED serial

PartiesNext == \/ DeleteEmptyTeams \/ MapChange
        \/ \E p \in Player : \/ PutInServer(p) \/ RestoreAllServer(p)
                             \/ \E n \in PartyName : JoinParty(p, n)
                             \/ LeaveParty(p) \/ Disconnect(p)
                             \/ \E q \in Player : Accept(p, q)

PartiesSpec == PartiesInit /\ [][PartiesNext]_partyVars
-----------------------------------------------------------------------------
(* Properties.                                                             *)

\* SetTeam keeps m_pTeam and MemberList together: a player is on the list of
\* the party he points to and on no other, once, and that party still exists.
MembersAgree ==
  /\ \A p \in here : team[p] # Null => team[p] \in ToSet(Teams)
  /\ \A a \in ToSet(Teams) :
       /\ ToSet(object[a].members) = {p \in here : team[p] = a}
       /\ IsInjective(object[a].members)
=============================================================================
