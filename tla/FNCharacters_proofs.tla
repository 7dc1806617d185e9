------------------------ MODULE FNCharacters_proofs ------------------------
(* Theorems about FNCharacters, for every number of players and slots and  *)
(* every value of the other constants.                                     *)
EXTENDS FNCharacters, TLAPS

USE DEF Slot, Guid, AnsweredSlot
-----------------------------------------------------------------------------
(* What the helpers return.                                                *)

LEMMA DataTypes ==
  /\ NoData \in Data /\ NoFile \in Data
  /\ Destroyed \in CharInfo
  /\ BlankView \in View
BY DEF NoData, NoFile, Data, Destroyed, CharInfo, BlankView, View, CharStatus, Unreadable

LEMMA NewRequestType ==
  ASSUME NEW n \in Nat, NEW s \in Slot, NEW g \in Guid \cup {NoGuid}, NEW d \in Data
  PROVE  /\ \A p \in Player, kind \in {"load", "create", "update", "delete"} :
              NewRequest(kind, p, n, s, g, d) \in Request
         /\ \A kind \in {"scripts", "map"} :
              NewRequest(kind, NoPlayer, n, s, g, d) \in Request
BY DEF NewRequest, Request, RequestOf, RequestState, QUEUED

LEMMA SlotTypes ==
  ASSUME NEW ci \in CharInfo
  PROVE  /\ Busy(ci) \in CharInfo
         /\ NotFound(ci) \in CharInfo
         /\ [ci EXCEPT !.status = "NOTFOUND"] \in CharInfo
         /\ [ci EXCEPT !.cached = ci.status] \in CharInfo
         /\ ShownAs(ci) \in View
         /\ ci.guid \in Guid \cup {NoGuid}
         /\ ci.data \in Data
BY DataTypes DEF Busy, NotFound, ShownAs, CharInfo, CharStatus, View

LEMMA DataSteps ==
  /\ \A d \in Data : [d EXCEPT !.ver = @ + 1] \in Data
  /\ \A c \in StoredChar : [c EXCEPT !.data.ver = Unreadable] \in StoredChar
  /\ \A g \in Guid : [of |-> g, ver |-> 0] \in Data
<1>1. ASSUME NEW d \in Data
      PROVE  [d EXCEPT !.ver = @ + 1] \in Data
  <2>1. d.ver + 1 \in Nat
    BY DEF Data, Unreadable
  <2> QED
    BY <2>1 DEF Data
<1>2. ASSUME NEW c \in StoredChar
      PROVE  [c EXCEPT !.data.ver = Unreadable] \in StoredChar
  <2>1. [c.data EXCEPT !.ver = Unreadable] \in Data
    BY DEF StoredChar, Data
  <2> QED
    BY <2>1 DEF StoredChar
<1>3. \A g \in Guid : [of |-> g, ver |-> 0] \in Data
  BY DEF Data
<1> QED
  BY <1>1, <1>2, <1>3

\* What TypeOK says of one player and one slot.
LEMMA TypeOf ==
  ASSUME TypeOK, NEW p \in Player
  PROVE  /\ serial[p] \in Nat
         /\ charNum[p] \in Slot
         /\ live[p] \in Data
         /\ info[p] \in [Slot -> CharInfo]
         /\ view[p] \in [Slot -> View]
         /\ files[p] \in [Slot -> Data]
         /\ \A s \in Slot : /\ info[p][s] \in CharInfo
                           /\ view[p][s] \in View
                           /\ files[p][s] \in Data
BY DEF TypeOK

LEMMA AssignTypes ==
  ASSUME NEW d \in Data, NEW g \in Guid \cup {NoGuid}
  PROVE  /\ AssignChar(d) \in CharInfo
         /\ AssignFromCentral(d, g) \in CharInfo
BY DataTypes DEF AssignChar, AssignFromCentral, Destroyed, CharInfo, CharStatus

LEMMA InfoTypes ==
  ASSUME NEW slots \in [Slot -> CharInfo], NEW saved \in [Slot -> Data]
  PROVE  /\ BusySlots(slots) \in [Slot -> CharInfo]
         /\ FileSlots(slots, saved) \in [Slot -> CharInfo]
<1>1. BusySlots(slots) \in [Slot -> CharInfo]
  BY SlotTypes DEF BusySlots
<1>2. FileSlots(slots, saved) \in [Slot -> CharInfo]
  BY SlotTypes, AssignTypes DEF FileSlots
<1> QED
  BY <1>1, <1>2

\* One slot of one player, of any kind of slots.
LEMMA TableUpdate ==
  ASSUME NEW T, NEW f \in [Player -> [Slot -> T]], NEW p \in Player, NEW s \in Slot, NEW t \in T
  PROVE  [f EXCEPT ![p][s] = t] \in [Player -> [Slot -> T]]
<1>1. [f[p] EXCEPT ![s] = t] \in [Slot -> T]
  OBVIOUS
<1> QED
  BY <1>1

LEMMA SetSlotTypes ==
  ASSUME TypeOK, NEW p \in Player, NEW s \in Slot, NEW ci \in CharInfo, SetSlot(p, s, ci)
  PROVE  info' \in [Player -> [Slot -> CharInfo]]
<1>1. info \in [Player -> [Slot -> CharInfo]]
  BY DEF TypeOK
<1>2. [info EXCEPT ![p][s] = ci] \in [Player -> [Slot -> CharInfo]]
  BY <1>1, TableUpdate
<1> QED
  BY <1>2 DEF SetSlot

LEMMA SetFileTypes ==
  ASSUME TypeOK, NEW p \in Player, NEW s \in Slot, NEW d \in Data
  PROVE  [files EXCEPT ![p][s] = d] \in [Player -> [Slot -> Data]]
<1>1. files \in [Player -> [Slot -> Data]]
  BY DEF TypeOK
<1> QED
  BY <1>1, TableUpdate

LEMMA QueueOneTypes ==
  ASSUME TypeOK, NEW r \in Request, r.player \in Player, QueueOne(r)
  PROVE  requests' \in SUBSET Request /\ serial' \in [Player -> Nat]
BY DEF QueueOne, TypeOK

LEMMA RequestStep ==
  ASSUME NEW r \in Request
  PROVE  /\ \A st \in RequestState : [r EXCEPT !.state = st] \in Request
         /\ \A o \in Outcome \cup {"none", "banned"} : [r EXCEPT !.reply = o] \in Request
         /\ \A g \in Guid \cup {NoGuid}, d \in Data :
              [r EXCEPT !.reply = "ok", !.guid = g, !.data = d] \in Request
         /\ \A g \in Guid \cup {NoGuid} : [r EXCEPT !.reply = "ok", !.guid = g] \in Request
BY DEF Request, RequestOf, Outcome

LEMMA ThinkTypes ==
  ASSUME requests \in SUBSET Request, NEW unsent
  PROVE  Think(unsent) \in SUBSET Request
<1>1. EXECUTED \in RequestState /\ FINISHED \in RequestState
  BY DEF RequestState
<1> QED
  BY <1>1, RequestStep DEF Think

LEMMA LoadTypes ==
  ASSUME TypeOK, NEW p \in Player, NEW slots
  PROVE  LoadRequests(p, slots) \in SUBSET Request
<1>1. ASSUME NEW s \in Slot
      PROVE  NewRequest("load", p, serial[p] + s, s, NoGuid, NoData) \in Request
  <2>1. serial[p] + s \in Nat
    BY ConstantsAssumption, TypeOf
  <2> QED
    BY <2>1, NewRequestType, DataTypes
<1> QED
  BY <1>1 DEF LoadRequests

LEMMA UpdateTypes ==
  ASSUME TypeOK, NEW p \in Player
  PROVE  /\ Update(p) \in Request
         /\ Update(p).guid = info[p][charNum[p]].guid
         /\ Update(p).guid \in Guid \cup {NoGuid}
BY TypeOf, SlotTypes, NewRequestType DEF Update, NewRequest

LEMMA SaveCharTypes ==
  ASSUME TypeOK, NEW ps \in SUBSET Player, SaveChar(ps)
  PROVE  /\ requests' \in SUBSET Request
         /\ serial' \in [Player -> Nat]
         /\ crossed' \in SUBSET Guid
         /\ tainted' \in SUBSET (Guid \cup {NoGuid})
         /\ files' \in [Player -> [Slot -> Data]]
<1> DEFINE savers == {p \in ps : CanSave(p)}
           new    == IF IsEnabled THEN {Update(p) : p \in savers} ELSE {}
<1>1. new \in SUBSET Request
  BY UpdateTypes
<1>2. requests' \in SUBSET Request
  BY <1>1 DEF SaveChar, TypeOK
<1>3. serial' \in [Player -> Nat]
  BY DEF SaveChar, TypeOK
<1>4. crossed' \in SUBSET Guid
  BY UpdateTypes DEF SaveChar, TypeOK
<1>5. files' \in [Player -> [Slot -> Data]]
  BY DEF SaveChar, TypeOK
<1>6. tainted' \in SUBSET (Guid \cup {NoGuid})
  BY UpdateTypes DEF SaveChar, TypeOK
<1> QED
  BY <1>2, <1>3, <1>4, <1>5, <1>6

LEMMA RemovePlayersTypes ==
  ASSUME TypeOK, NEW ps \in SUBSET Player, RemovePlayers(ps)
  PROVE  /\ here' \in SUBSET Player
         /\ charState' \in [Player -> CharState]
         /\ charNum' \in [Player -> Slot]
         /\ live' \in [Player -> Data]
         /\ info' \in [Player -> [Slot -> CharInfo]]
         /\ view' \in [Player -> [Slot -> View]]
         /\ overtaken' \in SUBSET (Player \X Slot)
<1>1. 0 \in Slot
  BY ConstantsAssumption
<1> QED
  BY <1>1, DataTypes DEF RemovePlayers, TypeOK, CharState

LEMMA ServeTypes ==
  ASSUME TypeOK, NEW r \in requests
  PROVE  /\ Serve(r).chars \in SUBSET StoredChar
         /\ Serve(r).answer \in Request
<1> USE DEF TypeOK
<1>0. r \in Request
  OBVIOUS
<1>1. CASE r.kind = "load"
  <2>1. CASE CharOf(r) = {}
    BY <1>0, <1>1, <2>1, RequestStep DEF Serve, Outcome
  <2>2. CASE CharOf(r) # {}
    <3> DEFINE c == CHOOSE c \in CharOf(r) : TRUE
    <3>1. c \in chars
      BY <2>2 DEF CharOf
    <3>2. c.guid \in Guid /\ c.data \in Data
      BY <3>1 DEF StoredChar
    <3> QED
      BY <1>0, <1>1, <2>2, <3>2, RequestStep DEF Serve
  <2> QED
    BY <2>1, <2>2
<1>2. CASE r.kind = "create"
  <2>1. CASE CharOf(r) = {}
    <3>1. <<r.player, r.id>> \in Guid /\ r.slot \in Slot /\ r.data \in Data
      BY <1>0, <1>2 DEF Request, RequestOf
    <3>2. [guid |-> <<r.player, r.id>>, slot |-> r.slot, data |-> r.data] \in StoredChar
      BY <3>1 DEF StoredChar
    <3> QED
      BY <1>0, <1>2, <2>1, <3>1, <3>2, RequestStep DEF Serve
  <2>2. CASE CharOf(r) # {}
    BY <1>0, <1>2, <2>2, RequestStep DEF Serve, Outcome
  <2> QED
    BY <2>1, <2>2
<1>3. CASE r.kind = "update"
  <2>1. r.data \in Data
    BY <1>0 DEF Request, RequestOf
  <2>2. ASSUME NEW c \in chars
        PROVE  [c EXCEPT !.data = r.data] \in StoredChar
    BY <2>1 DEF StoredChar
  <2>3. CASE Named(r.guid) = {}
    BY <1>0, <1>3, <2>3, RequestStep DEF Serve, Outcome
  <2>4. CASE Named(r.guid) # {}
    <3>1. /\ Serve(r).chars =
               {IF c.guid = r.guid THEN [c EXCEPT !.data = r.data] ELSE c : c \in chars}
          /\ Serve(r).answer = [r EXCEPT !.reply = "ok"]
      BY <1>3, <2>4 DEF Serve
    <3>2. Serve(r).chars \in SUBSET StoredChar
      BY <2>2, <3>1
    <3>3. "ok" \in Outcome
      BY DEF Outcome
    <3> QED
      BY <1>0, <3>1, <3>2, <3>3, RequestStep
  <2> QED
    BY <2>3, <2>4
<1>4. CASE r.kind = "delete"
  BY <1>0, <1>4, RequestStep DEF Serve, Outcome
<1>5. CASE r.kind \in {"scripts", "map"}
  BY <1>0, <1>5, RequestStep DEF Serve, Outcome
<1> QED
  BY <1>0, <1>1, <1>2, <1>3, <1>4, <1>5 DEF Request, RequestOf

LEMMA SlotAfterType ==
  ASSUME NEW ci \in CharInfo, NEW r \in Request, NEW got
  PROVE  SlotAfter(ci, r, got) \in CharInfo
<1>1. r.data \in Data /\ r.guid \in Guid \cup {NoGuid}
  BY DEF Request, RequestOf
<1> QED
  BY <1>1, SlotTypes, AssignTypes DEF SlotAfter
-----------------------------------------------------------------------------
(* Type correctness.                                                       *)

LEMMA TypeInit == Init => TypeOK
<1> SUFFICES ASSUME Init PROVE TypeOK
  OBVIOUS
<1>1. 0 \in Slot
  BY ConstantsAssumption
<1> QED
  BY <1>1, DataTypes DEF Init, TypeOK, CharState

LEMMA TypeStep ==
  ASSUME TypeOK, [Next]_vars
  PROVE  TypeOK'
<1> USE DEF TypeOK
<1>1. CASE MSWorldSpawn
  BY <1>1, ConstantsAssumption DEF MSWorldSpawn, playVars, slotVars, storeVars, queueVars
<1>2. CASE MSGameThink
  <2>1. \A k \in Validations : NewRequest(k, NoPlayer, 0, 0, NoGuid, NoData) \in Request
    <3>1. 0 \in Slot /\ Validations \subseteq {"scripts", "map"}
      BY ConstantsAssumption
    <3> QED
      BY <3>1, NewRequestType, DataTypes
  <2>2. requests' \in SUBSET Request
    BY <1>2, <2>1, ThinkTypes DEF MSGameThink
  <2>3. validated' \in BOOLEAN
    BY <1>2 DEF MSGameThink, IsEnabled
  <2> QED
    BY <1>2, <2>2, <2>3 DEF MSGameThink, playVars, slotVars, storeVars
<1>3. CASE MSGameEnd
  <2>1. SaveChar(here) /\ RemovePlayers(here) /\ here \in SUBSET Player
    BY <1>3 DEF MSGameEnd
  <2>2. phase' \in {"off", "running", "ending"} /\ validated' \in BOOLEAN
    BY <1>3 DEF MSGameEnd
  <2>3. UNCHANGED <<central, loaded, chars>>
    BY <1>3 DEF MSGameEnd
  <2> QED
    BY <2>1, <2>2, <2>3, SaveCharTypes, RemovePlayersTypes
<1>4. CASE SendAndWait
  <2>1. requests' \in SUBSET Request
    <3>1. PICK unsent \in Unsent :
            requests' = {IF r.reply = "none" THEN r ELSE [r EXCEPT !.state = FINISHED] :
                           r \in Think(unsent)}
      BY <1>4 DEF SendAndWait
    <3>2. Think(unsent) \in SUBSET Request
      BY ThinkTypes
    <3>3. FINISHED \in RequestState
      BY DEF RequestState
    <3>4. ASSUME NEW r \in Think(unsent)
          PROVE  [r EXCEPT !.state = FINISHED] \in Request
      BY <3>2, <3>3, RequestStep
    <3> QED
      BY <3>1, <3>2, <3>4
  <2>2. /\ phase' \in {"off", "running", "ending"}
        /\ loaded' \in BOOLEAN /\ validated' \in BOOLEAN
    BY <1>4 DEF SendAndWait
  <2> QED
    BY <1>4, <2>1, <2>2 DEF SendAndWait, playVars, slotVars, storeVars
<1>5. ASSUME NEW p \in Player, ClientPutInServer(p)
      PROVE  TypeOK'
  <2>1. info[p] \in [Slot -> CharInfo] /\ files[p] \in [Slot -> Data]
    BY TypeOf
  <2>2. /\ requests' \in SUBSET Request
        /\ serial' \in [Player -> Nat]
        /\ info' \in [Player -> [Slot -> CharInfo]]
    <3>1. CASE IsEnabled
      <4>1. LoadRequests(p, info[p]) \in SUBSET Request
        BY LoadTypes
      <4>2. serial[p] + NumSlots \in Nat
        BY ConstantsAssumption
      <4> QED
        BY <1>5, <2>1, <3>1, <4>1, <4>2, InfoTypes DEF ClientPutInServer
    <3>2. CASE ~IsEnabled
      <4>1. FileSlots(info[p], files[p]) \in [Slot -> CharInfo]
        BY <2>1, InfoTypes
      <4> QED
        BY <1>5, <3>2, <4>1 DEF ClientPutInServer
    <3> QED
      BY <3>1, <3>2
  <2>3. here' \in SUBSET Player
    BY <1>5 DEF ClientPutInServer
  <2>4. overtaken' \in SUBSET (Player \X Slot)
    <3>1. \A r \in Unanswered(p) : r.slot \in Slot
      BY DEF Unanswered, Request, RequestOf
    <3> QED
      BY <1>5, <3>1 DEF ClientPutInServer
  <2> QED
    BY <1>5, <2>2, <2>3, <2>4 DEF ClientPutInServer, serverVars, storeVars
<1>6. ASSUME NEW p \in Player, Think_SendCharData(p)
      PROVE  TypeOK'
  <2>1. ASSUME NEW s \in Slot
        PROVE  /\ [info[p][s] EXCEPT !.cached = info[p][s].status] \in CharInfo
               /\ ShownAs(info[p][s]) \in View
    BY SlotTypes, TypeOf
  <2>2. info' \in [Player -> [Slot -> CharInfo]] /\ view' \in [Player -> [Slot -> View]]
    BY <1>6, <2>1 DEF Think_SendCharData
  <2> QED
    BY <1>6, <2>2 DEF Think_SendCharData, serverVars, playVars, storeVars, queueVars
<1>7. ASSUME NEW p \in Player, NEW s \in Slot, SelectChar(p, s)
      PROVE  TypeOK'
  <2>1. info[p][s].data \in Data
    BY SlotTypes, TypeOf
  <2> QED
    BY <1>7, <2>1, DataTypes
    DEF SelectChar, serverVars, slotVars, storeVars, queueVars, CharState
<1>8. ASSUME NEW p \in Player, NEW s \in Slot, CreateChar(p, s)
      PROVE  TypeOK'
  <2> DEFINE new == [of |-> <<p, serial[p]>>, ver |-> 0]
  <2>1. new \in Data
    BY DataSteps, TypeOf
  <2>2. /\ requests' \in SUBSET Request
        /\ serial' \in [Player -> Nat]
        /\ info' \in [Player -> [Slot -> CharInfo]]
        /\ files' \in [Player -> [Slot -> Data]]
    <3>1. CASE IsEnabled /\ SlotFree(info[p][s])
      <4>1. NewRequest("create", p, serial[p], s, NoGuid, new) \in Request
        BY <2>1, NewRequestType
      <4>2. NewRequest("create", p, serial[p], s, NoGuid, new).player = p
        BY DEF NewRequest
      <4> QED
        BY <1>8, <3>1, <4>1, <4>2, SlotTypes, TypeOf, SetSlotTypes, QueueOneTypes
        DEF CreateChar
    <3>2. CASE IsEnabled /\ ~SlotFree(info[p][s])
      BY <1>8, <3>2 DEF CreateChar
    <3>3. CASE ~IsEnabled
      <4>1. files' \in [Player -> [Slot -> Data]]
        <5>1. files' = [files EXCEPT ![p][s] = new]
          BY <1>8, <3>3 DEF CreateChar
        <5>2. [files EXCEPT ![p][s] = new] \in [Player -> [Slot -> Data]]
          BY <2>1, SetFileTypes
        <5> QED
          BY <5>1, <5>2, Zenon
      <4>2. FileSlots(info[p], files'[p]) \in [Slot -> CharInfo]
        BY <4>1, InfoTypes, TypeOf
      <4>3. info' \in [Player -> [Slot -> CharInfo]]
        BY <1>8, <3>3, <4>2 DEF CreateChar
      <4>4. serial[p] + 1 \in Nat
        BY TypeOf
      <4> QED
        BY <1>8, <3>3, <4>1, <4>3, <4>4 DEF CreateChar
    <3> QED
      BY <3>1, <3>2, <3>3
  <2>3. charNum' \in [Player -> Slot] /\ live' \in [Player -> Data]
    BY <1>8, DataTypes DEF CreateChar
  <2> QED
    BY <1>8, <2>2, <2>3 DEF CreateChar, serverVars
<1>9. ASSUME NEW p \in Player, NEW s \in Slot, DeleteChar(p, s)
      PROVE  TypeOK'
  <2> DEFINE r == NewRequest("delete", p, serial[p], s, info[p][s].guid, NoData)
  <2>1. r \in Request /\ r.player = p
    <3>1. info[p][s].guid \in Guid \cup {NoGuid}
      BY SlotTypes, TypeOf
    <3> QED
      BY <3>1, NewRequestType, DataTypes DEF NewRequest
  <2>2. [info[p][s] EXCEPT !.status = "NOTFOUND"] \in CharInfo /\ Busy(info[p][s]) \in CharInfo
    BY SlotTypes, TypeOf
  <2>3. /\ requests' \in SUBSET Request
        /\ serial' \in [Player -> Nat]
        /\ info' \in [Player -> [Slot -> CharInfo]]
        /\ files' \in [Player -> [Slot -> Data]]
    <3>1. CASE IsEnabled
      BY <1>9, <2>1, <2>2, <3>1, SetSlotTypes, QueueOneTypes DEF DeleteChar
    <3>2. CASE ~IsEnabled
      <4>1. files' = [files EXCEPT ![p][s] = NoFile]
        BY <1>9, <3>2 DEF DeleteChar
      <4>2. [files EXCEPT ![p][s] = NoFile] \in [Player -> [Slot -> Data]]
        BY DataTypes, SetFileTypes
      <4>3. files' \in [Player -> [Slot -> Data]]
        BY <4>1, <4>2, Zenon
      <4>4. UNCHANGED <<requests, serial>> /\ SetSlot(p, s, [info[p][s] EXCEPT !.status = "NOTFOUND"])
        BY <1>9, <3>2 DEF DeleteChar
      <4> QED
        BY <2>2, <4>3, <4>4, SetSlotTypes
    <3> QED
      BY <3>1, <3>2
  <2> QED
    BY <1>9, <2>3 DEF DeleteChar, serverVars, playVars
<1>10. ASSUME NEW p \in Player, Play(p)
       PROVE  TypeOK'
  <2>1. [live[p] EXCEPT !.ver = @ + 1] \in Data
    BY DataSteps, TypeOf
  <2>2. live' \in [Player -> Data]
    BY <1>10, <2>1 DEF Play
  <2> QED
    BY <1>10, <2>2 DEF Play, serverVars, slotVars, storeVars, queueVars
<1>11. ASSUME NEW p \in Player, AutoSave(p)
       PROVE  TypeOK'
  BY <1>11, SaveCharTypes DEF AutoSave, serverVars, playVars, slotVars
<1>12. ASSUME NEW p \in Player, ClientDisconnect(p)
       PROVE  TypeOK'
  BY <1>12, SaveCharTypes, RemovePlayersTypes DEF ClientDisconnect, serverVars
<1>13. ASSUME NEW r \in requests, BackendServes(r)
       PROVE  TypeOK'
  <2>1. requests' \in SUBSET Request
    <3>1. PICK q \in Request : Replace(r, q)
      BY <1>13, ServeTypes, RequestStep DEF BackendServes, Outcome
    <3> QED
      BY <3>1 DEF Replace
  <2>2. chars' \in SUBSET StoredChar
    BY <1>13, ServeTypes DEF BackendServes
  <2> QED
    BY <1>13, <2>1, <2>2 DEF BackendServes, serverVars, playVars, slotVars
<1>14. ASSUME NEW r \in requests, Deliver(r)
       PROVE  TypeOK'
  <2>1. requests' \in SUBSET Request
    BY <1>14, RequestStep DEF Deliver, Replace, RequestState
  <2>2. info' \in [Player -> [Slot -> CharInfo]]
    <3>1. PICK got :
            info' = [p \in Player |->
                      IF r.kind \in SlotKind /\ p \in UTIL_PlayerBySteamID(r.player)
                      THEN [info[p] EXCEPT ![r.slot] = SlotAfter(@, r, got)]
                      ELSE info[p]]
      BY <1>14 DEF Deliver
    <3>2. r \in Request /\ r.slot \in Slot
      BY DEF Request, RequestOf
    <3> QED
      BY <3>1, <3>2, SlotAfterType
  <2>3. central' \in BOOLEAN
    BY <1>14 DEF Deliver
  <2> QED
    BY <1>14, <2>1, <2>2, <2>3 DEF Deliver, playVars, storeVars
<1>15. ASSUME NEW c \in chars, BackendSpoils(c)
       PROVE  TypeOK'
  <2>1. [c EXCEPT !.data.ver = Unreadable] \in StoredChar
    BY DataSteps
  <2> QED
    BY <1>15, <2>1 DEF BackendSpoils, serverVars, playVars, slotVars, queueVars
<1>16. CASE UNCHANGED vars
  BY <1>16 DEF vars, serverVars, playVars, slotVars, storeVars, queueVars
<1> QED
  BY <1>1, <1>2, <1>3, <1>4, <1>5, <1>6, <1>7, <1>8, <1>9, <1>10, <1>11, <1>12,
     <1>13, <1>14, <1>15, <1>16 DEF Next, PlayerStep

(***************************************************************************)
(* Type correctness: a request built from a player's slot, an answer       *)
(* written into a slot and a saved character all stay in their types, so a *)
(* slot never holds anything but a Guid the backend issued or none.        *)
(***************************************************************************)
THEOREM TypeCorrect == Spec => []TypeOK
BY TypeInit, TypeStep, PTL DEF Spec
-----------------------------------------------------------------------------
(* Requests exist only while the manager is loaded.                        *)

\* Why: only a running map has players, and a running map with FN enabled,
\* or one that is being drained, has the manager loaded.
LoadedInv ==
  /\ requests # {} => loaded /\ phase # "off"
  /\ here # {} => phase = "running"
  /\ phase = "running" /\ central => loaded
  /\ phase = "ending" => loaded

\* A handler that runs during the map and leaves phase and manager alone
\* keeps LoadedInv if it queues only with FN enabled.
LEMMA DuringMap ==
  ASSUME LoadedInv, phase = "running", UNCHANGED <<phase, loaded>>,
         central' => central,
         requests' # {} => requests # {} \/ IsEnabled
  PROVE  LoadedInv'
BY DEF LoadedInv, IsEnabled

LEMMA SaveCharQueues ==
  ASSUME NEW ps, SaveChar(ps), ~IsEnabled
  PROVE  requests' = requests
BY DEF SaveChar

LEMMA LoadedStep ==
  ASSUME LoadedInv, [Next]_vars
  PROVE  LoadedInv'
<1>1. CASE MSWorldSpawn
  BY <1>1 DEF MSWorldSpawn, LoadedInv, playVars, queueVars
<1>2. CASE MSGameThink
  <2>1. phase = "running" /\ UNCHANGED <<phase, loaded, central>>
    BY <1>2 DEF MSGameThink
  <2>2. requests' # {} => requests # {} \/ IsEnabled
    BY <1>2 DEF MSGameThink, Think
  <2> QED
    BY <2>1, <2>2, DuringMap
<1>3. CASE MSGameEnd
  <2>1. here' = {} /\ phase = "running" /\ UNCHANGED <<central, loaded>>
    BY <1>3 DEF MSGameEnd, RemovePlayers
  <2>2. CASE loaded
    BY <1>3, <2>1, <2>2 DEF MSGameEnd, LoadedInv
  <2>3. CASE ~loaded
    <3>1. requests = {} /\ ~IsEnabled
      BY <2>1, <2>3 DEF LoadedInv, IsEnabled
    <3>2. requests' = requests
      BY <1>3, <3>1, SaveCharQueues DEF MSGameEnd
    <3> QED
      BY <1>3, <2>1, <2>3, <3>1, <3>2 DEF MSGameEnd, LoadedInv
  <2> QED
    BY <2>2, <2>3
<1>4. CASE SendAndWait
  <2>1. phase = "ending" /\ loaded /\ here = {} /\ here' = {}
    BY <1>4 DEF SendAndWait, LoadedInv, playVars
  <2>2. \/ requests' = {} /\ phase' = "off"
        \/ phase' = "ending" /\ loaded' = loaded
    BY <1>4, <2>1 DEF SendAndWait, Drained
  <2> QED
    BY <2>1, <2>2 DEF LoadedInv
<1>5. ASSUME NEW p \in Player, PlayerStep(p)
      PROVE  LoadedInv'
  <2>1. phase = "running" /\ UNCHANGED <<phase, loaded, central>>
    BY <1>5 DEF PlayerStep, ClientPutInServer, Think_SendCharData, Play, AutoSave,
                ClientDisconnect, SelectChar, CreateChar, DeleteChar, serverVars
  <2>2. ~IsEnabled => requests' = requests
    BY <1>5, SaveCharQueues
    DEF PlayerStep, ClientPutInServer, Think_SendCharData, Play, AutoSave,
        ClientDisconnect, SelectChar, CreateChar, DeleteChar, queueVars
  <2> QED
    BY <2>1, <2>2, DuringMap
<1>6. ASSUME NEW r \in requests, BackendServes(r)
      PROVE  LoadedInv'
  BY <1>6 DEF BackendServes, LoadedInv, serverVars, playVars
<1>7. ASSUME NEW r \in requests, Deliver(r)
      PROVE  LoadedInv'
  <2>1. phase = "running" /\ UNCHANGED <<phase, loaded>>
    BY <1>7 DEF Deliver
  <2>2. central' = central \/ central' = FALSE
    BY <1>7 DEF Deliver
  <2>3. central' => central
    BY <2>2, Zenon
  <2>4. requests # {}
    OBVIOUS
  <2> QED
    BY <2>1, <2>3, <2>4, DuringMap
<1>8. ASSUME NEW c \in chars, BackendSpoils(c)
      PROVE  LoadedInv'
  BY <1>8 DEF BackendSpoils, LoadedInv, serverVars, playVars, queueVars
<1>9. CASE UNCHANGED vars
  BY <1>9 DEF LoadedInv, vars, serverVars, playVars, queueVars
<1> QED
  BY <1>1, <1>2, <1>3, <1>4, <1>5, <1>6, <1>7, <1>8, <1>9 DEF Next

(***************************************************************************)
(* No request is queued that nobody would send, and none outlives its map: *)
(* SendAndWait leaves the vector empty, and between two maps there is      *)
(* neither a player nor a handler that could queue another.                *)
(***************************************************************************)
THEOREM NoRequestOutsideMaps == Spec => []RequestsOnlyWhileLoaded
<1>1. Init => LoadedInv
  BY DEF Init, LoadedInv
<1>2. LoadedInv => RequestsOnlyWhileLoaded
  BY DEF LoadedInv, RequestsOnlyWhileLoaded
<1> QED
  BY <1>1, <1>2, LoadedStep, PTL DEF Spec
-----------------------------------------------------------------------------
(* The client has the present content of every slot it is not sent again.  *)

\* What the client was told agrees with the cached status, and with the data
\* of a slot that has been LOADED ever since.
SlotShown(ci, v) ==
  /\ ci.cached # "UNLOADED" =>
       v.status = ci.cached /\ (ci.cached # "LOADED" => v.data = NoData)
  /\ ci.cached = "LOADED" /\ ci.status = "LOADED" => v.data = ci.data

\* Why: a slot of a player in the server never returns to UNLOADED, so a
\* cached status that was reset differs from the status.
ViewInv ==
  \A p \in Player, s \in Slot :
    /\ SlotShown(info[p][s], view[p][s])
    /\ p \in here => info[p][s].status # "UNLOADED"

\* How a handler may change a slot behind the client's back: it resets the
\* cached status, or it turns the status, and only that, to NOTFOUND.
SlotStep(ci, cj) ==
  \/ cj = ci
  \/ cj.cached = "UNLOADED" /\ cj.status # "UNLOADED"
  \/ cj = [ci EXCEPT !.status = "NOTFOUND"]

LEMMA SlotStepKeeps ==
  ASSUME NEW ci \in CharInfo, NEW cj, NEW v, SlotStep(ci, cj), SlotShown(ci, v)
  PROVE  /\ SlotShown(cj, v)
         /\ ci.status # "UNLOADED" => cj.status # "UNLOADED"
BY DEF SlotStep, SlotShown, CharInfo

LEMMA SlotSteps ==
  ASSUME NEW ci \in CharInfo, NEW d \in Data, NEW g
  PROVE  /\ SlotStep(ci, Busy(ci))
         /\ SlotStep(ci, NotFound(ci))
         /\ SlotStep(ci, AssignChar(d))
         /\ SlotStep(ci, AssignFromCentral(d, g))
         /\ SlotStep(ci, [ci EXCEPT !.status = "NOTFOUND"])
         /\ AssignChar(d).status # "UNLOADED"
         /\ Busy(ci).status # "UNLOADED"
         /\ [ci EXCEPT !.status = "NOTFOUND"].status # "UNLOADED"
BY DEF SlotStep, Busy, NotFound, AssignChar, AssignFromCentral, Destroyed, CharInfo

LEMMA ShownAfterThink ==
  ASSUME NEW ci \in CharInfo, ci.status # "UNLOADED"
  PROVE  /\ SlotShown([ci EXCEPT !.cached = ci.status], ShownAs(ci))
         /\ [ci EXCEPT !.cached = ci.status].status # "UNLOADED"
BY DEF SlotShown, ShownAs, CharInfo

LEMMA PlayerSlotsStep ==
  ASSUME NEW slots \in [Slot -> CharInfo], NEW saved \in [Slot -> Data], NEW s \in Slot
  PROVE  /\ SlotStep(slots[s], BusySlots(slots)[s])
         /\ SlotStep(slots[s], FileSlots(slots, saved)[s])
         /\ BusySlots(slots)[s].status # "UNLOADED"
         /\ FileSlots(slots, saved)[s].status # "UNLOADED"
<1>1. slots[s] \in CharInfo /\ saved[s] \in Data
  OBVIOUS
<1>2. BusySlots(slots)[s] = IF SlotFree(slots[s]) THEN Busy(slots[s]) ELSE slots[s]
  BY DEF BusySlots
<1>3. FileSlots(slots, saved)[s] = IF saved[s] # NoFile THEN AssignChar(saved[s])
                                   ELSE [slots[s] EXCEPT !.status = "NOTFOUND"]
  BY DEF FileSlots
<1>4. SlotStep(slots[s], slots[s])
  BY DEF SlotStep
<1>5. SlotStep(slots[s], BusySlots(slots)[s]) /\ BusySlots(slots)[s].status # "UNLOADED"
  <2>1. CASE SlotFree(slots[s])
    BY <1>1, <1>2, <2>1, SlotSteps
  <2>2. CASE ~SlotFree(slots[s])
    BY <1>2, <1>4, <2>2 DEF SlotFree
  <2> QED
    BY <2>1, <2>2
<1>6. SlotStep(slots[s], FileSlots(slots, saved)[s]) /\ FileSlots(slots, saved)[s].status # "UNLOADED"
  BY <1>1, <1>3, SlotSteps
<1> QED
  BY <1>5, <1>6

\* A handler that tells the client nothing and brings no new player.
LEMMA BehindTheClient ==
  ASSUME TypeOK, ViewInv, UNCHANGED view, here' \subseteq here,
         \A p \in Player, s \in Slot : SlotStep(info[p][s], info'[p][s])
  PROVE  ViewInv'
BY SlotStepKeeps, TypeOf DEF ViewInv

LEMMA NoSlotStep ==
  ASSUME TypeOK, ViewInv, UNCHANGED <<view, info>>, here' \subseteq here
  PROVE  ViewInv'
BY BehindTheClient DEF SlotStep

LEMMA SetSlotStep ==
  ASSUME TypeOK, ViewInv, UNCHANGED <<view, here>>,
         NEW p \in Player, NEW s \in Slot, NEW ci \in CharInfo,
         SetSlot(p, s, ci), SlotStep(info[p][s], ci)
  PROVE  ViewInv'
<1>1. ASSUME NEW q \in Player, NEW t \in Slot
      PROVE  info'[q][t] = IF q = p /\ t = s THEN ci ELSE info[q][t]
  BY TypeOf DEF SetSlot, TypeOK
<1> QED
  BY <1>1, BehindTheClient DEF SlotStep

LEMMA RemovePlayersView ==
  ASSUME TypeOK, ViewInv, NEW ps, RemovePlayers(ps)
  PROVE  ViewInv'
<1>1. SlotShown(Destroyed, BlankView)
  BY DEF SlotShown, Destroyed
<1>2. ASSUME NEW p \in Player, NEW s \in Slot
      PROVE  SlotShown(info'[p][s], view'[p][s]) /\ (p \in here' => info'[p][s].status # "UNLOADED")
  <2>1. CASE p \in ps
    <3>1. info'[p][s] = Destroyed /\ view'[p][s] = BlankView /\ p \notin here'
      BY <2>1 DEF RemovePlayers
    <3> QED
      BY <1>1, <3>1
  <2>2. CASE p \notin ps
    <3>1. info'[p][s] = info[p][s] /\ view'[p][s] = view[p][s] /\ (p \in here' => p \in here)
      BY <2>2 DEF RemovePlayers
    <3> QED
      BY <3>1 DEF ViewInv
  <2> QED
    BY <2>1, <2>2
<1> QED
  BY <1>2 DEF ViewInv

LEMMA ViewStep ==
  ASSUME TypeOK, ViewInv, [Next]_vars
  PROVE  ViewInv'
<1>1. CASE MSWorldSpawn \/ MSGameThink \/ SendAndWait
  BY <1>1, NoSlotStep DEF MSWorldSpawn, MSGameThink, SendAndWait, playVars, slotVars
<1>2. CASE MSGameEnd
  BY <1>2, RemovePlayersView DEF MSGameEnd
<1>3. ASSUME NEW p \in Player, ClientPutInServer(p)
      PROVE  ViewInv'
  <2>1. info[p] \in [Slot -> CharInfo] /\ files[p] \in [Slot -> Data]
    BY TypeOf
  <2>2. PICK new : /\ info' = [info EXCEPT ![p] = new]
                   /\ new = BusySlots(info[p]) \/ new = FileSlots(info[p], files[p])
    BY <1>3 DEF ClientPutInServer
  <2>3. ASSUME NEW s \in Slot
        PROVE  SlotStep(info[p][s], new[s]) /\ new[s].status # "UNLOADED"
    BY <2>1, <2>2, PlayerSlotsStep
  <2>4. info'[p] = new /\ \A q \in Player : q # p => info'[q] = info[q]
    BY <2>2 DEF TypeOK
  <2>5. view' = view /\ here' = here \cup {p}
    BY <1>3 DEF ClientPutInServer
  <2>6. ASSUME NEW q \in Player, NEW s \in Slot
        PROVE  /\ SlotShown(info'[q][s], view'[q][s])
               /\ q \in here' => info'[q][s].status # "UNLOADED"
    <3>1. CASE q = p
      BY <2>3, <2>4, <2>5, <3>1, SlotStepKeeps, TypeOf DEF ViewInv
    <3>2. CASE q # p
      BY <2>4, <2>5, <3>2 DEF ViewInv
    <3> QED
      BY <3>1, <3>2
  <2> QED
    BY <2>6 DEF ViewInv
<1>4. ASSUME NEW p \in Player, Think_SendCharData(p)
      PROVE  ViewInv'
  <2> DEFINE due == {s \in SentSlots : info[p][s].cached # info[p][s].status}
  <2>1. ASSUME NEW s \in Slot
        PROVE  /\ info'[p][s] = IF s \in due THEN [info[p][s] EXCEPT !.cached = info[p][s].status]
                                             ELSE info[p][s]
               /\ view'[p][s] = IF s \in due THEN ShownAs(info[p][s]) ELSE view[p][s]
    BY <1>4 DEF Think_SendCharData, TypeOK
  <2>2. \A q \in Player : q # p => info'[q] = info[q] /\ view'[q] = view[q]
    BY <1>4 DEF Think_SendCharData, TypeOK
  <2>3. here' = here /\ p \in here
    BY <1>4 DEF Think_SendCharData, playVars
  <2>4. ASSUME NEW q \in Player, NEW s \in Slot
        PROVE  /\ SlotShown(info'[q][s], view'[q][s])
               /\ q \in here' => info'[q][s].status # "UNLOADED"
    <3>1. CASE q = p /\ s \in due
      <4>1. info[p][s] \in CharInfo /\ info[p][s].status # "UNLOADED"
        BY <2>3, TypeOf DEF ViewInv
      <4> QED
        BY <2>1, <3>1, <4>1, ShownAfterThink
    <3>2. CASE q = p /\ s \notin due
      BY <2>1, <2>3, <3>2 DEF ViewInv
    <3>3. CASE q # p
      BY <2>2, <2>3, <3>3 DEF ViewInv
    <3> QED
      BY <3>1, <3>2, <3>3
  <2> QED
    BY <2>4 DEF ViewInv
<1>5. ASSUME NEW p \in Player, NEW s \in Slot, SelectChar(p, s)
      PROVE  ViewInv'
  BY <1>5, NoSlotStep DEF SelectChar, slotVars
<1>6. ASSUME NEW p \in Player, NEW s \in Slot, CreateChar(p, s)
      PROVE  ViewInv'
  <2>1. view' = view /\ here' = here
    BY <1>6 DEF CreateChar
  <2>2. CASE IsEnabled /\ SlotFree(info[p][s])
    <3>1. SetSlot(p, s, Busy(info[p][s]))
      BY <1>6, <2>2 DEF CreateChar
    <3> QED
      BY <2>1, <3>1, SetSlotStep, SlotSteps, SlotTypes, TypeOf, DataTypes
  <2>3. CASE IsEnabled /\ ~SlotFree(info[p][s])
    BY <1>6, <2>1, <2>3, NoSlotStep DEF CreateChar
  <2>4. CASE ~IsEnabled
    <3>1. info' = [info EXCEPT ![p] = FileSlots(@, files'[p])]
      BY <1>6, <2>4 DEF CreateChar
    <3>2. info[p] \in [Slot -> CharInfo] /\ files'[p] \in [Slot -> Data]
      <4>1. [Next]_vars
        OBVIOUS
      <4> QED
        BY <4>1, TypeStep, TypeOf DEF TypeOK
    <3>3. ASSUME NEW q \in Player, NEW t \in Slot
          PROVE  SlotStep(info[q][t], info'[q][t])
      <4>1. CASE q = p
        BY <3>1, <3>2, <4>1, PlayerSlotsStep DEF TypeOK
      <4>2. CASE q # p
        BY <3>1, <4>2 DEF TypeOK, SlotStep
      <4> QED
        BY <4>1, <4>2
    <3> QED
      BY <2>1, <3>3, BehindTheClient
  <2> QED
    BY <2>2, <2>3, <2>4
<1>7. ASSUME NEW p \in Player, NEW s \in Slot, DeleteChar(p, s)
      PROVE  ViewInv'
  <2>1. view' = view /\ here' = here
    BY <1>7 DEF DeleteChar, playVars
  <2>2. PICK ci : SetSlot(p, s, ci) /\ ci \in {Busy(info[p][s]), [info[p][s] EXCEPT !.status = "NOTFOUND"]}
    BY <1>7 DEF DeleteChar
  <2>3. ci \in CharInfo /\ SlotStep(info[p][s], ci)
    <3>1. info[p][s] \in CharInfo
      BY TypeOf
    <3>2. CASE ci = Busy(info[p][s])
      BY <3>1, <3>2, SlotSteps, SlotTypes, DataTypes
    <3>3. CASE ci = [info[p][s] EXCEPT !.status = "NOTFOUND"]
      BY <3>1, <3>3, SlotSteps, SlotTypes, DataTypes
    <3> QED
      BY <2>2, <3>2, <3>3
  <2> QED
    BY <2>1, <2>2, <2>3, SetSlotStep
<1>8. ASSUME NEW p \in Player, Play(p) \/ AutoSave(p)
      PROVE  ViewInv'
  BY <1>8, NoSlotStep DEF Play, AutoSave, slotVars, playVars
<1>9. ASSUME NEW p \in Player, ClientDisconnect(p)
      PROVE  ViewInv'
  BY <1>9, RemovePlayersView DEF ClientDisconnect
<1>10. ASSUME NEW r \in requests, Deliver(r)
       PROVE  ViewInv'
  <2>1. view' = view /\ here' = here
    BY <1>10 DEF Deliver, playVars
  <2>2. PICK got :
          info' = [p \in Player |->
                    IF r.kind \in SlotKind /\ p \in UTIL_PlayerBySteamID(r.player)
                    THEN [info[p] EXCEPT ![r.slot] = SlotAfter(@, r, got)]
                    ELSE info[p]]
    BY <1>10 DEF Deliver
  <2>3. r.slot \in Slot /\ r.data \in Data
    BY DEF TypeOK, Request, RequestOf
  <2>4. ASSUME NEW p \in Player
        PROVE  SlotStep(info[p][r.slot], SlotAfter(info[p][r.slot], r, got))
    <3>1. info[p][r.slot] \in CharInfo
      BY <2>3, TypeOf
    <3> QED
      BY <2>3, <3>1, SlotSteps DEF SlotAfter, SlotStep
  <2>5. ASSUME NEW p \in Player, NEW s \in Slot
        PROVE  \/ info'[p][s] = info[p][s]
               \/ s = r.slot /\ info'[p][s] = SlotAfter(info[p][s], r, got)
    <3>1. info[p] \in [Slot -> CharInfo]
      BY TypeOf
    <3>2. info'[p] = info[p] \/ info'[p] = [info[p] EXCEPT ![r.slot] = SlotAfter(@, r, got)]
      BY <2>2
    <3>3. CASE info'[p] = [info[p] EXCEPT ![r.slot] = SlotAfter(@, r, got)]
      <4>1. CASE s = r.slot
        BY <2>3, <3>1, <3>3, <4>1
      <4>2. CASE s # r.slot
        BY <2>3, <3>1, <3>3, <4>2
      <4> QED
        BY <4>1, <4>2
    <3> QED
      BY <3>2, <3>3
  <2> QED
    BY <2>1, <2>4, <2>5, BehindTheClient DEF SlotStep
<1>11. ASSUME NEW r \in requests, BackendServes(r)
       PROVE  ViewInv'
  BY <1>11, NoSlotStep DEF BackendServes, playVars, slotVars
<1>12. ASSUME NEW c \in chars, BackendSpoils(c)
       PROVE  ViewInv'
  BY <1>12, NoSlotStep DEF BackendSpoils, playVars, slotVars
<1>13. CASE UNCHANGED vars
  BY <1>13, NoSlotStep DEF vars, playVars, slotVars
<1> QED
  BY <1>1, <1>2, <1>3, <1>4, <1>5, <1>6, <1>7, <1>8, <1>9, <1>10, <1>11, <1>12, <1>13
  DEF Next, PlayerStep

(***************************************************************************)
(* Think_SendCharData never leaves the client with an old picture of a     *)
(* slot: whenever the cached status equals the status, the client has the  *)
(* present content, whatever requests, answers and file reads came between *)
(* two Thinks.                                                             *)
(***************************************************************************)
THEOREM ViewCurrent == Spec => []ClientViewCurrent
<1>1. Init => ViewInv
  BY DEF Init, ViewInv, SlotShown, Destroyed, BlankView
<1>2. TypeOK /\ ViewInv => ClientViewCurrent
  <2> SUFFICES ASSUME TypeOK, ViewInv, NEW p \in here, NEW s \in Slot,
                      info[p][s].cached = info[p][s].status
               PROVE  view[p][s] = ShownAs(info[p][s])
    BY DEF ClientViewCurrent
  <2>1. p \in Player
    BY DEF TypeOK
  <2>2. /\ SlotShown(info[p][s], view[p][s]) /\ info[p][s].status # "UNLOADED"
        /\ info[p][s] \in CharInfo /\ view[p][s] \in View
    BY <2>1, TypeOf DEF ViewInv
  <2> QED
    BY <2>2 DEF SlotShown, ShownAs, View
<1> QED
  BY <1>1, <1>2, TypeInit, TypeStep, ViewStep, PTL DEF Spec
-----------------------------------------------------------------------------
(* No save or delete reaches the character of another player or slot.      *)

\* Somebody takes g for the Guid of a character in slot s: the backend, a
\* request or its answer, a create that will be given it, a player's slot.
Claimed(g, s) ==
  \/ \E c \in chars : c.guid = g /\ c.slot = s
  \/ \E r \in requests : r.guid = g /\ r.slot = s
  \/ \E r \in requests : r.kind = "create" /\ g = <<r.player, r.id>> /\ r.slot = s
  \/ \E p \in Player : info[p][s].guid = g

\* Why: all who know a Guid agree on its slot, and a Guid that a later create
\* will be given is known to nobody yet.
GuidInv ==
  /\ \A g \in Guid, s \in Slot, t \in Slot : Claimed(g, s) /\ Claimed(g, t) => s = t
  /\ \A p \in Player, n \in Nat, s \in Slot : Claimed(<<p, n>>, s) => n < serial[p]
  /\ \A r \in requests : r.guid # NoGuid => r.guid[1] = r.player
  /\ \A p \in Player, s \in Slot : info[p][s].guid # NoGuid => info[p][s].guid[1] = p

\* What a request may know, and what a slot of player p may hold.
Knows(q) ==
  /\ q.guid # NoGuid => Claimed(q.guid, q.slot) /\ q.guid[1] = q.player
  /\ q.kind = "create" => Claimed(<<q.player, q.id>>, q.slot)

Holds(p, s, g) == g # NoGuid => Claimed(g, s) /\ g[1] = p

LEMMA Known ==
  ASSUME TypeOK, GuidInv
  PROVE  /\ \A q \in requests : Knows(q)
         /\ \A p \in Player, s \in Slot : Holds(p, s, info[p][s].guid)
         /\ \A c \in chars : Claimed(c.guid, c.slot)
BY DEF GuidInv, Knows, Holds, Claimed

\* A step that spreads what is known and claims nothing new.
LEMMA NothingNew ==
  ASSUME TypeOK, TypeOK', GuidInv,
         \A q \in requests' : Knows(q),
         \A p \in Player, s \in Slot : Holds(p, s, info'[p][s].guid),
         \A c \in chars' : Claimed(c.guid, c.slot),
         \A p \in Player : serial[p] <= serial'[p]
  PROVE  GuidInv'
<1>1. ASSUME NEW g \in Guid, NEW s \in Slot, Claimed(g, s)'
      PROVE  Claimed(g, s)
  <2>1. g # NoGuid
    BY ConstantsAssumption
  <2>2. CASE \E c \in chars' : c.guid = g /\ c.slot = s
    BY <2>2
  <2>3. CASE \E r \in requests' : r.guid = g /\ r.slot = s
    BY <2>1, <2>3 DEF Knows
  <2>4. CASE \E r \in requests' : r.kind = "create" /\ g = <<r.player, r.id>> /\ r.slot = s
    BY <2>4 DEF Knows
  <2>5. CASE \E p \in Player : info'[p][s].guid = g
    BY <2>1, <2>5 DEF Holds
  <2> QED
    BY <1>1, <2>2, <2>3, <2>4, <2>5 DEF Claimed
<1>2. \A g \in Guid, s \in Slot, t \in Slot : Claimed(g, s)' /\ Claimed(g, t)' => s = t
  BY <1>1 DEF GuidInv
<1>3. ASSUME NEW p \in Player, NEW n \in Nat, NEW s \in Slot, Claimed(<<p, n>>, s)'
      PROVE  n < serial'[p]
  <2>1. Claimed(<<p, n>>, s)
    BY <1>1, <1>3
  <2>2. n < serial[p] /\ serial[p] <= serial'[p] /\ serial[p] \in Nat /\ serial'[p] \in Nat
    BY <2>1 DEF GuidInv, TypeOK
  <2> QED
    BY <2>2
<1>4. /\ \A r \in requests' : r.guid # NoGuid => r.guid[1] = r.player
      /\ \A p \in Player, s \in Slot : info'[p][s].guid # NoGuid => info'[p][s].guid[1] = p
  BY DEF Knows, Holds
<1> QED
  BY <1>2, <1>3, <1>4 DEF GuidInv

\* Knows depends on these fields only.
LEMMA KnowsSame ==
  ASSUME NEW q, NEW r, Knows(r), q.kind = r.kind, q.id = r.id, q.player = r.player,
         q.slot = r.slot, q.guid = r.guid
  PROVE  Knows(q)
BY DEF Knows

LEMMA RequestFields ==
  ASSUME NEW r \in Request
  PROVE  /\ \A st : Knows(r) => Knows([r EXCEPT !.state = st])
         /\ \A o : Knows(r) => Knows([r EXCEPT !.reply = o])
<1>1. ASSUME NEW st, Knows(r)
      PROVE  Knows([r EXCEPT !.state = st])
  <2> DEFINE q == [r EXCEPT !.state = st]
  <2>1. /\ q.kind = r.kind /\ q.id = r.id /\ q.player = r.player
        /\ q.slot = r.slot /\ q.guid = r.guid
    BY DEF Request, RequestOf
  <2> HIDE DEF q
  <2> QED
    BY <1>1, <2>1, KnowsSame DEF q
<1>2. ASSUME NEW o, Knows(r)
      PROVE  Knows([r EXCEPT !.reply = o])
  <2> DEFINE q == [r EXCEPT !.reply = o]
  <2>1. /\ q.kind = r.kind /\ q.id = r.id /\ q.player = r.player
        /\ q.slot = r.slot /\ q.guid = r.guid
    BY DEF Request, RequestOf
  <2> HIDE DEF q
  <2> QED
    BY <1>2, <2>1, KnowsSame DEF q
<1> QED
  BY <1>1, <1>2

LEMMA ThinkKnows ==
  ASSUME TypeOK, GuidInv, NEW unsent, NEW q \in Think(unsent)
  PROVE  Knows(q) /\ q \in Request
<1>1. PICK r \in requests : q \in {[r EXCEPT !.state = FINISHED], [r EXCEPT !.state = EXECUTED]}
  BY DEF Think
<1>2. r \in Request /\ Knows(r)
  BY Known DEF TypeOK
<1>3. Knows(q)
  BY <1>1, <1>2, RequestFields
<1>4. q \in Request
  BY ThinkTypes DEF TypeOK
<1> QED
  BY <1>3, <1>4

LEMMA SaveCharKnows ==
  ASSUME TypeOK, GuidInv, NEW ps \in SUBSET Player, SaveChar(ps)
  PROVE  /\ \A q \in requests' : Knows(q)
         /\ \A p \in Player : serial[p] <= serial'[p]
<1>1. ASSUME NEW p \in Player
      PROVE  Knows(Update(p))
  <2>1. charNum[p] \in Slot
    BY TypeOf
  <2>2. /\ Update(p).guid = info[p][charNum[p]].guid /\ Update(p).slot = charNum[p]
        /\ Update(p).player = p /\ Update(p).kind = "update"
    BY DEF Update, NewRequest
  <2> QED
    BY <2>1, <2>2, Known DEF Knows, Holds
<1>2. \A q \in requests' : Knows(q)
  BY <1>1, Known DEF SaveChar
<1>3. ASSUME NEW p \in Player
      PROVE  serial[p] <= serial'[p]
  BY TypeOf DEF SaveChar
<1> QED
  BY <1>2, <1>3

LEMMA RemovePlayersHold ==
  ASSUME TypeOK, GuidInv, NEW ps, RemovePlayers(ps)
  PROVE  \A p \in Player, s \in Slot : Holds(p, s, info'[p][s].guid)
BY Known DEF RemovePlayers, Destroyed, Holds

\* The guids that Busy, NotFound, AssignChar and AssignFromCentral leave.
LEMMA SlotGuids ==
  ASSUME NEW ci \in CharInfo, NEW d, NEW g
  PROVE  /\ Busy(ci).guid = ci.guid
         /\ NotFound(ci).guid = ci.guid
         /\ [ci EXCEPT !.cached = ci.status].guid = ci.guid
         /\ [ci EXCEPT !.status = "NOTFOUND"].guid = ci.guid
         /\ AssignChar(d).guid = NoGuid
         /\ AssignFromCentral(d, g).guid = g
BY DEF Busy, NotFound, AssignChar, AssignFromCentral, Destroyed, CharInfo

LEMMA PlayerSlotGuids ==
  ASSUME NEW slots \in [Slot -> CharInfo], NEW saved \in [Slot -> Data], NEW s \in Slot
  PROVE  /\ BusySlots(slots)[s].guid = slots[s].guid
         /\ FileSlots(slots, saved)[s].guid \in {slots[s].guid, NoGuid}
<1>1. slots[s] \in CharInfo /\ saved[s] \in Data
  OBVIOUS
<1> QED
  BY <1>1, SlotGuids DEF BusySlots, FileSlots

\* One slot changes, and holds nothing its player may not know.
LEMMA SetSlotHolds ==
  ASSUME TypeOK, GuidInv, NEW p \in Player, NEW s \in Slot, NEW ci,
         SetSlot(p, s, ci), Holds(p, s, ci.guid)
  PROVE  \A q \in Player, t \in Slot : Holds(q, t, info'[q][t].guid)
<1>1. ASSUME NEW q \in Player, NEW t \in Slot
      PROVE  info'[q][t] = IF q = p /\ t = s THEN ci ELSE info[q][t]
  BY TypeOf DEF SetSlot, TypeOK
<1> QED
  BY <1>1, Known

\* All slots of one player change, and keep their guids or lose them.
LEMMA SlotsHold ==
  ASSUME TypeOK, GuidInv, NEW p \in Player, NEW new, info' = [info EXCEPT ![p] = new],
         \A s \in Slot : new[s].guid \in {info[p][s].guid, NoGuid}
  PROVE  \A q \in Player, t \in Slot : Holds(q, t, info'[q][t].guid)
<1>1. info'[p] = new /\ \A q \in Player : q # p => info'[q] = info[q]
  BY DEF TypeOK
<1> QED
  BY <1>1, Known DEF Holds

LEMMA ServeKnows ==
  ASSUME TypeOK, GuidInv, NEW r \in requests
  PROVE  /\ Knows(Serve(r).answer)
         /\ \A c \in Serve(r).chars : Claimed(c.guid, c.slot)
<1>1. r \in Request /\ Knows(r) /\ \A c \in chars : Claimed(c.guid, c.slot)
  BY Known DEF TypeOK
<1>2. \A o : Knows([r EXCEPT !.reply = o])
  BY <1>1, RequestFields
<1>3. CASE r.kind = "load" /\ CharOf(r) # {}
  <2> DEFINE c == CHOOSE c \in CharOf(r) : TRUE
             q == [r EXCEPT !.reply = "ok", !.guid = c.guid, !.data = c.data]
  <2>1. c \in chars /\ c.guid[1] = r.player /\ c.slot = r.slot
    BY <1>3 DEF CharOf
  <2>2. Serve(r).answer = q /\ Serve(r).chars = chars
    BY <1>3 DEF Serve
  <2>3. q.guid = c.guid /\ q.slot = r.slot /\ q.player = r.player /\ q.kind = "load"
    BY <1>1, <1>3 DEF Request, RequestOf
  <2>4. Claimed(c.guid, c.slot)
    BY <1>1, <2>1
  <2> HIDE DEF c, q
  <2>5. Knows(q)
    BY <2>1, <2>3, <2>4 DEF Knows
  <2> QED
    BY <1>1, <2>2, <2>5
<1>4. CASE r.kind = "create" /\ CharOf(r) = {}
  <2> DEFINE g == <<r.player, r.id>>
             q == [r EXCEPT !.reply = "ok", !.guid = g]
             c == [guid |-> g, slot |-> r.slot, data |-> r.data]
  <2>1. Serve(r).answer = q /\ Serve(r).chars = chars \cup {c}
    BY <1>4 DEF Serve
  <2>2. /\ q.guid = g /\ q.slot = r.slot /\ q.player = r.player /\ q.kind = "create"
        /\ q.id = r.id
    BY <1>1, <1>4 DEF Request, RequestOf
  <2>3. Claimed(g, r.slot) /\ g[1] = r.player
    BY <1>1, <1>4 DEF Knows
  <2>4. c.guid = g /\ c.slot = r.slot
    OBVIOUS
  <2> HIDE DEF q, c
  <2>5. Knows(q)
    BY <2>2, <2>3 DEF Knows
  <2>6. Claimed(c.guid, c.slot)
    BY <2>3, <2>4
  <2> QED
    BY <1>1, <2>1, <2>5, <2>6
<1>5. CASE r.kind = "update"
  <2>1. Knows(Serve(r).answer)
    BY <1>2, <1>5 DEF Serve
  <2>2. ASSUME NEW c \in chars
        PROVE  [c EXCEPT !.data = r.data].guid = c.guid /\ [c EXCEPT !.data = r.data].slot = c.slot
    BY DEF TypeOK, StoredChar
  <2>3. \A c \in Serve(r).chars : Claimed(c.guid, c.slot)
    BY <1>1, <1>5, <2>2 DEF Serve
  <2> QED
    BY <2>1, <2>3
<1>6. CASE ~(r.kind = "load" /\ CharOf(r) # {}) /\ ~(r.kind = "create" /\ CharOf(r) = {})
           /\ r.kind # "update"
  <2>1. Knows(Serve(r).answer)
    BY <1>2, <1>6 DEF Serve
  <2>2. Serve(r).chars \subseteq chars
    BY <1>6 DEF Serve
  <2> QED
    BY <1>1, <2>1, <2>2
<1> QED
  BY <1>3, <1>4, <1>5, <1>6

\* The one action that claims a Guid nobody knew: a create is queued.
LEMMA CreateClaims ==
  ASSUME TypeOK, TypeOK', GuidInv, NEW p \in Player, NEW s \in Slot, NEW d,
         LET q == NewRequest("create", p, serial[p], s, NoGuid, d)
         IN requests' = requests \cup {q},
         serial' = [serial EXCEPT ![p] = @ + 1],
         SetSlot(p, s, Busy(info[p][s])), chars' = chars
  PROVE  GuidInv'
<1> DEFINE q == NewRequest("create", p, serial[p], s, NoGuid, d)
<1>1. /\ q.guid = NoGuid /\ q.kind = "create" /\ q.player = p /\ q.id = serial[p] /\ q.slot = s
      /\ requests' = requests \cup {q}
  BY DEF NewRequest
<1> HIDE DEF q
<1>2. \A x \in Player, t \in Slot : Holds(x, t, info'[x][t].guid)
  <2>1. Busy(info[p][s]).guid = info[p][s].guid
    BY SlotGuids, TypeOf
  <2>2. Holds(p, s, Busy(info[p][s]).guid)
    BY <2>1, Known
  <2> QED
    BY <2>2, SetSlotHolds
<1>3. ASSUME NEW g \in Guid, NEW t \in Slot, Claimed(g, t)'
      PROVE  Claimed(g, t) \/ (g = <<p, serial[p]>> /\ t = s)
  <2>1. g # NoGuid
    BY ConstantsAssumption
  <2>2. CASE \E c \in chars' : c.guid = g /\ c.slot = t
    BY <2>2, Known
  <2>3. CASE \E r \in requests' : r.guid = g /\ r.slot = t
    BY <1>1, <2>1, <2>3, Known DEF Knows
  <2>4. CASE \E r \in requests' : r.kind = "create" /\ g = <<r.player, r.id>> /\ r.slot = t
    BY <1>1, <2>4, Known DEF Knows
  <2>5. CASE \E x \in Player : info'[x][t].guid = g
    BY <1>2, <2>1, <2>5 DEF Holds
  <2> QED
    BY <1>3, <2>2, <2>3, <2>4, <2>5 DEF Claimed
<1>4. serial[p] \in Nat /\ serial'[p] = serial[p] + 1
      /\ \A x \in Player : x # p => serial'[x] = serial[x]
  BY TypeOf DEF TypeOK
<1>5. \A t \in Slot : ~Claimed(<<p, serial[p]>>, t)
  BY <1>4 DEF GuidInv
<1>6. \A g \in Guid, t \in Slot, u \in Slot : Claimed(g, t)' /\ Claimed(g, u)' => t = u
  BY <1>3, <1>5 DEF GuidInv
<1>7. ASSUME NEW x \in Player, NEW n \in Nat, NEW t \in Slot, Claimed(<<x, n>>, t)'
      PROVE  n < serial'[x]
  <2>1. Claimed(<<x, n>>, t) \/ (x = p /\ n = serial[p])
    BY <1>3, <1>7
  <2>2. CASE Claimed(<<x, n>>, t)
    <3>1. n < serial[x] /\ serial[x] \in Nat
      BY <2>2, TypeOf DEF GuidInv
    <3> QED
      BY <1>4, <3>1
  <2> QED
    BY <1>4, <2>1, <2>2
<1>8. /\ \A r \in requests' : r.guid # NoGuid => r.guid[1] = r.player
      /\ \A x \in Player, t \in Slot : info'[x][t].guid # NoGuid => info'[x][t].guid[1] = x
  BY <1>1, <1>2 DEF Holds, GuidInv
<1> QED
  BY <1>6, <1>7, <1>8 DEF GuidInv

\* Nothing that claims is touched.
LEMMA GuidStutter ==
  ASSUME GuidInv, UNCHANGED <<chars, requests, info, serial>>
  PROVE  GuidInv'
BY DEF GuidInv, Claimed

LEMMA GuidStep ==
  ASSUME TypeOK, TypeOK', GuidInv, [Next]_vars
  PROVE  GuidInv'
<1>0. /\ \A q \in requests : Knows(q)
      /\ \A p \in Player, s \in Slot : Holds(p, s, info[p][s].guid)
      /\ \A c \in chars : Claimed(c.guid, c.slot)
      /\ \A p \in Player : serial[p] <= serial[p]
  BY Known, TypeOf
<1>1. CASE MSWorldSpawn
  BY <1>1, GuidStutter DEF MSWorldSpawn, slotVars, storeVars, queueVars
<1>2. CASE MSGameThink
  <2>1. \A k \in Validations : Knows(NewRequest(k, NoPlayer, 0, 0, NoGuid, NoData))
    BY ConstantsAssumption DEF Knows, NewRequest
  <2>2. \A q \in requests' : Knows(q)
    BY <1>0, <1>2, <2>1, ThinkKnows DEF MSGameThink
  <2>3. UNCHANGED <<info, chars, serial>>
    BY <1>2 DEF MSGameThink, slotVars, storeVars
  <2> QED
    BY <1>0, <2>2, <2>3, NothingNew
<1>3. CASE MSGameEnd
  <2>1. SaveChar(here) /\ RemovePlayers(here) /\ here \in SUBSET Player /\ chars' = chars
    BY <1>3 DEF MSGameEnd, TypeOK
  <2> QED
    BY <1>0, <2>1, SaveCharKnows, RemovePlayersHold, NothingNew
<1>4. CASE SendAndWait
  <2>1. PICK unsent \in Unsent :
          requests' = {IF r.reply = "none" THEN r ELSE [r EXCEPT !.state = FINISHED] :
                         r \in Think(unsent)}
    BY <1>4 DEF SendAndWait
  <2>2. ASSUME NEW r \in Think(unsent)
        PROVE  Knows(r) /\ Knows([r EXCEPT !.state = FINISHED])
    BY ThinkKnows, RequestFields
  <2>3. \A q \in requests' : Knows(q)
    BY <2>1, <2>2
  <2>4. UNCHANGED <<info, chars, serial>>
    BY <1>4 DEF SendAndWait, slotVars, storeVars
  <2> QED
    BY <1>0, <2>3, <2>4, NothingNew
<1>5. ASSUME NEW p \in Player, ClientPutInServer(p)
      PROVE  GuidInv'
  <2>1. info[p] \in [Slot -> CharInfo] /\ files[p] \in [Slot -> Data]
    BY TypeOf
  <2>2. PICK new : /\ info' = [info EXCEPT ![p] = new]
                   /\ new = BusySlots(info[p]) \/ new = FileSlots(info[p], files[p])
    BY <1>5 DEF ClientPutInServer
  <2>3. \A s \in Slot : new[s].guid \in {info[p][s].guid, NoGuid}
    BY <2>1, <2>2, PlayerSlotGuids
  <2>4. \A q \in LoadRequests(p, info[p]) : Knows(q)
    BY DEF LoadRequests, NewRequest, Knows
  <2>5. \A q \in requests' : Knows(q)
    BY <1>0, <1>5, <2>4 DEF ClientPutInServer
  <2>6. ASSUME NEW x \in Player
        PROVE  serial[x] <= serial'[x]
    <3>1. serial' = serial \/ serial' = [serial EXCEPT ![p] = @ + NumSlots]
      BY <1>5 DEF ClientPutInServer
    <3>2. serial \in [Player -> Nat] /\ NumSlots \in Nat
      BY ConstantsAssumption DEF TypeOK
    <3> QED
      BY <3>1, <3>2
  <2>7. chars' = chars
    BY <1>5 DEF ClientPutInServer, storeVars
  <2> QED
    BY <1>0, <2>2, <2>3, <2>5, <2>6, <2>7, SlotsHold, NothingNew
<1>6. ASSUME NEW p \in Player, Think_SendCharData(p)
      PROVE  GuidInv'
  <2> DEFINE new == [s \in Slot |->
                       IF s \in {t \in SentSlots : info[p][t].cached # info[p][t].status}
                       THEN [info[p][s] EXCEPT !.cached = info[p][s].status] ELSE info[p][s]]
  <2>1. info' = [info EXCEPT ![p] = new]
    BY <1>6 DEF Think_SendCharData
  <2>2. \A s \in Slot : new[s].guid \in {info[p][s].guid, NoGuid}
    BY SlotGuids, TypeOf
  <2>3. UNCHANGED <<requests, chars, serial>>
    BY <1>6 DEF Think_SendCharData, storeVars, queueVars
  <2> HIDE DEF new
  <2> QED
    BY <1>0, <2>1, <2>2, <2>3, SlotsHold, NothingNew
<1>7. ASSUME NEW p \in Player, NEW s \in Slot, SelectChar(p, s)
      PROVE  GuidInv'
  BY <1>7, GuidStutter DEF SelectChar, slotVars, storeVars, queueVars
<1>8. ASSUME NEW p \in Player, NEW s \in Slot, CreateChar(p, s)
      PROVE  GuidInv'
  <2>1. chars' = chars
    BY <1>8 DEF CreateChar
  <2>2. CASE IsEnabled /\ SlotFree(info[p][s])
    <3> DEFINE d == [of |-> <<p, serial[p]>>, ver |-> 0]
               q == NewRequest("create", p, serial[p], s, NoGuid, d)
    <3>1. QueueOne(q) /\ SetSlot(p, s, Busy(info[p][s])) /\ q.player = p
      BY <1>8, <2>2 DEF CreateChar, NewRequest
    <3>2. requests' = requests \cup {q} /\ serial' = [serial EXCEPT ![p] = @ + 1]
      BY <3>1 DEF QueueOne
    <3> HIDE DEF d
    <3> QED
      BY <2>1, <3>1, <3>2, CreateClaims
  <2>3. CASE IsEnabled /\ ~SlotFree(info[p][s])
    BY <1>8, <2>1, <2>3, GuidStutter DEF CreateChar
  <2>4. CASE ~IsEnabled
    <3>1. info' = [info EXCEPT ![p] = FileSlots(@, files'[p])]
      BY <1>8, <2>4 DEF CreateChar
    <3>2. info[p] \in [Slot -> CharInfo] /\ files'[p] \in [Slot -> Data]
      BY TypeOf DEF TypeOK
    <3>3. \A t \in Slot : FileSlots(info[p], files'[p])[t].guid \in {info[p][t].guid, NoGuid}
      BY <3>2, PlayerSlotGuids
    <3>4. requests' = requests /\ serial' = [serial EXCEPT ![p] = @ + 1]
      BY <1>8, <2>4 DEF CreateChar
    <3>5. \A x \in Player : serial[x] <= serial'[x]
      BY <3>4, TypeOf DEF TypeOK
    <3> QED
      BY <1>0, <2>1, <3>1, <3>3, <3>4, <3>5, SlotsHold, NothingNew
  <2> QED
    BY <2>2, <2>3, <2>4
<1>9. ASSUME NEW p \in Player, NEW s \in Slot, DeleteChar(p, s)
      PROVE  GuidInv'
  <2> DEFINE q == NewRequest("delete", p, serial[p], s, info[p][s].guid, NoData)
  <2>1. chars' = chars
    BY <1>9 DEF DeleteChar
  <2>2. Knows(q)
    BY <1>0 DEF NewRequest, Knows, Holds
  <2>3. q.player = p
    BY DEF NewRequest
  <2>4. PICK ci : SetSlot(p, s, ci) /\ ci \in {Busy(info[p][s]), [info[p][s] EXCEPT !.status = "NOTFOUND"]}
    BY <1>9 DEF DeleteChar
  <2>5. ci.guid = info[p][s].guid
    BY <2>4, SlotGuids, TypeOf
  <2>6. /\ requests' \subseteq requests \cup {q}
        /\ serial' = serial \/ serial' = [serial EXCEPT ![p] = @ + 1]
    BY <1>9, <2>3 DEF DeleteChar, QueueOne
  <2> HIDE DEF q
  <2>7. \A x \in Player : serial[x] <= serial'[x]
    <3>1. serial \in [Player -> Nat]
      BY DEF TypeOK
    <3> QED
      BY <2>6, <3>1
  <2>8. Holds(p, s, ci.guid)
    BY <1>0, <2>5
  <2>9. \A x \in Player, t \in Slot : Holds(x, t, info'[x][t].guid)
    BY <2>4, <2>8, SetSlotHolds
  <2> QED
    BY <1>0, <2>1, <2>2, <2>6, <2>7, <2>9, NothingNew
<1>10. ASSUME NEW p \in Player, Play(p)
       PROVE  GuidInv'
  BY <1>10, GuidStutter DEF Play, slotVars, storeVars, queueVars
<1>11. ASSUME NEW p \in Player, AutoSave(p)
       PROVE  GuidInv'
  <2>1. SaveChar({p}) /\ UNCHANGED <<info, chars>>
    BY <1>11 DEF AutoSave, slotVars
  <2> QED
    BY <1>0, <2>1, SaveCharKnows, NothingNew
<1>12. ASSUME NEW p \in Player, ClientDisconnect(p)
       PROVE  GuidInv'
  <2>1. SaveChar({p}) /\ RemovePlayers({p}) /\ chars' = chars
    BY <1>12 DEF ClientDisconnect
  <2> QED
    BY <1>0, <2>1, SaveCharKnows, RemovePlayersHold, NothingNew
<1>13. ASSUME NEW r \in requests, BackendServes(r)
       PROVE  GuidInv'
  <2>1. r \in Request /\ Knows(r)
    BY <1>0 DEF TypeOK
  <2>2. PICK q : Replace(r, q) /\ (q = Serve(r).answer \/ \E o : q = [r EXCEPT !.reply = o])
    BY <1>13 DEF BackendServes
  <2>3. Knows(q)
    BY <2>1, <2>2, ServeKnows, RequestFields
  <2>4. \A c \in chars' : Claimed(c.guid, c.slot)
    BY <1>0, <1>13, ServeKnows DEF BackendServes
  <2>5. UNCHANGED <<info, serial>>
    BY <1>13 DEF BackendServes, slotVars
  <2> QED
    BY <1>0, <2>2, <2>3, <2>4, <2>5, NothingNew DEF Replace
<1>14. ASSUME NEW r \in requests, Deliver(r)
       PROVE  GuidInv'
  <2>1. r \in Request /\ Knows(r) /\ r.slot \in Slot
    BY <1>0 DEF TypeOK, Request, RequestOf
  <2>2. \A q \in requests' : Knows(q)
    BY <1>0, <1>14, <2>1, RequestFields DEF Deliver, Replace
  <2>3. UNCHANGED <<chars, serial>>
    BY <1>14 DEF Deliver, storeVars
  <2>4. PICK got :
          info' = [p \in Player |->
                    IF r.kind \in SlotKind /\ p \in UTIL_PlayerBySteamID(r.player)
                    THEN [info[p] EXCEPT ![r.slot] = SlotAfter(@, r, got)]
                    ELSE info[p]]
    BY <1>14 DEF Deliver
  <2>5. ASSUME NEW p \in Player, NEW s \in Slot
        PROVE  Holds(p, s, info'[p][s].guid)
    <3>1. info[p] \in [Slot -> CharInfo] /\ info[p][s] \in CharInfo
      BY TypeOf
    <3>2. CASE info'[p] = info[p]
      BY <1>0, <3>2
    <3>3. CASE p = r.player /\ info'[p] = [info[p] EXCEPT ![r.slot] = SlotAfter(@, r, got)]
      <4>1. CASE s = r.slot
        <5>1. info'[p][s] = SlotAfter(info[p][s], r, got)
          BY <2>1, <3>1, <3>3, <4>1
        <5>2. SlotAfter(info[p][s], r, got).guid \in {info[p][s].guid, r.guid}
          BY <3>1, SlotGuids DEF SlotAfter
        <5>3. Holds(p, s, r.guid)
          BY <2>1, <3>3, <4>1 DEF Knows, Holds
        <5> QED
          BY <1>0, <5>1, <5>2, <5>3
      <4>2. CASE s # r.slot
        BY <1>0, <2>1, <3>1, <3>3, <4>2
      <4> QED
        BY <4>1, <4>2
    <3> QED
      BY <2>4, <3>2, <3>3 DEF UTIL_PlayerBySteamID
  <2> QED
    BY <1>0, <2>2, <2>3, <2>5, NothingNew
<1>15. ASSUME NEW c \in chars, BackendSpoils(c)
       PROVE  GuidInv'
  <2>1. /\ [c EXCEPT !.data.ver = Unreadable].guid = c.guid
        /\ [c EXCEPT !.data.ver = Unreadable].slot = c.slot
    BY DEF TypeOK, StoredChar
  <2>2. \A d \in chars' : Claimed(d.guid, d.slot)
    BY <1>0, <1>15, <2>1 DEF BackendSpoils
  <2>3. UNCHANGED <<info, requests, serial>>
    BY <1>15 DEF BackendSpoils, slotVars, queueVars
  <2> QED
    BY <1>0, <2>2, <2>3, NothingNew
<1>16. CASE UNCHANGED vars
  BY <1>16, GuidStutter DEF vars, slotVars, storeVars, queueVars
<1> QED
  BY <1>1, <1>2, <1>3, <1>4, <1>5, <1>6, <1>7, <1>8, <1>9, <1>10, <1>11, <1>12,
     <1>13, <1>14, <1>15, <1>16 DEF Next, PlayerStep

\* Why: see GuidInv.
LEMMA GuidAlways == Spec => []GuidInv
<1>1. Init => GuidInv
  <2> SUFFICES ASSUME Init PROVE GuidInv
    OBVIOUS
  <2>1. chars = {} /\ requests = {} /\ \A p \in Player, s \in Slot : info[p][s].guid = NoGuid
    BY DEF Init, Destroyed
  <2>2. \A g \in Guid, s \in Slot : ~Claimed(g, s)
    BY <2>1, ConstantsAssumption DEF Claimed
  <2> QED
    BY <2>1, <2>2 DEF GuidInv
<1>2. TypeOK /\ TypeOK' /\ GuidInv /\ [Next]_vars => GuidInv'
  BY GuidStep
<1>3. TypeOK /\ [Next]_vars => TypeOK'
  BY TypeStep
<1> QED
  BY <1>1, <1>2, <1>3, TypeInit, PTL DEF Spec

(***************************************************************************)
(* A save or a delete only ever reaches the character of its own player    *)
(* and slot: also when an answer to an earlier connection of the player    *)
(* wrote the Guid into the slot, and whatever is lost, late or spoilt.     *)
(***************************************************************************)
THEOREM OwnCharactersOnly == Spec => []OnlyOwnCharacters
<1>1. TypeOK /\ GuidInv => OnlyOwnCharacters
  <2> SUFFICES ASSUME TypeOK, GuidInv, NEW r \in requests, NEW c \in Named(r.guid)
               PROVE  c.guid[1] = r.player /\ c.slot = r.slot
    BY DEF OnlyOwnCharacters
  <2>1. c \in chars /\ c.guid = r.guid /\ c.guid \in Guid /\ c.slot \in Slot
    BY DEF Named, TypeOK, StoredChar
  <2>2. r.guid # NoGuid /\ r.slot \in Slot
    BY <2>1, ConstantsAssumption DEF TypeOK, Request, RequestOf
  <2>3. Claimed(c.guid, c.slot) /\ Claimed(c.guid, r.slot) /\ c.guid[1] = r.player
    BY <2>1, <2>2, Known DEF Knows
  <2> QED
    BY <2>1, <2>2, <2>3 DEF GuidInv
<1> QED
  BY <1>1, GuidAlways, TypeCorrect, PTL
-----------------------------------------------------------------------------
(* What a round of Think, an answer, a save does to the requests.          *)

\* A request that a round of Think leaves behind is one that was outstanding,
\* with another state; it is still outstanding only if it is EXECUTED now.
Pumped(q, r) ==
  /\ Outstanding(r)
  /\ q.kind = r.kind /\ q.id = r.id /\ q.player = r.player /\ q.slot = r.slot
  /\ q.guid = r.guid /\ q.data = r.data /\ q.reply = r.reply
  /\ Outstanding(q) => q = [r EXCEPT !.state = EXECUTED]

LEMMA ThinkPumps ==
  ASSUME TypeOK, NEW unsent, NEW q \in Think(unsent)
  PROVE  \E r \in requests : Pumped(q, r)
<1>1. PICK r \in requests :
        /\ Outstanding(r)
        /\ q \in {[r EXCEPT !.state = FINISHED], [r EXCEPT !.state = EXECUTED]}
  BY DEF Think
<1>2. r \in Request
  BY DEF TypeOK
<1>3. CASE q = [r EXCEPT !.state = FINISHED]
  <2>1. q.state = FINISHED
    BY <1>2, <1>3 DEF Request, RequestOf
  <2> QED
    BY <1>1, <1>2, <1>3, <2>1 DEF Pumped, Outstanding, Request, RequestOf
<1>4. CASE q = [r EXCEPT !.state = EXECUTED]
  BY <1>1, <1>2, <1>4 DEF Pumped, Request, RequestOf
<1> QED
  BY <1>1, <1>3, <1>4

LEMMA FrameRequests ==
  ASSUME TypeOK, LoadedInv, MSGameThink, NEW q \in requests'
  PROVE  q.kind \in {"scripts", "map"} \/ \E r \in requests : Pumped(q, r)
<1>1. PICK unsent \in Unsent :
        q \in (IF loaded THEN Think(unsent) ELSE requests)
                \cup {NewRequest(k, NoPlayer, 0, 0, NoGuid, NoData) : k \in Validations}
  BY DEF MSGameThink
<1>2. CASE q \in (IF loaded THEN Think(unsent) ELSE requests)
  BY <1>2, ThinkPumps DEF LoadedInv
<1>3. CASE q \in {NewRequest(k, NoPlayer, 0, 0, NoGuid, NoData) : k \in Validations}
  BY <1>3, ConstantsAssumption DEF NewRequest
<1> QED
  BY <1>1, <1>2, <1>3

LEMMA DrainRequests ==
  ASSUME TypeOK, SendAndWait, NEW q \in requests'
  PROVE  \E r \in requests : Pumped(q, r)
<1>1. PICK unsent \in Unsent :
        requests' = {IF t.reply = "none" THEN t ELSE [t EXCEPT !.state = FINISHED] :
                       t \in Think(unsent)}
  BY DEF SendAndWait
<1>2. PICK t \in Think(unsent) : q = IF t.reply = "none" THEN t ELSE [t EXCEPT !.state = FINISHED]
  BY <1>1
<1>3. PICK r \in requests : Pumped(t, r)
  BY ThinkPumps
<1>4. t \in Request
  BY ThinkTypes DEF TypeOK
<1>5. CASE q = t
  BY <1>3, <1>5
<1>6. CASE q = [t EXCEPT !.state = FINISHED]
  <2>1. /\ q.kind = t.kind /\ q.id = t.id /\ q.player = t.player /\ q.slot = t.slot
        /\ q.guid = t.guid /\ q.data = t.data /\ q.reply = t.reply /\ q.state = FINISHED
    BY <1>4, <1>6 DEF Request, RequestOf
  <2> QED
    BY <1>3, <2>1 DEF Pumped, Outstanding
<1> QED
  BY <1>2, <1>5, <1>6
\* What a served request becomes.
Answers(q, r) ==
  /\ q.kind = r.kind /\ q.id = r.id /\ q.player = r.player /\ q.slot = r.slot
  /\ q.state = r.state /\ q.reply # "none"

LEMMA ServeAnswers ==
  ASSUME TypeOK, NEW r \in requests
  PROVE  Answers(Serve(r).answer, r)
<1>0. r \in Request
  BY DEF TypeOK
<1>1. /\ \A o : o # "none" => Answers([r EXCEPT !.reply = o], r)
      /\ \A g : Answers([r EXCEPT !.reply = "ok", !.guid = g], r)
      /\ \A g, d : Answers([r EXCEPT !.reply = "ok", !.guid = g, !.data = d], r)
  BY <1>0 DEF Answers, Request, RequestOf
<1>2. CASE r.kind = "load"
  BY <1>1, <1>2 DEF Serve
<1>3. CASE r.kind = "create"
  BY <1>1, <1>3 DEF Serve
<1>4. CASE r.kind = "update"
  BY <1>1, <1>4 DEF Serve
<1>5. CASE r.kind = "delete"
  BY <1>1, <1>5 DEF Serve
<1>6. CASE r.kind \in {"scripts", "map"}
  BY <1>1, <1>6 DEF Serve
<1> QED
  BY <1>0, <1>2, <1>3, <1>4, <1>5, <1>6 DEF Request, RequestOf

\* The backend serves r or not, and the answer arrives or not.
LEMMA BackendServesCases ==
  ASSUME TypeOK, NEW r, BackendServes(r)
  PROVE  /\ r \in requests /\ r.state = EXECUTED /\ r.reply = "none"
         /\ \E q : /\ requests' = (requests \ {r}) \cup {q}
                   /\ Answers(q, r)
                   /\ \/ q = Serve(r).answer /\ chars' = Serve(r).chars
                      \/ /\ q.reply # "ok" /\ q.guid = r.guid /\ q.data = r.data
                         /\ chars' \in {chars, Serve(r).chars}
<1>1. /\ r \in requests /\ r.state = EXECUTED /\ r.reply = "none" /\ r \in Request
  BY DEF BackendServes, TypeOK
<1>2. ASSUME NEW o, o \notin {"none", "ok"}
      PROVE  LET q == [r EXCEPT !.reply = o]
             IN Answers(q, r) /\ q.reply # "ok" /\ q.guid = r.guid /\ q.data = r.data
  BY <1>1, <1>2 DEF Answers, Request, RequestOf
<1>3. CASE chars' = Serve(r).chars /\ Replace(r, Serve(r).answer)
  BY <1>1, <1>3, ServeAnswers DEF Replace
<1>4. ASSUME NEW o \in {"noresponse", "empty", "badjson", "unauthorized", "servererror", "banned"},
             Replace(r, [r EXCEPT !.reply = o]), chars' \in {chars, Serve(r).chars}
      PROVE  \E q : /\ requests' = (requests \ {r}) \cup {q}
                    /\ Answers(q, r)
                    /\ q.reply # "ok" /\ q.guid = r.guid /\ q.data = r.data
                    /\ chars' \in {chars, Serve(r).chars}
  <2>1. o \notin {"none", "ok"}
    OBVIOUS
  <2> QED
    BY <1>2, <1>4, <2>1 DEF Replace
<1>5. \/ chars' = Serve(r).chars /\ Replace(r, Serve(r).answer)
      \/ \E o \in {"noresponse", "empty", "badjson", "unauthorized", "servererror", "banned"} :
            Replace(r, [r EXCEPT !.reply = o]) /\ chars' \in {chars, Serve(r).chars}
  BY DEF BackendServes
<1> QED
  BY <1>1, <1>3, <1>4, <1>5

\* OnHTTPRequestCompleted has run for a request.
LEMMA DeliverFinishes ==
  ASSUME TypeOK, NEW r, Deliver(r)
  PROVE  /\ r \in requests /\ r.state = EXECUTED /\ r.reply # "none"
         /\ \A q \in requests' : Outstanding(q) => q \in requests /\ q # r
<1>1. /\ r \in requests /\ r.state = EXECUTED /\ r.reply # "none" /\ r \in Request
      /\ requests' = (requests \ {r}) \cup {[r EXCEPT !.state = FINISHED]}
  BY DEF Deliver, Replace, TypeOK
<1>2. ~Outstanding([r EXCEPT !.state = FINISHED])
  BY <1>1 DEF Outstanding, Request, RequestOf
<1> QED
  BY <1>1, <1>2

LEMMA SaveCharSaves ==
  ASSUME NEW ps, SaveChar(ps), NEW q \in requests'
  PROVE  q \in requests \/ \E p \in ps : CanSave(p) /\ q = Update(p)
BY DEF SaveChar

-----------------------------------------------------------------------------
(* The slots of a connection that no earlier one has left requests about.  *)

Own(p, s) == central /\ p \in here /\ <<p, s>> \notin overtaken

\* Only ClientPutInServer and a new map give a player slots of his own.
LEMMA OwnKept ==
  ASSUME central' => central, here' \subseteq here,
         \A o \in overtaken : o[1] \in here' => o \in overtaken'
  PROVE  \A p, s : Own(p, s)' => Own(p, s)
BY DEF Own

LEMMA OwnSame ==
  ASSUME UNCHANGED <<central, here, overtaken>>
  PROVE  \A p, s : Own(p, s)' => Own(p, s)
BY OwnKept

LEMMA OwnRemoved ==
  ASSUME UNCHANGED central, NEW ps, RemovePlayers(ps)
  PROVE  \A p, s : Own(p, s)' => Own(p, s) /\ p \notin ps
<1>1. /\ here' = here \ ps
      /\ \A o \in overtaken : o[1] \in here' => o \in overtaken'
  BY DEF RemovePlayers
<1> QED
  BY <1>1, OwnKept DEF Own

LEMMA OwnPutIn ==
  ASSUME NEW p, ClientPutInServer(p)
  PROVE  \A x, s : Own(x, s)' =>
           \/ x # p /\ Own(x, s)
           \/ x = p /\ \A r \in requests : r.player = p /\ r.slot = s => ~Outstanding(r)
BY DEF ClientPutInServer, Own, Unanswered, serverVars
-----------------------------------------------------------------------------
(* The lock of a slot.                                                     *)

LEMMA LockKept ==
  ASSUME SlotLocked, \A p, s : Own(p, s)' => Own(p, s),
         \A p : \A s \in Slot : Own(p, s)' =>
           (info[p][s].status = "LOADING" => info'[p][s].status = "LOADING"),
         \A p : \A s \in Slot : Own(p, s)' => \A q1, q2 \in Transactions(p, s)' :
           \E r1, r2 \in Transactions(p, s) : r1 = r2 => q1 = q2
  PROVE  SlotLocked'
<1>1. ASSUME NEW p, NEW s \in Slot, Own(p, s)'
      PROVE  /\ Transactions(p, s)' # {} => info'[p][s].status = "LOADING"
             /\ \A q1, q2 \in Transactions(p, s)' : q1 = q2
  <2>1. /\ Transactions(p, s) # {} => info[p][s].status = "LOADING"
        /\ \A r1, r2 \in Transactions(p, s) : r1 = r2
    BY <1>1 DEF SlotLocked, Own
  <2>2. \A q1, q2 \in Transactions(p, s)' :
          \E r1, r2 \in Transactions(p, s) : r1 = r2 => q1 = q2
    BY <1>1
  <2> QED
    BY <1>1, <2>1, <2>2
<1> QED
  BY <1>1 DEF SlotLocked, Own

\* The same, where every transaction was one before the step.
LEMMA LockKeptSame ==
  ASSUME SlotLocked, \A p, s : Own(p, s)' => Own(p, s),
         \A p : \A s \in Slot : Own(p, s)' =>
           (info[p][s].status = "LOADING" => info'[p][s].status = "LOADING"),
         \A q \in requests' : q.kind \in SlotKind /\ Outstanding(q) => q \in requests
  PROVE  SlotLocked'
<1>1. \A p, s : Transactions(p, s)' \subseteq Transactions(p, s)
  BY DEF Transactions, Outstanding
<1> QED
  BY <1>1, LockKept

\* The same, where a round of Think went over the requests.
LEMMA LockKeptPumped ==
  ASSUME SlotLocked, \A p, s : Own(p, s)' => Own(p, s), UNCHANGED info,
         \A q \in requests' : q.kind \in {"scripts", "map"} \/ \E r \in requests : Pumped(q, r)
  PROVE  SlotLocked'
<1>1. ASSUME NEW p, NEW s \in Slot,
             NEW q1 \in Transactions(p, s)', NEW q2 \in Transactions(p, s)'
      PROVE  \E r1, r2 \in Transactions(p, s) : r1 = r2 => q1 = q2
  <2>1. PICK r1 \in requests : Pumped(q1, r1)
    BY DEF Transactions, SlotKind
  <2>2. PICK r2 \in requests : Pumped(q2, r2)
    BY DEF Transactions, SlotKind
  <2>3. r1 \in Transactions(p, s) /\ r2 \in Transactions(p, s)
    BY <2>1, <2>2 DEF Pumped, Transactions
  <2>4. q1 = [r1 EXCEPT !.state = EXECUTED] /\ q2 = [r2 EXCEPT !.state = EXECUTED]
    BY <2>1, <2>2 DEF Pumped, Transactions, Outstanding
  <2> QED
    BY <2>3, <2>4
<1> QED
  BY <1>1, LockKept

\* A request is served, or its call fails: it stays the request it was.
LEMMA LockKeptReplaced ==
  ASSUME SlotLocked, UNCHANGED <<central, here, overtaken, info>>, NEW r \in requests, NEW q,
         requests' = (requests \ {r}) \cup {q},
         q.kind = r.kind, q.player = r.player, q.slot = r.slot, q.state = r.state
  PROVE  SlotLocked'
<1>1. ASSUME NEW p, NEW s \in Slot,
             NEW q1 \in Transactions(p, s)', NEW q2 \in Transactions(p, s)'
      PROVE  \E r1, r2 \in Transactions(p, s) : r1 = r2 => q1 = q2
  <2> DEFINE old(t) == IF t = q THEN r ELSE t
  <2>1. old(q1) \in Transactions(p, s) /\ old(q2) \in Transactions(p, s)
    BY DEF Transactions, Outstanding
  <2>2. CASE q1 = q2
    BY <2>1, <2>2
  <2>3. CASE q1 # q2
    <3>1. old(q1) # old(q2)
      BY <2>3 DEF Transactions
    <3> QED
      BY <2>1, <3>1
  <2> QED
    BY <2>2, <2>3
<1> QED
  BY <1>1, OwnSame, LockKept

\* Player p asks for some slots to be changed; of his own none is busy.
LEMMA LockTaken ==
  ASSUME SlotLocked, TypeOK, NEW p \in Player,
         \A x, s : Own(x, s)' => Own(x, s) \/ (x = p /\ Transactions(p, s) = {}),
         \A q \in requests' \ requests :
           /\ q.player = p /\ q.slot \in Slot
           /\ Own(p, q.slot)' =>
                Transactions(p, q.slot) = {} /\ info'[p][q.slot].status = "LOADING",
         \A q1, q2 \in requests' \ requests : q1.slot = q2.slot => q1 = q2,
         \A s \in Slot : Own(p, s)' /\ Transactions(p, s) # {} => info'[p][s] = info[p][s],
         \A q \in Player \ {p} : info'[q] = info[q]
  PROVE  SlotLocked'
<1>1. ASSUME NEW x, NEW s \in Slot, Own(x, s)'
      PROVE  /\ Transactions(x, s)' # {} => info'[x][s].status = "LOADING"
             /\ \A q, r \in Transactions(x, s)' : q = r
  <2>1. CASE x # p
    <3>1. Transactions(x, s)' \subseteq Transactions(x, s)
      BY <2>1 DEF Transactions, Outstanding
    <3>2. Own(x, s) /\ info'[x] = info[x]
      BY <1>1, <2>1 DEF TypeOK, Own
    <3> QED
      BY <3>1, <3>2 DEF SlotLocked, Own
  <2>2. CASE x = p /\ Transactions(p, s) # {}
    <3>1. Transactions(p, s)' \subseteq Transactions(p, s)
      BY <1>1, <2>2 DEF Transactions, Outstanding
    <3>2. Own(p, s) /\ info'[p][s] = info[p][s]
      BY <1>1, <2>2
    <3> QED
      BY <2>2, <3>1, <3>2 DEF SlotLocked, Own
  <2>3. CASE x = p /\ Transactions(p, s) = {}
    <3>1. \A q \in Transactions(p, s)' : q \in requests' \ requests /\ q.slot = s
      BY <2>3 DEF Transactions, Outstanding
    <3> QED
      BY <1>1, <2>3, <3>1
  <2> QED
    BY <2>1, <2>2, <2>3
<1> QED
  BY <1>1 DEF SlotLocked, Own

LEMMA LockSaveChar ==
  ASSUME SlotLocked, \A p, s : Own(p, s)' => Own(p, s), NEW ps, SaveChar(ps),
         \A p \in here' : info'[p] = info[p]
  PROVE  SlotLocked'
<1>1. ASSUME NEW q \in requests', q.kind \in SlotKind
      PROVE  q \in requests
  <2>1. \A p : Update(p).kind = "update"
    BY DEF Update, NewRequest
  <2> QED
    BY <1>1, <2>1, SaveCharSaves DEF SlotKind
<1>2. \A p : \A s \in Slot : Own(p, s)' => info'[p] = info[p]
  BY DEF Own
<1> QED
  BY <1>1, <1>2, LockKeptSame

LEMMA PutInServerLock ==
  ASSUME TypeOK, SlotLocked, IsEnabled, NEW p \in Player, ClientPutInServer(p)
  PROVE  SlotLocked'
<1>1. /\ requests' = requests \cup LoadRequests(p, info[p])
      /\ info' = [info EXCEPT ![p] = BusySlots(@)]
  BY DEF ClientPutInServer
<1>2. \A x, s : Own(x, s)' => Own(x, s) \/ (x = p /\ Transactions(p, s) = {})
  BY OwnPutIn DEF Transactions
<1>3. ASSUME NEW s \in Slot, SlotFree(info[p][s])
      PROVE  info'[p][s].status = "LOADING"
  <2>1. info'[p][s] = Busy(info[p][s]) /\ info[p][s] \in CharInfo
    BY <1>1, <1>3, TypeOf DEF BusySlots, TypeOK
  <2> QED
    BY <2>1 DEF Busy, CharInfo
<1>4. ASSUME NEW q \in requests' \ requests
      PROVE  \E s \in Slot : /\ SlotFree(info[p][s]) /\ q.player = p /\ q.slot = s
                             /\ q = NewRequest("load", p, serial[p] + s, s, NoGuid, NoData)
  BY <1>1 DEF LoadRequests, NewRequest
<1>5. \A q \in Player \ {p} : info'[q] = info[q]
  BY <1>1 DEF TypeOK
<1>6. \A s : Own(p, s)' => Transactions(p, s) = {}
  BY OwnPutIn DEF Transactions
<1> QED
  BY <1>2, <1>3, <1>4, <1>5, <1>6, LockTaken

\* A create or a delete of a slot that is not busy.
LEMMA TakeSlotLock ==
  ASSUME TypeOK, SlotLocked, NEW p \in here, NEW s \in Slot,
         UNCHANGED <<central, here, overtaken>>,
         SlotFree(info[p][s]), NEW req, req.player = p, req.slot = s,
         QueueOne(req), SetSlot(p, s, Busy(info[p][s]))
  PROVE  SlotLocked'
<1>1. p \in Player
  BY DEF TypeOK
<1>2. Own(p, s)' => Transactions(p, s) = {}
  BY OwnSame DEF SlotLocked, SlotFree, Own
<1>3. info'[p][s].status = "LOADING"
  <2>1. info'[p][s] = Busy(info[p][s]) /\ info[p][s] \in CharInfo
    BY <1>1, TypeOf DEF SetSlot, TypeOK
  <2> QED
    BY <2>1 DEF Busy, CharInfo
<1>4. /\ \A t \in Slot \ {s} : info'[p][t] = info[p][t]
      /\ \A q \in Player \ {p} : info'[q] = info[q]
  BY <1>1, TypeOf DEF SetSlot, TypeOK
<1>5. \A q \in requests' \ requests : q = req
  BY DEF QueueOne
<1> QED
  BY <1>1, <1>2, <1>3, <1>4, <1>5, OwnSame, LockTaken

LEMMA LockStep ==
  ASSUME TypeOK, LoadedInv, SlotLocked, [Next]_vars
  PROVE  SlotLocked'
<1>1. CASE here' = {} \/ ~central'
  BY <1>1 DEF SlotLocked
<1>2. CASE MSWorldSpawn \/ MSGameEnd \/ SendAndWait
  BY <1>1, <1>2 DEF MSWorldSpawn, MSGameEnd, SendAndWait, RemovePlayers, LoadedInv, playVars
<1>3. CASE MSGameThink
  BY <1>3, FrameRequests, LockKeptPumped, OwnSame DEF MSGameThink, playVars, slotVars
<1>4. ASSUME NEW p \in Player, ClientPutInServer(p)
      PROVE  SlotLocked'
  BY <1>1, <1>4, PutInServerLock DEF ClientPutInServer, IsEnabled, serverVars
<1>5. ASSUME NEW p \in Player, Think_SendCharData(p)
      PROVE  SlotLocked'
  <2>1. UNCHANGED <<central, here, overtaken, requests>>
    BY <1>5 DEF Think_SendCharData, serverVars, playVars, queueVars
  <2>2. ASSUME NEW q \in here, NEW s \in Slot
        PROVE  info'[q][s].status = info[q][s].status
    <3>1. q \in Player /\ info[q][s] \in CharInfo
      BY TypeOf DEF TypeOK
    <3>2. info'[q][s] \in {info[q][s], [info[q][s] EXCEPT !.cached = info[q][s].status]}
      BY <1>5, <3>1 DEF Think_SendCharData, TypeOK
    <3> QED
      BY <3>1, <3>2 DEF CharInfo
  <2>3. \A q : \A s \in Slot : Own(q, s)' => info'[q][s].status = info[q][s].status
    BY <2>1, <2>2 DEF Own
  <2> QED
    BY <2>1, <2>3, OwnSame, LockKeptSame
<1>6. ASSUME NEW p \in Player, Play(p)
      PROVE  SlotLocked'
  BY <1>6, OwnSame, LockKeptSame DEF Play, serverVars, slotVars, queueVars
<1>7. ASSUME NEW p \in Player, AutoSave(p)
      PROVE  SlotLocked'
  BY <1>7, OwnSame, LockSaveChar DEF AutoSave, serverVars, playVars, slotVars
<1>8. ASSUME NEW p \in Player, ClientDisconnect(p)
      PROVE  SlotLocked'
  <2>1. SaveChar({p}) /\ \A q \in here' : info'[q] = info[q]
    BY <1>8 DEF ClientDisconnect, RemovePlayers, TypeOK
  <2>2. \A q, s : Own(q, s)' => Own(q, s)
    BY <1>8, OwnRemoved DEF ClientDisconnect, serverVars
  <2> QED
    BY <2>1, <2>2, LockSaveChar
<1>9. ASSUME NEW p \in Player, NEW s \in Slot, SelectChar(p, s)
      PROVE  SlotLocked'
  BY <1>9, OwnSame, LockKeptSame DEF SelectChar, serverVars, slotVars, queueVars
<1>10. ASSUME NEW p \in Player, NEW s \in Slot, CreateChar(p, s)
       PROVE  SlotLocked'
  <2>1. p \in here /\ UNCHANGED <<central, here, overtaken>>
    BY <1>10 DEF CreateChar, serverVars
  <2>2. CASE IsEnabled /\ SlotFree(info[p][s])
    <3> DEFINE req == NewRequest("create", p, serial[p], s, NoGuid,
                                 [of |-> <<p, serial[p]>>, ver |-> 0])
    <3>1. QueueOne(req) /\ SetSlot(p, s, Busy(info[p][s]))
      BY <1>10, <2>2 DEF CreateChar
    <3>2. req.player = p /\ req.slot = s
      BY DEF NewRequest
    <3> HIDE DEF req
    <3> QED
      BY <2>1, <2>2, <3>1, <3>2, TakeSlotLock
  <2>3. CASE IsEnabled /\ ~SlotFree(info[p][s])
    BY <1>10, <2>1, <2>3, OwnSame, LockKeptSame DEF CreateChar
  <2> QED
    BY <1>1, <2>1, <2>2, <2>3 DEF IsEnabled
<1>11. ASSUME NEW p \in Player, NEW s \in Slot, DeleteChar(p, s)
       PROVE  SlotLocked'
  <2> DEFINE req == NewRequest("delete", p, serial[p], s, info[p][s].guid, NoData)
  <2>1. p \in here /\ UNCHANGED <<central, here, overtaken>>
    BY <1>11 DEF DeleteChar, serverVars, playVars
  <2>2. IsEnabled => SlotFree(info[p][s]) /\ QueueOne(req) /\ SetSlot(p, s, Busy(info[p][s]))
    BY <1>11 DEF DeleteChar
  <2>3. req.player = p /\ req.slot = s
    BY DEF NewRequest
  <2> HIDE DEF req
  <2> QED
    BY <1>1, <2>1, <2>2, <2>3, TakeSlotLock DEF IsEnabled
<1>12. ASSUME NEW r \in requests, BackendServes(r)
       PROVE  SlotLocked'
  <2>1. PICK q : requests' = (requests \ {r}) \cup {q} /\ Answers(q, r)
    BY <1>12, BackendServesCases
  <2> QED
    BY <1>12, <2>1, LockKeptReplaced DEF BackendServes, serverVars, playVars, slotVars, Answers
<1>13. ASSUME NEW r \in requests, Deliver(r)
       PROVE  SlotLocked'
  <2>1. /\ r.state = EXECUTED /\ r \in Request /\ UNCHANGED <<here, overtaken>>
        /\ \A q \in requests' : Outstanding(q) => q \in requests /\ q # r
    BY <1>13, DeliverFinishes DEF Deliver, playVars, TypeOK
  <2>2. central' => central
    <3>1. central' = central \/ central' = FALSE
      BY <1>13 DEF Deliver
    <3> QED
      BY <3>1, Zenon
  <2>3. ASSUME NEW p \in here, NEW s \in Slot, Own(p, s)
        PROVE  /\ Transactions(p, s)' # {} => info'[p][s].status = "LOADING"
               /\ \A q1, q2 \in Transactions(p, s)' : q1 = q2
    <3>1. Transactions(p, s)' \subseteq Transactions(p, s) \ {r}
      BY <2>1 DEF Transactions, Outstanding
    <3>2. CASE r \in Transactions(p, s)
      <4>1. Transactions(p, s)' = {}
        BY <2>3, <3>1, <3>2 DEF SlotLocked, Own
      <4> QED
        BY <4>1
    <3>3. CASE r \notin Transactions(p, s)
      <4>1. r.kind \notin SlotKind \/ r.player # p \/ r.slot # s
        BY <2>1, <3>3 DEF Transactions, Outstanding, EXECUTED, FINISHED
      <4>2. info'[p][s] = info[p][s]
        <5>1. p \in Player /\ r.slot \in Slot /\ info[p] \in [Slot -> CharInfo]
          BY <2>1, TypeOf DEF TypeOK, Request, RequestOf
        <5> QED
          BY <1>13, <4>1, <5>1 DEF Deliver, UTIL_PlayerBySteamID
      <4> QED
        BY <2>3, <3>1, <4>2 DEF SlotLocked, Own
    <3> QED
      BY <3>2, <3>3
  <2>4. \A p, s : Own(p, s)' => Own(p, s)
    BY <2>1, <2>2, OwnKept
  <2> QED
    BY <2>1, <2>3, <2>4 DEF SlotLocked, Own
<1>14. ASSUME NEW c \in chars, BackendSpoils(c)
       PROVE  SlotLocked'
  BY <1>14, OwnSame, LockKeptSame DEF BackendSpoils, serverVars, playVars, slotVars, queueVars
<1>15. CASE UNCHANGED vars
  BY <1>15, OwnSame, LockKeptSame DEF vars, serverVars, playVars, slotVars, queueVars
<1> QED
  BY <1>2, <1>3, <1>4, <1>5, <1>6, <1>7, <1>8, <1>9, <1>10, <1>11, <1>12, <1>13, <1>14, <1>15
  DEF Next, PlayerStep

(***************************************************************************)
(* SlotLocked, whatever is lost, comes late or fails: a slot whose load,   *)
(* create or delete is under way shows LOADING, so that SlotFree refuses   *)
(* the next one and a single answer is to come, through map changes,       *)
(* losses, reconnects and FN going off and on.  The exception is a slot    *)
(* about which an earlier connection of the player is still owed an        *)
(* answer, until he leaves.                                                *)
(***************************************************************************)
THEOREM OneTransactionPerSlot == Spec => []SlotLocked
<1>1. Init => SlotLocked
  BY DEF Init, SlotLocked
<1>2. Init => LoadedInv
  BY DEF Init, LoadedInv
<1>3. TypeOK /\ LoadedInv /\ SlotLocked /\ [Next]_vars => SlotLocked'
  BY LockStep
<1> QED
  BY <1>1, <1>2, <1>3, LoadedStep, TypeCorrect, PTL DEF Spec
-----------------------------------------------------------------------------
(* What is stored, held and under way.                                     *)

\* d is data of the stored character g, or g is not to be relied upon.
OwnData(g, d) == g \in tainted \/ d.of = g

GoodCopy(g, d) == Named(g) # {} /\ OwnData(g, d)

\* The backend has nothing of g that is further than d.
Newest(g, d) == g \in tainted \/ \A c \in Named(g) : c.data.ver <= d.ver

\* What player p may be given to play: before he plays nothing of his is
\* being saved, so that it is still what is stored.
Playable(p, g, d) == GoodCopy(g, d) /\ (charState[p] = "UNLOADED" => Newest(g, d))

\* Player p plays in a slot of his own.
Playing(p) == charState[p] = "LOADED" /\ Own(p, charNum[p])

PlayedGuid(p) == info[p][charNum[p]].guid

StoreInv ==
  /\ \A c \in chars : OwnData(c.guid, c.data)
  /\ \A c, d \in chars : c.guid = d.guid => c = d

PlayInv ==
  \A p \in Player :
    /\ p \notin here => charState[p] = "UNLOADED"
    /\ Playing(p) => /\ info[p][charNum[p]].status = "LOADED"
                     /\ GoodCopy(PlayedGuid(p), live[p])
                     /\ Newest(PlayedGuid(p), live[p])
                     /\ Readable(live[p])

SlotInv ==
  \A p \in Player, s \in Slot :
    Own(p, s) /\ info[p][s].status = "LOADED"
      => Playable(p, info[p][s].guid, info[p][s].data)

\* The answers on their way to a slot.
Answering(r) == r.kind \in {"load", "create"} /\ r.reply = "ok" /\ Outstanding(r)

AnswerInv ==
  \A r \in requests :
    Answering(r) /\ Own(r.player, r.slot) => Playable(r.player, r.guid, r.data)

\* A create that is not served yet: nothing has its name, and it is the only
\* one that will give it.
Creating(r) == r.kind = "create" /\ Outstanding(r)

CreateInv ==
  \A r \in requests : Creating(r) =>
    /\ r.data.of = <<r.player, r.id>> /\ r.data.ver = 0
    /\ r.reply = "none" => Named(<<r.player, r.id>>) = {}

CreatesDiffer ==
  \A q, r \in requests :
    Creating(q) /\ Creating(r) /\ q.player = r.player /\ q.id = r.id => q = r

Saving(r) == r.kind = "update" /\ Outstanding(r)

\* An update carries data of its character.
UpdateData(r) ==
  /\ r.guid \in tainted \/ (r.data.of = r.guid /\ Readable(r.data))
  /\ r.reply = "none" /\ r.guid \notin crossed => Newest(r.guid, r.data)

\* The updates of a slot of p's own are those of his play, and it went on.
UpdatePlay(p, s, d) ==
  Own(p, s) =>
    /\ charState[p] # "UNLOADED"
    /\ Playing(p) /\ charNum[p] = s => d.ver <= live[p].ver

UpdateInv ==
  \A r \in requests : Saving(r) => UpdateData(r) /\ UpdatePlay(r.player, r.slot, r.data)

UpdatesDiffer ==
  \A q, r \in requests :
    Saving(q) /\ Saving(r) /\ q.guid = r.guid /\ r.guid \notin crossed \cup {NoGuid} => q = r

CharsInv == /\ StoreInv /\ PlayInv /\ SlotInv /\ AnswerInv
            /\ CreateInv /\ CreatesDiffer
            /\ UpdateInv /\ UpdatesDiffer

LEMMA CharsTypes ==
  ASSUME TypeOK
  PROVE  /\ \A c \in chars : c.guid \in Guid /\ c.guid # NoGuid /\ c.data \in Data
         /\ \A r \in requests : r \in Request /\ r.data \in Data /\ r.slot \in Slot
         /\ \A p \in Player : /\ charNum[p] \in Slot /\ live[p] \in Data
                              /\ \A s \in Slot : info[p][s] \in CharInfo /\ info[p][s].data \in Data
         /\ \A d \in Data : d.ver \in Int /\ Unreadable <= d.ver
<1>1. \A d \in Data : d.ver \in Int /\ Unreadable <= d.ver
  BY DEF Data, Unreadable
<1>2. \A c \in chars : c.guid \in Guid /\ c.data \in Data
  BY DEF TypeOK, StoredChar
<1>3. \A r \in requests : r \in Request /\ r.data \in Data /\ r.slot \in Slot
  BY DEF TypeOK, Request, RequestOf
<1>4. \A p \in Player, s \in Slot : info[p][s].data \in Data
  BY TypeOf, SlotTypes
<1> QED
  BY <1>1, <1>2, <1>3, <1>4, TypeOf, ConstantsAssumption

LEMMA CharsStutter ==
  ASSUME CharsInv, UNCHANGED <<requests, central, here, overtaken, charState, charNum, live,
                               info, chars, crossed, tainted>>
  PROVE  CharsInv'
BY DEF CharsInv, StoreInv, PlayInv, SlotInv, AnswerInv, CreateInv, CreatesDiffer, UpdateInv,
       UpdatesDiffer, UpdateData, UpdatePlay, Playing, PlayedGuid, Playable, GoodCopy, OwnData,
       Newest, Named, Answering, Creating, Saving, Outstanding, Own

(* Steps that leave what is stored alone, and spoil no guid's good name    *)
(* that had none.                                                          *)

LEMMA CopiesKept ==
  ASSUME UNCHANGED chars, tainted \subseteq tainted'
  PROVE  /\ \A g, d : GoodCopy(g, d) => GoodCopy(g, d)'
         /\ \A g, d : Newest(g, d) => Newest(g, d)'
BY DEF GoodCopy, OwnData, Newest, Named

LEMMA StoreKept ==
  ASSUME StoreInv, UNCHANGED chars, tainted \subseteq tainted'
  PROVE  StoreInv'
BY DEF StoreInv, OwnData

LEMMA PlaysKept ==
  ASSUME PlayInv, UNCHANGED chars, tainted \subseteq tainted',
         \A p, s : Own(p, s)' => Own(p, s),
         \A p \in Player :
           \/ charState'[p] = "UNLOADED"
           \/ /\ charState'[p] = charState[p] /\ charNum'[p] = charNum[p] /\ live'[p] = live[p]
              /\ p \in here => p \in here'
              /\ Playing(p) => /\ info'[p][charNum[p]].status = info[p][charNum[p]].status
                               /\ info'[p][charNum[p]].guid = info[p][charNum[p]].guid
  PROVE  PlayInv'
<1>1. ASSUME NEW p \in Player, p \notin here'
      PROVE  charState'[p] = "UNLOADED"
  BY <1>1 DEF PlayInv
<1>2. ASSUME NEW p \in Player, Playing(p)'
      PROVE  /\ info'[p][charNum'[p]].status = "LOADED"
             /\ GoodCopy(PlayedGuid(p), live[p])'
             /\ Newest(PlayedGuid(p), live[p])'
             /\ Readable(live'[p])
  <2>1. charState'[p] = charState[p] /\ charNum'[p] = charNum[p] /\ live'[p] = live[p]
    BY <1>2 DEF Playing
  <2>2. Playing(p)
    BY <1>2, <2>1 DEF Playing, Own
  <2>3. /\ info[p][charNum[p]].status = "LOADED"
        /\ GoodCopy(PlayedGuid(p), live[p]) /\ Newest(PlayedGuid(p), live[p]) /\ Readable(live[p])
    BY <2>2 DEF PlayInv
  <2>4. /\ info'[p][charNum[p]].status = "LOADED"
        /\ info'[p][charNum[p]].guid = info[p][charNum[p]].guid
    BY <1>2, <2>2, <2>3 DEF Playing
  <2> QED
    BY <2>1, <2>3, <2>4 DEF PlayedGuid, GoodCopy, OwnData, Newest, Named
<1> QED
  BY <1>1, <1>2 DEF PlayInv, Readable

LEMMA SlotsKept ==
  ASSUME SlotInv, UNCHANGED chars, tainted \subseteq tainted',
         \A p, s : Own(p, s)' => Own(p, s),
         \A p \in here' : charState'[p] = "UNLOADED" => charState[p] = "UNLOADED",
         \A p \in Player : \A s \in Slot : Own(p, s)' /\ info'[p][s].status = "LOADED" =>
           /\ info[p][s].status = "LOADED" /\ info'[p][s].guid = info[p][s].guid
           /\ info'[p][s].data = info[p][s].data
  PROVE  SlotInv'
<1>1. ASSUME NEW p \in Player, NEW s \in Slot, Own(p, s)', info'[p][s].status = "LOADED"
      PROVE  Playable(p, info[p][s].guid, info[p][s].data)'
  <2>1. Playable(p, info[p][s].guid, info[p][s].data)
    BY <1>1 DEF SlotInv
  <2>2. charState'[p] = "UNLOADED" => charState[p] = "UNLOADED"
    BY <1>1 DEF Own
  <2> QED
    BY <1>1, <2>1, <2>2 DEF Playable, GoodCopy, OwnData, Newest, Named
<1> QED
  BY <1>1 DEF SlotInv

LEMMA AnswersKept ==
  ASSUME AnswerInv, UNCHANGED chars, tainted \subseteq tainted',
         \A p, s : Own(p, s)' => Own(p, s),
         \A p \in here' : charState'[p] = "UNLOADED" => charState[p] = "UNLOADED",
         \A q \in requests' : Answering(q) =>
           \E r \in requests : /\ Answering(r) /\ q.player = r.player /\ q.slot = r.slot
                               /\ q.guid = r.guid /\ q.data = r.data
  PROVE  AnswerInv'
<1>1. ASSUME NEW q \in requests', Answering(q), Own(q.player, q.slot)'
      PROVE  Playable(q.player, q.guid, q.data)'
  <2>1. PICK r \in requests : /\ Answering(r) /\ q.player = r.player /\ q.slot = r.slot
                              /\ q.guid = r.guid /\ q.data = r.data
    BY <1>1
  <2>2. Playable(q.player, q.guid, q.data)
    BY <1>1, <2>1 DEF AnswerInv
  <2>3. charState'[q.player] = "UNLOADED" => charState[q.player] = "UNLOADED"
    BY <1>1 DEF Own
  <2> QED
    BY <2>2, <2>3 DEF Playable, GoodCopy, OwnData, Newest, Named
<1> QED
  BY <1>1 DEF AnswerInv, Answering, Outstanding

\* Creates that are only sent, answered or finished in a step.
LEMMA CreatesKept ==
  ASSUME CreateInv, UNCHANGED chars,
         \A q \in requests' : Creating(q) =>
           \E r \in requests : /\ Creating(r) /\ q.player = r.player /\ q.id = r.id
                               /\ q.data = r.data /\ (q.reply = "none" => r.reply = "none")
  PROVE  CreateInv'
<1>1. ASSUME NEW q \in requests', Creating(q)
      PROVE  /\ q.data.of = <<q.player, q.id>> /\ q.data.ver = 0
             /\ q.reply = "none" => Named(<<q.player, q.id>>) = {}
  <2>1. PICK r \in requests : /\ Creating(r) /\ q.player = r.player /\ q.id = r.id
                              /\ q.data = r.data /\ (q.reply = "none" => r.reply = "none")
    BY <1>1
  <2> QED
    BY <2>1 DEF CreateInv
<1> QED
  BY <1>1 DEF CreateInv, Creating, Outstanding, Named

LEMMA DataKept ==
  ASSUME UNCHANGED chars, crossed \subseteq crossed', tainted \subseteq tainted',
         NEW r, UpdateData(r)
  PROVE  UpdateData(r)'
BY DEF UpdateData, Newest, Named

LEMMA PlayKept ==
  ASSUME \A p, s : Own(p, s)' => Own(p, s), NEW p, NEW s, NEW d, UpdatePlay(p, s, d),
         charState'[p] = charState[p], charNum'[p] = charNum[p], live'[p] = live[p]
  PROVE  UpdatePlay(p, s, d)'
BY DEF UpdatePlay, Playing, Own

\* Updates that are only sent, answered or finished in a step.
LEMMA UpdatesKept ==
  ASSUME UpdateInv, UNCHANGED <<chars, live, charState, charNum, crossed, tainted>>,
         \A p, s : Own(p, s)' => Own(p, s),
         \A q \in requests' : Saving(q) =>
           \E r \in requests : /\ Saving(r) /\ q.player = r.player /\ q.slot = r.slot
                               /\ q.guid = r.guid /\ q.data = r.data
                               /\ (q.reply = "none" => r.reply = "none")
  PROVE  UpdateInv'
<1>1. ASSUME NEW q \in requests', Saving(q)
      PROVE  UpdateData(q)' /\ UpdatePlay(q.player, q.slot, q.data)'
  <2>1. PICK r \in requests : /\ Saving(r) /\ q.player = r.player /\ q.slot = r.slot
                              /\ q.guid = r.guid /\ q.data = r.data
                              /\ (q.reply = "none" => r.reply = "none")
    BY <1>1
  <2>2. UpdateData(r) /\ UpdatePlay(q.player, q.slot, q.data)
    BY <2>1 DEF UpdateInv
  <2>3. UpdateData(q)'
    BY <2>1, <2>2 DEF UpdateData, Newest, Named
  <2>4. UpdatePlay(q.player, q.slot, q.data)'
    BY <2>2, PlayKept
  <2> QED
    BY <2>3, <2>4
<1> QED
  BY <1>1 DEF UpdateInv, Saving, Outstanding

LEMMA CharsPumped ==
  ASSUME CharsInv, UNCHANGED <<central, here, overtaken, charState, charNum, live, info, chars,
                               crossed, tainted>>,
         \A q \in requests' : q.kind \in {"scripts", "map"} \/ \E r \in requests : Pumped(q, r)
  PROVE  CharsInv'
<1>0. \A p, s : Own(p, s)' => Own(p, s)
  BY OwnSame
<1>1. StoreInv' /\ PlayInv' /\ SlotInv'
  BY <1>0, StoreKept, PlaysKept, SlotsKept DEF CharsInv
<1>2. AnswerInv'
  BY <1>0, AnswersKept DEF CharsInv, Answering, Pumped
<1>3. CreateInv'
  BY CreatesKept DEF CharsInv, Creating, Pumped
<1>4. UpdateInv'
  BY <1>0, UpdatesKept DEF CharsInv, Saving, Pumped
<1>5. CreatesDiffer' /\ UpdatesDiffer'
  BY DEF CharsInv, CreatesDiffer, UpdatesDiffer, Creating, Saving, Pumped, Outstanding
<1> QED
  BY <1>1, <1>2, <1>3, <1>4, <1>5 DEF CharsInv

\* Nobody has a slot of his own: FN is off, or nobody is in the server.
LEMMA CharsApart ==
  ASSUME CharsInv, UNCHANGED <<requests, chars, crossed, tainted>>, \A p, s : ~Own(p, s)',
         \A p \in Player : p \notin here' => charState'[p] = "UNLOADED"
  PROVE  CharsInv'
<1>1. StoreInv'
  BY StoreKept DEF CharsInv
<1>2. PlayInv'
  BY DEF PlayInv, Playing, Own
<1>3. SlotInv' /\ AnswerInv'
  BY DEF SlotInv, AnswerInv
<1>4. CreateInv'
  BY CreatesKept DEF CharsInv
<1>5. UpdateInv'
  <2>1. \A r \in requests : Saving(r) => UpdateData(r)'
    BY DataKept DEF CharsInv, UpdateInv
  <2> QED
    BY <2>1 DEF UpdateInv, UpdatePlay, Saving, Outstanding
<1>6. CreatesDiffer' /\ UpdatesDiffer'
  BY DEF CharsInv, CreatesDiffer, UpdatesDiffer, Creating, Saving, Outstanding
<1> QED
  BY <1>1, <1>2, <1>3, <1>4, <1>5, <1>6 DEF CharsInv

\* Players are saved with FN on; some of them may leave.
LEMMA CharsSave ==
  ASSUME TypeOK, GuidInv, CharsInv, IsEnabled, NEW ps \in SUBSET Player, SaveChar(ps),
         UNCHANGED chars, here' \subseteq here, \A p, s : Own(p, s)' => Own(p, s),
         \A p \in Player :
           \/ /\ p \in here' <=> p \in here
              /\ charState'[p] = charState[p] /\ charNum'[p] = charNum[p]
              /\ live'[p] = live[p] /\ info'[p] = info[p]
           \/ p \notin here' /\ charState'[p] = "UNLOADED"
  PROVE  CharsInv'
<1>1. /\ crossed \subseteq crossed' /\ tainted \subseteq tainted'
      /\ \A p \in here' : p \in Player /\ charState'[p] = charState[p] /\ info'[p] = info[p]
      /\ \A p, s : Own(p, s)' => p \in Player /\ p \in here'
  <2>1. crossed \subseteq crossed' /\ tainted \subseteq tainted'
    BY DEF SaveChar
  <2>2. \A p \in here' : p \in Player
    BY DEF TypeOK
  <2>3. \A p, s : Own(p, s)' => p \in here'
    BY DEF Own
  <2> QED
    BY <2>1, <2>2, <2>3
<1>2. StoreInv'
  BY <1>1, StoreKept DEF CharsInv
<1>3. PlayInv'
  BY <1>1, PlaysKept DEF CharsInv
<1>4. SlotInv'
  <2>1. \A p \in Player : \A s \in Slot : Own(p, s)' => info'[p][s] = info[p][s]
    BY <1>1
  <2> QED
    BY <1>1, <2>1, SlotsKept DEF CharsInv
<1>5. \A q \in requests' : q \in requests \/ \E p \in ps : CanSave(p) /\ q = Update(p)
  BY SaveCharSaves
<1>6. ASSUME NEW p \in ps
      PROVE  /\ Update(p).kind = "update" /\ Update(p).player = p /\ Update(p).data = live[p]
             /\ Update(p).slot = charNum[p] /\ Update(p).guid = PlayedGuid(p)
  BY DEF Update, NewRequest, PlayedGuid
<1>7. \A q \in requests' : q.kind # "update" => q \in requests
  BY <1>5, <1>6
<1>8. AnswerInv' /\ CreateInv' /\ CreatesDiffer'
  <2>1. AnswerInv'
    BY <1>1, <1>7, AnswersKept DEF CharsInv, Answering
  <2>2. CreateInv'
    BY <1>7, CreatesKept DEF CharsInv, Creating
  <2>3. CreatesDiffer'
    BY <1>7 DEF CharsInv, CreatesDiffer, Creating, Outstanding
  <2> QED
    BY <2>1, <2>2, <2>3
<1>9. ASSUME NEW p \in ps, CanSave(p)
      PROVE  /\ Update(p).guid \in Updating => Update(p).guid \in crossed' \cup {NoGuid}
             /\ Astray(p) => Update(p).guid \in tainted'
  BY <1>6, <1>9 DEF SaveChar
\* A new update: of a character that is played, or recorded in tainted.
<1>10. ASSUME NEW p \in ps, CanSave(p), NEW q, q = Update(p)
       PROVE  UpdateData(q)' /\ UpdatePlay(q.player, q.slot, q.data)'
  <2>1. /\ p \in Player /\ live[p].ver \in Int /\ live[p].ver <= live[p].ver
        /\ q.player = p /\ q.slot = charNum[p] /\ q.data = live[p] /\ q.guid = PlayedGuid(p)
    BY <1>6, <1>10, CharsTypes
  <2>2. UpdateData(q)'
    <3>1. CASE Astray(p)
      <4>1. q.guid \in tainted'
        BY <1>9, <1>10, <3>1
      <4> QED
        BY <4>1 DEF UpdateData, Newest
    <3>2. CASE ~Astray(p)
      <4>1. Playing(p)
        BY <1>10, <2>1, <3>2
        DEF CanSave, Astray, Playing, Own, IsEnabled, CharsInv, PlayInv, TypeOK, CharState
      <4>2. /\ GoodCopy(PlayedGuid(p), live[p]) /\ Newest(PlayedGuid(p), live[p])
            /\ Readable(live[p])
        BY <2>1, <4>1 DEF CharsInv, PlayInv
      <4>3. UpdateData(q)
        BY <2>1, <4>2 DEF UpdateData, GoodCopy, OwnData
      <4> QED
        BY <1>1, <4>3, DataKept
    <3> QED
      BY <3>1, <3>2
  <2>3. UpdatePlay(q.player, q.slot, q.data)'
    <3>1. CASE p \in here'
      <4>1. charState'[p] = charState[p] /\ live'[p] = live[p] /\ charNum'[p] = charNum[p]
        BY <2>1, <3>1
      <4> QED
        BY <1>10, <2>1, <4>1 DEF UpdatePlay, CanSave
    <3>2. CASE p \notin here'
      BY <2>1, <3>2 DEF UpdatePlay, Own
    <3> QED
      BY <3>1, <3>2
  <2> QED
    BY <2>2, <2>3
<1>11. UpdateInv'
  <2>1. ASSUME NEW q \in requests', Saving(q)
        PROVE  UpdateData(q)' /\ UpdatePlay(q.player, q.slot, q.data)'
    <3>1. CASE q \in requests
      <4>1. UpdateData(q)'
        BY <1>1, <2>1, <3>1, DataKept DEF CharsInv, UpdateInv
      <4>2. UpdatePlay(q.player, q.slot, q.data)
        BY <2>1, <3>1 DEF CharsInv, UpdateInv
      <4>3. q.player \in Player
        BY <2>1, <3>1 DEF Saving, TypeOK, Request, RequestOf
      <4>4. CASE q.player \in here'
        BY <4>1, <4>2, <4>3, <4>4, PlayKept
      <4>5. CASE q.player \notin here'
        BY <4>1, <4>5 DEF UpdatePlay, Own
      <4> QED
        BY <4>1, <4>4, <4>5
    <3>2. CASE q \notin requests
      <4>1. PICK p \in ps : CanSave(p) /\ q = Update(p)
        BY <1>5, <3>2
      <4> QED
        BY <1>6, <1>10, <4>1
    <3> QED
      BY <3>1, <3>2
  <2> QED
    BY <2>1 DEF UpdateInv, Saving, Outstanding
<1>12. UpdatesDiffer'
  <2>1. ASSUME NEW x \in requests, NEW y \in requests', y \notin requests,
               Saving(x), x.guid = y.guid
        PROVE  y.guid \in crossed' \cup {NoGuid}
    <3>1. x.guid \in Updating
      BY <2>1 DEF Updating, Saving
    <3> QED
      BY <1>5, <1>9, <2>1, <3>1
  <2>2. ASSUME NEW q \in requests', NEW r \in requests', Saving(q), Saving(r),
               q.guid = r.guid, r.guid \notin crossed' \cup {NoGuid}
        PROVE  q = r
    <3>1. CASE q \in requests /\ r \in requests
      BY <1>1, <2>2, <3>1 DEF CharsInv, UpdatesDiffer
    <3>2. CASE q \in requests /\ r \notin requests
      BY <2>1, <2>2, <3>2
    <3>3. CASE q \notin requests /\ r \in requests
      BY <2>1, <2>2, <3>3
    <3>4. CASE q \notin requests /\ r \notin requests
      <4>1. PICK p \in ps : q = Update(p)
        BY <1>5, <3>4
      <4>2. PICK x \in ps : r = Update(x)
        BY <1>5, <3>4
      <4>3. \A y \in ps : Update(y).guid # NoGuid => Update(y).guid[1] = y
        <5>1. \A y \in Player : charNum[y] \in Slot
          BY CharsTypes
        <5> QED
          BY <1>6, <5>1, Known DEF Holds, PlayedGuid
      <4> QED
        BY <2>2, <4>1, <4>2, <4>3
    <3> QED
      BY <3>1, <3>2, <3>3, <3>4
  <2> QED
    BY <2>2 DEF UpdatesDiffer, Saving, Outstanding
<1> QED
  BY <1>2, <1>3, <1>4, <1>8, <1>11, <1>12 DEF CharsInv

\* Requests that are queued, and are neither creates nor updates, change
\* nothing yet.
LEMMA QueuedHarmless ==
  ASSUME CharsInv, UNCHANGED <<chars, charState, charNum, live, crossed, tainted>>,
         \A p, s : Own(p, s)' => Own(p, s),
         \A q \in requests' : q \in requests \/ (q.kind \in {"load", "delete"} /\ q.reply = "none")
  PROVE  AnswerInv' /\ CreateInv' /\ CreatesDiffer' /\ UpdateInv' /\ UpdatesDiffer'
<1>1. AnswerInv'
  BY AnswersKept DEF CharsInv, Answering
<1>2. CreateInv'
  BY CreatesKept DEF CharsInv, Creating
<1>3. UpdateInv'
  BY UpdatesKept DEF CharsInv, Saving
<1>4. CreatesDiffer' /\ UpdatesDiffer'
  BY DEF CharsInv, CreatesDiffer, UpdatesDiffer, Creating, Saving, Outstanding
<1> QED
  BY <1>1, <1>2, <1>3, <1>4

\* A player connects: his own slots are those nobody owes him an answer for.
LEMMA CharsPutIn ==
  ASSUME TypeOK, CharsInv, IsEnabled, NEW p \in Player, ClientPutInServer(p)
  PROVE  CharsInv'
<1>1. /\ requests' = requests \cup LoadRequests(p, info[p])
      /\ info' = [info EXCEPT ![p] = BusySlots(@)]
      /\ here' = here \cup {p} /\ p \notin here
      /\ UNCHANGED <<charState, charNum, live, chars, crossed, tainted>>
  BY DEF ClientPutInServer, storeVars
<1>2. charState[p] = "UNLOADED"
  BY <1>1 DEF CharsInv, PlayInv
<1>3. \A q \in Player \ {p} : info'[q] = info[q]
  BY <1>1 DEF TypeOK
<1>4. ASSUME NEW s \in Slot
      PROVE  info'[p][s].status = "LOADING"
  <2>1. info'[p][s] = (IF SlotFree(info[p][s]) THEN Busy(info[p][s]) ELSE info[p][s])
    BY <1>1 DEF BusySlots, TypeOK
  <2>2. info[p][s] \in CharInfo
    BY TypeOf
  <2> QED
    BY <2>1, <2>2 DEF Busy, SlotFree, CharInfo
<1>5. ASSUME NEW q \in requests', q \notin requests
      PROVE  q.kind = "load" /\ q.reply = "none"
  <2>1. PICK s \in Slot : q = NewRequest("load", p, serial[p] + s, s, NoGuid, NoData)
    BY <1>1, <1>5 DEF LoadRequests
  <2> QED
    BY <2>1 DEF NewRequest
<1>6. ASSUME NEW x, NEW s, Own(x, s)', x # p
      PROVE  Own(x, s) /\ x \in Player
  BY <1>6, OwnPutIn DEF Own, TypeOK
<1>7. ASSUME NEW r \in requests, Outstanding(r), Own(r.player, r.slot)'
      PROVE  r.player # p
  BY <1>7, OwnPutIn
<1>8. StoreInv'
  BY <1>1, StoreKept DEF CharsInv
<1>9. PlayInv'
  <2>1. ASSUME NEW q \in Player, Playing(q)'
        PROVE  /\ info'[q][charNum'[q]].status = "LOADED"
               /\ GoodCopy(PlayedGuid(q), live[q])' /\ Newest(PlayedGuid(q), live[q])'
               /\ Readable(live'[q])
    <3>1. charState[q] = "LOADED" /\ q # p
      BY <1>1, <1>2, <2>1 DEF Playing
    <3>2. Playing(q)
      BY <1>1, <1>6, <2>1, <3>1 DEF Playing, Own
    <3> QED
      BY <1>1, <1>3, <3>1, <3>2 DEF CharsInv, PlayInv, PlayedGuid, GoodCopy, OwnData, Newest, Named
  <2>2. \A q \in Player : q \notin here' => charState'[q] = "UNLOADED"
    BY <1>1 DEF CharsInv, PlayInv
  <2> QED
    BY <2>1, <2>2 DEF PlayInv, Readable
<1>10. SlotInv'
  <2>1. ASSUME NEW q \in Player, NEW s \in Slot, Own(q, s)', info'[q][s].status = "LOADED"
        PROVE  Playable(q, info[q][s].guid, info[q][s].data)'
    <3>1. q # p
      BY <1>4, <2>1
    <3>2. Playable(q, info[q][s].guid, info[q][s].data)
      BY <1>3, <1>6, <2>1, <3>1 DEF CharsInv, SlotInv
    <3> QED
      BY <1>1, <1>3, <3>1, <3>2 DEF Playable, GoodCopy, OwnData, Newest, Named
  <2> QED
    BY <2>1 DEF SlotInv
<1>11. AnswerInv'
  <2>1. ASSUME NEW q \in requests', Answering(q), Own(q.player, q.slot)'
        PROVE  Playable(q.player, q.guid, q.data)'
    <3>1. q \in requests /\ Outstanding(q)
      BY <1>5, <2>1 DEF Answering
    <3>2. Playable(q.player, q.guid, q.data)
      BY <1>6, <1>7, <2>1, <3>1 DEF CharsInv, AnswerInv
    <3> QED
      BY <1>1, <3>2 DEF Playable, GoodCopy, OwnData, Newest, Named
  <2> QED
    BY <2>1 DEF AnswerInv, Answering, Outstanding
<1>12. CreateInv'
  BY <1>1, <1>5, CreatesKept DEF CharsInv, Creating
<1>13. UpdateInv'
  <2>1. ASSUME NEW q \in requests', Saving(q)
        PROVE  UpdateData(q)' /\ UpdatePlay(q.player, q.slot, q.data)'
    <3>1. q \in requests /\ Outstanding(q)
      BY <1>5, <2>1 DEF Saving
    <3>2. UpdateData(q)' /\ UpdatePlay(q.player, q.slot, q.data)
      BY <1>1, <2>1, <3>1, DataKept DEF CharsInv, UpdateInv
    <3>3. CASE Own(q.player, q.slot)'
      <4>1. q.player # p /\ Own(q.player, q.slot)
        BY <1>6, <1>7, <3>1, <3>3
      <4>2. ASSUME Playing(q.player)', charNum[q.player] = q.slot
            PROVE  Playing(q.player)
        BY <1>1, <4>1, <4>2 DEF Playing
      <4> QED
        BY <1>1, <3>2, <4>1, <4>2 DEF UpdatePlay
    <3>4. CASE ~Own(q.player, q.slot)'
      BY <3>2, <3>4 DEF UpdatePlay
    <3> QED
      BY <3>3, <3>4
  <2> QED
    BY <2>1 DEF UpdateInv, Saving, Outstanding
<1>14. CreatesDiffer' /\ UpdatesDiffer'
  BY <1>1, <1>5 DEF CharsInv, CreatesDiffer, UpdatesDiffer, Creating, Saving, Outstanding
<1> QED
  BY <1>8, <1>9, <1>10, <1>11, <1>12, <1>13, <1>14 DEF CharsInv

\* Slots of p change while he plays none; at most a load or a delete is
\* queued.
LEMMA CharsSlot ==
  ASSUME TypeOK, CharsInv, UNCHANGED <<central, here, overtaken, charState, live, charNum, chars,
                                       crossed, tainted>>,
         NEW p \in here, charState[p] # "LOADED",
         \A q \in Player \ {p} : info'[q] = info[q],
         \A s \in Slot : info'[p][s].status = "LOADED" =>
           /\ info[p][s].status = "LOADED" /\ info'[p][s].guid = info[p][s].guid
           /\ info'[p][s].data = info[p][s].data,
         \A q \in requests' : q \in requests \/ (q.kind \in {"load", "delete"} /\ q.reply = "none")
  PROVE  CharsInv'
<1>1. \A x, s : Own(x, s)' => Own(x, s)
  BY OwnSame
<1>2. StoreInv'
  BY StoreKept DEF CharsInv
<1>3. PlayInv'
  <2>1. \A q \in Player : Playing(q) => info'[q] = info[q]
    BY DEF Playing
  <2> QED
    BY <1>1, <2>1, PlaysKept DEF CharsInv
<1>4. SlotInv'
  <2>1. \A q \in Player : \A s \in Slot : info'[q][s].status = "LOADED" =>
          /\ info[q][s].status = "LOADED" /\ info'[q][s].guid = info[q][s].guid
          /\ info'[q][s].data = info[q][s].data
    OBVIOUS
  <2> QED
    BY <1>1, <2>1, SlotsKept DEF CharsInv
<1>5. AnswerInv' /\ CreateInv' /\ CreatesDiffer' /\ UpdateInv' /\ UpdatesDiffer'
  BY <1>1, QueuedHarmless
<1> QED
  BY <1>2, <1>3, <1>4, <1>5 DEF CharsInv

LEMMA CharsDelete ==
  ASSUME TypeOK, CharsInv, IsEnabled, NEW p \in Player, NEW s \in Slot, DeleteChar(p, s)
  PROVE  CharsInv'
<1> DEFINE req == NewRequest("delete", p, serial[p], s, info[p][s].guid, NoData)
<1>1. /\ p \in here /\ charState[p] = "UNLOADED"
      /\ requests' = requests \cup {req} /\ info' = [info EXCEPT ![p][s] = Busy(info[p][s])]
      /\ UNCHANGED <<central, here, overtaken, charState, live, charNum, chars, crossed, tainted>>
  BY DEF DeleteChar, QueueOne, SetSlot, serverVars, playVars
<1>2. req.kind = "delete" /\ req.reply = "none"
  BY DEF NewRequest
<1> HIDE DEF req
<1>3. \A q \in requests' : q \in requests \/ (q.kind \in {"load", "delete"} /\ q.reply = "none")
  BY <1>1, <1>2
<1>4. \A q \in Player \ {p} : info'[q] = info[q]
  BY <1>1 DEF TypeOK
<1>5. ASSUME NEW t \in Slot, info'[p][t].status = "LOADED"
      PROVE  info'[p][t] = info[p][t]
  <2>1. info'[p][t] = IF t = s THEN Busy(info[p][s]) ELSE info[p][t]
    BY <1>1, TypeOf DEF TypeOK
  <2>2. Busy(info[p][s]).status = "LOADING"
    BY TypeOf DEF Busy, CharInfo
  <2> QED
    BY <1>5, <2>1, <2>2
<1> QED
  BY <1>1, <1>3, <1>4, <1>5, CharsSlot

LEMMA CharsShow ==
  ASSUME TypeOK, CharsInv, NEW p \in Player, Think_SendCharData(p)
  PROVE  CharsInv'
<1>1. /\ p \in here /\ charState[p] # "LOADED"
      /\ UNCHANGED <<central, here, overtaken, charState, live, charNum, chars, crossed, tainted,
                     requests>>
      /\ \A q \in Player \ {p} : info'[q] = info[q]
  BY DEF Think_SendCharData, serverVars, playVars, storeVars, queueVars, TypeOK
<1>2. ASSUME NEW s \in Slot
      PROVE  /\ info'[p][s].status = info[p][s].status /\ info'[p][s].guid = info[p][s].guid
             /\ info'[p][s].data = info[p][s].data
  <2>1. info[p][s] \in CharInfo
    BY TypeOf
  <2>2. info'[p][s] \in {info[p][s], [info[p][s] EXCEPT !.cached = info[p][s].status]}
    BY DEF Think_SendCharData, TypeOK
  <2> QED
    BY <2>1, <2>2 DEF CharInfo
<1> QED
  BY <1>1, <1>2, CharsSlot

\* Player p, who has no character yet, and no update under way in a slot of
\* his own, selects one, or fails to.
LEMMA CharsSelect ==
  ASSUME TypeOK, CharsInv, NEW p \in Player, NEW s \in Slot, SelectChar(p, s)
  PROVE  CharsInv'
<1>1. /\ p \in here /\ charState[p] = "UNLOADED" /\ info[p][s].status = "LOADED"
      /\ UNCHANGED <<requests, central, here, overtaken, info, chars, crossed, tainted>>
  BY DEF SelectChar, Selectable, serverVars, slotVars, storeVars, queueVars
<1>2. /\ charState'[p] # "UNLOADED"
      /\ charState'[p] = "LOADED" =>
           charNum'[p] = s /\ live'[p] = info[p][s].data /\ Readable(live'[p])
      /\ \A q \in Player \ {p} : /\ charState'[q] = charState[q]
                                 /\ charNum'[q] = charNum[q] /\ live'[q] = live[q]
  BY DEF SelectChar, TypeOK
<1>3. /\ \A x, t : Own(x, t)' => Own(x, t)
      /\ \A x \in here' : charState'[x] = "UNLOADED" => charState[x] = "UNLOADED"
  BY <1>1, <1>2, OwnSame DEF TypeOK
<1>4. StoreInv' /\ SlotInv' /\ AnswerInv'
  BY <1>1, <1>3, StoreKept, SlotsKept, AnswersKept DEF CharsInv
<1>5. PlayInv'
  <2>1. ASSUME NEW q \in Player, Playing(q)'
        PROVE  /\ info'[q][charNum'[q]].status = "LOADED"
               /\ GoodCopy(PlayedGuid(q), live[q])' /\ Newest(PlayedGuid(q), live[q])'
               /\ Readable(live'[q])
    <3>1. CASE q = p
      <4>1. charNum'[p] = s /\ live'[p] = info[p][s].data /\ Readable(live'[p])
        BY <1>2, <2>1, <3>1 DEF Playing
      <4>2. Own(p, s)
        BY <1>1, <2>1, <3>1, <4>1 DEF Playing, Own
      <4>3. Playable(p, info[p][s].guid, info[p][s].data)
        BY <1>1, <4>2 DEF CharsInv, SlotInv
      <4> QED
        BY <1>1, <3>1, <4>1, <4>3 DEF Playable, PlayedGuid, GoodCopy, OwnData, Newest, Named
    <3>2. CASE q # p
      <4>1. charState'[q] = charState[q] /\ charNum'[q] = charNum[q] /\ live'[q] = live[q]
        BY <1>2, <3>2
      <4>2. Playing(q)
        BY <1>1, <2>1, <4>1 DEF Playing, Own
      <4> QED
        BY <1>1, <4>1, <4>2 DEF CharsInv, PlayInv, PlayedGuid, GoodCopy, OwnData, Newest, Named
    <3> QED
      BY <3>1, <3>2
  <2>2. \A q \in Player : q \notin here' => charState'[q] = "UNLOADED"
    BY <1>1, <1>2 DEF CharsInv, PlayInv
  <2> QED
    BY <2>1, <2>2 DEF PlayInv, Readable
<1>6. CreateInv'
  BY <1>1, CreatesKept DEF CharsInv
<1>7. UpdateInv'
  <2>1. ASSUME NEW q \in requests', Saving(q)
        PROVE  UpdateData(q)' /\ UpdatePlay(q.player, q.slot, q.data)'
    <3>1. /\ UpdateData(q)' /\ UpdatePlay(q.player, q.slot, q.data) /\ q.player \in Player
      BY <1>1, <2>1, DataKept DEF CharsInv, UpdateInv, Saving, TypeOK, Request, RequestOf
    <3>2. CASE q.player = p
      <4>1. ~Own(p, q.slot)
        BY <1>1, <3>1, <3>2 DEF UpdatePlay
      <4>2. ~Own(p, q.slot)'
        BY <1>3, <4>1
      <4> QED
        BY <3>1, <3>2, <4>2 DEF UpdatePlay
    <3>3. CASE q.player # p
      BY <1>2, <1>3, <3>1, <3>3, PlayKept
    <3> QED
      BY <3>2, <3>3
  <2> QED
    BY <2>1 DEF UpdateInv, Saving, Outstanding
<1>8. CreatesDiffer' /\ UpdatesDiffer'
  BY <1>1 DEF CharsInv, CreatesDiffer, UpdatesDiffer, Creating, Saving, Outstanding
<1> QED
  BY <1>4, <1>5, <1>6, <1>7, <1>8 DEF CharsInv

\* Player p creates a character: the slot, if it is free, is busy until the
\* answer; its name is new.
LEMMA CharsCreate ==
  ASSUME TypeOK, GuidInv, CharsInv, IsEnabled, NEW p \in Player, NEW s \in Slot, CreateChar(p, s)
  PROVE  CharsInv'
<1> DEFINE d == [of |-> <<p, serial[p]>>, ver |-> 0]
           req == NewRequest("create", p, serial[p], s, NoGuid, d)
<1>1. /\ p \in here /\ charState[p] = "UNLOADED"
      /\ UNCHANGED <<central, here, overtaken, charState, chars, crossed, tainted>>
      /\ charNum' = [charNum EXCEPT ![p] = s] /\ live' = [live EXCEPT ![p] = NoData]
      /\ \/ requests' = requests \cup {req} /\ SetSlot(p, s, Busy(info[p][s]))
         \/ UNCHANGED <<requests, info>>
  BY DEF CreateChar, QueueOne, serverVars
<1>2. /\ req.kind = "create" /\ req.player = p /\ req.id = serial[p] /\ req.reply = "none"
      /\ req.data.of = <<req.player, req.id>> /\ req.data.ver = 0
  BY DEF NewRequest
<1> HIDE DEF req, d
<1>3. Named(<<p, serial[p]>>) = {}
  <2>1. ASSUME NEW c \in chars, c.guid = <<p, serial[p]>>
        PROVE  FALSE
    <3>1. c.slot \in Slot /\ serial[p] \in Nat
      BY TypeOf DEF TypeOK, StoredChar
    <3>2. Claimed(<<p, serial[p]>>, c.slot)
      BY <2>1 DEF Claimed
    <3>3. serial[p] < serial[p]
      BY <3>1, <3>2 DEF GuidInv
    <3> QED
      BY <3>1, <3>3
  <2> QED
    BY <2>1 DEF Named
<1>4. ASSUME NEW r \in requests, r.kind = "create", r.player = p
      PROVE  r.id # serial[p]
  <2>1. r.slot \in Slot /\ r.id \in Nat /\ serial[p] \in Nat
    BY TypeOf DEF TypeOK, Request, RequestOf
  <2>2. Claimed(<<p, r.id>>, r.slot)
    BY <1>4 DEF Claimed
  <2> QED
    BY <2>1, <2>2 DEF GuidInv
<1>5. \A q \in Player \ {p} : /\ info'[q] = info[q] /\ charNum'[q] = charNum[q]
                              /\ live'[q] = live[q]
  BY <1>1 DEF SetSlot, TypeOK
<1>6. ASSUME NEW t \in Slot, info'[p][t].status = "LOADED"
      PROVE  info'[p][t] = info[p][t]
  <2>1. CASE UNCHANGED info
    BY <2>1
  <2>2. CASE SetSlot(p, s, Busy(info[p][s]))
    <3>1. info'[p][t] = IF t = s THEN Busy(info[p][s]) ELSE info[p][t]
      BY <2>2, TypeOf DEF SetSlot, TypeOK
    <3>2. Busy(info[p][s]).status = "LOADING"
      BY TypeOf DEF Busy, CharInfo
    <3> QED
      BY <1>6, <3>1, <3>2
  <2> QED
    BY <1>1, <2>1, <2>2
<1>7. \A q \in requests' : q \in requests \/ q = req
  BY <1>1
<1>8. \A x, t : Own(x, t)' => Own(x, t)
  BY <1>1, OwnSame
<1>9. StoreInv'
  BY <1>1, StoreKept DEF CharsInv
<1>10. PlayInv'
  BY <1>1, <1>5, <1>8, PlaysKept DEF CharsInv
<1>11. SlotInv'
  <2>1. \A q \in Player : \A t \in Slot : info'[q][t].status = "LOADED" => info'[q][t] = info[q][t]
    BY <1>5, <1>6
  <2> QED
    BY <1>1, <1>8, <2>1, SlotsKept DEF CharsInv
<1>12. AnswerInv'
  BY <1>1, <1>2, <1>7, <1>8, AnswersKept DEF CharsInv, Answering
<1>13. CreateInv'
  <2>1. ASSUME NEW q \in requests', Creating(q)
        PROVE  /\ q.data.of = <<q.player, q.id>> /\ q.data.ver = 0
               /\ q.reply = "none" => Named(<<q.player, q.id>>) = {}
    <3>1. CASE q \in requests
      BY <2>1, <3>1 DEF CharsInv, CreateInv
    <3>2. CASE q = req
      BY <1>2, <1>3, <3>2
    <3> QED
      BY <1>7, <3>1, <3>2
  <2> QED
    BY <1>1, <2>1 DEF CreateInv, Creating, Outstanding, Named
<1>14. CreatesDiffer'
  BY <1>2, <1>4, <1>7 DEF CharsInv, CreatesDiffer, Creating, Outstanding
<1>15. UpdateInv'
  <2>1. ASSUME NEW q \in requests', Saving(q)
        PROVE  UpdateData(q)' /\ UpdatePlay(q.player, q.slot, q.data)'
    <3>1. q \in requests /\ q.player \in Player
      BY <1>2, <1>7, <2>1 DEF Saving, TypeOK, Request, RequestOf
    <3>2. UpdateData(q)' /\ UpdatePlay(q.player, q.slot, q.data)
      BY <1>1, <2>1, <3>1, DataKept DEF CharsInv, UpdateInv
    <3>3. CASE q.player = p
      <4>1. ~Own(p, q.slot)
        BY <1>1, <3>2, <3>3 DEF UpdatePlay
      <4>2. ~Own(p, q.slot)'
        BY <1>8, <4>1
      <4> QED
        BY <3>2, <3>3, <4>2 DEF UpdatePlay
    <3>4. CASE q.player # p
      BY <1>1, <1>5, <1>8, <3>1, <3>2, <3>4, PlayKept
    <3> QED
      BY <3>3, <3>4
  <2> QED
    BY <2>1 DEF UpdateInv, Saving, Outstanding
<1>16. UpdatesDiffer'
  BY <1>1, <1>2, <1>7 DEF CharsInv, UpdatesDiffer, Saving, Outstanding
<1> QED
  BY <1>9, <1>10, <1>11, <1>12, <1>13, <1>14, <1>15, <1>16 DEF CharsInv

\* The character of p gains something.
LEMMA CharsPlay ==
  ASSUME TypeOK, CharsInv, NEW p \in Player, Play(p)
  PROVE  CharsInv'
<1>1. /\ live' = [live EXCEPT ![p].ver = @ + 1]
      /\ charState[p] = "LOADED"
      /\ UNCHANGED <<central, here, overtaken, charState, charNum, info, requests, chars, crossed,
                     tainted>>
  BY DEF Play, serverVars, slotVars, storeVars, queueVars
<1>2. /\ live'[p].of = live[p].of /\ live'[p].ver = live[p].ver + 1
      /\ \A q \in Player : q # p => live'[q] = live[q]
  BY <1>1, TypeOf DEF TypeOK, Data
<1>3. live[p].ver \in Int /\ Unreadable <= live[p].ver /\ Unreadable \in Int
  BY CharsTypes DEF Unreadable
<1>4. \A x, s : Own(x, s)' => Own(x, s)
  BY <1>1, OwnSame
<1>5. StoreInv' /\ SlotInv' /\ AnswerInv' /\ CreateInv'
  BY <1>1, <1>4, StoreKept, SlotsKept, AnswersKept, CreatesKept DEF CharsInv
<1>6. CreatesDiffer' /\ UpdatesDiffer'
  BY <1>1 DEF CharsInv, CreatesDiffer, UpdatesDiffer, Creating, Saving, Outstanding
<1>7. PlayInv'
  <2>1. ASSUME NEW q \in Player, Playing(q)'
        PROVE  /\ info'[q][charNum'[q]].status = "LOADED"
               /\ GoodCopy(PlayedGuid(q), live[q])' /\ Newest(PlayedGuid(q), live[q])'
               /\ Readable(live'[q])
    <3>1. Playing(q)
      BY <1>1, <2>1 DEF Playing, Own
    <3>2. /\ info[q][charNum[q]].status = "LOADED"
          /\ GoodCopy(PlayedGuid(q), live[q]) /\ Newest(PlayedGuid(q), live[q])
          /\ Readable(live[q])
      BY <3>1 DEF CharsInv, PlayInv
    <3>3. /\ live'[q].of = live[q].of /\ Readable(live'[q])
          /\ \A n \in Int : n <= live[q].ver => n <= live'[q].ver
      <4>1. CASE q = p
        BY <1>2, <1>3, <4>1 DEF Readable, Unreadable
      <4>2. CASE q # p
        BY <1>2, <3>2, <4>2
      <4> QED
        BY <4>1, <4>2
    <3>4. \A c \in chars : c.data.ver \in Int
      BY CharsTypes
    <3> QED
      BY <1>1, <3>2, <3>3, <3>4 DEF PlayedGuid, GoodCopy, OwnData, Newest, Named
  <2>2. \A q \in Player : q \notin here' => charState'[q] = "UNLOADED"
    BY <1>1 DEF CharsInv, PlayInv
  <2> QED
    BY <2>1, <2>2 DEF PlayInv, Readable
<1>8. UpdateInv'
  <2>1. ASSUME NEW q \in requests', Saving(q)
        PROVE  UpdateData(q)' /\ UpdatePlay(q.player, q.slot, q.data)'
    <3>1. /\ UpdateData(q)' /\ UpdatePlay(q.player, q.slot, q.data)
          /\ q.player \in Player /\ q.data.ver \in Int
      BY <1>1, <2>1, DataKept, CharsTypes
         DEF CharsInv, UpdateInv, Saving, TypeOK, Request, RequestOf
    <3>2. CASE q.player = p
      <4>1. q.data.ver <= live[p].ver => q.data.ver <= live'[p].ver
        BY <1>2, <1>3, <3>1
      <4> QED
        BY <1>1, <1>4, <3>1, <3>2, <4>1 DEF UpdatePlay, Playing, Own
    <3>3. CASE q.player # p
      BY <1>1, <1>2, <1>4, <3>1, <3>3, PlayKept
    <3> QED
      BY <3>2, <3>3
  <2> QED
    BY <2>1 DEF UpdateInv, Saving, Outstanding
<1> QED
  BY <1>5, <1>6, <1>7, <1>8 DEF CharsInv

(* The backend changes what it keeps.                                      *)


LEMMA ServedPlays ==
  ASSUME PlayInv, UNCHANGED <<central, here, overtaken, charState, charNum, live, info, tainted>>,
         \A p \in Player : Playing(p) =>
           /\ Named(PlayedGuid(p))' # {}
           /\ Newest(PlayedGuid(p), live[p])'
  PROVE  PlayInv'
<1>1. ASSUME NEW p \in Player, Playing(p)'
      PROVE  /\ info'[p][charNum'[p]].status = "LOADED"
             /\ GoodCopy(PlayedGuid(p), live[p])' /\ Newest(PlayedGuid(p), live[p])'
             /\ Readable(live'[p])
  <2>1. Playing(p)
    BY <1>1 DEF Playing, Own
  <2> QED
    BY <2>1 DEF PlayInv, PlayedGuid, GoodCopy, OwnData
<1> QED
  BY <1>1 DEF PlayInv, Readable

\* A stored character becomes unreadable.
LEMMA CharsSpoil ==
  ASSUME TypeOK, CharsInv, NEW c \in chars, BackendSpoils(c)
  PROVE  CharsInv'
<1> DEFINE d == [c EXCEPT !.data.ver = Unreadable]
<1>1. /\ chars' = (chars \ {c}) \cup {d}
      /\ UNCHANGED <<requests, central, here, overtaken, charState, charNum, live, info, crossed,
                     tainted>>
  BY DEF BackendSpoils, serverVars, playVars, slotVars, queueVars
<1>2. d.guid = c.guid /\ d.data.of = c.data.of /\ d.data.ver = Unreadable
  BY DEF TypeOK, StoredChar, Data
<1> HIDE DEF d
<1>3. \A h : Named(h)' = IF h = c.guid THEN (Named(h) \ {c}) \cup {d} ELSE Named(h)
  BY <1>1, <1>2 DEF Named
<1>4. \A h : (Named(h)' = {}) <=> (Named(h) = {})
  BY <1>3 DEF Named
<1>5. \A h, x : GoodCopy(h, x) => GoodCopy(h, x)'
  BY <1>1, <1>4 DEF GoodCopy, OwnData
<1>6. \A h : \A x \in Data : Newest(h, x) => Newest(h, x)'
  BY <1>1, <1>2, <1>3, CharsTypes DEF Newest
<1>7. \A p, h : \A x \in Data : Playable(p, h, x) => Playable(p, h, x)'
  BY <1>1, <1>5, <1>6 DEF Playable
<1>8. \A x, s : Own(x, s)' => Own(x, s)
  BY <1>1, OwnSame
<1>9. StoreInv'
  BY <1>1, <1>2 DEF CharsInv, StoreInv, OwnData
<1>10. PlayInv'
  <2>1. \A p \in Player : Playing(p) =>
          GoodCopy(PlayedGuid(p), live[p]) /\ Newest(PlayedGuid(p), live[p]) /\ live[p] \in Data
    BY CharsTypes DEF CharsInv, PlayInv
  <2>2. ASSUME NEW p \in Player, Playing(p)
        PROVE  Named(PlayedGuid(p))' # {} /\ Newest(PlayedGuid(p), live[p])'
    <3>1. PICK h, x : h = PlayedGuid(p) /\ x = live[p]
      OBVIOUS
    <3>2. Named(h)' # {} /\ Newest(h, x)'
      BY <1>4, <1>6, <2>1, <2>2, <3>1 DEF GoodCopy
    <3>3. PlayedGuid(p)' = h /\ live'[p] = x
      BY <1>1, <3>1 DEF PlayedGuid
    <3> QED
      BY <3>2, <3>3 DEF Named, Newest
  <2> QED
    BY <1>1, <2>2, ServedPlays DEF CharsInv
<1>11. SlotInv'
  <2>1. \A p \in Player, s \in Slot : info[p][s].data \in Data
    BY CharsTypes
  <2> QED
    BY <1>1, <1>7, <1>8, <2>1 DEF CharsInv, SlotInv
<1>12. AnswerInv'
  <2>1. \A r \in requests : r.data \in Data
    BY CharsTypes
  <2> QED
    BY <1>1, <1>7, <1>8, <2>1 DEF CharsInv, AnswerInv, Answering, Outstanding
<1>13. CreateInv'
  BY <1>1, <1>4 DEF CharsInv, CreateInv, Creating, Outstanding
<1>14. UpdateInv'
  <2>1. ASSUME NEW q \in requests', Saving(q)
        PROVE  UpdateData(q)' /\ UpdatePlay(q.player, q.slot, q.data)'
    <3>1. UpdateData(q) /\ UpdatePlay(q.player, q.slot, q.data) /\ q.data \in Data
      BY <1>1, <2>1, CharsTypes DEF CharsInv, UpdateInv
    <3>2. UpdateData(q)'
      BY <1>1, <1>6, <3>1 DEF UpdateData
    <3> QED
      BY <1>1, <1>8, <3>1, <3>2, PlayKept
  <2> QED
    BY <2>1 DEF UpdateInv, Saving, Outstanding
<1>15. CreatesDiffer' /\ UpdatesDiffer'
  BY <1>1 DEF CharsInv, CreatesDiffer, UpdatesDiffer, Creating, Saving, Outstanding
<1> QED
  BY <1>9, <1>10, <1>11, <1>12, <1>13, <1>14, <1>15 DEF CharsInv

\* One request is replaced by its answer.
LEMMA ServedDiffer ==
  ASSUME TypeOK, CharsInv, UNCHANGED crossed, NEW r \in requests, Outstanding(r), NEW q,
         requests' = (requests \ {r}) \cup {q}, Answers(q, r),
         q.kind = "update" => q.guid = r.guid
  PROVE  CreatesDiffer' /\ UpdatesDiffer'
<1>1. ASSUME NEW x \in requests', NEW y \in requests',
             Creating(x), Creating(y), x.player = y.player, x.id = y.id
      PROVE  x = y
  BY <1>1 DEF CharsInv, CreatesDiffer, Creating, Outstanding, Answers
<1>2. ASSUME NEW x \in requests', NEW y \in requests',
             Saving(x), Saving(y), x.guid = y.guid, y.guid \notin crossed \cup {NoGuid}
      PROVE  x = y
  BY <1>2 DEF CharsInv, UpdatesDiffer, Saving, Outstanding, Answers
<1> QED
  BY <1>1, <1>2 DEF CreatesDiffer, UpdatesDiffer, Creating, Saving, Outstanding

\* The backend changes nothing; what it gives out is what it keeps.
LEMMA ServedUnchanged ==
  ASSUME TypeOK, CharsInv,
         UNCHANGED <<central, here, overtaken, charState, charNum, live, info, chars, crossed,
                     tainted>>,
         NEW r \in requests, Outstanding(r), r.reply = "none", NEW q,
         requests' = (requests \ {r}) \cup {q}, Answers(q, r),
         q.kind # "load" => q.guid = r.guid /\ q.data = r.data,
         Answering(q) => GoodCopy(q.guid, q.data) /\ Newest(q.guid, q.data)
  PROVE  CharsInv'
<1>1. \A x, s : Own(x, s)' => Own(x, s)
  BY OwnSame
<1>2. StoreInv' /\ PlayInv' /\ SlotInv'
  BY <1>1, StoreKept, PlaysKept, SlotsKept DEF CharsInv
<1>3. AnswerInv'
  <2>1. ASSUME NEW t \in requests', Answering(t), Own(t.player, t.slot)
        PROVE  Playable(t.player, t.guid, t.data)
    <3>1. CASE t = q
      BY <2>1, <3>1 DEF Playable
    <3>2. CASE t \in requests
      BY <2>1, <3>2 DEF CharsInv, AnswerInv
    <3> QED
      BY <3>1, <3>2
  <2> QED
    BY <1>1, <2>1 DEF AnswerInv, Answering, Outstanding, Playable, GoodCopy, OwnData, Newest, Named
<1>4. CreateInv'
  BY CreatesKept DEF CharsInv, Creating, Outstanding, Answers
<1>5. UpdateInv'
  BY <1>1, UpdatesKept DEF CharsInv, Saving, Outstanding, Answers
<1>6. CreatesDiffer' /\ UpdatesDiffer'
  BY ServedDiffer DEF Answers
<1> QED
  BY <1>2, <1>3, <1>4, <1>5, <1>6 DEF CharsInv

\* The backend keeps a new character.
LEMMA ServedCreate ==
  ASSUME TypeOK, CharsInv,
         UNCHANGED <<central, here, overtaken, charState, charNum, live, info, crossed, tainted>>,
         NEW r \in requests, Creating(r), r.reply = "none", NEW q,
         requests' = (requests \ {r}) \cup {q}, Answers(q, r), q.data = r.data,
         q.reply = "ok" => q.guid = <<r.player, r.id>>,
         chars' = chars \cup {[guid |-> <<r.player, r.id>>, slot |-> r.slot, data |-> r.data]}
  PROVE  CharsInv'
<1> DEFINE g == <<r.player, r.id>>
           d == [guid |-> g, slot |-> r.slot, data |-> r.data]
<1>1. /\ r.data.of = g /\ r.data.ver = 0 /\ Named(g) = {}
      /\ chars' = chars \cup {d} /\ d.guid = g /\ d.data = r.data
  BY DEF CharsInv, CreateInv
<1>2. q.kind = "create" /\ q.player = r.player /\ q.id = r.id /\ q.reply # "none"
  BY DEF Answers, Creating
<1> HIDE DEF d
<1>3. /\ \A h : Named(h) # {} => Named(h)' # {}
      /\ \A h : h # g => Named(h)' = Named(h)
      /\ \A h : \A c \in Named(h)' : c \in Named(h) \/ c = d
  BY <1>1 DEF Named
<1>4. \A h, x : /\ GoodCopy(h, x) => GoodCopy(h, x)'
                /\ h # g /\ Newest(h, x) => Newest(h, x)'
  BY <1>3 DEF GoodCopy, OwnData, Newest
<1>5. \A p, h, x : Playable(p, h, x) => Playable(p, h, x)'
  <2>1. \A p, h, x : Playable(p, h, x) => h # g
    BY <1>1 DEF Playable, GoodCopy
  <2> QED
    BY <1>4, <2>1 DEF Playable
<1>6. \A x, s : Own(x, s)' => Own(x, s)
  BY OwnSame
<1>7. StoreInv'
  <2>1. \A c \in chars' : c \in chars \/ c = d
    BY <1>1
  <2>2. \A c \in chars' : OwnData(c.guid, c.data)'
    BY <1>1, <2>1 DEF CharsInv, StoreInv, OwnData
  <2>3. \A c, e \in chars' : c.guid = e.guid => c = e
    BY <1>1, <2>1 DEF CharsInv, StoreInv, Named
  <2> QED
    BY <2>2, <2>3 DEF StoreInv, OwnData
<1>8. PlayInv'
  <2>1. ASSUME NEW p \in Player, Playing(p)
        PROVE  Named(PlayedGuid(p))' # {} /\ Newest(PlayedGuid(p), live[p])'
    <3>1. PICK h, x : h = PlayedGuid(p) /\ x = live[p]
      OBVIOUS
    <3>2. GoodCopy(h, x) /\ Newest(h, x)
      BY <2>1, <3>1 DEF CharsInv, PlayInv
    <3>3. Named(h)' # {} /\ Newest(h, x)'
      BY <1>1, <1>3, <1>4, <3>2 DEF GoodCopy
    <3>4. PlayedGuid(p)' = h /\ live'[p] = x
      BY <3>1 DEF PlayedGuid
    <3> QED
      BY <3>3, <3>4 DEF Named, Newest
  <2> QED
    BY <2>1, ServedPlays DEF CharsInv
<1>9. SlotInv'
  BY <1>5, <1>6 DEF CharsInv, SlotInv
<1>10. AnswerInv'
  <2>1. ASSUME NEW t \in requests', Answering(t), Own(t.player, t.slot)
        PROVE  Playable(t.player, t.guid, t.data)'
    <3>1. CASE t = q
      <4>1. q.guid = g
        BY <2>1, <3>1 DEF Answering
      <4>2. d \in Named(g)' /\ \A c \in Named(g)' : c = d
        BY <1>1 DEF Named
      <4> QED
        BY <1>1, <1>2, <3>1, <4>1, <4>2 DEF Playable, GoodCopy, OwnData, Newest
    <3>2. CASE t \in requests
      BY <1>5, <2>1, <3>2 DEF CharsInv, AnswerInv
    <3> QED
      BY <2>1, <3>1, <3>2
  <2> QED
    BY <1>6, <2>1 DEF AnswerInv, Answering, Outstanding
<1>11. CreateInv'
  <2>1. ASSUME NEW t \in requests', Creating(t)
        PROVE  /\ t.data.of = <<t.player, t.id>> /\ t.data.ver = 0
               /\ t.reply = "none" => Named(<<t.player, t.id>>)' = {}
    <3>1. CASE t = q
      BY <1>1, <1>2, <3>1
    <3>2. CASE t \in requests /\ t # r
      <4>1. <<t.player, t.id>> # g
        BY <2>1, <3>2 DEF CharsInv, CreatesDiffer
      <4> QED
        BY <1>3, <2>1, <3>2, <4>1 DEF CharsInv, CreateInv
    <3> QED
      BY <3>1, <3>2
  <2> QED
    BY <2>1 DEF CreateInv, Creating, Outstanding
<1>12. UpdateInv'
  <2>1. ASSUME NEW t \in requests', Saving(t)
        PROVE  UpdateData(t)' /\ UpdatePlay(t.player, t.slot, t.data)'
    <3>1. t \in requests /\ t.data \in Data
      BY <1>2, <2>1 DEF Saving, TypeOK, Request, RequestOf
    <3>2. UpdateData(t) /\ UpdatePlay(t.player, t.slot, t.data)
      BY <2>1, <3>1 DEF CharsInv, UpdateInv
    <3>3. UpdateData(t)'
      <4>1. CASE t.guid \in tainted
        BY <3>2, <4>1 DEF UpdateData, Newest
      <4>2. CASE t.guid \notin tainted
        <5>1. t.data.of = t.guid /\ Readable(t.data) /\ 0 <= t.data.ver
          BY <3>1, <3>2, <4>2 DEF UpdateData, Data, Readable, Unreadable
        <5>2. Newest(t.guid, t.data) => Newest(t.guid, t.data)'
          BY <1>1, <1>3, <4>2, <5>1 DEF Newest
        <5> QED
          BY <3>2, <5>1, <5>2 DEF UpdateData
      <4> QED
        BY <4>1, <4>2
    <3> QED
      BY <1>6, <3>2, <3>3, PlayKept
  <2> QED
    BY <2>1 DEF UpdateInv, Saving, Outstanding
<1>13. CreatesDiffer' /\ UpdatesDiffer'
  BY <1>2, ServedDiffer DEF Creating
<1> QED
  BY <1>7, <1>8, <1>9, <1>10, <1>11, <1>12, <1>13 DEF CharsInv

\* The slots that hold, or will be filled with, the character an update or a
\* delete names are the slot of that request.
LEMMA SameSlot ==
  ASSUME TypeOK, GuidInv, NEW r \in requests, Named(r.guid) # {}
  PROVE  /\ r.guid # NoGuid /\ r.guid \in Guid
         /\ \A p \in Player, s \in Slot : info[p][s].guid = r.guid => p = r.player /\ s = r.slot
         /\ \A t \in requests : t.guid = r.guid => t.player = r.player /\ t.slot = r.slot
<1>1. r.guid # NoGuid /\ r.guid \in Guid /\ r.slot \in Slot
  BY CharsTypes DEF Named
<1>2. Claimed(r.guid, r.slot) /\ r.guid[1] = r.player
  BY <1>1, Known DEF Knows
<1>3. ASSUME NEW p \in Player, NEW s \in Slot, info[p][s].guid = r.guid
      PROVE  p = r.player /\ s = r.slot
  <2>1. Claimed(r.guid, s) /\ r.guid[1] = p
    BY <1>1, <1>3, Known DEF Holds
  <2> QED
    BY <1>1, <1>2, <2>1 DEF GuidInv
<1>4. ASSUME NEW t \in requests, t.guid = r.guid
      PROVE  t.player = r.player /\ t.slot = r.slot
  <2>1. Claimed(r.guid, t.slot) /\ r.guid[1] = t.player /\ t.slot \in Slot
    BY <1>1, <1>4, Known, CharsTypes DEF Knows
  <2> QED
    BY <1>1, <1>2, <2>1 DEF GuidInv
<1> QED
  BY <1>1, <1>3, <1>4

\* The backend keeps what was sent of a character.
LEMMA ServedUpdate ==
  ASSUME TypeOK, GuidInv, CharsInv,
         UNCHANGED <<central, here, overtaken, charState, charNum, live, info, crossed, tainted>>,
         NEW r \in requests, Saving(r), r.reply = "none", NEW q,
         requests' = (requests \ {r}) \cup {q}, Answers(q, r), q.guid = r.guid, q.data = r.data,
         Named(r.guid) # {},
         chars' = {IF c.guid = r.guid THEN [c EXCEPT !.data = r.data] ELSE c : c \in chars}
  PROVE  CharsInv'
<1>1. /\ q.kind = "update" /\ q.reply # "none" /\ q.player = r.player /\ q.slot = r.slot
      /\ r.guid # NoGuid
      /\ UpdateData(r) /\ UpdatePlay(r.player, r.slot, r.data)
  BY SameSlot DEF CharsInv, UpdateInv, Answers, Saving
<1>2. ASSUME NEW c \in chars
      PROVE  LET e == IF c.guid = r.guid THEN [c EXCEPT !.data = r.data] ELSE c
             IN /\ e \in chars' /\ e.guid = c.guid
                /\ c.guid = r.guid => e.data = r.data
                /\ c.guid # r.guid => e = c
  BY DEF TypeOK, StoredChar
<1>3. ASSUME NEW e \in chars'
      PROVE  \/ e.guid = r.guid /\ e.data = r.data
             \/ e \in chars /\ e.guid # r.guid
  <2>1. PICK c \in chars : e = IF c.guid = r.guid THEN [c EXCEPT !.data = r.data] ELSE c
    OBVIOUS
  <2> QED
    BY <1>2, <2>1
<1>4. \A h : /\ Named(h) # {} => Named(h)' # {}
             /\ Named(h) = {} => Named(h)' = {}
  <2>1. ASSUME NEW h, NEW c \in Named(h)
        PROVE  Named(h)' # {}
    BY <1>2, <2>1 DEF Named
  <2>2. ASSUME NEW h, Named(h) = {}, NEW e \in Named(h)'
        PROVE  FALSE
    BY <1>3, <2>2 DEF Named
  <2> QED
    BY <2>1, <2>2
<1>5. \A h, x : GoodCopy(h, x) => GoodCopy(h, x)'
  BY <1>4 DEF GoodCopy, OwnData
<1>6. \A h, x : h # r.guid /\ Newest(h, x) => Newest(h, x)'
  BY <1>3 DEF Newest, Named
<1>7. \A x : r.data.ver <= x.ver => Newest(r.guid, x)'
  BY <1>3 DEF Newest, Named
<1>8. \A x, s : Own(x, s)' => Own(x, s)
  BY OwnSame
<1>9. StoreInv'
  <2>1. \A e \in chars' : OwnData(e.guid, e.data)'
    BY <1>1, <1>3 DEF CharsInv, StoreInv, OwnData, UpdateData
  <2>2. ASSUME NEW e \in chars', NEW f \in chars', e.guid = f.guid
        PROVE  e = f
    <3>1. PICK c \in chars : e = IF c.guid = r.guid THEN [c EXCEPT !.data = r.data] ELSE c
      OBVIOUS
    <3>2. PICK d \in chars : f = IF d.guid = r.guid THEN [d EXCEPT !.data = r.data] ELSE d
      OBVIOUS
    <3>3. c.guid = e.guid /\ d.guid = f.guid
      BY <1>2, <3>1, <3>2
    <3>4. c = d
      BY <2>2, <3>3 DEF CharsInv, StoreInv
    <3> QED
      BY <3>1, <3>2, <3>4
  <2> QED
    BY <2>1, <2>2 DEF StoreInv, OwnData
<1>10. PlayInv'
  <2>1. ASSUME NEW p \in Player, Playing(p)
        PROVE  Named(PlayedGuid(p))' # {} /\ Newest(PlayedGuid(p), live[p])'
    <3>1. PICK h, x : h = PlayedGuid(p) /\ x = live[p]
      OBVIOUS
    <3>2. GoodCopy(h, x) /\ Newest(h, x)
      BY <2>1, <3>1 DEF CharsInv, PlayInv
    <3>3. Newest(h, x)'
      <4>1. CASE h # r.guid
        BY <1>6, <3>2, <4>1
      <4>2. CASE h = r.guid
        <5>1. r.player = p /\ r.slot = charNum[p]
          <6>1. charNum[p] \in Slot
            BY CharsTypes
          <6>2. info[p][charNum[p]].guid = r.guid
            BY <3>1, <4>2 DEF PlayedGuid
          <6> QED
            BY <6>1, <6>2, SameSlot
        <5>2. r.data.ver <= x.ver
          BY <1>1, <2>1, <3>1, <5>1 DEF UpdatePlay, Playing
        <5> QED
          BY <1>7, <4>2, <5>2
      <4> QED
        BY <4>1, <4>2
    <3>4. PlayedGuid(p)' = h /\ live'[p] = x
      BY <3>1 DEF PlayedGuid
    <3>5. Named(h)' # {}
      BY <1>4, <3>2 DEF GoodCopy
    <3> QED
      BY <3>3, <3>4, <3>5 DEF Named, Newest
  <2> QED
    BY <2>1, ServedPlays DEF CharsInv
<1>11. ASSUME NEW p, NEW s, NEW h, NEW x, Own(p, s), Playable(p, h, x),
              h = r.guid => p = r.player /\ s = r.slot
       PROVE  Playable(p, h, x)'
  <2>1. CASE h # r.guid
    BY <1>5, <1>6, <1>11, <2>1 DEF Playable
  <2>2. CASE h = r.guid
    <3>1. charState[p] # "UNLOADED"
      BY <1>1, <1>11, <2>2 DEF UpdatePlay
    <3> QED
      BY <1>5, <1>11, <3>1 DEF Playable
  <2> QED
    BY <2>1, <2>2
<1>12. SlotInv'
  <2>1. \A p \in Player, s \in Slot : info[p][s].guid = r.guid => p = r.player /\ s = r.slot
    BY SameSlot
  <2> QED
    BY <1>8, <1>11, <2>1 DEF CharsInv, SlotInv
<1>13. AnswerInv'
  <2>1. ASSUME NEW t \in requests', Answering(t), Own(t.player, t.slot)
        PROVE  Playable(t.player, t.guid, t.data)'
    <3>1. t \in requests
      BY <1>1, <2>1 DEF Answering
    <3>2. Playable(t.player, t.guid, t.data)
      BY <2>1, <3>1 DEF CharsInv, AnswerInv
    <3>3. t.guid = r.guid => t.player = r.player /\ t.slot = r.slot
      BY <3>1, SameSlot
    <3> QED
      BY <1>11, <2>1, <3>2, <3>3
  <2> QED
    BY <1>8, <2>1 DEF AnswerInv, Answering, Outstanding
<1>14. CreateInv'
  <2>1. ASSUME NEW t \in requests', Creating(t)
        PROVE  /\ t.data.of = <<t.player, t.id>> /\ t.data.ver = 0
               /\ t.reply = "none" => Named(<<t.player, t.id>>)' = {}
    <3>1. t \in requests
      BY <1>1, <2>1 DEF Creating
    <3> QED
      BY <1>4, <2>1, <3>1 DEF CharsInv, CreateInv
  <2> QED
    BY <2>1 DEF CreateInv, Creating, Outstanding
<1>15. UpdateInv'
  <2>1. ASSUME NEW t \in requests', Saving(t)
        PROVE  UpdateData(t)' /\ UpdatePlay(t.player, t.slot, t.data)'
    <3>1. CASE t = q
      <4>1. UpdateData(t)'
        BY <1>1, <3>1 DEF UpdateData
      <4> QED
        BY <1>1, <1>8, <3>1, <4>1, PlayKept
    <3>2. CASE t \in requests /\ t # r
      <4>1. UpdateData(t) /\ UpdatePlay(t.player, t.slot, t.data)
        BY <2>1, <3>2 DEF CharsInv, UpdateInv
      <4>2. t.guid \notin crossed => t.guid # r.guid
        BY <1>1, <2>1, <3>2 DEF CharsInv, UpdatesDiffer
      <4>3. UpdateData(t)'
        BY <1>6, <4>1, <4>2 DEF UpdateData
      <4> QED
        BY <1>8, <4>1, <4>3, PlayKept
    <3> QED
      BY <3>1, <3>2
  <2> QED
    BY <2>1 DEF UpdateInv, Saving, Outstanding
<1>16. CreatesDiffer' /\ UpdatesDiffer'
  BY ServedDiffer DEF Saving
<1> QED
  BY <1>9, <1>10, <1>12, <1>13, <1>14, <1>15, <1>16 DEF CharsInv

\* The backend forgets a character: a slot of somebody's own that held it is
\* locked, and nobody plays it there.
LEMMA ServedDelete ==
  ASSUME TypeOK, GuidInv, SlotLocked, CharsInv,
         UNCHANGED <<central, here, overtaken, charState, charNum, live, info, crossed, tainted>>,
         NEW r \in requests, r.kind = "delete", Outstanding(r), r.reply = "none", NEW q,
         requests' = (requests \ {r}) \cup {q}, Answers(q, r),
         Named(r.guid) # {}, chars' = chars \ Named(r.guid)
  PROVE  CharsInv'
<1>1. /\ r \in Transactions(r.player, r.slot) /\ r.slot \in Slot
      /\ q.kind = "delete"
  BY CharsTypes DEF Transactions, SlotKind, Answers
<1>2. \A h : Named(h)' \subseteq Named(h)
  BY DEF Named
<1>3. \A h, x : Newest(h, x) => Newest(h, x)'
  BY <1>2 DEF Newest
<1>4. \A h : h # r.guid => Named(h)' = Named(h)
  BY DEF Named
<1>5. \A p, h, x : h # r.guid /\ Playable(p, h, x) => Playable(p, h, x)'
  BY <1>3, <1>4 DEF Playable, GoodCopy, OwnData
<1>6. ASSUME NEW p \in Player, NEW s \in Slot, Own(p, s), info[p][s].status = "LOADED"
      PROVE  info[p][s].guid # r.guid
  <2> SUFFICES ASSUME info[p][s].guid = r.guid PROVE FALSE
    OBVIOUS
  <2>1. p = r.player /\ s = r.slot
    BY SameSlot
  <2>2. info[p][s].status = "LOADING"
    BY <1>1, <1>6, <2>1 DEF SlotLocked, Own
  <2> QED
    BY <1>6, <2>2
<1>7. ASSUME NEW t \in requests, Answering(t), Own(t.player, t.slot)
      PROVE  t.guid # r.guid
  <2> SUFFICES ASSUME t.guid = r.guid PROVE FALSE
    OBVIOUS
  <2>1. t.player = r.player /\ t.slot = r.slot
    BY SameSlot
  <2>2. t \in Transactions(r.player, r.slot)
    BY <1>7, <2>1 DEF Transactions, SlotKind, Answering
  <2>3. t = r
    BY <1>1, <1>7, <2>1, <2>2 DEF SlotLocked, Own
  <2> QED
    BY <1>7, <2>3 DEF Answering
<1>8. \A x, s : Own(x, s)' => Own(x, s)
  BY OwnSame
<1>9. StoreInv'
  BY DEF CharsInv, StoreInv, OwnData
<1>10. PlayInv'
  <2>1. ASSUME NEW p \in Player, Playing(p)
        PROVE  Named(PlayedGuid(p))' # {} /\ Newest(PlayedGuid(p), live[p])'
    <3>1. PICK h, x : h = PlayedGuid(p) /\ x = live[p]
      OBVIOUS
    <3>2. GoodCopy(h, x) /\ Newest(h, x) /\ info[p][charNum[p]].status = "LOADED"
      BY <2>1, <3>1 DEF CharsInv, PlayInv
    <3>3. h # r.guid
      BY <1>6, <2>1, <3>1, <3>2, CharsTypes DEF Playing, PlayedGuid
    <3>4. PlayedGuid(p)' = h /\ live'[p] = x
      BY <3>1 DEF PlayedGuid
    <3>5. Named(h)' # {} /\ Newest(h, x)'
      BY <1>3, <1>4, <3>2, <3>3 DEF GoodCopy
    <3> QED
      BY <3>4, <3>5 DEF Named, Newest
  <2> QED
    BY <2>1, ServedPlays DEF CharsInv
<1>11. SlotInv'
  BY <1>5, <1>6, <1>8 DEF CharsInv, SlotInv
<1>12. AnswerInv'
  <2>1. ASSUME NEW t \in requests', Answering(t), Own(t.player, t.slot)
        PROVE  Playable(t.player, t.guid, t.data)'
    <3>1. t \in requests
      BY <1>1, <2>1 DEF Answering
    <3> QED
      BY <1>5, <1>7, <2>1, <3>1 DEF CharsInv, AnswerInv
  <2> QED
    BY <1>8, <2>1 DEF AnswerInv, Answering, Outstanding
<1>13. CreateInv'
  <2>1. ASSUME NEW t \in requests', Creating(t)
        PROVE  /\ t.data.of = <<t.player, t.id>> /\ t.data.ver = 0
               /\ t.reply = "none" => Named(<<t.player, t.id>>)' = {}
    <3>1. t \in requests
      BY <1>1, <2>1 DEF Creating
    <3> QED
      BY <1>2, <2>1, <3>1 DEF CharsInv, CreateInv
  <2> QED
    BY <2>1 DEF CreateInv, Creating, Outstanding
<1>14. UpdateInv'
  <2>1. ASSUME NEW t \in requests', Saving(t)
        PROVE  UpdateData(t)' /\ UpdatePlay(t.player, t.slot, t.data)'
    <3>1. t \in requests
      BY <1>1, <2>1 DEF Saving
    <3>2. UpdateData(t) /\ UpdatePlay(t.player, t.slot, t.data)
      BY <2>1, <3>1 DEF CharsInv, UpdateInv
    <3>3. UpdateData(t)'
      BY <1>3, <3>2 DEF UpdateData
    <3> QED
      BY <1>8, <3>2, <3>3, PlayKept
  <2> QED
    BY <2>1 DEF UpdateInv, Saving, Outstanding
<1>15. CreatesDiffer' /\ UpdatesDiffer'
  BY <1>1, ServedDiffer
<1> QED
  BY <1>9, <1>10, <1>11, <1>12, <1>13, <1>14, <1>15 DEF CharsInv


LEMMA CharsServe ==
  ASSUME TypeOK, GuidInv, SlotLocked, CharsInv, NEW r, BackendServes(r)
  PROVE  CharsInv'
<1>1. /\ r \in requests /\ r \in Request /\ Outstanding(r) /\ r.reply = "none"
      /\ UNCHANGED <<central, here, overtaken, charState, charNum, live, info, crossed, tainted>>
  BY BackendServesCases
  DEF BackendServes, Outstanding, EXECUTED, FINISHED, serverVars, playVars, slotVars, TypeOK
<1>2. PICK q : /\ requests' = (requests \ {r}) \cup {q}
               /\ Answers(q, r)
               /\ \/ q = Serve(r).answer /\ chars' = Serve(r).chars
                  \/ /\ q.reply # "ok" /\ q.guid = r.guid /\ q.data = r.data
                     /\ chars' \in {chars, Serve(r).chars}
  BY BackendServesCases
<1>3. CASE chars' = chars /\ q.reply # "ok" /\ q.guid = r.guid /\ q.data = r.data
  BY <1>1, <1>2, <1>3, ServedUnchanged DEF Answering
<1>4. ASSUME NEW o, q = [r EXCEPT !.reply = o]
      PROVE  q.guid = r.guid /\ q.data = r.data /\ q.reply = o
  BY <1>1, <1>4 DEF Request, RequestOf
<1>5. CASE r.kind = "load"
  <2>1. chars' = chars
    BY <1>2, <1>5 DEF Serve
  <2>2. CASE q = [r EXCEPT !.reply = "nocontent"]
    BY <1>3, <1>4, <2>1, <2>2
  <2>3. CASE CharOf(r) # {} /\ q = Serve(r).answer
    <3> DEFINE c == CHOOSE c \in CharOf(r) : TRUE
    <3>1. c \in chars
      BY <2>3 DEF CharOf
    <3>2. q = [r EXCEPT !.reply = "ok", !.guid = c.guid, !.data = c.data]
      BY <1>5, <2>3 DEF Serve
    <3> HIDE DEF c
    <3>3. q.guid = c.guid /\ q.data = c.data
      BY <1>1, <3>2 DEF Request, RequestOf
    <3>4. c.data.ver \in Int
      BY <3>1, CharsTypes
    <3>5. GoodCopy(q.guid, q.data) /\ Newest(q.guid, q.data)
      BY <3>1, <3>3, <3>4 DEF CharsInv, StoreInv, GoodCopy, Newest, Named
    <3>6. q.kind = "load"
      BY <1>2, <1>5 DEF Answers
    <3> QED
      BY <1>1, <1>2, <2>1, <3>5, <3>6, ServedUnchanged
  <2>4. q = Serve(r).answer => q = [r EXCEPT !.reply = "nocontent"] \/ CharOf(r) # {}
    BY <1>5 DEF Serve
  <2> QED
    BY <1>2, <1>3, <2>1, <2>2, <2>3, <2>4
<1>6. CASE r.kind = "create"
  <2> DEFINE g == <<r.player, r.id>>
             new == chars \cup {[guid |-> g, slot |-> r.slot, data |-> r.data]}
  <2>1. CASE CharOf(r) # {}
    <3>1. Serve(r).chars = chars /\ Serve(r).answer = [r EXCEPT !.reply = "servererror"]
      BY <1>6, <2>1 DEF Serve
    <3> QED
      BY <1>2, <1>3, <1>4, <3>1
  <2>2. CASE CharOf(r) = {}
    <3>1. Serve(r).chars = new /\ Serve(r).answer = [r EXCEPT !.reply = "ok", !.guid = g]
      BY <1>6, <2>2 DEF Serve
    <3>2. q = Serve(r).answer => q.guid = g /\ q.data = r.data
      BY <1>1, <3>1 DEF Request, RequestOf
    <3>3. q.data = r.data /\ (q.reply = "ok" => q.guid = g)
      BY <1>2, <3>2
    <3>4. CASE chars' = new
      BY <1>1, <1>2, <1>6, <3>3, <3>4, ServedCreate DEF Creating
    <3> QED
      BY <1>2, <1>3, <3>1, <3>4
  <2> QED
    BY <2>1, <2>2
<1>7. CASE r.kind = "update"
  <2>1. CASE Named(r.guid) = {}
    <3>1. Serve(r).chars = chars /\ Serve(r).answer = [r EXCEPT !.reply = "servererror"]
      BY <1>7, <2>1 DEF Serve
    <3> QED
      BY <1>2, <1>3, <1>4, <3>1
  <2>2. CASE Named(r.guid) # {}
    <3>1. /\ Serve(r).chars = {IF c.guid = r.guid THEN [c EXCEPT !.data = r.data] ELSE c : c \in chars}
          /\ Serve(r).answer = [r EXCEPT !.reply = "ok"]
      BY <1>7, <2>2 DEF Serve
    <3>2. q.guid = r.guid /\ q.data = r.data
      BY <1>2, <1>4, <3>1
    <3>3. CASE chars' = Serve(r).chars
      BY <1>1, <1>2, <1>7, <2>2, <3>1, <3>2, <3>3, ServedUpdate DEF Saving
    <3> QED
      BY <1>2, <1>3, <3>3
  <2> QED
    BY <2>1, <2>2
<1>8. CASE r.kind = "delete"
  <2>1. CASE Named(r.guid) = {}
    <3>1. Serve(r).chars = chars /\ Serve(r).answer = [r EXCEPT !.reply = "servererror"]
      BY <1>8, <2>1 DEF Serve
    <3> QED
      BY <1>2, <1>3, <1>4, <3>1
  <2>2. CASE Named(r.guid) # {}
    <3>1. Serve(r).chars = chars \ Named(r.guid)
      BY <1>8, <2>2 DEF Serve
    <3>2. CASE chars' = Serve(r).chars
      BY <1>1, <1>2, <1>8, <2>2, <3>1, <3>2, ServedDelete
    <3> QED
      BY <1>2, <1>3, <3>2
  <2> QED
    BY <2>1, <2>2
<1>9. CASE r.kind \in {"scripts", "map"}
  <2>1. Serve(r).chars = chars /\ Serve(r).answer = [r EXCEPT !.reply = "ok"]
    BY <1>9 DEF Serve
  <2>2. q.guid = r.guid /\ q.data = r.data /\ q.kind \in {"scripts", "map"}
    BY <1>2, <1>4, <1>9, <2>1 DEF Answers
  <2> QED
    BY <1>1, <1>2, <2>1, <2>2, ServedUnchanged DEF Answering
<1> QED
  BY <1>1, <1>5, <1>6, <1>7, <1>8, <1>9 DEF Request, RequestOf

\* A handler runs: a slot of somebody's own that it fills is the one its
\* request had locked.
LEMMA CharsDeliver ==
  ASSUME TypeOK, SlotLocked, CharsInv, NEW r, Deliver(r)
  PROVE  CharsInv'
<1>1. /\ r \in requests /\ r \in Request /\ Outstanding(r) /\ r.reply # "none"
      /\ r.slot \in Slot
      /\ UNCHANGED <<here, overtaken, charState, charNum, live, chars, crossed, tainted>>
      /\ \A q \in requests' : Outstanding(q) => q \in requests
  BY DeliverFinishes
  DEF Deliver, Outstanding, EXECUTED, FINISHED, playVars, storeVars, TypeOK, Request, RequestOf
<1>2. \A p, s : Own(p, s)' => Own(p, s)
  <2>1. central' = central \/ central' = FALSE
    BY DEF Deliver
  <2>2. central' => central
    BY <2>1, Zenon
  <2> QED
    BY <1>1, <2>2, OwnKept
<1> DEFINE got == IF r.reply = "banned" THEN JSON ELSE OnHTTPRequestCompleted(r.reply, FALSE)
<1>3. ASSUME NEW p \in Player, NEW s \in Slot, info'[p][s] # info[p][s], Own(p, s)
      PROVE  /\ r.kind \in SlotKind /\ p = r.player /\ s = r.slot
             /\ info[p][s].status = "LOADING"
             /\ info'[p][s] = SlotAfter(info[p][s], r, got)
  <2>1. /\ r.kind \in SlotKind /\ p \in UTIL_PlayerBySteamID(r.player)
        /\ info'[p] = [info[p] EXCEPT ![r.slot] = SlotAfter(@, r, got)]
    BY <1>3 DEF Deliver
  <2>2. s = r.slot /\ info'[p][s] = SlotAfter(info[p][s], r, got)
    BY <1>1, <1>3, <2>1, TypeOf
  <2>3. p = r.player
    BY <2>1 DEF UTIL_PlayerBySteamID
  <2>4. r \in Transactions(p, s)
    BY <1>1, <2>1, <2>2, <2>3 DEF Transactions
  <2> QED
    BY <1>3, <2>1, <2>2, <2>3, <2>4 DEF SlotLocked, Own
<1> HIDE DEF got
<1>4. ASSUME NEW p \in Player, NEW s \in Slot, Own(p, s), info'[p][s].status = "LOADED"
      PROVE  Playable(p, info'[p][s].guid, info'[p][s].data)
  <2>1. CASE info'[p][s] = info[p][s]
    BY <1>4, <2>1 DEF CharsInv, SlotInv
  <2>2. CASE info'[p][s] # info[p][s]
    <3>1. /\ r.kind \in SlotKind /\ p = r.player /\ s = r.slot
          /\ info[p][s].status = "LOADING" /\ info'[p][s] = SlotAfter(info[p][s], r, got)
      BY <1>3, <1>4, <2>2
    <3>2. info[p][s] \in CharInfo
      BY TypeOf
    <3>3. NotFound(info[p][s]).status = "NOTFOUND"
      BY <3>2 DEF NotFound, CharInfo
    <3>4. /\ r.kind \in {"load", "create"} /\ got # SILENT /\ got # NOJSON /\ r.reply # "banned"
          /\ info'[p][s] = AssignFromCentral(r.data, r.guid)
      BY <1>4, <3>1, <3>3 DEF SlotAfter, SlotKind
    <3>5. r.reply = "ok"
      BY <3>4 DEF got, OnHTTPRequestCompleted
    <3>6. info'[p][s].guid = r.guid /\ info'[p][s].data = r.data
      BY <3>4 DEF AssignFromCentral, AssignChar, Destroyed
    <3>7. Answering(r) /\ Own(r.player, r.slot)
      BY <1>1, <1>4, <3>1, <3>4, <3>5 DEF Answering
    <3> QED
      BY <1>1, <3>1, <3>6, <3>7 DEF CharsInv, AnswerInv
  <2> QED
    BY <2>1, <2>2
<1>5. StoreInv'
  BY <1>1, StoreKept DEF CharsInv
<1>6. PlayInv'
  <2>1. ASSUME NEW p \in Player, Playing(p)
        PROVE  info'[p][charNum[p]] = info[p][charNum[p]]
    <3>1. charNum[p] \in Slot /\ Own(p, charNum[p]) /\ info[p][charNum[p]].status = "LOADED"
      BY <2>1, CharsTypes DEF CharsInv, PlayInv, Playing
    <3> QED
      BY <1>3, <3>1
  <2> QED
    BY <1>1, <1>2, <2>1, PlaysKept DEF CharsInv
<1>7. SlotInv'
  BY <1>1, <1>2, <1>4 DEF SlotInv, Playable, GoodCopy, OwnData, Newest, Named
<1>8. AnswerInv'
  BY <1>1, <1>2, AnswersKept DEF CharsInv, Answering
<1>9. CreateInv'
  BY <1>1, CreatesKept DEF CharsInv, Creating
<1>10. UpdateInv'
  BY <1>1, <1>2, UpdatesKept DEF CharsInv, Saving
<1>11. CreatesDiffer' /\ UpdatesDiffer'
  BY <1>1 DEF CharsInv, CreatesDiffer, UpdatesDiffer, Creating, Saving, Outstanding
<1> QED
  BY <1>5, <1>6, <1>7, <1>8, <1>9, <1>10, <1>11 DEF CharsInv

\* Players are saved and leave.
LEMMA CharsLeave ==
  ASSUME TypeOK, GuidInv, CharsInv, NEW ps \in SUBSET here, SaveChar(ps), RemovePlayers(ps),
         UNCHANGED <<central, chars>>
  PROVE  CharsInv'
<1>1. here' = here \ ps /\ ps \in SUBSET Player
  BY DEF RemovePlayers, TypeOK
<1>2. ASSUME NEW p \in Player, p \notin ps
      PROVE  /\ p \in here' <=> p \in here
             /\ charState'[p] = charState[p] /\ charNum'[p] = charNum[p]
             /\ live'[p] = live[p] /\ info'[p] = info[p]
  BY <1>2 DEF RemovePlayers
<1>3. ASSUME NEW p \in Player, p \in ps
      PROVE  p \notin here' /\ charState'[p] = "UNLOADED"
  BY <1>3 DEF RemovePlayers
<1>4. \A p, s : Own(p, s)' => Own(p, s)
  BY OwnRemoved
<1>5. CASE IsEnabled
  BY <1>1, <1>2, <1>3, <1>4, <1>5, CharsSave
<1>6. CASE ~IsEnabled
  <2>1. UNCHANGED <<requests, crossed, tainted>>
    BY <1>6 DEF SaveChar
  <2>2. \A p, s : ~Own(p, s)'
    BY <1>6 DEF Own, IsEnabled
  <2>3. \A p \in Player : p \notin here' => charState'[p] = "UNLOADED"
    BY <1>2, <1>3 DEF CharsInv, PlayInv
  <2> QED
    BY <2>1, <2>2, <2>3, CharsApart
<1> QED
  BY <1>5, <1>6

LEMMA CharsStep ==
  ASSUME TypeOK, LoadedInv, GuidInv, SlotLocked, CharsInv, [Next]_vars
  PROVE  CharsInv'
<1>0. \A p \in Player : p \notin here => charState[p] = "UNLOADED"
  BY DEF CharsInv, PlayInv
<1>1. CASE MSWorldSpawn
  <2>1. UNCHANGED <<requests, chars, here, charState, crossed, tainted>>
    BY <1>1 DEF MSWorldSpawn, playVars, storeVars, queueVars
  <2>2. here = {}
    BY <1>1 DEF MSWorldSpawn, LoadedInv
  <2>3. \A p, s : ~Own(p, s)'
    BY <2>1, <2>2 DEF Own
  <2> QED
    BY <1>0, <2>1, <2>3, CharsApart
<1>2. CASE MSGameThink
  BY <1>2, FrameRequests, CharsPumped DEF MSGameThink, playVars, slotVars, storeVars
<1>3. CASE MSGameEnd
  BY <1>3, CharsLeave DEF MSGameEnd
<1>4. CASE SendAndWait
  BY <1>4, DrainRequests, CharsPumped DEF SendAndWait, playVars, slotVars, storeVars
<1>5. ASSUME ~IsEnabled, UNCHANGED <<central, requests, chars, crossed, tainted, charState>>,
             here \subseteq here'
      PROVE  CharsInv'
  <2>1. \A p, s : ~Own(p, s)'
    BY <1>5 DEF Own, IsEnabled
  <2> QED
    BY <1>0, <1>5, <2>1, CharsApart
<1>6. ASSUME NEW p \in Player, ClientPutInServer(p)
      PROVE  CharsInv'
  <2>1. CASE ~IsEnabled
    BY <1>5, <1>6, <2>1 DEF ClientPutInServer, serverVars, storeVars
  <2> QED
    BY <1>6, <2>1, CharsPutIn
<1>7. ASSUME NEW p \in Player, AutoSave(p)
      PROVE  CharsInv'
  <2>1. SaveChar({p}) /\ UNCHANGED <<central, here, overtaken, charState, charNum, live, info, chars>>
    BY <1>7 DEF AutoSave, serverVars, playVars, slotVars
  <2>2. CASE IsEnabled
    <3>1. \A x, s : Own(x, s)' => Own(x, s)
      BY <2>1, OwnSame
    <3> QED
      BY <2>1, <2>2, <3>1, CharsSave
  <2>3. CASE ~IsEnabled
    BY <1>5, <2>1, <2>3 DEF SaveChar
  <2> QED
    BY <2>2, <2>3
<1>8. ASSUME NEW p \in Player, ClientDisconnect(p)
      PROVE  CharsInv'
  BY <1>8, CharsLeave DEF ClientDisconnect, serverVars
<1>9. ASSUME NEW p \in Player, NEW s \in Slot, CreateChar(p, s)
      PROVE  CharsInv'
  <2>1. CASE ~IsEnabled
    BY <1>5, <1>9, <2>1 DEF CreateChar, serverVars
  <2> QED
    BY <1>9, <2>1, CharsCreate
<1>10. ASSUME NEW p \in Player, NEW s \in Slot, DeleteChar(p, s)
       PROVE  CharsInv'
  <2>1. CASE ~IsEnabled
    BY <1>5, <1>10, <2>1 DEF DeleteChar, serverVars, playVars
  <2> QED
    BY <1>10, <2>1, CharsDelete
<1>11. CASE UNCHANGED vars
  BY <1>11, CharsStutter DEF vars, serverVars, playVars, slotVars, storeVars, queueVars
<1> QED
  BY <1>1, <1>2, <1>3, <1>4, <1>6, <1>7, <1>8, <1>9, <1>10, <1>11,
     CharsShow, CharsPlay, CharsSelect, CharsServe, CharsDeliver, CharsSpoil
  DEF Next, PlayerStep

LEMMA CharsInit == Init => CharsInv
BY DEF Init, CharsInv, StoreInv, PlayInv, Playing, Own, SlotInv, AnswerInv, CreateInv,
       CreatesDiffer, UpdateInv, UpdatesDiffer

LEMMA CharsAlways == Spec => []CharsInv
<1>1. Init => LoadedInv
  BY DEF Init, LoadedInv
<1>2. TypeOK /\ LoadedInv /\ GuidInv /\ SlotLocked /\ CharsInv /\ [Next]_vars => CharsInv'
  BY CharsStep
<1> QED
  BY <1>1, <1>2, CharsInit, LoadedStep, TypeCorrect, GuidAlways, OneTransactionPerSlot, PTL
  DEF Spec

(***************************************************************************)
(* PlayedCharacterIsStored: between "char <slot>" and the end of play no   *)
(* delete, late answer or reload takes away the character somebody plays   *)
(* in a slot of his own, or changes the Guid his saves go to.              *)
(***************************************************************************)
THEOREM PlayedIsStored == Spec => []PlayedCharacterIsStored
<1>1. TypeOK /\ CharsInv => PlayedCharacterIsStored
  BY DEF TypeOK, CharsInv, PlayInv, Playing, PlayedGuid, Own, GoodCopy, OwnData,
         PlayedCharacterIsStored
<1> QED
  BY <1>1, TypeCorrect, CharsAlways, PTL

(***************************************************************************)
(* StoredUnderItsName: whatever requests are lost, and in whichever order  *)
(* the others are served, no update writes the data of one character over  *)
(* another, unless it was saved after a failed restore or in an overtaken  *)
(* slot.                                                                   *)
(***************************************************************************)
THEOREM NamesKept == Spec => []StoredUnderItsName
<1>1. CharsInv => StoredUnderItsName
  BY DEF CharsInv, StoreInv, OwnData, StoredUnderItsName
<1> QED
  BY <1>1, CharsAlways, PTL

\* What a character loses is lost in BackendServes, by an update whose data
\* is older than what is stored; and such a one has been overtaken, or is of
\* a character whose name is not to be relied upon.
LEMMA RollbackStep ==
  ASSUME TypeOK, CharsInv, [Next]_vars, NEW c \in chars, NEW d \in chars',
         c.guid = d.guid, Readable(d.data), d.data.ver < c.data.ver
  PROVE  c.guid \in crossed \cup tainted
<1>1. c.data.ver \in Int
  BY CharsTypes
<1>2. d \notin chars
  BY <1>1 DEF CharsInv, StoreInv
<1>3. ASSUME NEW e \in chars, BackendSpoils(e)
      PROVE  FALSE
  <2>1. d = [e EXCEPT !.data.ver = Unreadable]
    BY <1>2, <1>3 DEF BackendSpoils
  <2>2. d.data.ver = Unreadable
    BY <2>1 DEF TypeOK, StoredChar, Data
  <2> QED
    BY <2>2 DEF Readable
<1>4. PICK r \in requests : BackendServes(r)
  <2>1. chars' # chars
    BY <1>2
  <2> QED
    BY <1>3, <2>1 DEF Next, vars, MSWorldSpawn, MSGameThink, MSGameEnd, SendAndWait, PlayerStep,
       ClientPutInServer, Think_SendCharData, SelectChar, CreateChar, DeleteChar, Play, AutoSave,
       ClientDisconnect, Deliver, storeVars
<1>5. r \in Request /\ Outstanding(r) /\ r.reply = "none" /\ chars' = Serve(r).chars
  BY <1>2, <1>4, BackendServesCases DEF TypeOK, Outstanding, EXECUTED, FINISHED
<1>6. CASE r.kind = "create"
  <2>1. d = [guid |-> <<r.player, r.id>>, slot |-> r.slot, data |-> r.data]
    BY <1>2, <1>5, <1>6 DEF Serve
  <2>2. c \in Named(<<r.player, r.id>>)
    BY <2>1 DEF Named
  <2> QED
    BY <1>5, <1>6, <2>2 DEF CharsInv, CreateInv, Creating
<1>7. CASE r.kind = "update"
  <2>1. PICK e \in chars : d = IF e.guid = r.guid THEN [e EXCEPT !.data = r.data] ELSE e
    BY <1>2, <1>5, <1>7 DEF Serve
  <2>2. e.guid = r.guid /\ d.guid = e.guid /\ d.data = r.data
    BY <1>2, <2>1 DEF TypeOK, StoredChar
  <2>3. Newest(r.guid, r.data) => r.guid \in tainted
    <3>1. r.data.ver < c.data.ver /\ r.data.ver \in Int /\ c \in Named(r.guid)
      BY <2>2, CharsTypes DEF Named
    <3> QED
      BY <1>1, <3>1 DEF Newest
  <2>4. UpdateData(r)
    BY <1>5, <1>7 DEF CharsInv, UpdateInv, Saving
  <2> QED
    BY <1>5, <2>2, <2>3, <2>4 DEF UpdateData
<1>8. CASE r.kind \in {"load", "delete", "scripts", "map"}
  <2>1. Serve(r).chars \subseteq chars
    BY <1>8 DEF Serve
  <2> QED
    BY <1>2, <1>5, <2>1
<1> QED
  BY <1>5, <1>6, <1>7, <1>8 DEF Request, RequestOf

(***************************************************************************)
(* NoRollback: an update takes a stored character back only if another     *)
(* update of the same character, sent after it, was served before it, or   *)
(* if something was saved under its name after a failed restore or in an   *)
(* overtaken slot.                                                         *)
(***************************************************************************)
THEOREM OnlyCrossedUpdatesRollBack == Spec => NoRollback
<1>1. TypeOK /\ CharsInv /\ [Next]_vars
        => [\A c \in chars, d \in chars' :
              c.guid = d.guid /\ Readable(d.data) /\ d.data.ver < c.data.ver
                => c.guid \in crossed \cup tainted]_vars
  BY RollbackStep
<1> QED
  BY <1>1, TypeCorrect, CharsAlways, PTL DEF Spec, NoRollback
=============================================================================
