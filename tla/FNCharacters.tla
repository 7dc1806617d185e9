---------------------------- MODULE FNCharacters ----------------------------
(***************************************************************************)
(* The characters of the players of a dedicated Master Sword server: the   *)
(* slots of m_CharInfo, the character a player plays, the FuzzNet (FN)     *)
(* requests in flight, and the FN backend that keeps the characters.       *)
(*                                                                         *)
(* The main thread runs one handler at a time (a client command, a frame,  *)
(* a callback); requests leave and answers arrive between handlers, in any *)
(* order, and find their player by Steam id when they arrive.  The order   *)
(* of the vector of CRequestManager does not show here, as Steam carries   *)
(* the requests concurrently; see RequestManager for the vector itself.    *)
(***************************************************************************)
EXTENDS HTTPRequest, Integers

CONSTANTS
  Player,      \* Steam ids (steamID64)
  NumSlots,    \* MAX_CHARSLOTS
  NoGuid,      \* the empty charinfo_t::Guid
  NoPlayer,    \* the Steam id of a validation request, 0ULL
  Validations, \* the requests queued by FNShared::Validate that matter
  CentralCvar, \* the values ms_central_enabled takes at a map start
  Failures,    \* the outcomes other than "ok" and "nocontent" that happen
  BadRestores, \* why RestoreAllServer may fail
  MaxSerial,   \* bound: the request serial numbers of each player
  MaxVer       \* bound: progress of a character

ASSUME ConstantsAssumption ==
  /\ NumSlots \in Nat \ {0}
  /\ MaxSerial \in [Player -> Nat] /\ MaxVer \in Nat
  /\ NoGuid \notin Player \X Nat
  /\ NoPlayer \notin Player
  /\ Validations \subseteq {"scripts", "map"}
  /\ CentralCvar \subseteq BOOLEAN
  /\ Failures \subseteq (Outcome \ {"ok"}) \cup {"banned", "unsent"}
  /\ BadRestores \subseteq {"data", "name"}

Slot == 0 .. NumSlots - 1
Guid == Player \X Nat  \* the backend names a character after its creation

(***************************************************************************)
(* Character data.  Only two things about the serialised bytes matter:     *)
(* which character they were saved from, and how far it had got; Unreadable*)
(* stands for data ReadCharData rejects.                                   *)
(***************************************************************************)
Unreadable == -1
Data     == [of : Guid \cup {NoGuid}, ver : Nat \cup {Unreadable}]
NoData   == [of |-> NoGuid, ver |-> 0]           \* a character with nothing on it
NoFile   == [of |-> NoGuid, ver |-> Unreadable]  \* no save file
Readable(d) == d.ver # Unreadable

CharState  == {"UNLOADED", "LOADED", "LOADING"}              \* charstate_e
CharStatus == {"UNLOADED", "LOADING", "LOADED", "NOTFOUND"}  \* CDS_*
CharInfo   == [status : CharStatus, cached : CharStatus,
               guid : Guid \cup {NoGuid}, data : Data]
View       == [status : CharStatus, data : Data]

RequestOf(kinds, players) ==
  [kind   : kinds,
   id     : Nat,
   player : players,
   slot   : Slot,
   guid   : Guid \cup {NoGuid},
   data   : Data,
   state  : RequestState,
   reply  : Outcome \cup {"none", "banned"}]

Request == RequestOf({"load", "create", "update", "delete"}, Player)
             \cup RequestOf({"scripts", "map"}, {NoPlayer})

StoredChar == [guid : Guid, slot : Slot, data : Data]

VARIABLES
  phase,     \* "off", "running", "ending" (inside SendAndWait)
  central,   \* MSGlobals::CentralEnabled
  loaded,    \* CRequestManager::m_bLoaded
  validated, \* gFNInitialized
  requests,  \* CRequestManager::m_vRequests, as a set
  serial,    \* requests allocated so far, [Player -> Nat]
  here,      \* the players UTIL_PlayerBySteamID finds
  charState, \* m_CharacterState
  charNum,   \* m_CharacterNum
  live,      \* the character in the player entity
  overtaken, \* history: <<p, s>> when requests about slot s of an earlier
             \* connection were unanswered as player p connected again
  info,      \* m_CharInfo, [Player -> [Slot -> CharInfo]]
  view,      \* what the client was last told, [Player -> [Slot -> View]]
  files,     \* the server's own save files, [Player -> [Slot -> Data]]
  chars,     \* the characters the backend keeps
  crossed,   \* history: guids that had two updates outstanding at once
  tainted    \* history: guids under which a player saved whose restore had
             \* failed, or whose slot was overtaken

serverVars == <<phase, central, loaded, validated>>
playVars   == <<here, charState, charNum, live, overtaken>>
slotVars   == <<info, view>>
storeVars  == <<files, chars>>
queueVars  == <<requests, serial, crossed, tainted>>
vars == <<serverVars, playVars, slotVars, storeVars, queueVars>>

TypeOK ==
  /\ phase \in {"off", "running", "ending"}
  /\ central \in BOOLEAN /\ loaded \in BOOLEAN /\ validated \in BOOLEAN
  /\ requests \in SUBSET Request
  /\ serial \in [Player -> Nat]
  /\ here \in SUBSET Player
  /\ charState \in [Player -> CharState]
  /\ charNum \in [Player -> Slot]
  /\ live \in [Player -> Data]
  /\ info \in [Player -> [Slot -> CharInfo]]
  /\ view \in [Player -> [Slot -> View]]
  /\ files \in [Player -> [Slot -> Data]]
  /\ chars \in SUBSET StoredChar
  /\ overtaken \in SUBSET (Player \X Slot)
  /\ crossed \in SUBSET Guid
  /\ tainted \in SUBSET (Guid \cup {NoGuid})

\* charinfo_t::Destroy: the whole struct is zeroed.
Destroyed == [status |-> "UNLOADED", cached |-> "UNLOADED",
              guid |-> NoGuid, data |-> NoData]

BlankView == [status |-> "UNLOADED", data |-> NoData]

Init ==
  /\ phase = "off"
  /\ central = FALSE /\ loaded = FALSE /\ validated = FALSE
  /\ requests = {}
  /\ serial = [p \in Player |-> 0]
  /\ here = {}
  /\ charState = [p \in Player |-> "UNLOADED"]
  /\ charNum = [p \in Player |-> 0]
  /\ live = [p \in Player |-> NoData]
  /\ info = [p \in Player |-> [s \in Slot |-> Destroyed]]
  /\ view = [p \in Player |-> [s \in Slot |-> BlankView]]
  /\ files = [p \in Player |-> [s \in Slot |-> NoFile]]
  /\ chars = {}
  /\ overtaken = {} /\ crossed = {} /\ tainted = {}
-----------------------------------------------------------------------------
(* Helpers.                                                                *)

\* FNShared::IsEnabled, on a server that is not a LAN game and keeps the
\* characters itself (sv_lan 0, ms_serverchar 1, the default).
IsEnabled == central

Outstanding(r) == r.state # FINISHED

SlotKind == {"load", "create", "delete"}  \* the requests that change a slot

NewRequest(kind, p, n, s, g, d) ==
  [kind |-> kind, id |-> n, player |-> p, slot |-> s, guid |-> g, data |-> d,
   state |-> QUEUED, reply |-> "none"]

\* Bound: player p may still allocate n requests.
Room(p, n) == serial[p] + n <= MaxSerial[p]

\* Fault: a busy slot is not respected.
SlotFree_Bug(ci) == TRUE

\* "Busy, wait for callback!": the guard of every slot changing request.
SlotFree(ci) == ci.status # "LOADING"

\* A request that changes the slot is queued; the client will be told.
Busy(ci) == [ci EXCEPT !.cached = "UNLOADED", !.status = "LOADING"]

\* A handler found no character; "force an update!"
NotFound(ci) == [ci EXCEPT !.cached = "UNLOADED", !.status = "NOTFOUND"]

\* What a CHARINFO message tells the client of a slot.
ShownAs(ci) == [status |-> ci.status, data |-> IF ci.status = "LOADED" THEN ci.data ELSE NoData]

\* charinfo_t::AssignChar
AssignChar(d) ==
  [Destroyed EXCEPT !.data = d, !.status = IF Readable(d) THEN "LOADED" ELSE "NOTFOUND"]

\* Fault: the cached status is set along with the status.
AssignFromCentral_Bug(d, g) ==
  [AssignChar(d) EXCEPT !.guid = g, !.status = "LOADED", !.cached = "LOADED"]

\* The tail of the handlers of load and create: AssignChar, then Guid and
\* Status, whatever AssignChar found.
AssignFromCentral(d, g) ==
  [AssignChar(d) EXCEPT !.guid = g, !.status = "LOADED", !.cached = "UNLOADED"]

\* FNShared::LoadCharacter(pPlayer): a request for every slot not busy.
LoadRequests(p, slots) ==
  {NewRequest("load", p, serial[p] + s, s, NoGuid, NoData) :
     s \in {t \in Slot : SlotFree(slots[t])}}

BusySlots(slots) ==
  [s \in Slot |-> IF SlotFree(slots[s]) THEN Busy(slots[s]) ELSE slots[s]]

\* The other branch of PreLoadChars: the save files on the server.
FileSlots(slots, saved) ==
  [s \in Slot |-> IF saved[s] # NoFile THEN AssignChar(saved[s])
                  ELSE [slots[s] EXCEPT !.status = "NOTFOUND"]]

(***************************************************************************)
(* MSChar_Interface::SaveChar of a played character (pData NULL), for the  *)
(* players in ps.  The test of MaxHP against 15 never fires: CreateStats   *)
(* has run for every player in the server, and MaxHP is at least 15 then.  *)
(***************************************************************************)
CanSave(p) == charState[p] # "UNLOADED"

\* Fault: the URL is built from the first slot, not from the played one.
Update_Bug(p) ==
  NewRequest("update", p, serial[p], charNum[p], info[p][0].guid, live[p])

Update(p) ==
  NewRequest("update", p, serial[p], charNum[p], info[p][charNum[p]].guid, live[p])

\* Guids with an update outstanding.
Updating == {r.guid : r \in {q \in requests : q.kind = "update" /\ Outstanding(q)}}

\* What player p would save need not be the character its Guid names: his
\* restore failed, or answers to an earlier connection may have filled the
\* slot since, or emptied it.
Astray(p) == charState[p] = "LOADING" \/ <<p, charNum[p]>> \in overtaken

SaveChar(ps) ==
  LET savers == {p \in ps : CanSave(p)}
      new    == IF IsEnabled THEN {Update(p) : p \in savers} ELSE {}
  IN /\ IsEnabled => \A p \in savers : Room(p, 1)
     /\ requests' = requests \cup new
     /\ serial' = [p \in Player |-> IF IsEnabled /\ p \in savers THEN serial[p] + 1
                                                                 ELSE serial[p]]
     /\ crossed' = crossed \cup (({r.guid : r \in new} \cap Updating) \ {NoGuid})
     /\ tainted' = tainted \cup {r.guid : r \in {q \in new : Astray(q.player)}}
     /\ files' = IF IsEnabled THEN files
                 ELSE [p \in Player |-> IF p \in savers
                                        THEN [files[p] EXCEPT ![charNum[p]] = live[p]]
                                        ELSE files[p]]

\* The player entities of ps are freed; what they held goes with them.
RemovePlayers(ps) ==
  /\ here' = here \ ps
  /\ charState' = [p \in Player |-> IF p \in ps THEN "UNLOADED" ELSE charState[p]]
  /\ charNum' = [p \in Player |-> IF p \in ps THEN 0 ELSE charNum[p]]
  /\ live' = [p \in Player |-> IF p \in ps THEN NoData ELSE live[p]]
  /\ info' = [p \in Player |-> IF p \in ps THEN [s \in Slot |-> Destroyed] ELSE info[p]]
  /\ view' = [p \in Player |-> IF p \in ps THEN [s \in Slot |-> BlankView] ELSE view[p]]
  /\ overtaken' = {o \in overtaken : o[1] \notin ps}

SetSlot(p, s, ci) == info' = [info EXCEPT ![p][s] = ci]

QueueOne(r) ==
  /\ requests' = requests \cup {r}
  /\ serial' = [serial EXCEPT ![r.player] = @ + 1]
-----------------------------------------------------------------------------
(* A map starts, runs and ends.                                            *)

\* MSWorldSpawn reads ms_central_enabled and initialises the manager.
MSWorldSpawn ==
  /\ phase = "off"
  /\ phase' = "running"
  /\ central' \in CentralCvar
  /\ loaded' = (loaded \/ central')
  /\ UNCHANGED <<validated, playVars, slotVars, storeVars, queueVars>>

\* Fault: a save that got no answer is sent again.
Think_Resends(unsent) ==
  {[r EXCEPT !.state = EXECUTED, !.reply = IF Outstanding(r) THEN @ ELSE "none"] :
     r \in {q \in requests : Outstanding(q) \/ (q.kind = "update" /\ q.reply = "noresponse")}}

\* Fault: the case of the queued requests is lost.
Think_NeverSends(unsent) == {r \in requests : Outstanding(r)}

\* CRequestManager::Think: finished requests are deleted, queued ones sent;
\* `unsent' are those whose SendRequest fails.
Think(unsent) ==
  {IF r \in unsent THEN [r EXCEPT !.state = FINISHED] ELSE [r EXCEPT !.state = EXECUTED] :
     r \in {q \in requests : Outstanding(q)}}

Unsent == IF "unsent" \in Failures
          THEN SUBSET {r \in requests : r.state = QUEUED} ELSE {{}}

\* MSGameThink: the manager thinks; the first time, MSConnectFN validates.
MSGameThink ==
  /\ phase = "running"
  /\ \E unsent \in Unsent :
       LET kept == IF loaded THEN Think(unsent) ELSE requests
           new  == IF ~validated /\ IsEnabled
                   THEN {NewRequest(k, NoPlayer, 0, 0, NoGuid, NoData) : k \in Validations}
                   ELSE {}
       IN requests' = kept \cup new
  /\ validated' = (validated \/ IsEnabled)
  /\ UNCHANGED <<phase, central, loaded, playVars, slotVars, storeVars, serial, crossed, tainted>>

\* MSGameEnd up to SendAndWait: save everybody, then free every entity.
MSGameEnd ==
  /\ phase = "running"
  /\ SaveChar(here)
  /\ RemovePlayers(here)
  /\ IF loaded THEN phase' = "ending" /\ UNCHANGED validated
               ELSE phase' = "off" /\ validated' = FALSE
  /\ UNCHANGED <<central, loaded, chars>>

\* Fault: SendAndWait does not look whether anything is left.
Drained_Bug(reqs) == TRUE

\* The loop condition of SendAndWait; Steam's interface is there.
Drained(reqs) == reqs = {}

\* One round of SendAndWait: Think(true), then callbacks whose answers are
\* suppressed; when nothing is left, Shutdown and the rest of MSGameEnd.
SendAndWait ==
  /\ phase = "ending"
  /\ \E unsent \in Unsent :
       requests' = {IF r.reply = "none" THEN r ELSE [r EXCEPT !.state = FINISHED] :
                      r \in Think(unsent)}
  /\ IF Drained(requests') THEN phase' = "off" /\ loaded' = FALSE /\ validated' = FALSE
                       ELSE UNCHANGED <<phase, loaded, validated>>
  /\ UNCHANGED <<central, playVars, slotVars, storeVars, serial, crossed, tainted>>
-----------------------------------------------------------------------------
(* Players come, choose a character, play and go.                          *)

\* Requests of earlier connections of p that may still take effect.
Unanswered(p) == {r \in requests : r.player = p /\ Outstanding(r)}

\* ClientPutInServer: a zeroed player entity; Spawn calls PreLoadChars.
ClientPutInServer(p) ==
  /\ phase = "running"
  /\ p \notin here
  /\ here' = here \cup {p}
  /\ overtaken' = overtaken \cup {<<p, r.slot>> : r \in Unanswered(p)}
  /\ IF IsEnabled
     THEN /\ Room(p, NumSlots)
          /\ requests' = requests \cup LoadRequests(p, info[p])
          /\ serial' = [serial EXCEPT ![p] = @ + NumSlots]
          /\ info' = [info EXCEPT ![p] = BusySlots(@)]
     ELSE /\ info' = [info EXCEPT ![p] = FileSlots(@, files[p])]
          /\ UNCHANGED <<requests, serial>>
  /\ UNCHANGED <<serverVars, charState, charNum, live, view, storeVars, crossed, tainted>>

\* Fault: the loop over the slots stops one short.
SentSlots_Bug == 0 .. NumSlots - 2

SentSlots == Slot

\* Think_SendCharData: every slot whose status the client does not have.
Think_SendCharData(p) ==
  LET due == {s \in SentSlots : info[p][s].cached # info[p][s].status}
  IN /\ phase = "running" /\ p \in here
     /\ charState[p] # "LOADED"
     /\ due # {}
     /\ info' = [info EXCEPT ![p] = [s \in Slot |->
                   IF s \in due THEN [info[p][s] EXCEPT !.cached = info[p][s].status]
                                ELSE info[p][s]]]
     /\ view' = [view EXCEPT ![p] = [s \in Slot |->
                   IF s \in due THEN ShownAs(info[p][s]) ELSE view[p][s]]]
     /\ UNCHANGED <<serverVars, playVars, storeVars, queueVars>>

\* Fault: any slot that has a Guid can be selected, busy or not.
Selectable_Bug(ci) == ci.guid # NoGuid

Selectable(ci) == ci.status = "LOADED"

\* "char <slot>": LoadCharacter, RestoreAllServer.  When that fails it leaves
\* the player in CHARSTATE_LOADING, with m_CharacterNum as it was.
SelectChar(p, s) ==
  /\ phase = "running" /\ p \in here
  /\ charState[p] = "UNLOADED"
  /\ Selectable(info[p][s])
  /\ \/ /\ Readable(info[p][s].data)
        /\ charState' = [charState EXCEPT ![p] = "LOADED"]
        /\ charNum' = [charNum EXCEPT ![p] = s]
        /\ live' = [live EXCEPT ![p] = info[p][s].data]
     \/ /\ ~Readable(info[p][s].data) \/ "name" \in BadRestores
        /\ charState' = [charState EXCEPT ![p] = "LOADING"]
        /\ live' = [live EXCEPT ![p] = NoData]
        /\ UNCHANGED charNum
  /\ UNCHANGED <<serverVars, here, overtaken, slotVars, storeVars, queueVars>>

\* "char <slot> <name> <gender> <weapon>": CreateChar.  The character is
\* saved and forgotten; the slot fills when the answer or the file is read.
CreateChar(p, s) ==
  /\ phase = "running" /\ p \in here
  /\ charState[p] = "UNLOADED"
  /\ Room(p, 1)
  /\ charNum' = [charNum EXCEPT ![p] = s]
  /\ live' = [live EXCEPT ![p] = NoData]
  /\ LET new == [of |-> <<p, serial[p]>>, ver |-> 0]
     IN IF IsEnabled
        THEN /\ IF SlotFree(info[p][s])
                THEN /\ QueueOne(NewRequest("create", p, serial[p], s, NoGuid, new))
                     /\ SetSlot(p, s, Busy(info[p][s]))
                ELSE UNCHANGED <<requests, serial, info>>
             /\ UNCHANGED files
        ELSE /\ files' = [files EXCEPT ![p][s] = new]
             /\ info' = [info EXCEPT ![p] = FileSlots(@, files'[p])]
             /\ serial' = [serial EXCEPT ![p] = @ + 1]
             /\ UNCHANGED requests
  /\ UNCHANGED <<serverVars, here, charState, overtaken, view, chars, crossed, tainted>>

\* "char -1 <slot>": DeleteChar.
DeleteChar(p, s) ==
  /\ phase = "running" /\ p \in here
  /\ charState[p] = "UNLOADED"
  /\ IF IsEnabled
     THEN /\ SlotFree(info[p][s])
          /\ Room(p, 1)
          /\ QueueOne(NewRequest("delete", p, serial[p], s, info[p][s].guid, NoData))
          /\ SetSlot(p, s, Busy(info[p][s]))
          /\ UNCHANGED files
     ELSE /\ files' = [files EXCEPT ![p][s] = NoFile]
          /\ SetSlot(p, s, [info[p][s] EXCEPT !.status = "NOTFOUND"])
          /\ UNCHANGED <<requests, serial>>
  /\ UNCHANGED <<serverVars, playVars, view, chars, crossed, tainted>>

\* The character gains something worth saving.
Play(p) ==
  /\ phase = "running" /\ p \in here
  /\ charState[p] = "LOADED"
  /\ live[p].ver < MaxVer
  /\ live' = [live EXCEPT ![p].ver = @ + 1]
  /\ UNCHANGED <<serverVars, here, charState, charNum, overtaken, slotVars, storeVars, queueVars>>

\* AutoSave from PreThink, and the other callers of SaveChar during play.
AutoSave(p) ==
  /\ phase = "running" /\ p \in here
  /\ CanSave(p)
  /\ SaveChar({p})
  /\ UNCHANGED <<serverVars, playVars, slotVars, chars>>

\* ClientDisconnected: a last save, then the entity goes.
ClientDisconnect(p) ==
  /\ phase = "running" /\ p \in here
  /\ SaveChar({p})
  /\ RemovePlayers({p})
  /\ UNCHANGED <<serverVars, chars>>
-----------------------------------------------------------------------------
(* The backend answers, and the answers come back.                         *)

Replace(r, q) == requests' = (requests \ {r}) \cup {q}

CharOf(r) == {c \in chars : c.guid[1] = r.player /\ c.slot = r.slot}
Named(g)  == {c \in chars : c.guid = g}

\* What the backend does with r, and its answer: external, from the use the
\* handlers make of it.
Serve(r) ==
  CASE r.kind = "load" ->
         IF CharOf(r) = {} THEN [chars |-> chars, answer |-> [r EXCEPT !.reply = "nocontent"]]
         ELSE LET c == CHOOSE c \in CharOf(r) : TRUE
              IN [chars |-> chars,
                  answer |-> [r EXCEPT !.reply = "ok", !.guid = c.guid, !.data = c.data]]
    [] r.kind = "create" ->
         IF CharOf(r) # {} THEN [chars |-> chars, answer |-> [r EXCEPT !.reply = "servererror"]]
         ELSE LET g == <<r.player, r.id>>
              IN [chars |-> chars \cup {[guid |-> g, slot |-> r.slot, data |-> r.data]},
                  answer |-> [r EXCEPT !.reply = "ok", !.guid = g]]
    [] r.kind = "update" ->
         IF Named(r.guid) = {} THEN [chars |-> chars, answer |-> [r EXCEPT !.reply = "servererror"]]
         ELSE [chars |-> {IF c.guid = r.guid THEN [c EXCEPT !.data = r.data] ELSE c : c \in chars},
               answer |-> [r EXCEPT !.reply = "ok"]]
    [] r.kind = "delete" ->
         IF Named(r.guid) = {} THEN [chars |-> chars, answer |-> [r EXCEPT !.reply = "servererror"]]
         ELSE [chars |-> chars \ Named(r.guid), answer |-> [r EXCEPT !.reply = "ok"]]
    [] OTHER -> [chars |-> chars, answer |-> [r EXCEPT !.reply = "ok"]]

\* The request reaches the backend; its answer may be lost on the way back,
\* or the request itself may never be served.
BackendServes(r) ==
  /\ r \in requests /\ r.state = EXECUTED /\ r.reply = "none"
  /\ \/ /\ chars' = Serve(r).chars
        /\ \/ Replace(r, Serve(r).answer)
           \/ \E f \in Failures \cap {"noresponse", "empty", "badjson"} :
                Replace(r, [r EXCEPT !.reply = f])
           \/ /\ "banned" \in Failures /\ r.kind = "load"
              /\ Replace(r, [r EXCEPT !.reply = "banned"])
     \/ /\ \E f \in Failures \cap {"noresponse", "unauthorized", "servererror"} :
             Replace(r, [r EXCEPT !.reply = f])
        /\ UNCHANGED chars
  /\ UNCHANGED <<serverVars, playVars, slotVars, files, serial, crossed, tainted>>

\* A stored character is no longer one this server version can read.
BackendSpoils(c) ==
  /\ "data" \in BadRestores
  /\ c \in chars /\ Readable(c.data)
  /\ chars' = (chars \ {c}) \cup {[c EXCEPT !.data.ver = Unreadable]}
  /\ UNCHANGED <<serverVars, playVars, slotVars, files, queueVars>>

\* The slot after OnResponse of a slot changing request.
SlotAfter(ci, r, got) ==
  CASE got = SILENT \/ r.reply = "banned" -> ci
    [] r.kind = "delete"                  -> NotFound(ci)
    [] got = NOJSON                       -> NotFound(ci)
    [] OTHER                              -> AssignFromCentral(r.data, r.guid)

\* The player with this Steam id, if one is in the server.
UTIL_PlayerBySteamID(id) == {p \in here : p = id}

\* Fault: the slot the player used last.
AnsweredSlot_Bug(r) == charNum[r.player]

\* The slot an answer is for: the request's own copy of its number.
AnsweredSlot(r) == r.slot

\* OnHTTPRequestCompleted while the map runs.  The handler finds its player
\* by Steam id, whichever connection of that player it is by now.
Deliver(r) ==
  /\ phase = "running"
  /\ r \in requests /\ r.state = EXECUTED /\ r.reply # "none"
  /\ Replace(r, [r EXCEPT !.state = FINISHED])
  /\ LET got == IF r.reply = "banned" THEN JSON ELSE OnHTTPRequestCompleted(r.reply, FALSE)
     IN /\ info' = [p \in Player |->
                      IF r.kind \in SlotKind /\ p \in UTIL_PlayerBySteamID(r.player)
                      THEN [info[p] EXCEPT ![AnsweredSlot(r)] = SlotAfter(@, r, got)]
                      ELSE info[p]]
        /\ \/ UNCHANGED central
           \/ r.kind \in {"scripts", "map"} /\ got = JSON /\ central' = FALSE
  /\ UNCHANGED <<phase, loaded, validated, playVars, view, storeVars, serial, crossed, tainted>>

PlayerStep(p) ==
  \/ ClientPutInServer(p)
  \/ Think_SendCharData(p)
  \/ Play(p)
  \/ AutoSave(p)
  \/ ClientDisconnect(p)
  \/ \E s \in Slot : SelectChar(p, s) \/ CreateChar(p, s) \/ DeleteChar(p, s)

Next ==
  \/ MSWorldSpawn
  \/ MSGameThink
  \/ MSGameEnd
  \/ SendAndWait
  \/ \E p \in Player : PlayerStep(p)
  \/ \E r \in requests : BackendServes(r) \/ Deliver(r)
  \/ \E c \in chars : BackendSpoils(c)

Spec == Init /\ [][Next]_vars

(***************************************************************************)
(* Frames and callbacks keep coming, PreThink runs for every player, and   *)
(* the backend or Steam's timeout ends every call.  Nothing else has to    *)
(* happen: players and map changes are free.                               *)
(***************************************************************************)
RequestAt(p, n, A(_)) == \E r \in requests : r.player = p /\ r.id = n /\ A(r)

Fairness ==
  /\ WF_vars(MSGameThink)
  /\ WF_vars(SendAndWait)
  /\ \A p \in Player : WF_vars(Think_SendCharData(p))
  /\ \A p \in Player : \A n \in 0 .. MaxSerial[p] :
       WF_vars(RequestAt(p, n, BackendServes)) /\ WF_vars(RequestAt(p, n, Deliver))
  /\ WF_vars(RequestAt(NoPlayer, 0, BackendServes))
  /\ WF_vars(RequestAt(NoPlayer, 0, Deliver))

FairSpec == Spec /\ Fairness
-----------------------------------------------------------------------------
(* Properties that hold whatever comes late, is lost or goes wrong.        *)

(***************************************************************************)
(* A slot whose cached status equals its status is not sent again          *)
(* (Think_SendCharData), so the client must then have its present content: *)
(* every handler that fills, empties or locks a slot has to reset the      *)
(* cached status ("force an update!"), also when the status comes round to *)
(* the same value before the next Think.                                   *)
(***************************************************************************)
ClientViewCurrent ==
  \A p \in here, s \in Slot :
    LET ci == info[p][s]
    IN ci.cached = ci.status => view[p][s] = ShownAs(ci)

(***************************************************************************)
(* A save or a delete never reaches the character of another player or of  *)
(* another slot, although its URL was built from a Guid that some answer,  *)
(* perhaps to an earlier connection of the player, wrote into the slot.    *)
(***************************************************************************)
OnlyOwnCharacters ==
  \A r \in requests : r.kind \in {"update", "delete"} =>
    \A c \in Named(r.guid) : c.guid[1] = r.player /\ c.slot = r.slot

(***************************************************************************)
(* Requests exist only while the manager is loaded: none is queued that    *)
(* nobody would send, and none survives its map to be answered in another. *)
(***************************************************************************)
RequestsOnlyWhileLoaded == requests # {} => loaded /\ phase # "off"
-----------------------------------------------------------------------------
(* Slots and stored characters.  Three things the code lets happen are     *)
(* named by history variables, and the properties make an exception for    *)
(* the slots and the characters they have happened to, and for no other:   *)
(*  - overtaken: a player who connects again before the requests of his    *)
(*    earlier connection are answered gets their answers too;              *)
(*  - tainted: a save made in such a slot, or after a failed restore,      *)
(*    which leaves the player in CHARSTATE_LOADING with nothing on him;    *)
(*  - crossed: a save queued while another of that character is unanswered.*)

\* The requests of a slot that will still change it.
Transactions(p, s) ==
  {r \in requests : r.kind \in SlotKind /\ r.player = p /\ r.slot = s /\ Outstanding(r)}

(***************************************************************************)
(* CDS_LOADING is the lock of a slot: while a load, create or delete is    *)
(* under way the slot shows LOADING, and it is the only one, as long as FN *)
(* is on and no request of an earlier connection still concerns the slot.  *)
(***************************************************************************)
SlotLocked ==
  central => \A p \in here, s \in Slot : <<p, s>> \notin overtaken =>
    /\ Transactions(p, s) # {} => info[p][s].status = "LOADING"
    /\ \A q, r \in Transactions(p, s) : q = r

(***************************************************************************)
(* The character somebody plays exists: its slot stays LOADED, the slot's  *)
(* Guid names a stored character, and it is the one the player restored,   *)
(* unless something else was saved under that name before.                 *)
(***************************************************************************)
PlayedCharacterIsStored ==
  central => \A p \in here :
    charState[p] = "LOADED" /\ <<p, charNum[p]>> \notin overtaken =>
      LET ci == info[p][charNum[p]]
      IN /\ ci.status = "LOADED"
         /\ Named(ci.guid) # {}
         /\ ci.guid \in tainted \/ live[p].of = ci.guid

(***************************************************************************)
(* No character is ever overwritten with the data of another, but by a     *)
(* save made after a failed restore or in an overtaken slot.               *)
(***************************************************************************)
StoredUnderItsName == \A c \in chars : c.guid \in tainted \/ c.data.of = c.guid

(***************************************************************************)
(* A stored character falls back to an older state only if two updates of  *)
(* it were outstanding at once, or if it was saved after a failed restore  *)
(* or in an overtaken slot.  Update requests carry no version and their    *)
(* answers are ignored, so two of them may be applied in either order;     *)
(* nothing else rolls a character back.                                    *)
(***************************************************************************)
NoRollback ==
  [][\A c \in chars, d \in chars' :
       c.guid = d.guid /\ Readable(d.data) /\ d.data.ver < c.data.ver
         => c.guid \in crossed \cup tainted]_vars
-----------------------------------------------------------------------------
(* What comments of the code say.                                          *)

(***************************************************************************)
(* "Somebody is still loading a character from the Central Server.  Wait   *)
(* for success or an error" (multiplay_gamerules.cpp:277): a slot that is  *)
(* LOADING gets the one or the other.                                      *)
(***************************************************************************)
LoadingEnds ==
  \A p \in Player, s \in Slot : info[p][s].status = "LOADING" ~> info[p][s].status # "LOADING"

\* A slot is never locked for good by a request that does not end.
TransactionsEnd ==
  \A p \in Player, s \in Slot : Transactions(p, s) # {} ~> Transactions(p, s) = {}

\* The client of a player in the character menu gets to see every slot.
ClientCatchesUp ==
  \A p \in Player, s \in Slot :
    info[p][s].cached # info[p][s].status
      ~> info[p][s].cached = info[p][s].status \/ charState[p] = "LOADED"
=============================================================================
