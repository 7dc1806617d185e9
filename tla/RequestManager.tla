--------------------------- MODULE RequestManager ---------------------------
(***************************************************************************)
(* CRequestManager (src/game/server/fn/RequestManager.cpp), the HTTPRequest*)
(* objects it owns and CSteamServerHelper, driven by the map life cycle of *)
(* svglobals.cpp.  Everything but Steam runs on the game's main thread:    *)
(*                                                                         *)
(*   MSWorldSpawn    a map starts; Init loads the manager                  *)
(*   MSGameThink     each frame; Think walks the vector from its end       *)
(*   RunCallbacks    the engine delivers the calls Steam has finished      *)
(*   MSGameEnd       the map is over; SendAndWait pumps the vector dry     *)
(*                                                                         *)
(* Steam finishes the calls in any order and at any moment.  Which request *)
(* it is and what its handler does is the matter of FNCharacters.          *)
(***************************************************************************)
EXTENDS HTTPRequest, Naturals, Sequences, SequencesExt

CONSTANTS
  Req,              \* the request objects that may ever be allocated
  Dedicated,        \* IS_DEDICATED_SERVER()
  SteamAvailable    \* what "SteamHTTP() is not null" may turn out to be

ASSUME ConfigAssumption == Dedicated \in BOOLEAN /\ SteamAvailable \subseteq BOOLEAN

VARIABLES
  mode,        \* "off", "running", "drain" (inside SendAndWait), "crashed"
  enabled,     \* FNShared::IsEnabled()
  m_bLoaded,   \* CRequestManager::m_bLoaded
  m_vRequests, \* CRequestManager::m_vRequests
  http,        \* g_SteamHTTPContext # nullptr
  tryLoad,     \* g_bTryLoadSteamAPI
  obj,         \* the objects' fields, [Req -> Object]
  call,        \* the Steam call of a request, [Req -> Call]
  answers      \* history: how often OnResponse was called, [Req -> Nat]

steamVars == <<http, tryLoad>>
vars == <<mode, enabled, m_bLoaded, m_vRequests, steamVars, obj, call, answers>>

Object == [life     : {"unborn", "live", "deleted"},
           state    : RequestState,
           handle   : BOOLEAN,
           suppress : BOOLEAN]

\* "pending": Steam works on it; an Outcome: finished, callback not yet run.
Call == {"none", "pending", "over"} \cup Outcome

NewObject == [life |-> "unborn", state |-> QUEUED, handle |-> FALSE, suppress |-> FALSE]

TypeOK ==
  /\ mode \in {"off", "running", "drain", "crashed"}
  /\ {enabled, m_bLoaded, http, tryLoad} \subseteq BOOLEAN
  /\ m_vRequests \in Seq(Req)
  /\ obj \in [Req -> Object]
  /\ call \in [Req -> Call]
  /\ answers \in [Req -> Nat]

Init ==
  /\ mode = "off"
  /\ enabled = FALSE
  /\ m_bLoaded = FALSE
  /\ m_vRequests = <<>>
  /\ http = FALSE
  /\ tryLoad = TRUE
  /\ obj = [r \in Req |-> NewObject]
  /\ call = [r \in Req |-> "none"]
  /\ answers = [r \in Req |-> 0]
-----------------------------------------------------------------------------
(***************************************************************************)
(* Think.  The loop body at vector index i, on a record of what it may     *)
(* change.  `unsent' is the set of requests whose SendRequest fails, in    *)
(* CreateHTTPRequest or in SendHTTPRequest: Cleanup finishes those on the  *)
(* spot, and their handler is never called.                                *)
(***************************************************************************)
SendRequest_Bug(s, r, unsent) ==  \* fault: no Cleanup when SendHTTPRequest fails
  IF r \in unsent
  THEN [s EXCEPT !.obj[r].state = EXECUTED, !.obj[r].handle = TRUE]
  ELSE [s EXCEPT !.obj[r].state = EXECUTED, !.obj[r].handle = TRUE,
                 !.call[r] = "pending"]

SendRequest(s, r, unsent) ==
  IF r \in unsent
  THEN [s EXCEPT !.obj[r].state = FINISHED, !.obj[r].handle = FALSE]
  ELSE [s EXCEPT !.obj[r].state = EXECUTED, !.obj[r].handle = TRUE,
                 !.call[r] = "pending"]

Visit_Bug(s, i, suppressResp, unsent) ==  \* fault: delete without erase
  LET r == s.v[i]
      t == [s EXCEPT !.obj[r].suppress = suppressResp]
  IN CASE s.obj[r].state = QUEUED   -> SendRequest(t, r, unsent)
       [] s.obj[r].state = FINISHED -> [t EXCEPT !.obj[r].life = "deleted"]
       [] s.obj[r].state = EXECUTED -> t

Visit(s, i, suppressResp, unsent) ==
  LET r == s.v[i]
      t == [s EXCEPT !.obj[r].suppress = suppressResp]
  IN CASE s.obj[r].state = QUEUED   -> SendRequest(t, r, unsent)
       [] s.obj[r].state = FINISHED -> [t EXCEPT !.v = RemoveAt(t.v, i),
                                                 !.obj[r].life = "deleted"]
       [] s.obj[r].state = EXECUTED -> t

\* Fault: the loop runs upwards, and an erase makes it skip an element.
ThinkLoop_Bug(suppressResp, unsent) ==
  LET n == Len(m_vRequests)
      after[k \in 0 .. n] ==
        IF k = 0 THEN [v |-> m_vRequests, obj |-> obj, call |-> call]
        ELSE IF k > Len(after[k - 1].v) THEN after[k - 1]
        ELSE Visit(after[k - 1], k, suppressResp, unsent)
  IN after[n]

\* The whole loop: index Len(v) first, index 1 last.  The sets of one make
\* TLC evaluate each round once, also under the fairness conditions.
ThinkLoop(suppressResp, unsent) ==
  LET n == Len(m_vRequests)
      after[k \in 0 .. n] ==
        IF k = 0 THEN [v |-> m_vRequests, obj |-> obj, call |-> call]
        ELSE CHOOSE t \in {Visit(s, n - k + 1, suppressResp, unsent) : s \in {after[k - 1]}} : TRUE
  IN after[n]

\* Members of the vector that Think would pass to SendRequest.
ToSend == {r \in Req : r \in ToSet(m_vRequests) /\ obj[r].state = QUEUED}

\* Fault: ReleaseHandle drops the handle but not the state.
Completed_Bug(o, done) ==
  [r \in Req |-> IF r \in done THEN [o[r] EXCEPT !.handle = FALSE] ELSE o[r]]

\* Delivery of the finished calls in `done': OnHTTPRequestCompleted.
Completed(o, done) ==
  [r \in Req |-> IF r \in done THEN [o[r] EXCEPT !.handle = FALSE, !.state = FINISHED]
                               ELSE o[r]]

Answered(o, done) ==
  {r \in done : OnHTTPRequestCompleted(call[r], o[r].suppress) # SILENT}

Done == {r \in Req : call[r] \in Outcome}
-----------------------------------------------------------------------------
\* MSWorldSpawn: the cvars decide anew whether FN is enabled; Init.
MSWorldSpawn ==
  /\ mode = "off"
  /\ mode' = "running"
  /\ enabled' \in BOOLEAN
  /\ m_bLoaded' = (m_bLoaded \/ (enabled' /\ Dedicated))
  /\ UNCHANGED <<m_vRequests, steamVars, obj, call, answers>>

\* Game code queues a request; every caller has tested IsEnabled.  The
\* callers are MSGameThink itself and the players, and the engine runs the
\* first frames of a map before it puts a player in the server.
QueueRequest(r) ==
  /\ mode = "running"
  /\ enabled
  /\ ~tryLoad
  /\ obj[r].life = "unborn"
  /\ obj' = [obj EXCEPT ![r].life = "live"]
  /\ m_vRequests' = Append(m_vRequests, r)
  /\ UNCHANGED <<mode, enabled, m_bLoaded, steamVars, call, answers>>

\* MSGameThink: CSteamServerHelper::Think, then CRequestManager::Think().
\* SendRequest calls through g_SteamHTTPContext without a test.
MSGameThink ==
  /\ mode = "running"
  /\ \E up \in SteamAvailable : http' = IF tryLoad THEN up ELSE http
  /\ tryLoad' = FALSE
  /\ IF m_bLoaded /\ ToSend # {} /\ ~http'
     THEN mode' = "crashed" /\ UNCHANGED <<m_vRequests, obj, call>>
     ELSE /\ UNCHANGED mode
          /\ IF m_bLoaded
             THEN \E unsent \in SUBSET ToSend :
                  \E t \in {ThinkLoop(FALSE, unsent)} :
                    m_vRequests' = t.v /\ obj' = t.obj /\ call' = t.call
             ELSE UNCHANGED <<m_vRequests, obj, call>>
  /\ UNCHANGED <<enabled, m_bLoaded, answers>>

\* Steam finishes a call, on its own threads.
SteamCompletes(r, o) ==
  /\ call[r] = "pending"
  /\ call' = [call EXCEPT ![r] = o]
  /\ UNCHANGED <<mode, enabled, m_bLoaded, m_vRequests, steamVars, obj, answers>>

\* The engine runs the callbacks between two frames.  The answer to a
\* validation request may turn FN off for the rest of the map.
RunCallbacks ==
  /\ mode = "running"
  /\ Done # {}
  /\ obj' = Completed(obj, Done)
  /\ call' = [r \in Req |-> IF r \in Done THEN "over" ELSE call[r]]
  /\ answers' = [r \in Req |-> answers[r] + IF r \in Answered(obj, Done) THEN 1 ELSE 0]
  /\ \/ UNCHANGED enabled
     \/ Answered(obj, Done) # {} /\ enabled' = FALSE
  /\ UNCHANGED <<mode, m_bLoaded, m_vRequests, steamVars>>

\* MSGameEnd up to SendAndWait, which does nothing unless the manager is
\* loaded; without it, the rest of MSGameEnd.
MSGameEnd ==
  /\ mode = "running"
  /\ IF m_bLoaded THEN mode' = "drain" /\ UNCHANGED steamVars
                  ELSE mode' = "off" /\ http' = FALSE /\ tryLoad' = TRUE
  /\ UNCHANGED <<enabled, m_bLoaded, m_vRequests, obj, call, answers>>

\* Fault: a test of the interface only.
KeepWaiting_Forever(up, v) == up

\* The condition of the do loop of SendAndWait.
KeepWaiting(up, v) == up /\ Len(v) > 0

\* One round of the do loop of SendAndWait: Think(true), RunCallbacks, the
\* test; after the last round Shutdown and the rest of MSGameEnd.
SendAndWait ==
  /\ mode = "drain"
  /\ IF ToSend # {} /\ ~http
     THEN mode' = "crashed" /\ UNCHANGED <<m_bLoaded, m_vRequests, steamVars, obj, call, answers>>
     ELSE \E unsent \in SUBSET ToSend :
          \E t \in {ThinkLoop(TRUE, unsent)} :
            LET done == {r \in Req : t.call[r] \in Outcome}
            IN /\ obj' = Completed(t.obj, done)
               /\ call' = [r \in Req |-> IF r \in done THEN "over" ELSE t.call[r]]
               /\ answers' = [r \in Req |-> answers[r] + IF r \in Answered(t.obj, done) THEN 1 ELSE 0]
               /\ IF KeepWaiting(http, t.v)
                  THEN m_vRequests' = t.v /\ UNCHANGED <<mode, m_bLoaded, steamVars>>
                  ELSE /\ m_vRequests' = <<>>
                       /\ m_bLoaded' = FALSE
                       /\ mode' = "off"
                       /\ http' = FALSE
                       /\ tryLoad' = TRUE
  /\ UNCHANGED enabled

Next ==
  \/ MSWorldSpawn
  \/ MSGameThink
  \/ RunCallbacks
  \/ MSGameEnd
  \/ SendAndWait
  \/ \E r \in Req : QueueRequest(r)
  \/ \E r \in Req, o \in Outcome : SteamCompletes(r, o)

Spec == Init /\ [][Next]_vars

(***************************************************************************)
(* The engine calls StartFrame and the Steam callbacks every frame, the    *)
(* loop of SendAndWait spins, and Steam ends every call, with a timeout if *)
(* need be.  Nobody has to start or end a map, or queue a request.         *)
(***************************************************************************)
Fairness ==
  /\ WF_vars(MSGameThink)
  /\ WF_vars(RunCallbacks)
  /\ WF_vars(SendAndWait)
  /\ \A r \in Req : WF_vars(\E o \in Outcome : SteamCompletes(r, o))

FairSpec == Spec /\ Fairness
-----------------------------------------------------------------------------
(***************************************************************************)
(* Ownership: the vector holds every live object exactly once and no       *)
(* deleted one.  Think erases from the vector it is walking, and Shutdown  *)
(* clears it without deleting, so an object could be lost, leaked or kept  *)
(* past its delete.                                                        *)
(***************************************************************************)
VectorOwnsLiveObjects ==
  /\ \A i, j \in DOMAIN m_vRequests : m_vRequests[i] = m_vRequests[j] => i = j
  /\ \A r \in Req : r \in ToSet(m_vRequests) <=> obj[r].life = "live"

(***************************************************************************)
(* A request is EXECUTED, with an open handle, exactly while Steam owes it *)
(* a callback: so no object is deleted under a call in flight, no handle   *)
(* stays open behind a finished one, and none waits for a callback that    *)
(* will not come.                                                          *)
(***************************************************************************)
ExecutedMeansCallPending ==
  \A r \in Req :
    LET waiting == call[r] = "pending" \/ call[r] \in Outcome
    IN /\ waiting <=> obj[r].state = EXECUTED
       /\ waiting <=> obj[r].handle
       /\ waiting => obj[r].life = "live"

(***************************************************************************)
(* One Think reaches every element although it erases while it walks: the  *)
(* requests that were queued before the frame have been sent (or failed)   *)
(* after it, those that were finished are deleted.                         *)
(***************************************************************************)
ThinkReachesEveryRequest ==
  [][(MSGameThink \/ SendAndWait) /\ m_bLoaded /\ mode' # "crashed" =>
       \A r \in ToSet(m_vRequests) :
         /\ obj[r].state = QUEUED => obj'[r].state # QUEUED
         /\ obj[r].state = FINISHED => obj'[r].life = "deleted"]_vars

(***************************************************************************)
(* MSGameEnd blocks the server in SendAndWait until the vector is empty;   *)
(* it always gets there, as every call ends and no handler queues more.    *)
(***************************************************************************)
SendAndWaitReturns == mode = "drain" ~> mode = "off"

\* A queued request is sent, finished and deleted, during its map or in
\* SendAndWait: the vector cannot clog.
EveryRequestEnds == \A r \in Req : obj[r].life = "live" ~> obj[r].life = "deleted"

(***************************************************************************)
(* The manager implements RequestPool on a dedicated server: handlers are  *)
(* called at most once per request, and never after the map is over, when  *)
(* the players they would write to have been freed.                        *)
(***************************************************************************)
FateOf(r) ==
  CASE obj[r].life = "unborn"  -> "new"
    [] obj[r].life = "deleted" -> "gone"
    [] OTHER -> IF obj[r].state # FINISHED THEN "waiting"
                ELSE IF answers[r] > 0 THEN "answered" ELSE "dropped"

Pool == INSTANCE RequestPool WITH fate <- [r \in Req |-> FateOf(r)],
                                  open <- mode = "running"

ImplementsRequestPool == Pool!PoolSpec
=============================================================================
