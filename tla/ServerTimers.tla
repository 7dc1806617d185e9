---------------------------- MODULE ServerTimers ----------------------------
(***************************************************************************)
(* The timers of CHalfLifeMultiplay::Think that change the map by          *)
(* themselves: one returns an empty server to its start map, two move      *)
(* players none of whom may join the running map to the start map.  They   *)
(* race with players who connect and leave and with characters that the    *)
(* central server is still sending.                                        *)
(*                                                                         *)
(* Times are absolute, as in the code, and 0 means "not set"; the clock    *)
(* starts again at 1 with every map, g_ServerResetTimer does not.  The map *)
(* is one on which no character can be created: on others everybody can    *)
(* join.                                                                   *)
(***************************************************************************)
EXTENDS Naturals

CONSTANTS
  Client,       \* the players
  CentralCvar,  \* what FNShared::IsEnabled may be on a map; without it the
                \* characters are in the server's own files
  ms_reset_time, ms_joinreset, SwitchDelay,
  MaxTime       \* bound: how long a map is watched

ASSUME TimersAssumption ==
  /\ CentralCvar \subseteq BOOLEAN
  /\ ms_reset_time \in Nat /\ ms_joinreset \in Nat /\ SwitchDelay \in Nat
  /\ MaxTime \in Nat \ {0}

Status == {"LOADING", "joinable", "barred", "NOTFOUND"}

VARIABLES
  now,         \* gpGlobals->time
  central,     \* FNShared::IsEnabled on this map
  resetTimer,  \* g_ServerResetTimer
  checkTime,   \* m_TimeCheckSwitchToStartMap
  switchTime,  \* m_TimeSwitchToNewMap
  command,     \* the server command the engine is about to execute
  here,        \* the players in the server
  greeted,     \* those InitHUD has been called for
  status,      \* the best character of each player
  canJoin,     \* m_CanJoin
  playing,     \* the players whose character is in the world
  empty,       \* history: frames the server has been empty for, counted
               \* up to ms_reset_time
  unchecked    \* history: somebody left, or a load failed, after the last
               \* check of who can join

timers == <<resetTimer, checkTime, switchTime, command>>
joined == <<here, greeted, status, canJoin, playing>>
observed == <<empty, unchecked>>
timersVars == <<now, central, timers, joined, observed>>

Command == {"none", "map", "changelevel"}

TimersTypeOK ==
  /\ now \in 1 .. MaxTime
  /\ central \in BOOLEAN
  /\ resetTimer \in Nat
  /\ checkTime \in 0 .. now + ms_joinreset
  /\ switchTime \in 0 .. now + SwitchDelay
  /\ command \in Command
  /\ here \subseteq Client /\ greeted \subseteq here /\ playing \subseteq here
  /\ status \in [Client -> Status]
  /\ canJoin \subseteq here
  /\ empty \in 0 .. ms_reset_time
  /\ unchecked \in BOOLEAN

TimersInit ==
  /\ now = 1
  /\ central \in CentralCvar
  /\ resetTimer = 0 /\ checkTime = 0 /\ switchTime = 0
  /\ command = "none"
  /\ here = {} /\ greeted = {} /\ canJoin = {} /\ playing = {}
  /\ status = [p \in Client |-> "NOTFOUND"]
  /\ empty = 0 /\ unchecked = FALSE
-----------------------------------------------------------------------------
\* Fault: a character still on its way does not count.
IsAnyPlayerAllowedInMap_Bug == canJoin # {}

\* Fault: whoever is connected counts.
IsAnyPlayerAllowedInMap_Anyone == here # {}

\* CHalfLifeMultiplay::IsAnyPlayerAllowedInMap.
IsAnyPlayerAllowedInMap == \E p \in here : status[p] = "LOADING" \/ p \in canJoin

\* Fault: the timer runs while players are in the server, too.
ResetTimer_Bug(t) ==
  IF ms_reset_time > 0 /\ resetTimer = 0 THEN t + ms_reset_time ELSE resetTimer

\* g_ServerResetTimer as Think finds it due or not: stopped by players,
\* started on an empty server.
ResetTimer(t) ==
  IF here # {} THEN 0
  ELSE IF ms_reset_time > 0 /\ resetTimer = 0 THEN t + ms_reset_time
  ELSE resetTimer

\* CHalfLifeMultiplay::Think at time t = now'.
Think(t) ==
  LET timer   == ResetTimer(t)
      reset   == ms_reset_time > 0 /\ here = {} /\ t >= timer
      check   == ms_joinreset > 0 /\ checkTime # 0 /\ t > checkTime
      switch  == IF check /\ ~IsAnyPlayerAllowedInMap THEN t + SwitchDelay ELSE switchTime
      due     == switch # 0 /\ t >= switch
  IN /\ resetTimer' = IF reset THEN 0 ELSE timer
     /\ checkTime' = IF check THEN 0 ELSE checkTime
     /\ switchTime' = IF due THEN 0 ELSE switch
     /\ command' = IF due /\ ~IsAnyPlayerAllowedInMap THEN "changelevel"
                   ELSE IF reset THEN "map" ELSE "none"

\* A frame of the server; time stands still where the bound is reached.
ThinkFrame ==
  /\ command = "none" /\ now < MaxTime
  /\ now' = now + 1
  /\ Think(now')
  /\ empty' = CASE here # {} -> 0
                [] here = {} /\ empty < ms_reset_time -> empty + 1
                [] OTHER -> empty
  /\ UNCHANGED <<joined, central, unchecked>>

\* The engine executes the command, or an administrator changes the map: new
\* rules and new player entities; MSWorldSpawn reads ms_central_enabled.
NewMap ==
  /\ now' = 1
  /\ central' \in CentralCvar
  /\ checkTime' = 0 /\ switchTime' = 0 /\ command' = "none"
  /\ here' = {} /\ greeted' = {} /\ canJoin' = {} /\ playing' = {}
  /\ status' = [p \in Client |-> "NOTFOUND"]
  /\ unchecked' = FALSE
  /\ UNCHANGED <<resetTimer, empty>>
-----------------------------------------------------------------------------
\* charinfo_t::AssignChar: a character that may join sets m_CanJoin.
Joinable(s) == s = "joinable"

\* ClientConnected and ClientPutInServer: the characters are read, or asked
\* for.
Connect(p) ==
  /\ p \notin here
  /\ here' = here \cup {p}
  /\ resetTimer' = 0
  /\ \E s \in IF central THEN {"LOADING"} ELSE Status \ {"LOADING"} :
       /\ status' = [status EXCEPT ![p] = s]
       /\ canJoin' = IF Joinable(s) THEN canJoin \cup {p} ELSE canJoin
  /\ empty' = 0
  /\ UNCHANGED <<now, central, checkTime, switchTime, command, greeted, playing, unchecked>>

\* UpdateClientData, the first time: CHalfLifeMultiplay::InitHUD.
FirstInitHUD(p) ==
  /\ p \in here \ greeted
  /\ greeted' = greeted \cup {p}
  /\ checkTime' = IF p \notin canJoin /\ ms_joinreset > 0 THEN now + ms_joinreset
                                                         ELSE checkTime
  /\ unchecked' = (unchecked /\ (p \in canJoin \/ ms_joinreset = 0))
  /\ UNCHANGED <<now, central, resetTimer, switchTime, command, here, status, canJoin,
                 playing, empty>>

\* No check of who can join is to come.
CheckIsOver == checkTime = 0 /\ switchTime = 0

\* The answer of the central server (AssignCharFromCentral, or an error).
LoadAnswered(p) ==
  /\ p \in here /\ status[p] = "LOADING"
  /\ \E s \in Status \ {"LOADING"} :
       /\ status' = [status EXCEPT ![p] = s]
       /\ canJoin' = IF Joinable(s) THEN canJoin \cup {p} ELSE canJoin
       /\ unchecked' = (unchecked \/ (CheckIsOver /\ ~Joinable(s)))
  /\ UNCHANGED <<now, central, timers, here, greeted, playing, empty>>

Choose(p) ==
  /\ p \in greeted \ playing /\ status[p] = "joinable"
  /\ playing' = playing \cup {p}
  /\ UNCHANGED <<now, central, timers, here, greeted, status, canJoin, observed>>

ClientDisconnected(p) ==
  /\ p \in here
  /\ here' = here \ {p} /\ greeted' = greeted \ {p}
  /\ canJoin' = canJoin \ {p} /\ playing' = playing \ {p}
  /\ status' = [status EXCEPT ![p] = "NOTFOUND"]
  /\ unchecked' = (unchecked \/ CheckIsOver)
  /\ UNCHANGED <<now, central, timers, empty>>

TimersNext ==
  \/ ThinkFrame \/ NewMap
  \/ \E p \in Client : \/ Connect(p) \/ FirstInitHUD(p) \/ LoadAnswered(p)
                       \/ Choose(p) \/ ClientDisconnected(p)

TimersSpec == TimersInit /\ [][TimersNext]_timersVars
-----------------------------------------------------------------------------
(* Properties.                                                             *)

\* Think resets a server only after nobody was in it for ms_reset_time, over
\* any number of maps and connections (g_ServerResetTimer survives a map).
ResetOnlyEmptyServer ==
  [][command # "map" /\ command' = "map" => here = {} /\ empty' >= ms_reset_time]_timersVars

\* Nobody is sent from the map he plays on, however late his character came.
NobodyPlayingSentAway ==
  [][command # "changelevel" /\ command' = "changelevel" =>
       playing = {} /\ \A p \in here : status[p] # "LOADING"]_timersVars

Stranded == /\ greeted # {} /\ greeted = here
            /\ \A p \in here : status[p] \in {"barred", "NOTFOUND"}

\* InitHUD promises to "check if there are any other players who can join,
\* and if not, switch to the start map": players none of whom can join are
\* not left on the map without a timer that is going to move them, unless
\* they became so after the last check, which is not repeated.
StrandedAreMoved ==
  Stranded /\ ~unchecked /\ ms_joinreset > 0 =>
    checkTime # 0 \/ switchTime # 0 \/ command = "changelevel"
=============================================================================
