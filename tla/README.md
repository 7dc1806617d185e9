# Master Sword: a verification project in TLA+

Master Sword is a co-operative role-playing game built as a Half-Life
modification: a server library (`src/src/game/server`), a client library
(`src/src/game/client`) and code shared by both (`src/src/game/shared`). What
distinguishes its server from any other Half-Life server is that it keeps
*characters*: a player owns up to three, chooses one in a menu, plays it over
many maps and servers, and expects it and everything it carries to be there
tomorrow. Characters are kept in files on the server, in files of the client,
or in a central backend called FuzzNet (FN), which is reached by asynchronous
HTTP requests through Steam.

This directory models what such a server has to get right: the life of a
character between backend, server and client; the files; what happens to the
items it carries; what the players of a server decide together (votes,
transitions, parties, timers); and the interpreter that runs the game's
scripts. Paths below are relative to `src/src/game/`.

## 1. Inventory

| Component | State | Operations | Correct when |
|---|---|---|---|
| FN request (`server/fn/HTTPRequest.*`) | `requestState`, `handle`, `suppressResponse`, body, `steamID64`, `slot` | constructor, `SendRequest`, `OnHTTPRequestCompleted`, `Cleanup`, `ReleaseHandle` | it is EXECUTED exactly while Steam owes it a callback; its handler runs at most once |
| FN request manager (`server/fn/RequestManager.*`) | `m_vRequests`, `m_bLoaded` | `Init`, `QueueRequest`, `Think`, `SendAndWait`, `Shutdown` | the vector owns every live request; nothing is lost while it erases from the vector it walks |
| Steam helper (`server/SteamServerHelper.*`) | `g_SteamHTTPContext`, `g_bTryLoadSteamAPI` | `Think`, `RunCallbacks`, `Shutdown` | the interface exists when it is used |
| FN operations and handlers (`server/fn/FNSharedDefs.*`, `*Req.*`) | none of their own; write `m_CharInfo` of the player they find | load, create, update, delete, two validations, their `OnResponse` | an answer reaches only the slot it is about; a slot is not locked for good |
| Map life cycle (`server/svglobals.cpp`) | `gFNInitialized`, `MSGlobals` | `MSWorldSpawn`, `MSGameThink`, `MSGameEnd` | everybody is saved before the entities are freed; answers after that are muted |
| Character slots and saves (`server/sv_character.cpp`, `server/player/playershared.cpp`, `shared/ms/mscharacter.*`) | `m_CharInfo[3]`; save files | `PreLoadChars`, `AssignChar`, `CreateChar`, `DeleteChar`, `SaveChar`, `AutoSave` | a save goes to the character it was made from; no save makes a character older |
| Save files (`shared/ms/msfileio.cpp`) | main file and backup | write, read, remove | a readable version survives a crash |
| Character transfer (`shared/ms/netcodeshared.cpp`) | `m_CharSend` on both sides | announce, piece, finish, in both directions | what is assembled is what was sent |
| Player entity, client connection (`server/player/player.cpp`, `server/client.cpp`) | `m_CharacterState`, `m_CharacterNum`, everything the player has | the player's commands, `PreThink`, connect and disconnect | a player who comes back is a new entity with the same Steam id |
| Items, hands and containers (`shared/weapons/genericitem.cpp`, `gipack.cpp`, `playershared.cpp`) | `Gear`, `ItemList`, `m_pOwner`, `m_pParentContainer`, `m_Location`, `iQuantity`, storage | pick up, hold, wear, pack, drop, stack, store, buy, sell, offer | an item is in one place; none vanishes, multiplies or is taken |
| Transitions (`server/msmapents.cpp`) | `PlayerVotes`, `CurrentTransArea`, `m_NextMap` | walk in and out, vote, change map | all travel together, when all have voted |
| Game rules timers (`server/gamerules/multiplay_gamerules.cpp`) | three absolute times | `Think`, `InitHUD` | an empty server is reset, stranded players are moved, nobody else is |
| Votes (same file) | `m_CurrentVote`, `g_BanList` | `StartVote`, `TallyVote`, `UpdateVote` | the majority decides, about the one it was asked about |
| Parties (`server/gamerules/team.cpp`) | `CTeam::Teams`, member lists, `m_pTeam`, `m_pJoinTeam` | found, ask, accept, leave, delete | pointers and member lists agree |
| Scripts (`shared/ms/script.cpp`, `scriptcmds.cpp`) | events, delayed calls, interpreter registers | run, call, loop, delay, exit, remove | a command sees its own event; a delayed call runs once |
| Attacks, stats, script archive, voice, monsters, Half-Life entities, movement, client | | | not modelled, reasons in section 7 |

Everything except Steam, the backend, the file system and the network runs on
the game's main thread. The engine calls, in a loop: its own console commands,
client commands, `StartFrame` (`MSGameThink`: Steam helper,
`CRequestManager::Think`, validations; `CHalfLifeMultiplay::Think`: parties,
timers, votes), `PreThink` of every player (`Think_SendCharData`,
`Think_SendChar`, `AutoSave`), the think functions of items, monsters and their
scripts, and the Steam callbacks, which run the handler of a request. So
handlers never overlap, but they meet state that any number of other handlers
has changed since they were asked for. That is what the modules interleave:
one action per handler, whole, with everything it calls.

What is hard is listed line by line under `hazards` in `PROJECT.json`. In
short: answers that are late, lost, muted or silent; a lock (`CDS_LOADING`)
held from one handler to another; saves that overtake each other; lists changed
while they are walked; menus, offers and votes about things that change before
they are decided; client indices and addresses that are used again; a server
killed inside a save; facts kept twice.

## 2. Modules

| Module | What it is |
|---|---|
| `HTTPRequest` | vocabulary of requests: states, the ways a call ends, and which of them reach the handler with what |
| `RequestPool` | abstract: what a user of the request machinery may rely on |
| `RequestManager` | `CRequestManager`, the request objects, Steam calls and the Steam helper under the map life cycle; implements `RequestPool` |
| `FNCharacters` | slots, players, requests in flight, backend and save files: the life of characters |
| `SaveFile` | the two files of a slot, operation by operation, with crashes and failing operations |
| `CharCopy` | abstract: a copy of a character replaces a file of the client in one step |
| `CharTransfer` | characters kept by the client, sent in pieces over connections that may end; implements `CharCopy` |
| `Inventory` | where items are, and everything that moves them |
| `TransitionArea` | the areas that lead to other maps, and the vote to go |
| `ServerTimers` | the timers that reset the server or move its players |
| `Votes` | votes to kick a player or advance the time of day |
| `Parties` | parties, members and requests to join |
| `ScriptEvents` | the events of a script and the C++ stack that runs them |
| `MC...` | the instances of these modules for TLC |
| `Selection` | loops over a list that erase what they have dealt with, as `Parties` and `ScriptEvents` have them |
| `..._proofs` | TLAPS proofs about the module of that name; `GameRules_proofs` about `Votes` and `ServerTimers`, `PartiesScripts_proofs` about `Parties` and `ScriptEvents` |

`Parties` and `ServerTimers` share a module of proofs with another component, whose
proofs need the same lemmas or are about the same class. Names that both would use
are prefixed there: `PartiesSpec`, `TimersSpec` and so on.

Operators whose names end in `_Bug` or otherwise say so (`Think_Resends`...)
are mutants: plausible mistakes in the definition that follows them. They are
used nowhere; putting one in the place of its definition makes the property it
was written for fail, which shows that the property can fail.

**RequestManager.** `mode` is where the main thread is: `off` between maps,
`running`, `drain` inside the loop of `SendAndWait`, `crashed` after a call
through a null interface. `MSGameThink` is one frame: the helper's `Think` asks
for the interface once per map (`tryLoad`), then the manager's `Think` walks the
vector from its end; `ThinkLoop` is that loop as a recursive function over the
indices, `Visit` its body, `SendRequest` includes both early exits through
`Cleanup`. `SteamCompletes` is Steam finishing a call on its own threads;
`RunCallbacks` delivers everything finished so far. `SendAndWait` is one round
of its loop; the last round includes `Shutdown` and the rest of `MSGameEnd`.

**FNCharacters.** A character's data is reduced to `of`, the Guid of the
character it was saved from, and `ver`, how far it had got. `info[p][s]` is
`m_CharInfo[s]` of player `p`, `view[p][s]` what the client was last told,
`here` the players `UTIL_PlayerBySteamID` finds. The vector of requests is held
as a set: Steam runs the requests concurrently, so the order in which `Think`
hands them over has no effect on the order in which they are served.
`SelectChar` includes `LoadCharacter` and `RestoreAllServer` with both of its
failures; `Deliver` is `OnHTTPRequestCompleted` with the handler of each kind;
`ClientDisconnect` and `MSGameEnd` include the saves. `AutoSave` may come at any
time. `BackendServes` is the external backend as the handlers use it: it may
serve a request and lose the answer, or not serve it at all. A player may connect
again at any time, and the answers to his earlier connection reach the later one.
Three history variables name what the code then cannot promise, slot by slot and
character by character: `overtaken` (slots of a connection that began while
requests about them were unanswered), `tainted` (characters saved from such a slot,
or after a failed restore) and `crossed` (characters with two updates outstanding).

**SaveFile.** A save or a delete is a sequence `todo` of file operations
(truncate, write, remove; main file first), performed one at a time; `Crash` may
come between any two and inside a write, which leaves a *stub* (shorter than the
header) or a *torn* file, and any operation may be refused (`Jam`). Ghost
variables say what a slot may hold (`promised`) and count the crashes.

**CharTransfer.** `down` is the engine's reliable, ordered channel. The server's
`Think_SendChar` sends one piece at a time from `m_CharInfo`, the client's
`HL_CLNewIncomingChar` and `HL_CLReadCharData` put them together; both directions
use one `charsendinfo_t`, which on the client outlives the connection
(`Reconnect`). The refinement maps a file to the character whose pieces it holds.

**Inventory.** `inv` is a record with the lists (`gear`, `list`) and the pointers
back (`owner`, `parent`, `at`). The moving operators return the set of outcomes a
call can have, each with the new inventory, what the code returns, and what it
took and put nowhere (`lost`); actions pick one. `GiveTo` is the whole of
`CGenericItem::GiveTo`: `NewItemHand` with the putting away of other things, the
pack as a last resort, `RemoveFromOwner`, and the second `NewItemHand` inside
`AddItem`. `ShowMenu` / `ChooseItem` and `OfferItem` / `AcceptOffer` are the two
steps of a pick-up menu and of an offer; everything may happen in between.
Weights are chance (what is not the player's own may be too heavy), and so are
fees.

**TransitionArea.** `standing` is geometry, `current` is `CurrentTransArea`, which
`CheckAreas` sets when the player's areas are checked. `Accept` asks, like the
menu callback and `MSQuery`, only whether the player is registered: one who has
fainted may vote, while `AllVotes` leaves him out. `votes` keeps bit numbers,
computed as the code does, in a byte. `leaving` is the area whose journey has
begun.

**ServerTimers.** Times are absolute and 0 means "not set", as in the code; the
clock starts again with a map, `g_ServerResetTimer` does not. Characters are
LOADING only with the central server, and the answer may come at any time.

**Votes.** `seat` is who has which client index: the lowest free one is given out.
`history` remembers whom a vote was started against and who said yes, which the
code keeps by index only.

**Parties.** Parties live at addresses that are used again; `saved` is what
`SaveChar` writes of a party, from which `RestoreAllServer` brings it back.
`CTeam::GetTeam` is the first entry of `Only`, the parties that match in their order.

**ScriptEvents.** The C++ stack is part of the state: each frame holds the local
variables of the function (`RunScriptEvents`, `RunScriptEventByName`,
`Script_ExecuteEvent`, the loop of `ScriptCmd_CallEvent`), and one action is one
command or one turn of a loop. Which command an event runs next is left open. The
loop over `TimedExecutions` is split in two `Only`s: what is due, and what stays.

## 3. Runs

| Run | Distinct states | What it checks |
|---|---|---|
| `request_manager` | 57 000 | `VectorOwnsLiveObjects`, `ExecutedMeansCallPending`, `ThinkReachesEveryRequest`, refinement of `RequestPool`, `SendAndWaitReturns`, `EveryRequestEnds` |
| `fn_slots` | 2 600 000 | `SlotLocked`, `PlayedCharacterIsStored`, `StoredUnderItsName`, `OnlyOwnCharacters`, `NoRollback` |
| `fn_live` | 450 000 | `RequestsOnlyWhileLoaded`, `ClientViewCurrent`, `TransactionsEnd`, `ClientCatchesUp` |
| `loading_stuck` | | violation of `LoadingEnds`, see section 6 |
| `save_files` | 680 000 | `OneCrashIsSafe`, `WholeCopyLeft`, `ListMatchesDisk` |
| `transfer` | 98 000 | refinement of `CharCopy`, `NeverOlder`, `OffersEnd` |
| `inventory` | 306 000 | `PlacesAgree`, `HandsHoldOne`, `NothingStranded`, `NothingMultiplies`, `NobodyRobbed` |
| `travel` | 5 500 000 | `NobodyLeftBehind`, `EveryoneVotedTravels`, `NobodyDraggedAlong` |
| `timers` | 28 000 | `ResetOnlyEmptyServer`, `NobodyPlayingSentAway`, `StrandedAreMoved` |
| `votes` | 707 000 | `MajorityDecides`, `KickOnlyTarget`, `VoteEnds`, `ConvictedLeave` |
| `parties` | 643 000 | `MembersAgree` |
| `scripts` | 2 700 000 | `RegistersBelongToCaller`, `DelayedCallsRunOnce`, `ExitIsOwn` |

What they show:

* *Requests.* With up to three objects, no order of queueing, sending,
  completion and deletion makes the vector lose or keep an object, no handler is
  called after the map is over, and with frames and callbacks running
  `SendAndWait` returns and every request ends.
* *Characters.* Over two slots, with a player who comes and goes before his
  answers arrive, answers that are lost and restores that fail (`fn_slots`): the
  LOADING status is a lock of every slot that was not overtaken; the character
  somebody plays from such a slot stays the one stored under its Guid; nothing but
  a tainted save stores one character under the name of another; a stored
  character becomes older only by a tainted save or by two saves that overtook one
  another; and no save or delete, not even one from an overtaken slot, is about
  the character of another slot. With FN switched on and off, validations and every
  way to fail (`fn_live`), no request is left that nobody would send, requests that
  lock a slot end, and the client in the menu gets to see every slot as it is.
  Without their exceptions the properties of `fn_slots` are false: a player who
  reconnects before the answer to a create has come has two requests about one
  slot.
* *Files.* Unless two saves in a row die, the two copies bring a character over a
  crash; the case that escapes is one in which the crash leaves part of a write
  that `ReadFromFile` takes for a character, and then the other file is whole.
  The list a player chooses from is what is on the disk.
* *Transfer.* The client's files change as if each copy arrived whole or not at
  all, over any number of lost connections; no file is overwritten with another
  character or an older save; transfers do not wait for one another for ever.
* *Items.* Lists and pointers agree in every state; a hand never holds two things;
  every transfer ends with the item where it was or where it should be; nothing
  becomes more and nothing is taken from a player, except in the cases the
  properties name, which are those of section 6.
* *Players together.* A journey takes everybody to one map, with everybody's vote;
  only an empty server is reset; nobody is moved who plays or is waited for; a
  vote decides by majority, about the player it was started against, and ends;
  parties and players agree about who belongs to whom.
* *Scripts.* However events call, loop and exit, a command finds its own event
  and loop count, a delayed call runs once and in time, and `exit` ends only the
  run of the event that executed it.

### Bounds, and why they are enough

* `request_manager`: three objects. One queued, one executed and one finished can
  stand in the vector in every order, which is what its loop can go wrong about.
* `fn_*`: two slots (`fn_slots`) or one (`fn_live`) instead of three; code that
  treats slots treats them alike, and two are enough to confuse. `MaxSerial` bounds
  the requests of a player: connecting takes one per slot, and in `fn_slots`, with
  six, what remains allows a create and saves or a delete, or a reconnect and two
  of these. `MaxVer` 1 tells an older from a newer save. `fn_live` has one outcome
  per path through the code in `Failures`; `fn_slots` has lost answers and lost
  requests (`noresponse`) and restores that fail over the name, which are what
  touches its properties. Its `VIEW` leaves out what the client was told and the
  cached statuses: they decide only what is sent to the client, so the rest of a
  state develops in the same way without them, and no property of the run
  mentions them. Both runs have one player, since players meet only in the set of
  requests and in the backend; that one's answers do not reach another's
  characters is `OwnCharactersOnly` in section 4, proved, like all the properties of
  `fn_slots`, for any number of players, slots and requests and all failures.
* `save_files`: one slot, since files of slots do not touch; two characters, one
  after the other, and two versions of each. Crashes are not bounded.
* `transfer`: two slots, two characters of up to three pieces, so that a
  character is longer, shorter or as long as the one before; three transfers
  under way.
* `inventory`: two players; a pack for two; two arrows that stack; a spear for
  both hands, also of a kind that stacks; `MaxItems` 2, so that the limit is
  reached; a stack cap that two arrows just reach; one menu, offer or stored
  thing waiting at a time (`MaxPending`), around which everything else happens.
  The proofs cover any number of players, items and packs.
* `travel`: two areas, two indices given out four times; players, votes and doors
  in every order. `EveryoneVotedTravels` is about indices up to eight.
* `timers`: three players; `MaxTime` lets every timer run out and be set again
  within a map. `votes`: three players and indices, two frames for thirty
  seconds; any number of votes one after the other.
* `parties`: three players, two addresses, two names, three parties ever, two
  maps: an address is used again while somebody still asks to join its former
  party.
* `scripts`: four events, two of one name around a third, one unnamed; six
  frames of the stack are three nested calls; two loops, delays and two delayed
  calls at a time.

Actions that would exceed a bound are disabled there; none of the bounds is a
claim about the code. Deadlock is checked everywhere but in `scripts`, where
nothing happens any more once the script has been removed or the clock stands
at its bound.

### Fairness

Only what the engine, Steam or the network does by itself is fair; nothing makes
a player do anything or a map end.

* `RequestManager`: weak fairness of `MSGameThink`, `RunCallbacks` and
  `SendAndWait` (the engine runs frames and callbacks as long as a map runs, the
  loop of `SendAndWait` spins) and of the completion of each call (Steam ends
  every call, by its timeout if need be).
* `FNCharacters`: the same per request, and `Think_SendCharData`, which `PreThink`
  calls every frame.
* `CharTransfer`: `Think_SendChar`, called every frame, the receipt of messages,
  and the client's frame, which sends the next piece up.
* `Votes`: frames, and the engine executing the `kick` commands it was given.

The other modules have safety properties only and state no fairness.

## 4. Proofs

Every theorem holds for every value of the constants that the assumption on the
constants of its module admits: any players, slots, items, packs, areas, indices and
bounds. The invariants the proofs rest on were checked with TLC first.

**FNCharacters_proofs.** `TypeOK` is inductive as it stands. `NoRequestOutsideMaps`
needs `LoadedInv`: players are there only in a running map, and a running map
with FN on, or one that is being drained, has the manager loaded. `ViewCurrent`
needs `ViewInv`: a slot of a present player is never UNLOADED, so a cached
status that was reset differs from the status. `OwnCharactersOnly` needs
`GuidInv`, which speaks of stored characters, answers, slots and requests at
once: whoever knows a Guid agrees about its player and slot, and a Guid a later
create will be given is known to nobody. This is the theorem about late answers:
an answer of an earlier connection may end up in the slot of a later one, and
does no harm because the request remembers player and slot.

The other theorems hold on every server too, with FN switched off by a validation,
answers that come late, and restores that fail; their statements except the slots
and characters that `overtaken`, `tainted` and `crossed` name, and nothing else.
`OneTransactionPerSlot` needs only `LoadedInv` besides: as the request of a slot
that was not overtaken belongs to the present connection, the status was checked
before it was queued. The rest stands on `CharsInv`, which speaks of a player's
*own* slots (`Own`: of a connection that found no request about the slot unanswered, with FN on):
`StoreInv` (what is stored is stored once per slot, and under its own Guid unless
tainted), `PlayInv` (who plays from an own slot has the stored character), `SlotInv`
(an own slot that holds a character holds that of the backend), `AnswerInv` (so does
an answer under way to one), `CreateInv` and `CreatesDiffer` (the Guid of a create
under way is new, and no two share one), `UpdateInv` and `UpdatesDiffer` (a save that
is not tainted carries its own character's data, no newer than what is played, and
unless two have crossed there is one at a time and it is the newest). None of them
is inductive without the others: an answer writes what a slot holds, a slot decides
what is played, what is played is saved, and a save changes what the next answer
will say. A slot stops being own by a reconnect, and what is saved from it from
then on is tainted; that is why the invariant survives late answers.

**RequestManager_proofs.** `IInv` is `TypeOK`, that the vector holds nothing twice,
`DriveInv` (the interface is not there while it is still to be asked for; the
manager stays loaded while it is drained) and
`RequestInv` of each request (it is in the vector exactly while it is live, and
its state, handle and call fit). `Think` is a recursive function over the vector
it erases from. What its loop does is proved with a *least counterexample*:
`Rounds` are functions that satisfy the equations of the loop up to an index,
they exist for every length because there is no least one for which they do not
(`NatLeast`, from the well-foundedness of the numbers), and `Walked` is what they
keep: what the loop has passed was due and is treated, what lies before it is as
it was. `Ownership` and `CallbackOwed` follow from `IInv`, `ThinkReaches` from
`Walked`. `PoolImplemented` maps every step to one of `RequestPool` or a stutter.
It assumes `Dedicated`, for `LifeInv`: nothing is live between maps or while the
manager is not loaded; on a listen server that is false (section 6).

**SaveFile_proofs.** `SafeInv` is `TypeOK`, the shape of the operations left
(`Shaped`), what those under way have done already (`Underway`: once a save has
reached the backup, the main file is whole), that whole files hold what was
promised, and `FilesSound`, which counts: undisturbed, the file not being written
is sound; after one crash one of the two is. `ListInv` ties the list of a player
who chooses to the files.

**CharTransfer_proofs.** Most of `IInv` is `StreamInv`: to every message under way
there is a *position* (how many of the server's offers the client will have
begun then, and how many pieces of the last it will have), such that the first
position is where the client is (`Begins`), each message leads from one to the
next (`Moves`), and the last is where the server is (`Ends`). The rest says that
files are whole characters (`WholeFiles`), that offers are of the slot being
played, later ones of later saves, and newer than the file they will replace
(`OffersInv`, `FilesInv`), that nothing is offered while nobody plays
(`LoadedInv`), and that what the menu shows as empty or taken is so (`MenuInv`,
`SeenInv`). The positions are not part of the state; each
step gives the new ones from the old (`StreamAppend` when the server sends,
`StreamReceive` and `StreamDone` when the client receives). `FilesNeverOlder` and `CopyImplemented` look at the
one step that replaces a file, the receipt of the last piece: by `StreamInv` what
has come together is an offer, by `OffersInv` an allowed one.

**Inventory_proofs.** `IInv` consists of `Sound(inv, live)` (types; lists and
pointers agree; one thing per hand; no pack in a pack; everything named is live)
and of what menus, offers and storage may name. `HandsNeverShared` and
`PlacesAlwaysAgree` follow at once. The heart of `NoItemLost` is that the second
search for a hand cannot fail where the first succeeded: taking an item from its
place, and putting other things away, only empties hands (the relation `Less`),
and `NewItemHand` finds a hand in an inventory that is `Less` if it found one
before (`StillFreeWhenTaken`, `FreeHandsSound`). For packs the same argument
fails in exactly one case, the one `NothingStranded` names. `NobodyIsRobbed`
follows owners through the same operators: putting things away and into one's
own packs only rearranges what is one's own (`Rearranged`), and `GiveTo` hands its
player at most the item asked for and what is in it (`Given`); then each command
is shown to ask for nothing but what lies free, what is the player's own, what
he was offered and the offerer still has, or what he chooses from his menu.
`NothingIsMultiplied` compares sums over sets of any size. `MapThenSumSet` is defined
by recursion over sets; its laws (one element more, two disjoint sets, pointwise
comparison, the sum regrouped by a function: `TotalTake`, `TotalPlus`, `TotalLess`,
`TotalByTarget`) are proved of the least set for which they might fail, with
well-foundedness of the strict subsets of a finite set. `CountInv` adds to the types
that a thing is in storage once (`StoredOnce`) and that the pile of a menu exists, is
of one kind and does not contain its own first item (`PilesSound`). `TotalByTarget` is
what stacking needs: each pile that stays grows by the piles that name it. TLC agrees
that `CountInv` is an invariant of the `inventory` run.

**TransitionArea_proofs.** `Bound` (who is registered in an area is going where it
leads) gives `AllTravelTogether`; `Tallied` (unless the players of an area have
changed since its votes began, its bits are exactly those of the players who
accepted, active or not, as far as there is a bit) gives the two theorems about
votes. `CompleteVoteTravels` is about votes by exactly the active players: the vote
of a player who has fainted holds the journey up (section 6).

**GameRules_proofs.** Of the timers: `Joining` (who plays has a character that may join, and
`m_CanJoin` says so) gives `PlayersStay`; `Counting` (a running reset timer
belongs to an empty server, and as many frames were empty as its clock has left
behind) gives `OnlyEmptyServersReset`; `StrandedAreMoved` is inductive with the
types.

Of the votes: `Charged` (the running vote names a player and where he sat)
gives `OnlyAccusedKicked`; `Counted` (as long as nobody who said yes has left, the
bits are their indices) gives `MoreThanHalfDecide`.

**PartiesScripts_proofs.** `Only` is a recursive function over the length of its
list. That it keeps what it should, in the lengths as well (`OnlySelects`,
`OnlySplits`), is proved as for `Think` above: its loop has a result after any
number of entries, because there is no least number for which it has none.

`PartiesAgree`: `Agreed` is `MembersAgree` with the types and that a player who has
left points to no party. `RemoveFromTeam` erases one entry and nothing else because
nobody is on a list twice (`RemoveAtRemoves`); `MovedEffect` says what `SetTeam` does
to every party at once, and the address of a new party is none of those in `Teams`.

`RegistersRestored`: the two registers say what they should only because of what
the functions on the stack have saved, so `Registers` is about the whole stack.
`Standing` says what may call what, and that every function has saved the event it
was called from (`RunScriptEventByName`) or the count of the loop around it
(`CallEvent`); `Registered` adds that the registers fit the top. Each call and each
return keeps it (`PushByName`, `PopByName`, `PushLooping`, ...), at any depth.

`DelayedCallsKept`: in the middle of a frame an execution may be promised, taken from
the list and not yet begun, and the events begun meanwhile promise others.
`Promised` counts all three, with `left` of the outermost frame, and `Punctual` says
that nothing is overdue of the events the frame has passed. That the outermost
frame is left alone while events call each other is `SameRun`.
`ExitStopsItself` needs only the types: what sets or uses `bFullStop` is the top of
the stack.

Only model-checked: liveness, which is out of the provers' reach
(`SendAndWaitReturns`, `EveryRequestEnds`, `TransactionsEnd`, `ClientCatchesUp`,
`OffersEnd`, `VoteEnds`, `ConvictedLeave`). Every invariant and every property of
steps that a run checks is also proved, the types of every model included.

## 5. What could follow

* Attacks (`shared/weapons/giattack.cpp`): start, charge, land, end, with items
  that change hands in the middle; the interface to `Inventory` is the "in the
  middle of an attack" branch of `UseItem`.
* The stock and prices of stores, and gold, on top of `Buy` and `Sell`.
* Stats and levels with the widths of their integers; the voice manager, whose ban
  masks outlive the player they were set by (`shared/voice_gamemgr.cpp:132`).

## 6. Where the code disagrees with itself

The one with a run of its own:

* `loading_stuck`. "Wait for success or an error"
  (`server/gamerules/multiplay_gamerules.cpp:277`): several outcomes of a request
  end it without `OnResponse` (`server/fn/HTTPRequest.cpp:165`), and the slot stays
  LOADING as long as the player does.

The others follow from the code by reading. Where they concern a modelled
component, the models behave as the code does, and the condition in a property
that leaves the case out is named.

*Requests and characters.*

* "WARNING! always check if interfaces are available before using"
  (`server/SteamServerHelper.cpp:12`): `SendRequest` uses the Steam interface
  unchecked, and it is asked for once per map (`mode = "crashed"`; the run has
  `SteamAvailable` TRUE).
* "We handle all remaining requests and shutdown." (`server/svglobals.cpp:294`): on
  a listen server the manager is never loaded while `FNShared::IsEnabled` may be
  true; requests are queued and stay (the run has `Dedicated` TRUE).
* "You cannot update your char (save) if there is no char loaded."
  (`server/fn/FNSharedDefs.cpp:131`): the guard lets CHARSTATE_LOADING through, and
  a failed restore leaves the player in it: what is saved then is nothing, under
  the Guid of a slot he did not choose (`tainted`).
* A player who reconnects quickly has the answers of both connections written
  into the same slots (`overtaken`).
* A character is saved while its previous save is unanswered, and the backend may
  apply the two in either order (`crossed` in `NoRollback`).
* A delete marks the slot empty whatever became of its two `remove` calls
  (`server/sv_character.cpp:126`): if either fails, the character is back in the list
  the next time the slots are read (`promised` in `SaveFile` allows it).
* The client that begins an upload waits for an acknowledgement that is never
  sent (`server/client.cpp:610` reads it only on a server that keeps the characters
  itself), and a transfer lost with the connection leaves the slot grey in the
  menu. `OffersEnd` is about the other direction.

*Players together.*

* Votes in a transition and votes to kick are kept in a byte
  (`server/msmapents.cpp:1805`, `multiplay_gamerules.cpp:1960`): from the ninth
  index on they are lost, and with nine players no transition vote can complete
  (`1 .. 8` in `EveryoneVotedTravels` and `MajorityDecides`).
* The bit of a player who has left counts for whoever gets his index (`upset`,
  `deserted`).
* A registered player who has fainted still has the menu and may accept
  (`multiplay_gamerules.cpp:1763`, `server/msmapents.cpp:1805`), but `AllVotes`
  (`msmapents.cpp:1813`) never has his bit: the two are not equal any more, and a
  vote by every active player does not start the journey until the votes begin
  again (`agreed[a] = active` in `EveryoneVotedTravels`).
* A kick vote whose voters have all left is decided by the bits they left behind,
  over no players, and so passes and bans its target (`multiplay_gamerules.cpp:2007`).
* "But do ban the STEAM ID regardless" (`multiplay_gamerules.cpp:2027`): a player
  who came back under another index before the vote was decided is banned and
  plays on (`dodged` in `ConvictedLeave`).
* A load that fails after the check for stranded players does not repeat it
  (`unchecked` in `StrandedAreMoved`).
* `m_pJoinTeam` is not reset when the party is deleted: a new party at the same
  address finds him waiting for it, and its leader accepts a player who did not
  ask. Parties are recognised by name when they are founded and by ID when they
  are restored, so two may have one name.

*Items.*

* A full pack takes a groupable item, because "It will all get absorbed into the
  stack" (`shared/weapons/gipack.cpp:282`); the code that absorbs it
  (`gipack.cpp:339`) is commented out, so packs exceed `MaxItems`.
  Moving the only item of its kind into the overfull pack it is in already
  ("inv transfer") passes the first test, takes the item out, and is refused by
  `Container_AddItem`, whose 0 is not looked at (`genericitem.cpp:1259`): the item
  is left with nobody. `NothingStranded` names just this case. When the character
  is loaded again, a pack saved overfull refuses items for the same reason.
* "item is in another player's hand - you no can take"
  (`shared/ms/msmonstershared.cpp:328`): by the time `AddItem` looks, `GiveTo` has
  taken the item out of that hand (`genericitem.cpp:943`). A player who chooses
  from a pick-up menu that has gone stale takes it from whoever has it, and with
  the total the menu had counted (second case of `NobodyRobbed`, `StaleMenu` in
  `NothingMultiplies`).
* An unpaid retrieval fee (`server/client.cpp:812`): the item has been created
  already and lies in the world, while the stored copy stays (`Made` in
  `NothingMultiplies`).
* "Disabling player offers because exploits" (`server/player/player.cpp:5423`): the
  offer is in `m_OfferInfo` before the function returns, and "accept" takes it.
* `TradeItem` does not look at what `GiveTo` returns and takes the gold
  (`player.cpp:5924`). `Container_StackItems` skips the entry after each one it
  erases, and `DropAllItems` every second item. The branch of `Drop` under
  "Dropping spells fizzles them" is never reached, since `bDropAttempted` has just
  been set.

*Scripts.*

* "Can't call myself recursively" (`shared/ms/scriptcmds.cpp:2297`) compares names:
  an event may call itself through another event, or through callexternal on its
  own entity. The inner run clears the parameters and local variables of the
  outer one.
* A loop that a nested loop runs inside takes the `breakloop` or `resetloop` meant
  for the other, as both are one script variable.
* `exit` inside an else branch ends the branch, while the entity itself still
  handles the commands after it.

## 7. Not modelled

* Of the modelled components: LAN games and development mode; the intermission
  (`g_fGameOver`), during which a disconnect neither saves nor removes the player;
  the contents of characters, HTTP bodies, URLs and JSON beyond what section 2
  names; `ValidateFN` and `FNShared::LoadCharacter` of one slot, which nobody
  calls; projectiles, spells, quality and expiry times of items, and their saving;
  the blocks, variables and command library of scripts.
* Attacks, stores' stock, stats and the voice manager: see section 5. The script
  archive (`shared/ms/groupfile.cpp`), which the game only reads.
* Rendering, sound, HUD and panels of the client; Half-Life's entities, monsters
  and movement (geometry and floating point); NPC behaviour, which is in script
  files outside the repository; the command line tools; vendored code, which is
  by far the larger part of the tree.
