---------------------------- MODULE CharTransfer ----------------------------
(***************************************************************************)
(* Characters that the client keeps (ms_serverchar 0).  The server plays   *)
(* the character from m_CharInfo and sends it down piece by piece now and  *)
(* then; the client puts the pieces together and writes the file of the    *)
(* slot.  The menu of the client shows its own files and sends a character *)
(* up before it can be played.  Both ends use one charsendinfo_t for both  *)
(* directions, and the client's outlives the connection.                   *)
(*                                                                         *)
(* One player.  The engine delivers messages reliably and in order until   *)
(* the connection ends.  Left out: the delays between pieces and between   *)
(* transfers (any time may pass), and the base-20 code of the way up.      *)
(***************************************************************************)
EXTENDS Naturals, Sequences, SequencesExt

CONSTANTS
  Slot,
  NoChar,
  MaxPieces,   \* the longest character, in pieces of MAX_UL_SIZE
  MaxChars,    \* bound: characters created
  MaxVer,      \* bound: progress of a character
  MaxOffers    \* bound: transfers started by the server

ASSUME ConstantsAssumption ==
  /\ MaxPieces \in Nat \ {0}
  /\ MaxChars \in Nat /\ MaxVer \in Nat /\ MaxOffers \in Nat
  /\ NoChar \notin [id : Nat, ver : Nat]

Char == [id : 1 .. MaxChars, ver : 0 .. MaxVer]

\* The length of the data differs from save to save.
Length(c) == 1 + ((c.id + c.ver) % MaxPieces)
Pieces(c) == [i \in 1 .. Length(c) |-> [char |-> c, no |-> i]]

Piece  == [char : Char, no : 1 .. MaxPieces]
Status == {"DORMANT", "SENDING", "RECEIVING", "SENT"}

\* charsendinfo_t; data are the pieces left to send, or received so far.
SendInfo == [status : Status, slot : Slot, data : Seq(Piece), len : 0 .. MaxPieces]

\* charinfo_t of the menu: its Status, and m_SendStatus.
Shown == [status : {"NOTFOUND", "LOADED"}, sent : {"DORMANT", "SENDING", "SENT"}]

VARIABLES
  info,    \* m_CharInfo of the server
  num,     \* m_CharacterNum, or 0 while CHARSTATE_UNLOADED
  send,    \* m_CharSend of the server
  down,    \* messages to the client
  disk,    \* the client's files, as the pieces written
  seen,    \* m_CharInfo of the client
  recv,    \* m_CharSend of the client
  menu,    \* the client chooses a character
  made,    \* characters created
  offers   \* history: transfers started and not yet written, with a number

server == <<info, num, send>>
client == <<disk, seen, recv, menu>>
vars   == <<server, down, client, made, offers>>

Message == [type : {"info", "spawned", "new", "part"}, slot : Slot,
            len : 0 .. MaxPieces, piece : Piece \cup {NoChar}]

Msg(type, s, len, piece) == [type |-> type, slot |-> s, len |-> len, piece |-> piece]

TypeOK ==
  /\ info \in [Slot -> Char \cup {NoChar}]
  /\ num \in Slot \cup {0}
  /\ send \in SendInfo /\ recv \in SendInfo
  /\ down \in Seq(Message)
  /\ disk \in [Slot -> Seq(Piece)]
  /\ seen \in [Slot -> Shown]
  /\ menu \in BOOLEAN
  /\ made \in 0 .. MaxChars
  /\ offers \in Seq([slot : Slot, char : Char])
  /\ send.status \in {"DORMANT", "SENDING"}
  /\ recv.status = "RECEIVING" => Len(recv.data) < recv.len

Quiet(s) == [status |-> "DORMANT", slot |-> s, data |-> <<>>, len |-> 0]

\* MSChar_Interface::CLInit: PreLoadChars of the client.
CLInit(files) == [s \in Slot |-> [status |-> IF files[s] = <<>> THEN "NOTFOUND" ELSE "LOADED",
                                 sent |-> "DORMANT"]]

NoFiles == [s \in Slot |-> <<>>]

Init ==
  /\ info = [s \in Slot |-> NoChar] /\ num = 0
  /\ \E s \in Slot : send = Quiet(s) /\ recv = Quiet(s)
  /\ down = <<>>
  /\ disk = NoFiles /\ seen = CLInit(NoFiles) /\ menu = TRUE
  /\ made = 0 /\ offers = <<>>
-----------------------------------------------------------------------------
(* The server.                                                             *)

\* Fault: only the characters the server knows take up a slot.
EmptySlot_Bug(s) == info[s] = NoChar

\* The menu offers only slots that are empty as far as the client knows.
EmptySlot(s) == seen[s].status = "NOTFOUND"

\* CreateChar: SaveChar assigns the new character to the slot, and
\* Think_SendCharData tells the client of it.
CreateChar(s) ==
  LET c == [id |-> made + 1, ver |-> 0]
  IN /\ menu /\ EmptySlot(s) /\ recv.status = "DORMANT"
     /\ num = 0
     /\ made < MaxChars /\ made' = made + 1
     /\ info' = [info EXCEPT ![s] = c]
     /\ down' = Append(down, Msg("info", s, 0, NoChar))
     /\ UNCHANGED <<num, send, client, offers>>

\* The command "char": LoadCharacter.
LoadCharacter(s) ==
  /\ num = 0 /\ info[s] # NoChar
  /\ num' = s
  /\ down' = Append(down, Msg("spawned", s, 0, NoChar))
  /\ UNCHANGED <<info, send, client, made, offers>>

\* The character makes progress and SaveChar writes it to m_CharInfo.
SaveChar ==
  /\ num # 0 /\ info[num].ver < MaxVer
  /\ info' = [info EXCEPT ![num].ver = @ + 1]
  /\ UNCHANGED <<num, send, down, client, made, offers>>

\* Think_SendChar finds that it is time, and CBasePlayer::SendChar.
SendChar ==
  /\ num # 0 /\ send.status = "DORMANT" /\ Len(offers) < MaxOffers
  /\ send' = [status |-> "SENDING", slot |-> num, data |-> Pieces(info[num]),
              len |-> Length(info[num])]
  /\ down' = Append(down, Msg("new", num, Length(info[num]), NoChar))
  /\ offers' = Append(offers, [slot |-> num, char |-> info[num]])
  /\ UNCHANGED <<info, num, client, made>>

\* Think_SendChar with a transfer going on.
Think_SendChar ==
  /\ num # 0 /\ send.status = "SENDING"
  /\ IF send.data = <<>>
     THEN send' = Quiet(send.slot) /\ UNCHANGED down
     ELSE /\ send' = [send EXCEPT !.data = Tail(@)]
          /\ down' = Append(down, Msg("part", send.slot, 0, Head(send.data)))
  /\ UNCHANGED <<info, num, client, made, offers>>
-----------------------------------------------------------------------------
(* The client.                                                             *)

\* __MsgFunc_CharInfo of a loaded character the client keeps.
MsgFunc_CharInfo(s) ==
  /\ seen' = [seen EXCEPT ![s] = [status |-> "LOADED", sent |-> "SENT"]]
  /\ recv' = [recv EXCEPT !.status = "DORMANT"]
  /\ UNCHANGED <<disk, menu, offers>>

\* Fault: what an interrupted transfer left is kept.
HL_CLNewIncomingChar_Bug(s, len) ==
  /\ recv' = [recv EXCEPT !.status = "RECEIVING", !.slot = s, !.len = len]
  /\ UNCHANGED <<disk, seen, menu, offers>>

HL_CLNewIncomingChar(s, len) ==
  /\ recv' = [status |-> "RECEIVING", slot |-> s, data |-> <<>>, len |-> len]
  /\ UNCHANGED <<disk, seen, menu, offers>>

\* Fault: a piece more is waited for.
Complete_Late(data, len) == Len(data) > len

Complete(data, len) == Len(data) >= len

HL_CLReadCharData(piece) ==
  IF recv.status # "RECEIVING" THEN UNCHANGED <<client, offers>>
  ELSE LET data == Append(recv.data, piece)
       IN /\ IF Complete(data, recv.len)
             THEN /\ disk' = [disk EXCEPT ![recv.slot] = data]
                  /\ recv' = Quiet(recv.slot)
                  /\ offers' = Tail(offers)
             ELSE /\ recv' = [recv EXCEPT !.data = data]
                  /\ UNCHANGED <<disk, offers>>
          /\ UNCHANGED <<seen, menu>>

Receive ==
  /\ down # <<>> /\ down' = Tail(down)
  /\ LET m == Head(down)
     IN \/ m.type = "info" /\ MsgFunc_CharInfo(m.slot)
        \/ m.type = "spawned" /\ menu' = FALSE /\ UNCHANGED <<disk, seen, recv, offers>>
        \/ m.type = "new" /\ HL_CLNewIncomingChar(m.slot, m.len)
        \/ m.type = "part" /\ HL_CLReadCharData(m.piece)
  /\ UNCHANGED <<server, made>>

\* A click on a character in the menu, which is grey while m_CharSend is not
\* dormant.  Data the server already has is only named to it; a file is sent
\* up first.
ChooseUploaded(s) ==
  /\ menu /\ recv.status = "DORMANT"
  /\ seen[s].status = "LOADED" /\ seen[s].sent = "SENT"
  /\ LoadCharacter(s)

ChooseFile(s) ==
  /\ menu /\ recv.status = "DORMANT"
  /\ seen[s].status = "LOADED" /\ seen[s].sent = "DORMANT"
  /\ seen' = [seen EXCEPT ![s].sent = "SENDING"]
  /\ recv' = [status |-> "SENDING", slot |-> s, data |-> disk[s], len |-> Len(disk[s])]
  /\ UNCHANGED <<server, down, disk, menu, made, offers>>

\* Think_SendChar of the client; the command "ul" returns at once where the
\* client keeps the characters.
SendUp ==
  /\ recv.status = "SENDING"
  /\ recv' = [recv EXCEPT !.data = Tail(@),
                          !.status = IF Len(recv.data) > 1 THEN @ ELSE "SENT"]
  /\ UNCHANGED <<server, down, disk, seen, menu, made, offers>>

\* The menu's delete: the client's DeleteChar.
DeleteFile(s) ==
  /\ menu /\ seen[s].status = "LOADED"
  /\ disk' = [disk EXCEPT ![s] = <<>>]
  /\ seen' = [seen EXCEPT ![s].status = "NOTFOUND"]
  /\ UNCHANGED <<server, down, recv, menu, made, offers>>

\* The connection ends and the next begins: a new player entity, and
\* SpawnIntoServer of the client.
Reconnect ==
  /\ info' = [s \in Slot |-> NoChar] /\ num' = 0
  /\ send' = Quiet(send.slot)
  /\ down' = <<>>
  /\ seen' = CLInit(disk) /\ menu' = TRUE
  /\ offers' = <<>>
  /\ UNCHANGED <<disk, recv, made>>

Next == \/ SaveChar \/ SendChar \/ Think_SendChar \/ Receive \/ SendUp \/ Reconnect
        \/ \E s \in Slot : \/ CreateChar(s) \/ ChooseUploaded(s) \/ ChooseFile(s)
                           \/ DeleteFile(s)

\* Both ends run frames (the server's player being alive), and the engine
\* delivers.
Fairness == WF_vars(Think_SendChar) /\ WF_vars(Receive) /\ WF_vars(SendUp)

Spec == Init /\ [][Next]_vars /\ Fairness
-----------------------------------------------------------------------------
(* Properties.                                                             *)

\* A file holds one character from beginning to end, or something else.
KeptIn(file) == IF file = <<>> THEN NoChar
                ELSE IF file = Pieces(file[1].char) THEN file[1].char ELSE file

Copy == INSTANCE CharCopy WITH current <- info, kept <- [s \in Slot |-> KeptIn(disk[s])]

\* Piecewise transfers, interrupted ones among them, leave the client's files
\* as if each were replaced in one step by a copy the server had.
ImplementsCharCopy == Copy!Spec

\* The menu offers only empty slots for new characters, HL_CLReadCharData
\* writes what it is told to: no file is overwritten with another character,
\* or with an earlier save of the same.
NeverOlder ==
  [][\A s \in Slot : disk[s] # <<>> /\ disk'[s] # <<>> =>
       /\ disk'[s][1].char.id = disk[s][1].char.id
       /\ disk'[s][1].char.ver >= disk[s][1].char.ver]_vars

\* Once the server has begun to send a character, its pieces arrive, or the
\* connection ends: transfers do not wait for one another for ever.
OffersEnd == Len(offers) = MaxOffers ~> Len(offers) < MaxOffers
=============================================================================
