------------------------------ MODULE SaveFile ------------------------------
(***************************************************************************)
(* The save files of one player on a server that keeps characters itself   *)
(* (ms_serverchar set, no central server).  Every slot has a main file and *)
(* a backup, rewritten in place one after the other on each save, so that  *)
(* a server killed inside a save leaves them in one of several states; the *)
(* next map start reads whichever of the two it finds fit.                 *)
(*                                                                         *)
(* The main thread performs the file operations of a save or a delete one  *)
(* after the other; nothing but a crash comes between two of them.         *)
(***************************************************************************)
EXTENDS Naturals, Sequences

CONSTANTS
  Slot,        \* the slots of m_CharInfo
  NoChar,      \* no character: CDS_NOTFOUND, or nothing in the player entity
  MaxChars,    \* bound: characters ever created
  MaxVer       \* bound: progress of a character

ASSUME ConstantsAssumption ==
  /\ MaxChars \in Nat /\ MaxVer \in Nat
  /\ NoChar \notin [id : Nat, ver : Nat, lost : BOOLEAN]

\* What matters of serialised data: whose it is, how far it had got, and
\* whether the items behind the header were lost on the way.
Data == [id : Nat, ver : Nat, lost : BOOLEAN]
Copy == {"main", "backup"}

\* "stub": shorter than the header; "torn": the header and some of the rest.
File == [kind : {"absent", "zero"}, data : {NoChar}]
          \cup [kind : {"stub", "torn", "whole"}, data : Data]
Absent == [kind |-> "absent", data |-> NoChar]
Zero   == [kind |-> "zero", data |-> NoChar]

\* "reload" is the PreLoadChars a creation ends with.
Op == [do : {"open", "write", "remove", "reload"}, copy : Copy, slot : Slot,
       data : Data \cup {NoChar}]

VARIABLES
  files,    \* the disk, [Copy -> [Slot -> File]]
  up,       \* the server runs
  here,     \* the player is connected
  info,     \* the characters in m_CharInfo, [Slot -> Data or NoChar]
  num,      \* m_CharacterNum
  live,     \* the character in the player entity, NoChar while UNLOADED
  todo,     \* the file operations the running save or delete has left
  made,     \* characters created so far
  jammed,   \* history: the slots whose last save or delete had an operation refused
  promised, \* history: what each slot may hold, see Start and Finish
  torn      \* history: crashes inside a save since the last undisturbed one,
            \* counted up to two

memory  == <<up, here, info, num, live>>
history == <<jammed, promised, torn>>
vars    == <<files, memory, todo, made, history>>

TypeOK ==
  /\ files \in [Copy -> [Slot -> File]]
  /\ up \in BOOLEAN /\ here \in BOOLEAN
  /\ info \in [Slot -> Data \cup {NoChar}]
  /\ num \in Slot
  /\ live \in Data \cup {NoChar}
  /\ here => up
  /\ live # NoChar => here
  /\ todo \in Seq(Op)
  /\ made \in Nat
  /\ jammed \subseteq Slot
  /\ promised \in [Slot -> SUBSET (Data \cup {NoChar})]
  /\ torn \in [Slot -> 0 .. 2]

Init ==
  /\ files = [c \in Copy |-> [s \in Slot |-> Absent]]
  /\ up = FALSE /\ here = FALSE
  /\ info = [s \in Slot |-> NoChar]
  /\ num \in Slot
  /\ live = NoChar
  /\ todo = <<>>
  /\ made = 0
  /\ jammed = {}
  /\ promised = [s \in Slot |-> {NoChar}]
  /\ torn = [s \in Slot |-> 0]
-----------------------------------------------------------------------------
\* Fault: the backup is read only when the main file does not exist.
ReadFromFile_Bug(s) == IF files["main"][s].kind = "absent"
                       THEN files["backup"][s] ELSE files["main"][s]

\* CPlayer_DataBuffer::ReadFromFile: the backup when the main file is missing
\* or has no bytes in it.
ReadFromFile(s) == IF files["main"][s].kind \in {"absent", "zero"}
                   THEN files["backup"][s] ELSE files["main"][s]

\* charinfo_t::AssignChar: whatever starts with a sound header is a character.
AssignChar(f) == CASE f.kind = "whole" -> f.data
                   [] f.kind = "torn"  -> [f.data EXCEPT !.lost = TRUE]
                   [] OTHER            -> NoChar

Loads(s) == AssignChar(ReadFromFile(s))

Step(do, copy, s, d) == [do |-> do, copy |-> copy, slot |-> s, data |-> d]

\* Fault: the backup is brought up to date before the main file is closed.
WriteToFile_Bug(s, d) ==
  <<Step("open", "main", s, d), Step("open", "backup", s, d),
    Step("write", "main", s, d), Step("write", "backup", s, d)>>

\* CPlayer_DataBuffer::WriteToFile with a backup.
WriteToFile(s, d) ==
  <<Step("open", "main", s, d), Step("write", "main", s, d),
    Step("open", "backup", s, d), Step("write", "backup", s, d)>>

\* Fault: the backup is left behind.
RemoveFiles_Bug(s) == <<Step("remove", "main", s, NoChar)>>

\* DeleteChar, the two calls of remove.
RemoveFiles(s) == <<Step("remove", "main", s, NoChar),
                    Step("remove", "backup", s, NoChar)>>

\* While a save or a delete runs, the slot may hold its outcome as well as
\* whatever it may have held before.
Start(ops, s, d) ==
  /\ todo' = ops
  /\ jammed' = jammed \ {s}
  /\ promised' = [promised EXCEPT ![s] = @ \cup {d}]

\* Once it has run to its end undisturbed the slot holds that outcome.
Finish(op, rest) ==
  LET done == (rest = <<>> \/ rest[1].do = "reload") /\ op.slot \notin jammed
  IN /\ promised' = IF done THEN [promised EXCEPT ![op.slot] = {op.data}] ELSE promised
     /\ torn' = IF done THEN [torn EXCEPT ![op.slot] = 0] ELSE torn
     /\ UNCHANGED jammed

Idle == up /\ todo = <<>>

Saving == todo # <<>> /\ Head(todo).do \in {"open", "write"}
-----------------------------------------------------------------------------
(* The file system.                                                        *)

\* std::fstream::open for writing empties the file.
FileOpen(op) ==
  /\ op.do = "open"
  /\ files' = [files EXCEPT ![op.copy][op.slot] = Zero]
  /\ todo' = Tail(todo)
  /\ UNCHANGED <<memory, made, history>>

FileWrite(op) ==
  /\ op.do = "write"
  /\ files' = [files EXCEPT ![op.copy][op.slot] = [kind |-> "whole", data |-> op.data]]
  /\ todo' = Tail(todo)
  /\ Finish(op, Tail(todo))
  /\ UNCHANGED <<memory, made>>

FileRemove(op) ==
  /\ op.do = "remove"
  /\ files' = [files EXCEPT ![op.copy][op.slot] = Absent]
  /\ todo' = Tail(todo)
  /\ Finish(op, Tail(todo))
  /\ UNCHANGED <<memory, made>>

\* The file cannot be opened or removed: WriteToFile returns without writing,
\* DeleteChar ignores it; both go on to the backup.
Jam(op) ==
  /\ op.do \in {"open", "remove"}
  /\ todo' = IF op.do = "open" THEN Tail(Tail(todo)) ELSE Tail(todo)
  /\ jammed' = jammed \cup {op.slot}
  /\ UNCHANGED <<files, memory, made, promised, torn>>

\* CBasePlayer::PreLoadChars reads every slot.
PreLoadChars(op) ==
  /\ op.do = "reload"
  /\ info' = [s \in Slot |-> Loads(s)]
  /\ todo' = Tail(todo)
  /\ UNCHANGED <<files, up, here, num, live, made, history>>

FileStep == /\ up /\ todo # <<>>
            /\ \/ FileOpen(Head(todo))
               \/ FileWrite(Head(todo))
               \/ FileRemove(Head(todo))
               \/ Jam(Head(todo))
               \/ PreLoadChars(Head(todo))

\* The process dies, perhaps with part of a write on the disk.
Crash ==
  /\ up
  /\ up' = FALSE /\ here' = FALSE
  /\ info' = [s \in Slot |-> NoChar]
  /\ live' = NoChar
  /\ todo' = <<>>
  /\ \/ UNCHANGED files
     \/ /\ todo # <<>> /\ Head(todo).do = "write"
        /\ \E cut \in {"stub", "torn"} :
             files' = [files EXCEPT ![Head(todo).copy][Head(todo).slot] =
                         [kind |-> cut, data |-> Head(todo).data]]
  /\ torn' = IF Saving THEN [torn EXCEPT ![Head(todo).slot] = IF @ = 0 THEN 1 ELSE 2]
                       ELSE torn
  /\ UNCHANGED <<num, made, jammed, promised>>

ServerStart == /\ ~up /\ up' = TRUE
               /\ UNCHANGED <<files, here, info, num, live, todo, made, history>>
-----------------------------------------------------------------------------
(* The player.                                                             *)

\* Spawn of a new player entity: PreLoadChars reads every slot.
Connect ==
  /\ Idle /\ ~here
  /\ here' = TRUE
  /\ info' = [s \in Slot |-> Loads(s)]
  /\ UNCHANGED <<files, up, num, live, todo, made, history>>

\* CBasePlayer::LoadCharacter: from m_CharInfo, not from the file.
LoadCharacter(s) ==
  /\ Idle /\ here /\ live = NoChar
  /\ info[s] # NoChar
  /\ live' = info[s] /\ num' = s
  /\ UNCHANGED <<files, up, here, info, todo, made, history>>

Play ==
  /\ Idle /\ live # NoChar /\ live.ver < MaxVer
  /\ live' = [live EXCEPT !.ver = @ + 1]
  /\ UNCHANGED <<files, up, here, info, num, todo, made, history>>

\* MSChar_Interface::SaveChar, from AutoSave or a transition.
SaveChar ==
  /\ Idle /\ live # NoChar
  /\ Start(WriteToFile(num, live), num, live)
  /\ UNCHANGED <<files, memory, made, torn>>

\* CBasePlayer::Deactivate: a last save (which SaveChar may refuse for the
\* character's hit points) and the player is gone.
Leave ==
  /\ Idle /\ here
  /\ here' = FALSE
  /\ info' = [s \in Slot |-> NoChar]
  /\ live' = NoChar
  /\ \/ /\ live # NoChar /\ Start(WriteToFile(num, live), num, live)
     \/ UNCHANGED <<todo, jammed, promised>>
  /\ UNCHANGED <<files, up, num, made, torn>>

\* CBasePlayer::CreateChar, in the slot the command names, used or not.
CreateChar(s) ==
  LET d == [id |-> made + 1, ver |-> 0, lost |-> FALSE]
  IN /\ Idle /\ here /\ live = NoChar
     /\ made < MaxChars
     /\ made' = made + 1
     /\ num' = s
     /\ Start(WriteToFile(s, d) \o <<Step("reload", "main", s, NoChar)>>, s, d)
     /\ UNCHANGED <<files, up, here, info, live, torn>>

\* DeleteChar: the slot is CDS_NOTFOUND whether or not the files went.
DeleteChar(s) ==
  /\ Idle /\ here /\ live = NoChar
  /\ info' = [info EXCEPT ![s] = NoChar]
  /\ Start(RemoveFiles(s), s, NoChar)
  /\ UNCHANGED <<files, up, here, num, live, made, torn>>

Next == \/ FileStep \/ Crash \/ ServerStart
        \/ Connect \/ Play \/ SaveChar \/ Leave
        \/ \E s \in Slot : LoadCharacter(s) \/ CreateChar(s) \/ DeleteChar(s)

Spec == Init /\ [][Next]_vars
-----------------------------------------------------------------------------
(* Properties.                                                             *)

\* The crashes slot s has to survive if the server died now.
Disturbed(s) == torn[s] + (IF Saving /\ Head(todo).slot = s THEN 1 ELSE 0)

\* WriteToFile and ReadFromFile keep the player's character over one crash:
\* as long as no second save in a row dies, what the next map start reads is
\* the outcome of the last save or delete that ended, or of one begun since,
\* unless part of a write is what the crash left for ReadFromFile to find.
\* (After a crash between the two files the backup is empty, and the next
\* save begins by emptying the main file.)
OneCrashIsSafe ==
  \A s \in Slot :
    Disturbed(s) <= 1 /\ ReadFromFile(s).kind \notin {"stub", "torn"} => Loads(s) \in promised[s]

\* Even when a crash leaves part of a write behind, which ReadFromFile takes
\* for the character, one of the two files of WriteToFile is whole and holds
\* what the slot should hold.
WholeCopyLeft ==
  \A s \in Slot :
    Disturbed(s) <= 1 /\ NoChar \notin promised[s] =>
      \E c \in Copy : files[c][s].kind = "whole" /\ files[c][s].data \in promised[s]

\* LoadCharacter plays from m_CharInfo, not from the file: while a player
\* chooses, the list is what a new PreLoadChars would read, so that no choice
\* rolls a character back or brings a deleted one to life.  (A slot whose
\* files could not be removed is empty in the list and not on the disk.)
ListMatchesDisk ==
  Idle /\ here /\ live = NoChar => \A s \in Slot \ jammed : info[s] = Loads(s)
=============================================================================
