-------------------------- MODULE SaveFile_proofs --------------------------
(* Theorems about SaveFile, for any number of slots, characters and saves. *)
EXTENDS SaveFile, SequenceTheorems, TLAPS

USE ConstantsAssumption
-----------------------------------------------------------------------------
(* The file operations a save or a delete has left.                        *)

\* What comes after operation k of q, if it is well formed.
Continues(q, k) ==
  LET o == q[k]
      n == q[k + 1]
      last == k = Len(q)
  IN /\ o.do \in {"open", "write"} => o.data \in Data
     /\ o.do = "remove" => o.data = NoChar
     /\ o.do = "open" => ~last /\ n = Step("write", o.copy, o.slot, o.data)
     /\ o.do = "write" /\ o.copy = "main" =>
          ~last /\ n = Step("open", "backup", o.slot, o.data)
     /\ o.do = "write" /\ o.copy = "backup" => last \/ n.do = "reload"
     /\ o.do = "remove" /\ o.copy = "main" =>
          ~last /\ n = Step("remove", "backup", o.slot, NoChar)
     /\ o.do = "remove" /\ o.copy = "backup" => last
     /\ o.do = "reload" => last

Shaped(q) == q \in Seq(Op) /\ \A k \in 1 .. Len(q) : Continues(q, k)

LEMMA TailShaped ==
  ASSUME NEW q, Shaped(q), q # <<>>
  PROVE  /\ Shaped(Tail(q))
         /\ Len(Tail(q)) = Len(q) - 1
         /\ \A k \in 1 .. Len(Tail(q)) : Tail(q)[k] = q[k + 1]
<1>1. /\ q \in Seq(Op) /\ Len(q) \in Nat \ {0}
      /\ Tail(q) \in Seq(Op) /\ Len(Tail(q)) = Len(q) - 1
      /\ \A k \in 1 .. Len(Tail(q)) : Tail(q)[k] = q[k + 1]
  BY HeadTailProperties, LenProperties, EmptySeq DEF Shaped
<1>2. ASSUME NEW k \in 1 .. Len(Tail(q))
      PROVE  Continues(Tail(q), k)
  <2>1. k + 1 \in 1 .. Len(q) /\ Continues(q, k + 1)
    BY <1>1 DEF Shaped
  <2>2. /\ Tail(q)[k] = q[k + 1]
        /\ k = Len(Tail(q)) <=> k + 1 = Len(q)
    BY <1>1
  <2>3. k # Len(Tail(q)) => Tail(q)[k + 1] = q[(k + 1) + 1]
    <3>1. SUFFICES ASSUME k # Len(Tail(q)) PROVE Tail(q)[k + 1] = q[(k + 1) + 1]
      OBVIOUS
    <3>2. Len(Tail(q)) \in Nat
      BY <1>1
    <3>3. k + 1 \in 1 .. Len(Tail(q))
      BY <3>1, <3>2
    <3> QED
      BY <1>1, <3>3
  <2> QED
    BY <2>1, <2>2, <2>3 DEF Continues
<1> QED
  BY <1>1, <1>2 DEF Shaped

\* The head of the operations, and the one after it.
LEMMA HeadShaped ==
  ASSUME NEW q, Shaped(q), q # <<>>
  PROVE  /\ Head(q) \in Op /\ Head(q) = q[1] /\ Continues(q, 1)
         /\ Len(q) \in Nat \ {0}
         /\ Tail(q) = <<>> <=> Len(q) = 1
         /\ Tail(q) # <<>> => Head(Tail(q)) = q[2] /\ Tail(q)[1] = q[2]
<1>1. /\ q \in Seq(Op) /\ Len(q) \in Nat \ {0} /\ Head(q) \in Op /\ Head(q) = q[1]
  BY HeadTailProperties, LenProperties, EmptySeq DEF Shaped
<1>2. Shaped(Tail(q)) /\ Len(Tail(q)) = Len(q) - 1
  BY TailShaped
<1>3. Tail(q) = <<>> <=> Len(q) = 1
  <2>1. Tail(q) = <<>> <=> Len(Tail(q)) = 0
    BY <1>2, EmptySeq DEF Shaped
  <2> QED
    BY <1>1, <1>2, <2>1
<1>4. Tail(q) # <<>> => Head(Tail(q)) = Tail(q)[1] /\ Tail(q)[1] = q[2]
  BY <1>1, <1>2, <1>3, TailShaped
<1> QED
  BY <1>1, <1>3, <1>4 DEF Shaped

LEMMA StepIsOp ==
  ASSUME NEW do \in {"open", "write", "remove", "reload"}, NEW c \in Copy,
         NEW s \in Slot, NEW d \in Data \cup {NoChar}
  PROVE  Step(do, c, s, d) \in Op
BY DEF Step, Op

\* What a save starts with.
LEMMA WriteShaped ==
  ASSUME NEW s \in Slot, NEW d \in Data
  PROVE  LET q == WriteToFile(s, d)
         IN /\ Shaped(q) /\ q # <<>> /\ Len(q) = 4
            /\ q[1] = Step("open", "main", s, d) /\ q[2] = Step("write", "main", s, d)
            /\ q[3] = Step("open", "backup", s, d) /\ q[4] = Step("write", "backup", s, d)
            /\ Head(q) = Step("open", "main", s, d)
<1> DEFINE q == WriteToFile(s, d)
<1>1. /\ Step("open", "main", s, d) \in Op /\ Step("write", "main", s, d) \in Op
      /\ Step("open", "backup", s, d) \in Op /\ Step("write", "backup", s, d) \in Op
  BY StepIsOp DEF Copy
<1>2. /\ q \in Seq(Op) /\ Len(q) = 4 /\ q # <<>>
      /\ q[1] = Step("open", "main", s, d) /\ q[2] = Step("write", "main", s, d)
      /\ q[3] = Step("open", "backup", s, d) /\ q[4] = Step("write", "backup", s, d)
      /\ Head(q) = q[1]
  BY <1>1 DEF WriteToFile
<1> HIDE DEF q
<1>3. \A k \in 1 .. 4 : Continues(q, k)
  BY <1>2 DEF Continues, Step
<1> QED
  BY <1>2, <1>3 DEF Shaped, q

LEMMA RemoveShaped ==
  ASSUME NEW s \in Slot
  PROVE  LET q == RemoveFiles(s)
         IN Shaped(q) /\ q # <<>> /\ Head(q) = Step("remove", "main", s, NoChar)
<1> DEFINE q == RemoveFiles(s)
<1>1. Step("remove", "main", s, NoChar) \in Op /\ Step("remove", "backup", s, NoChar) \in Op
  BY StepIsOp DEF Copy
<1>2. /\ q \in Seq(Op) /\ Len(q) = 2 /\ q # <<>>
      /\ q[1] = Step("remove", "main", s, NoChar) /\ q[2] = Step("remove", "backup", s, NoChar)
      /\ Head(q) = q[1]
  BY <1>1 DEF RemoveFiles
<1> HIDE DEF q
<1>3. \A k \in 1 .. 2 : Continues(q, k)
  BY <1>2 DEF Continues, Step
<1> QED
  BY <1>2, <1>3 DEF Shaped, q

LEMMA CreateShaped ==
  ASSUME NEW s \in Slot, NEW d \in Data
  PROVE  LET q == WriteToFile(s, d) \o <<Step("reload", "main", s, NoChar)>>
         IN /\ Shaped(q) /\ q # <<>> /\ Head(q) = Step("open", "main", s, d)
            /\ q[Len(q)].do = "reload"
<1> DEFINE w == WriteToFile(s, d)
           e == <<Step("reload", "main", s, NoChar)>>
           q == w \o e
<1>1. Step("reload", "main", s, NoChar) \in Op
  BY StepIsOp DEF Copy
<1>2. e \in Seq(Op) /\ Len(e) = 1 /\ e[1] = Step("reload", "main", s, NoChar)
  BY <1>1
<1>3. /\ w \in Seq(Op) /\ Len(w) = 4
      /\ w[1] = Step("open", "main", s, d) /\ w[2] = Step("write", "main", s, d)
      /\ w[3] = Step("open", "backup", s, d) /\ w[4] = Step("write", "backup", s, d)
  BY WriteShaped DEF Shaped
<1> HIDE DEF w, e
<1>4. /\ q \in Seq(Op) /\ Len(q) = 5
      /\ \A i \in 1 .. 5 : q[i] = IF i <= 4 THEN w[i] ELSE e[i - 4]
  <2>1. /\ q \in Seq(Op) /\ Len(q) = Len(w) + Len(e)
        /\ \A i \in 1 .. Len(w) + Len(e) :
              q[i] = IF i <= Len(w) THEN w[i] ELSE e[i - Len(w)]
    BY <1>2, <1>3, ConcatProperties
  <2> QED
    BY <1>2, <1>3, <2>1
<1> HIDE DEF q
<1>5. /\ q[1] = Step("open", "main", s, d) /\ q[2] = Step("write", "main", s, d)
      /\ q[3] = Step("open", "backup", s, d) /\ q[4] = Step("write", "backup", s, d)
      /\ q[5] = Step("reload", "main", s, NoChar)
  BY <1>2, <1>3, <1>4
<1>6. \A k \in 1 .. 5 : Continues(q, k)
  BY <1>4, <1>5 DEF Continues, Step
<1>7. q # <<>> /\ Head(q) = q[1]
  <2>1. q # <<>>
    <3>1. Len(q) = 5
      BY <1>4
    <3> QED
      BY <3>1
  <2> QED
    BY <1>4, <2>1
<1> QED
  BY <1>4, <1>5, <1>6, <1>7 DEF Shaped, Step, q, w, e
-----------------------------------------------------------------------------
(* The invariant.                                                          *)

\* A file a reader may be given: it holds a character, or nothing where the
\* slot may be empty.
Sound(c, s) == \/ files[c][s].kind = "whole"
               \/ files[c][s].kind \in {"absent", "zero"} /\ NoChar \in promised[s]

\* A file of slot s has been emptied and waits for its contents.
Writing(s) == todo # <<>> /\ Head(todo).do = "write" /\ Head(todo).slot = s

\* What is read, if anything, is of the slot.
WholeIsPromised(s) ==
  \A c \in Copy : files[c][s].kind = "whole" => files[c][s].data \in promised[s]

\* How many of the two files are sound.
FilesSound(s) ==
  /\ torn[s] = 0 /\ ~Writing(s) => Sound("main", s) /\ Sound("backup", s)
  /\ torn[s] = 0 /\ Writing(s) =>
       \A c \in Copy : c # Head(todo).copy => Sound(c, s)
  /\ torn[s] = 1 /\ ~Writing(s) => Sound("main", s) \/ Sound("backup", s)

\* What is under way may be found afterwards, and once it has reached the
\* backup it is already in the main file.
Underway ==
  LET op == Head(todo)
  IN todo # <<>> /\ op.do # "reload" =>
       /\ op.data \in promised[op.slot]
       /\ op.copy = "backup" /\ op.slot \notin jammed =>
            /\ op.do \in {"open", "write"} =>
                 files["main"][op.slot] = [kind |-> "whole", data |-> op.data]
            /\ op.do = "remove" => files["main"][op.slot] = Absent

SafeInv == /\ TypeOK /\ Shaped(todo) /\ Underway
           /\ \A s \in Slot : WholeIsPromised(s) /\ FilesSound(s)

\* While a player chooses: the list is right, or will be read again, or is
\* right but for the slot being deleted.
Matches(s) == info[s] = Loads(s)
ListInv ==
  here /\ live = NoChar =>
    \/ todo = <<>> /\ \A s \in Slot \ jammed : Matches(s)
    \/ todo # <<>> /\ todo[Len(todo)].do = "reload"
    \/ /\ todo # <<>> /\ Head(todo).do = "remove" /\ info[Head(todo).slot] = NoChar
       /\ \A s \in Slot \ (jammed \cup {Head(todo).slot}) : Matches(s)
-----------------------------------------------------------------------------
(* What the helpers do.                                                    *)

\* The operations after the head, by what the head is.
LEMMA NextOps ==
  ASSUME NEW q, Shaped(q), q # <<>>
  PROVE  LET h == Head(q)
             t == Tail(q)
             ended == t = <<>> \/ (t # <<>> /\ Head(t).do = "reload" /\ t[1].do = "reload")
         IN /\ h \in Op /\ Shaped(t)
            /\ h.do \in {"open", "write"} => h.data \in Data
            /\ h.do = "remove" => h.data = NoChar
            /\ h.do = "open" => t # <<>> /\ Head(t) = Step("write", h.copy, h.slot, h.data)
            /\ h.do = "write" /\ h.copy = "main" =>
                 /\ t # <<>> /\ t[1] = Step("open", "backup", h.slot, h.data)
                 /\ Head(t) = Step("open", "backup", h.slot, h.data)
            /\ h.do = "write" /\ h.copy = "backup" => ended
            /\ h.do = "remove" /\ h.copy = "main" =>
                 /\ t # <<>> /\ t[1] = Step("remove", "backup", h.slot, NoChar)
                 /\ Head(t) = Step("remove", "backup", h.slot, NoChar)
            /\ h.do = "remove" /\ h.copy = "backup" => t = <<>>
            /\ h.do = "reload" => t = <<>>
<1>1. /\ Head(q) \in Op /\ Head(q) = q[1] /\ Continues(q, 1)
      /\ Tail(q) = <<>> <=> 1 = Len(q)
      /\ Tail(q) # <<>> => Head(Tail(q)) = q[1 + 1] /\ Tail(q)[1] = q[1 + 1]
  BY HeadShaped
<1>2. Shaped(Tail(q))
  BY TailShaped
<1> DEFINE h == Head(q)
           t == Tail(q)
           n == q[1 + 1]
<1>3. /\ h \in Op
      /\ t # <<>> => Head(t) = n /\ t[1] = n
      /\ h.do \in {"open", "write"} => h.data \in Data
      /\ h.do = "remove" => h.data = NoChar
      /\ h.do = "open" => t # <<>> /\ n = Step("write", h.copy, h.slot, h.data)
      /\ h.do = "write" /\ h.copy = "main" =>
           t # <<>> /\ n = Step("open", "backup", h.slot, h.data)
      /\ h.do = "write" /\ h.copy = "backup" => t = <<>> \/ n.do = "reload"
      /\ h.do = "remove" /\ h.copy = "main" =>
           t # <<>> /\ n = Step("remove", "backup", h.slot, NoChar)
      /\ h.do = "remove" /\ h.copy = "backup" => t = <<>>
      /\ h.do = "reload" => t = <<>>
  BY <1>1 DEF Continues
<1> HIDE DEF h, t, n
<1>4. h.do = "write" /\ h.copy = "backup" =>
        t = <<>> \/ (t # <<>> /\ Head(t).do = "reload" /\ t[1].do = "reload")
  BY <1>3
<1>5. /\ h.do = "open" => Head(t) = Step("write", h.copy, h.slot, h.data)
      /\ h.do = "write" /\ h.copy = "main" =>
           /\ t[1] = Step("open", "backup", h.slot, h.data)
           /\ Head(t) = Step("open", "backup", h.slot, h.data)
      /\ h.do = "remove" /\ h.copy = "main" =>
           /\ t[1] = Step("remove", "backup", h.slot, NoChar)
           /\ Head(t) = Step("remove", "backup", h.slot, NoChar)
  BY <1>3
<1> QED
  BY <1>2, <1>3, <1>4, <1>5 DEF h, t

\* What follows a save's emptying of a file when the file cannot be opened.
LEMMA SkipOps ==
  ASSUME NEW q, Shaped(q), q # <<>>, Head(q).do = "open"
  PROVE  LET h == Head(q)
             t == Tail(Tail(q))
         IN /\ Shaped(t)
            /\ h.copy = "main" => t # <<>> /\ Head(t) = Step("open", "backup", h.slot, h.data)
            /\ h.copy = "backup" => t = <<>> \/ Head(t).do = "reload"
<1>1. /\ Shaped(Tail(q)) /\ Tail(q) # <<>>
      /\ Head(Tail(q)) = Step("write", Head(q).copy, Head(q).slot, Head(q).data)
  BY NextOps
<1> DEFINE h == Head(q)
           u == Tail(q)
           g == Head(u)
<1>2. Shaped(u) /\ u # <<>> /\ g.do = "write" /\ g.copy = h.copy /\ g.slot = h.slot /\ g.data = h.data
  BY <1>1 DEF Step
<1>3. /\ Shaped(Tail(u))
      /\ g.copy = "main" => Tail(u) # <<>> /\ Head(Tail(u)) = Step("open", "backup", g.slot, g.data)
      /\ g.copy = "backup" => Tail(u) = <<>> \/ Head(Tail(u)).do = "reload"
  <2> HIDE DEF u
  <2> QED
    BY <1>2, NextOps
<1> QED
  BY <1>2, <1>3

LEMMA EditFile ==
  ASSUME files \in [Copy -> [Slot -> File]],
         NEW c \in Copy, NEW s \in Slot, NEW f \in File,
         files' = [files EXCEPT ![c][s] = f]
  PROVE  /\ files' \in [Copy -> [Slot -> File]]
         /\ \A k \in Copy, r \in Slot :
              files'[k][r] = IF k = c /\ r = s THEN f ELSE files[k][r]
OBVIOUS

LEMMA FileTypes ==
  /\ Absent \in File /\ Zero \in File
  /\ \A k \in {"stub", "torn", "whole"}, d \in Data : [kind |-> k, data |-> d] \in File
BY DEF File, Absent, Zero

LEMMA LoadsType ==
  ASSUME files \in [Copy -> [Slot -> File]], NEW s \in Slot
  PROVE  Loads(s) \in Data \cup {NoChar}
<1>1. ReadFromFile(s) \in File
  BY DEF ReadFromFile, Copy
<1>2. \A f \in File : AssignChar(f) \in Data \cup {NoChar}
  BY DEF AssignChar, File, Data
<1> QED
  BY <1>1, <1>2 DEF Loads

LEMMA FinishFacts ==
  ASSUME promised \in [Slot -> SUBSET (Data \cup {NoChar})], torn \in [Slot -> 0 .. 2],
         NEW op \in Op, NEW rest, Finish(op, rest)
  PROVE  /\ promised' \in [Slot -> SUBSET (Data \cup {NoChar})]
         /\ torn' \in [Slot -> 0 .. 2]
         /\ jammed' = jammed
         /\ (rest # <<>> /\ rest[1].do # "reload") \/ op.slot \in jammed =>
              promised' = promised /\ torn' = torn
         /\ (rest = <<>> \/ rest[1].do = "reload") /\ op.slot \notin jammed =>
              promised'[op.slot] = {op.data} /\ torn'[op.slot] = 0
         /\ \A s \in Slot : s # op.slot => promised'[s] = promised[s] /\ torn'[s] = torn[s]
<1>1. op.slot \in Slot /\ op.data \in Data \cup {NoChar}
  BY DEF Op
<1> QED
  BY <1>1 DEF Finish

LEMMA StartFacts ==
  ASSUME TypeOK, NEW ops, Shaped(ops), NEW s \in Slot, NEW d \in Data \cup {NoChar},
         Start(ops, s, d)
  PROVE  /\ todo' = ops /\ todo' \in Seq(Op)
         /\ jammed' = jammed \ {s} /\ jammed' \subseteq Slot
         /\ promised' \in [Slot -> SUBSET (Data \cup {NoChar})]
         /\ d \in promised'[s]
         /\ \A r \in Slot : promised[r] \subseteq promised'[r]
BY DEF Start, TypeOK, Shaped
-----------------------------------------------------------------------------
(* The file operations.                                                    *)

LEMMA OpenSafe ==
  ASSUME SafeInv, todo # <<>>, FileOpen(Head(todo))
  PROVE  SafeInv'
<1> DEFINE h == Head(todo)
           t == Tail(todo)
<1>1. /\ h \in Op /\ h.do = "open" /\ h.data \in Data /\ Shaped(t) /\ t # <<>>
      /\ h.copy \in Copy /\ h.slot \in Slot /\ t \in Seq(Op)
      /\ Head(t).do = "write" /\ Head(t).copy = h.copy
      /\ Head(t).slot = h.slot /\ Head(t).data = h.data
  <2>1. /\ h \in Op /\ Shaped(t) /\ h.data \in Data /\ t # <<>>
        /\ Head(t) = Step("write", h.copy, h.slot, h.data)
    BY NextOps DEF SafeInv, FileOpen
  <2> QED
    BY <2>1 DEF Op, Step, Shaped, FileOpen
<1>2. /\ files' \in [Copy -> [Slot -> File]]
      /\ \A k \in Copy, r \in Slot :
           files'[k][r] = IF k = h.copy /\ r = h.slot THEN Zero ELSE files[k][r]
      /\ todo' = t
      /\ promised' = promised /\ torn' = torn /\ jammed' = jammed
      /\ memory' = memory /\ made' = made
  <2>1. files \in [Copy -> [Slot -> File]] /\ files' = [files EXCEPT ![h.copy][h.slot] = Zero]
    BY DEF FileOpen, SafeInv, TypeOK
  <2>2. /\ files' \in [Copy -> [Slot -> File]]
        /\ \A k \in Copy, r \in Slot :
             files'[k][r] = IF k = h.copy /\ r = h.slot THEN Zero ELSE files[k][r]
    BY <1>1, <2>1, EditFile, FileTypes
  <2> QED
    BY <2>2 DEF FileOpen, history
<1> HIDE DEF t
<1>3. TypeOK' /\ Shaped(todo)'
  BY <1>1, <1>2 DEF SafeInv, TypeOK, memory
<1>4. Underway'
  <2>1. /\ h.data \in promised[h.slot]
        /\ h.copy = "backup" /\ h.slot \notin jammed =>
             files["main"][h.slot] = [kind |-> "whole", data |-> h.data]
    BY <1>1 DEF SafeInv, Underway
  <2>2. h.copy = "backup" => files'["main"][h.slot] = files["main"][h.slot]
    BY <1>1, <1>2 DEF Copy
  <2> QED
    BY <1>1, <1>2, <2>1, <2>2 DEF Underway
<1>5. ASSUME NEW s \in Slot
      PROVE  WholeIsPromised(s)' /\ FilesSound(s)'
  <2>1. WholeIsPromised(s) /\ FilesSound(s)
    BY DEF SafeInv
  <2>2. WholeIsPromised(s)'
    BY <1>1, <1>2, <2>1 DEF WholeIsPromised, Zero
  <2>3. Writing(s)' <=> s = h.slot
    BY <1>1, <1>2 DEF Writing
  <2>4. ~Writing(s)
    BY <1>1 DEF Writing
  <2>5. \A c \in Copy : c # h.copy \/ s # h.slot => (Sound(c, s)' <=> Sound(c, s))
    BY <1>1, <1>2 DEF Sound
  <2>6. FilesSound(s)'
    BY <1>1, <1>2, <2>1, <2>3, <2>4, <2>5 DEF FilesSound, Copy
  <2> QED
    BY <2>2, <2>6
<1> QED
  BY <1>3, <1>4, <1>5 DEF SafeInv

LEMMA WriteSafe ==
  ASSUME SafeInv, todo # <<>>, FileWrite(Head(todo))
  PROVE  SafeInv'
<1> DEFINE h == Head(todo)
           t == Tail(todo)
           f == [kind |-> "whole", data |-> h.data]
<1>1. /\ h \in Op /\ h.do = "write" /\ h.data \in Data /\ Shaped(t) /\ t \in Seq(Op)
      /\ h.copy \in Copy /\ h.slot \in Slot
      /\ h.copy = "main" =>
           /\ t # <<>> /\ t[1].do = "open" /\ Head(t).do = "open" /\ Head(t).copy = "backup"
           /\ Head(t).slot = h.slot /\ Head(t).data = h.data
      /\ h.copy = "backup" => t = <<>> \/ (t # <<>> /\ Head(t).do = "reload" /\ t[1].do = "reload")
  <2>1. /\ h \in Op /\ Shaped(t) /\ h.data \in Data
        /\ h.copy = "main" =>
             /\ t # <<>> /\ t[1] = Step("open", "backup", h.slot, h.data)
             /\ Head(t) = Step("open", "backup", h.slot, h.data)
        /\ h.copy = "backup" => t = <<>> \/ (t # <<>> /\ Head(t).do = "reload" /\ t[1].do = "reload")
    BY NextOps DEF SafeInv, FileWrite
  <2> QED
    BY <2>1 DEF Op, Step, Shaped, FileWrite
<1>2. /\ files' \in [Copy -> [Slot -> File]]
      /\ \A k \in Copy, r \in Slot :
           files'[k][r] = IF k = h.copy /\ r = h.slot THEN f ELSE files[k][r]
      /\ todo' = t /\ memory' = memory /\ made' = made
  <2>1. files \in [Copy -> [Slot -> File]] /\ files' = [files EXCEPT ![h.copy][h.slot] = f]
    BY DEF FileWrite, SafeInv, TypeOK
  <2>2. /\ files' \in [Copy -> [Slot -> File]]
        /\ \A k \in Copy, r \in Slot :
             files'[k][r] = IF k = h.copy /\ r = h.slot THEN f ELSE files[k][r]
    <3>1. f \in File
      BY <1>1, FileTypes
    <3> HIDE DEF f
    <3> QED
      BY <1>1, <2>1, <3>1, EditFile
  <2> QED
    BY <2>2 DEF FileWrite
<1>3. /\ promised' \in [Slot -> SUBSET (Data \cup {NoChar})]
      /\ torn' \in [Slot -> 0 .. 2]
      /\ jammed' = jammed
      /\ (t # <<>> /\ t[1].do # "reload") \/ h.slot \in jammed =>
           promised' = promised /\ torn' = torn
      /\ (t = <<>> \/ t[1].do = "reload") /\ h.slot \notin jammed =>
           promised'[h.slot] = {h.data} /\ torn'[h.slot] = 0
      /\ \A s \in Slot : s # h.slot => promised'[s] = promised[s] /\ torn'[s] = torn[s]
  <2>1. /\ Finish(h, t) /\ promised \in [Slot -> SUBSET (Data \cup {NoChar})]
        /\ torn \in [Slot -> 0 .. 2]
    BY DEF FileWrite, SafeInv, TypeOK
  <2> HIDE DEF h, t
  <2> QED
    BY <1>1, <2>1, FinishFacts
<1>4. /\ h.data \in promised[h.slot]
      /\ h.copy = "backup" /\ h.slot \notin jammed => files["main"][h.slot] = f
  BY <1>1 DEF SafeInv, Underway
<1> HIDE DEF t
<1>5. TypeOK' /\ Shaped(todo)'
  BY <1>1, <1>2, <1>3 DEF SafeInv, TypeOK, memory
<1>6. Underway'
  <2>1. CASE h.copy = "main"
    <3>1. files'["main"][h.slot] = f /\ promised' = promised
      BY <1>1, <1>2, <1>3, <2>1
    <3> QED
      BY <1>1, <1>2, <1>4, <2>1, <3>1 DEF Underway
  <2>2. CASE h.copy = "backup"
    BY <1>1, <1>2, <2>2 DEF Underway
  <2> QED
    BY <1>1, <2>1, <2>2 DEF Copy
<1>7. ASSUME NEW s \in Slot
      PROVE  WholeIsPromised(s)' /\ FilesSound(s)'
  <2>1. WholeIsPromised(s) /\ FilesSound(s)
    BY DEF SafeInv
  <2>2. ~Writing(s)' /\ (Writing(s) <=> s = h.slot)
    BY <1>1, <1>2 DEF Writing, Copy
  <2>3. CASE s # h.slot
    <3>1. /\ \A c \in Copy : files'[c][s] = files[c][s]
          /\ promised'[s] = promised[s] /\ torn'[s] = torn[s]
      BY <1>2, <1>3, <2>3
    <3>2. \A c \in Copy : Sound(c, s)' <=> Sound(c, s)
      BY <3>1 DEF Sound
    <3> QED
      BY <2>1, <2>2, <2>3, <3>1, <3>2 DEF WholeIsPromised, FilesSound, Copy
  <2>4. CASE s = h.slot /\ promised' = promised /\ torn' = torn
    <3>1. WholeIsPromised(s)'
      BY <1>1, <1>2, <1>4, <2>1, <2>4 DEF WholeIsPromised
    <3> PICK k \in Copy : k = h.copy
      BY <1>1
    <3>2. Sound(k, s)'
      BY <1>1, <1>2, <2>4 DEF Sound
    <3>3. \A c \in Copy : c # h.copy => (Sound(c, s)' <=> Sound(c, s))
      BY <1>2, <2>4 DEF Sound
    <3> QED
      BY <1>1, <2>1, <2>2, <2>4, <3>1, <3>2, <3>3 DEF FilesSound, Copy
  <2>5. CASE s = h.slot /\ promised'[h.slot] = {h.data} /\ h.copy = "backup" /\ h.slot \notin jammed
    <3>1. \A c \in Copy : files'[c][s] = f
      BY <1>1, <1>2, <1>4, <2>5 DEF Copy
    <3>2. WholeIsPromised(s)'
      BY <2>5, <3>1 DEF WholeIsPromised
    <3>3. \A c \in Copy : Sound(c, s)'
      BY <3>1 DEF Sound
    <3> QED
      BY <2>2, <3>2, <3>3 DEF FilesSound, Copy
  <2> QED
    BY <1>1, <1>3, <2>3, <2>4, <2>5 DEF Copy
<1> QED
  BY <1>5, <1>6, <1>7 DEF SafeInv

LEMMA RemoveSafe ==
  ASSUME SafeInv, todo # <<>>, FileRemove(Head(todo))
  PROVE  SafeInv'
<1> DEFINE h == Head(todo)
           t == Tail(todo)
<1>1. /\ h \in Op /\ h.do = "remove" /\ h.data = NoChar /\ Shaped(t) /\ t \in Seq(Op)
      /\ h.copy \in Copy /\ h.slot \in Slot
      /\ h.copy = "main" =>
           /\ t # <<>> /\ t[1].do = "remove" /\ Head(t).do = "remove" /\ Head(t).copy = "backup"
           /\ Head(t).slot = h.slot /\ Head(t).data = NoChar
      /\ h.copy = "backup" => t = <<>>
  <2>1. /\ h \in Op /\ Shaped(t) /\ h.data = NoChar
        /\ h.copy = "main" =>
             /\ t # <<>> /\ t[1] = Step("remove", "backup", h.slot, NoChar)
             /\ Head(t) = Step("remove", "backup", h.slot, NoChar)
        /\ h.copy = "backup" => t = <<>>
    BY NextOps DEF SafeInv, FileRemove
  <2> QED
    BY <2>1 DEF Op, Step, Shaped, FileRemove
<1>2. /\ files' \in [Copy -> [Slot -> File]]
      /\ \A k \in Copy, r \in Slot :
           files'[k][r] = IF k = h.copy /\ r = h.slot THEN Absent ELSE files[k][r]
      /\ todo' = t /\ memory' = memory /\ made' = made
  <2>1. files \in [Copy -> [Slot -> File]] /\ files' = [files EXCEPT ![h.copy][h.slot] = Absent]
    BY DEF FileRemove, SafeInv, TypeOK
  <2>2. /\ files' \in [Copy -> [Slot -> File]]
        /\ \A k \in Copy, r \in Slot :
             files'[k][r] = IF k = h.copy /\ r = h.slot THEN Absent ELSE files[k][r]
    BY <1>1, <2>1, EditFile, FileTypes
  <2> QED
    BY <2>2 DEF FileRemove
<1>3. /\ promised' \in [Slot -> SUBSET (Data \cup {NoChar})]
      /\ torn' \in [Slot -> 0 .. 2]
      /\ jammed' = jammed
      /\ (t # <<>> /\ t[1].do # "reload") \/ h.slot \in jammed =>
           promised' = promised /\ torn' = torn
      /\ (t = <<>> \/ t[1].do = "reload") /\ h.slot \notin jammed =>
           promised'[h.slot] = {h.data} /\ torn'[h.slot] = 0
      /\ \A s \in Slot : s # h.slot => promised'[s] = promised[s] /\ torn'[s] = torn[s]
  <2>1. /\ Finish(h, t) /\ promised \in [Slot -> SUBSET (Data \cup {NoChar})]
        /\ torn \in [Slot -> 0 .. 2]
    BY DEF FileRemove, SafeInv, TypeOK
  <2> HIDE DEF h, t
  <2> QED
    BY <1>1, <2>1, FinishFacts
<1>4. /\ NoChar \in promised[h.slot]
      /\ h.copy = "backup" /\ h.slot \notin jammed => files["main"][h.slot] = Absent
  BY <1>1 DEF SafeInv, Underway
<1> HIDE DEF t
<1>5. TypeOK' /\ Shaped(todo)'
  BY <1>1, <1>2, <1>3 DEF SafeInv, TypeOK, memory
<1>6. Underway'
  <2>1. CASE h.copy = "main"
    <3>1. files'["main"][h.slot] = Absent /\ promised' = promised
      BY <1>1, <1>2, <1>3, <2>1
    <3> QED
      BY <1>1, <1>2, <1>4, <2>1, <3>1 DEF Underway
  <2>2. CASE h.copy = "backup"
    BY <1>1, <1>2, <2>2 DEF Underway
  <2> QED
    BY <1>1, <2>1, <2>2 DEF Copy
<1>7. ASSUME NEW s \in Slot
      PROVE  WholeIsPromised(s)' /\ FilesSound(s)'
  <2>1. WholeIsPromised(s) /\ FilesSound(s)
    BY DEF SafeInv
  <2>2. ~Writing(s)' /\ ~Writing(s)
    BY <1>1, <1>2 DEF Writing, Copy
  <2>3. CASE s # h.slot
    <3>1. /\ \A c \in Copy : files'[c][s] = files[c][s]
          /\ promised'[s] = promised[s] /\ torn'[s] = torn[s]
      BY <1>2, <1>3, <2>3
    <3>2. \A c \in Copy : Sound(c, s)' <=> Sound(c, s)
      BY <3>1 DEF Sound
    <3> QED
      BY <2>1, <2>2, <2>3, <3>1, <3>2 DEF WholeIsPromised, FilesSound, Copy
  <2>4. CASE s = h.slot /\ promised' = promised /\ torn' = torn
    <3>1. WholeIsPromised(s)'
      BY <1>1, <1>2, <1>4, <2>1, <2>4 DEF WholeIsPromised, Absent
    <3> PICK k \in Copy : k = h.copy
      BY <1>1
    <3>2. Sound(k, s)'
      BY <1>1, <1>2, <1>4, <2>4 DEF Sound, Absent
    <3>3. \A c \in Copy : c # h.copy => (Sound(c, s)' <=> Sound(c, s))
      BY <1>2, <2>4 DEF Sound
    <3> QED
      BY <1>1, <2>1, <2>2, <2>4, <3>1, <3>2, <3>3 DEF FilesSound, Copy
  <2>5. CASE s = h.slot /\ promised'[h.slot] = {NoChar} /\ h.copy = "backup" /\ h.slot \notin jammed
    <3>1. \A c \in Copy : files'[c][s] = Absent
      BY <1>1, <1>2, <1>4, <2>5 DEF Copy
    <3>2. WholeIsPromised(s)'
      BY <2>5, <3>1 DEF WholeIsPromised, Absent
    <3>3. \A c \in Copy : Sound(c, s)'
      BY <2>5, <3>1 DEF Sound, Absent
    <3> QED
      BY <2>2, <3>2, <3>3 DEF FilesSound, Copy
  <2> QED
    BY <1>1, <1>3, <2>3, <2>4, <2>5 DEF Copy
<1> QED
  BY <1>5, <1>6, <1>7 DEF SafeInv

LEMMA JamSafe ==
  ASSUME SafeInv, todo # <<>>, Jam(Head(todo))
  PROVE  SafeInv'
<1> DEFINE h == Head(todo)
           t == IF h.do = "open" THEN Tail(Tail(todo)) ELSE Tail(todo)
<1>1. /\ h \in Op /\ h.slot \in Slot /\ h.do \in {"open", "remove"} /\ Shaped(t)
      /\ t = <<>> \/ Head(t).do = "reload"
           \/ (Head(t).do # "write" /\ Head(t).slot = h.slot /\ Head(t).data = h.data)
  <2>1. h \in Op /\ h.slot \in Slot /\ h.copy \in Copy /\ Shaped(Tail(todo)) /\ h.do \in {"open", "remove"}
    BY NextOps DEF SafeInv, Jam, Op
  <2>2. CASE h.do = "open"
    <3>1. /\ Shaped(t)
          /\ h.copy = "main" => t # <<>> /\ Head(t) = Step("open", "backup", h.slot, h.data)
          /\ h.copy = "backup" => t = <<>> \/ Head(t).do = "reload"
      BY <2>2, SkipOps DEF SafeInv
    <3> HIDE DEF t
    <3> QED
      BY <2>1, <3>1 DEF Step, Copy
  <2>3. CASE h.do = "remove"
    <3>1. /\ Shaped(t) /\ h.data = NoChar
          /\ h.copy = "main" => t # <<>> /\ Head(t) = Step("remove", "backup", h.slot, NoChar)
          /\ h.copy = "backup" => t = <<>>
      BY <2>3, NextOps DEF SafeInv
    <3> HIDE DEF t
    <3> QED
      BY <2>1, <3>1 DEF Step, Copy
  <2> QED
    BY <2>1, <2>2, <2>3
<1>2. /\ todo' = t /\ jammed' = jammed \cup {h.slot}
      /\ files' = files /\ memory' = memory /\ made' = made
      /\ promised' = promised /\ torn' = torn
  BY DEF Jam
<1> HIDE DEF t
<1>3. TypeOK' /\ Shaped(todo)'
  BY <1>1, <1>2 DEF SafeInv, TypeOK, memory, Shaped
<1>4. Underway'
  <2>1. h.data \in promised[h.slot]
    BY <1>1 DEF SafeInv, Underway
  <2> QED
    BY <1>1, <1>2, <2>1 DEF Underway
<1>5. ASSUME NEW s \in Slot
      PROVE  WholeIsPromised(s)' /\ FilesSound(s)'
  <2>1. ~Writing(s)' /\ ~Writing(s)
    BY <1>1, <1>2 DEF Writing
  <2>2. Sound("main", s)' <=> Sound("main", s)
    BY <1>2 DEF Sound
  <2>3. Sound("backup", s)' <=> Sound("backup", s)
    BY <1>2 DEF Sound
  <2> QED
    BY <1>2, <2>1, <2>2, <2>3 DEF SafeInv, WholeIsPromised, FilesSound
<1> QED
  BY <1>3, <1>4, <1>5 DEF SafeInv

\* A step that leaves the files, the operations and the histories alone.
LEMMA QuietSafe ==
  ASSUME SafeInv, TypeOK', files' = files, todo' = todo, UNCHANGED history
  PROVE  SafeInv'
<1>1. Underway'
  BY DEF SafeInv, Underway, history
<1>2. ASSUME NEW s \in Slot
      PROVE  WholeIsPromised(s)' /\ FilesSound(s)'
  <2>1. Writing(s)' <=> Writing(s)
    BY DEF Writing
  <2>2. \A c \in Copy : Sound(c, s)' <=> Sound(c, s)
    BY DEF Sound, history
  <2> QED
    BY <2>1, <2>2 DEF SafeInv, WholeIsPromised, FilesSound, history, Copy
<1> QED
  BY <1>1, <1>2 DEF SafeInv

LEMMA ReloadSafe ==
  ASSUME SafeInv, todo # <<>>, PreLoadChars(Head(todo))
  PROVE  SafeInv'
<1>1. Tail(todo) = <<>> /\ Shaped(Tail(todo))
  BY NextOps DEF SafeInv, PreLoadChars
<1>2. info' \in [Slot -> Data \cup {NoChar}]
  BY LoadsType DEF SafeInv, TypeOK, PreLoadChars
<1>3. TypeOK' /\ Shaped(todo)'
  BY <1>1, <1>2 DEF SafeInv, TypeOK, PreLoadChars, history, Shaped
<1>4. Underway'
  BY <1>1 DEF Underway, PreLoadChars
<1>5. ASSUME NEW s \in Slot
      PROVE  WholeIsPromised(s)' /\ FilesSound(s)'
  <2>1. ~Writing(s)' /\ ~Writing(s)
    BY <1>1 DEF Writing, PreLoadChars
  <2>2. \A c \in Copy : Sound(c, s)' <=> Sound(c, s)
    BY DEF Sound, PreLoadChars, history
  <2> QED
    BY <2>1, <2>2 DEF SafeInv, WholeIsPromised, FilesSound, PreLoadChars, history, Copy
<1> QED
  BY <1>3, <1>4, <1>5 DEF SafeInv

LEMMA CrashSafe ==
  ASSUME SafeInv, Crash
  PROVE  SafeInv'
<1> DEFINE h == Head(todo)
<1>1. todo # <<>> =>
        /\ h \in Op /\ h.copy \in Copy /\ h.slot \in Slot
        /\ h.do \in {"open", "write"} => h.data \in Data
  BY NextOps DEF SafeInv, Op
<1>2. /\ files' \in [Copy -> [Slot -> File]]
      /\ \/ files' = files
         \/ /\ todo # <<>> /\ h.do = "write"
            /\ files'[h.copy][h.slot].kind \in {"stub", "torn"}
            /\ \A k \in Copy, r \in Slot :
                 k # h.copy \/ r # h.slot => files'[k][r] = files[k][r]
  <2>1. files \in [Copy -> [Slot -> File]]
    BY DEF SafeInv, TypeOK
  <2>2. CASE UNCHANGED files
    BY <2>1, <2>2
  <2>3. ASSUME todo # <<>>, h.do = "write", NEW cut \in {"stub", "torn"},
               files' = [files EXCEPT ![h.copy][h.slot] = [kind |-> cut, data |-> h.data]]
        PROVE  <1>2
    <3> DEFINE f == [kind |-> cut, data |-> h.data]
    <3>1. f \in File /\ f.kind = cut
      BY <1>1, <2>3, FileTypes
    <3> HIDE DEF f
    <3>2. /\ files' \in [Copy -> [Slot -> File]]
          /\ \A k \in Copy, r \in Slot :
               files'[k][r] = IF k = h.copy /\ r = h.slot THEN f ELSE files[k][r]
      <4>1. files' = [files EXCEPT ![h.copy][h.slot] = f]
        BY <2>3 DEF f
      <4> QED
        BY <1>1, <2>1, <2>3, <3>1, <4>1, EditFile
    <3> QED
      BY <1>1, <2>3, <3>1, <3>2
  <2> QED
    BY <2>2, <2>3 DEF Crash
<1>3. /\ torn' \in [Slot -> 0 .. 2]
      /\ \A s \in Slot :
           torn'[s] = IF Saving /\ h.slot = s THEN IF torn[s] = 0 THEN 1 ELSE 2 ELSE torn[s]
  <2>1. Saving => h.slot \in Slot
    BY <1>1 DEF Saving
  <2> QED
    BY <2>1 DEF Crash, SafeInv, TypeOK
<1>4. todo' = <<>> /\ Shaped(todo)'
  BY EmptySeq DEF Crash, Shaped
<1>5. TypeOK'
  BY <1>2, <1>3, <1>4 DEF SafeInv, TypeOK, Crash, Shaped
<1>6. Underway'
  BY <1>4 DEF Underway
<1>7. ASSUME NEW s \in Slot
      PROVE  WholeIsPromised(s)' /\ FilesSound(s)'
  <2>1. WholeIsPromised(s) /\ FilesSound(s)
    BY DEF SafeInv
  <2>2. promised' = promised /\ ~Writing(s)'
    BY <1>4 DEF Crash, Writing
  <2>3. \A c \in Copy : files'[c][s] = files[c][s] \/
                        (Writing(s) /\ c = h.copy /\ files'[c][s].kind \in {"stub", "torn"})
    BY <1>1, <1>2 DEF Writing
  <2>4. WholeIsPromised(s)'
    BY <2>1, <2>2, <2>3 DEF WholeIsPromised
  <2>5. \A c \in Copy : ~Writing(s) \/ c # h.copy => (Sound(c, s)' <=> Sound(c, s))
    BY <2>2, <2>3 DEF Sound
  <2>6. CASE Writing(s)
    <3>1. Saving /\ h.slot = s /\ h.copy \in Copy
      BY <1>1, <2>6 DEF Writing, Saving
    <3>2. torn'[s] = IF torn[s] = 0 THEN 1 ELSE 2
      BY <1>3, <3>1
    <3>3. torn[s] = 0 => Sound("main", s)' \/ Sound("backup", s)'
      BY <2>1, <2>5, <2>6, <3>1 DEF FilesSound, Copy
    <3> QED
      BY <2>2, <2>4, <3>2, <3>3 DEF FilesSound
  <2>7. CASE ~Writing(s)
    <3>1. torn'[s] = 0 => torn[s] = 0
      BY <1>3
    <3>2. torn'[s] = 1 => torn[s] \in {0, 1}
      BY <1>3
    <3> QED
      BY <2>1, <2>2, <2>4, <2>5, <2>7, <3>1, <3>2 DEF FilesSound, Copy
  <2> QED
    BY <2>6, <2>7
<1> QED
  BY <1>4, <1>5, <1>6, <1>7 DEF SafeInv

\* A save or a delete begins.
LEMMA StartSafe ==
  ASSUME SafeInv, TypeOK', todo = <<>>, UNCHANGED <<files, torn>>,
         NEW ops, Shaped(ops), NEW s \in Slot, NEW d \in Data \cup {NoChar},
         Start(ops, s, d),
         ops # <<>>, Head(ops).do # "write", Head(ops).copy = "main",
         Head(ops).slot = s, Head(ops).data = d
  PROVE  SafeInv'
<1>1. /\ todo' = ops /\ d \in promised'[s]
      /\ \A r \in Slot : promised[r] \subseteq promised'[r]
  BY StartFacts DEF SafeInv
<1>2. Underway'
  BY <1>1 DEF Underway
<1>3. ASSUME NEW r \in Slot
      PROVE  WholeIsPromised(r)' /\ FilesSound(r)'
  <2>1. WholeIsPromised(r) /\ FilesSound(r)
    BY DEF SafeInv
  <2>2. ~Writing(r) /\ ~Writing(r)'
    BY <1>1 DEF Writing
  <2>3. \A c \in Copy : Sound(c, r) => Sound(c, r)'
    BY <1>1 DEF Sound
  <2> QED
    BY <1>1, <2>1, <2>2, <2>3 DEF WholeIsPromised, FilesSound, Copy
<1> QED
  BY <1>1, <1>2, <1>3 DEF SafeInv
-----------------------------------------------------------------------------
(* The invariant holds initially and is kept.                              *)

LEMMA InitSafe == Init => SafeInv /\ ListInv
<1> SUFFICES ASSUME Init PROVE SafeInv /\ ListInv
  OBVIOUS
<1>1. TypeOK /\ Shaped(todo)
  <2>1. files \in [Copy -> [Slot -> File]]
    BY FileTypes DEF Init
  <2>2. todo \in Seq(Op) /\ Len(todo) = 0
    BY EmptySeq DEF Init
  <2>3. Shaped(todo)
    BY <2>2 DEF Shaped
  <2>4. /\ promised \in [Slot -> SUBSET (Data \cup {NoChar})]
        /\ torn \in [Slot -> 0 .. 2] /\ made \in Nat /\ jammed \subseteq Slot
    BY DEF Init
  <2>5. /\ info \in [Slot -> Data \cup {NoChar}] /\ live \in Data \cup {NoChar}
        /\ num \in Slot /\ up \in BOOLEAN /\ here \in BOOLEAN
    BY DEF Init
  <2>6. (here => up) /\ (live # NoChar => here)
    BY DEF Init
  <2> QED
    BY <2>1, <2>2, <2>3, <2>4, <2>5, <2>6 DEF TypeOK
<1>2. \A s \in Slot, c \in Copy : files[c][s] = Absent /\ promised[s] = {NoChar} /\ torn[s] = 0
  BY DEF Init
<1>3. ASSUME NEW s \in Slot PROVE WholeIsPromised(s) /\ FilesSound(s)
  <2>1. \A c \in Copy : Sound(c, s)
    BY <1>2 DEF Sound, Absent
  <2> QED
    BY <1>2, <2>1 DEF WholeIsPromised, FilesSound, Writing, Absent, Copy, Init
<1> QED
  BY <1>1, <1>3 DEF SafeInv, Underway, ListInv, Init

LEMMA SafeStep == SafeInv /\ [Next]_vars => SafeInv'
<1> SUFFICES ASSUME SafeInv, [Next]_vars PROVE SafeInv'
  OBVIOUS
<1>0. TypeOK /\ SafeInv
  BY DEF SafeInv
<1>1. CASE FileStep
  BY <1>1, OpenSafe, WriteSafe, RemoveSafe, JamSafe, ReloadSafe DEF FileStep
<1>2. CASE Crash
  BY <1>2, CrashSafe
<1>3. CASE ServerStart
  <2>1. TypeOK'
    BY <1>0, <1>3 DEF TypeOK, ServerStart, history
  <2> QED
    BY <1>0, <1>3, <2>1, QuietSafe DEF ServerStart
<1>4. CASE Connect
  <2>1. info' \in [Slot -> Data \cup {NoChar}]
    BY <1>0, <1>4, LoadsType DEF Connect, TypeOK
  <2>2. TypeOK'
    BY <1>0, <1>4, <2>1 DEF TypeOK, Connect, Idle, history
  <2> QED
    BY <1>0, <1>4, <2>2, QuietSafe DEF Connect
<1>5. CASE Play
  <2>1. live' \in Data /\ live # NoChar
    BY <1>0, <1>5 DEF Play, Data, TypeOK
  <2>2. NoChar \notin Data
    BY DEF Data
  <2>3. TypeOK'
    BY <1>0, <1>5, <2>1, <2>2 DEF TypeOK, Play, history
  <2> QED
    BY <1>0, <1>5, <2>3, QuietSafe DEF Play
<1>6. CASE SaveChar
  <2> DEFINE ops == WriteToFile(num, live)
  <2>1. live \in Data /\ num \in Slot
    BY <1>0, <1>6 DEF SaveChar, TypeOK
  <2>2. Shaped(ops) /\ ops # <<>> /\ Head(ops) = Step("open", "main", num, live)
    BY <2>1, WriteShaped
  <2>3. /\ todo = <<>> /\ Start(ops, num, live)
        /\ UNCHANGED <<files, memory, made, torn>>
    BY <1>6 DEF SaveChar, Idle
  <2> HIDE DEF ops
  <2>4. TypeOK'
    BY <1>0, <2>1, <2>2, <2>3, StartFacts DEF TypeOK, memory
  <2> QED
    BY <1>0, <2>1, <2>2, <2>3, <2>4, StartSafe DEF Step
<1>7. CASE Leave
  <2>1. CASE live # NoChar /\ Start(WriteToFile(num, live), num, live)
    <3> DEFINE ops == WriteToFile(num, live)
    <3>1. live \in Data /\ num \in Slot
      BY <1>0, <2>1 DEF TypeOK
    <3>2. Shaped(ops) /\ ops # <<>> /\ Head(ops) = Step("open", "main", num, live)
      BY <3>1, WriteShaped
    <3>3. /\ todo = <<>> /\ Start(ops, num, live)
          /\ UNCHANGED <<files, up, num, made, torn>>
          /\ here' = FALSE /\ live' = NoChar /\ info' = [r \in Slot |-> NoChar]
      BY <1>7, <2>1 DEF Leave, Idle
    <3> HIDE DEF ops
    <3>4. TypeOK'
      BY <1>0, <3>1, <3>2, <3>3, StartFacts DEF TypeOK
    <3> QED
      BY <1>0, <3>1, <3>2, <3>3, <3>4, StartSafe DEF Step
  <2>2. CASE UNCHANGED <<todo, jammed, promised>>
    <3>1. TypeOK'
      BY <1>0, <1>7, <2>2 DEF TypeOK, Leave, Idle
    <3> QED
      BY <1>0, <1>7, <2>2, <3>1, QuietSafe DEF Leave, history
  <2> QED
    BY <1>7, <2>1, <2>2 DEF Leave
<1>8. ASSUME NEW s \in Slot, LoadCharacter(s)
      PROVE  SafeInv'
  <2>1. TypeOK'
    BY <1>0, <1>8 DEF TypeOK, LoadCharacter, Idle, history
  <2> QED
    BY <1>0, <1>8, <2>1, QuietSafe DEF LoadCharacter
<1>9. ASSUME NEW s \in Slot, CreateChar(s)
      PROVE  SafeInv'
  <2> DEFINE d == [id |-> made + 1, ver |-> 0, lost |-> FALSE]
             ops == WriteToFile(s, d) \o <<Step("reload", "main", s, NoChar)>>
  <2>1. d \in Data /\ made + 1 \in Nat
    BY <1>0 DEF TypeOK, Data
  <2>2. Shaped(ops) /\ ops # <<>> /\ Head(ops) = Step("open", "main", s, d)
    <3> HIDE DEF d
    <3> QED
      BY <2>1, CreateShaped
  <2>3. /\ todo = <<>> /\ Start(ops, s, d) /\ made' = made + 1 /\ num' = s
        /\ UNCHANGED <<files, up, here, info, live, torn>>
    BY <1>9 DEF CreateChar, Idle
  <2> HIDE DEF ops, d
  <2>4. TypeOK'
    BY <1>0, <2>1, <2>2, <2>3, StartFacts DEF TypeOK
  <2> QED
    BY <1>0, <2>1, <2>2, <2>3, <2>4, StartSafe DEF Step
<1>10. ASSUME NEW s \in Slot, DeleteChar(s)
       PROVE  SafeInv'
  <2> DEFINE ops == RemoveFiles(s)
  <2>1. Shaped(ops) /\ ops # <<>> /\ Head(ops) = Step("remove", "main", s, NoChar)
    BY RemoveShaped
  <2>2. /\ todo = <<>> /\ Start(ops, s, NoChar) /\ info' = [info EXCEPT ![s] = NoChar]
        /\ UNCHANGED <<files, up, here, num, live, made, torn>>
    BY <1>10 DEF DeleteChar, Idle
  <2> HIDE DEF ops
  <2>3. TypeOK'
    BY <1>0, <2>1, <2>2, StartFacts DEF TypeOK
  <2> QED
    BY <1>0, <2>1, <2>2, <2>3, StartSafe DEF Step
<1>11. CASE UNCHANGED vars
  <2>1. TypeOK'
    BY <1>0, <1>11 DEF TypeOK, vars, memory, history
  <2> QED
    BY <1>0, <1>11, <2>1, QuietSafe DEF vars
<1> QED
  BY <1>1, <1>2, <1>3, <1>4, <1>5, <1>6, <1>7, <1>8, <1>9, <1>10, <1>11 DEF Next

\* What a player who chooses is shown stays true until he plays.
LEMMA ListStep == SafeInv /\ ListInv /\ [Next]_vars => ListInv'
<1> SUFFICES ASSUME SafeInv, ListInv, [Next]_vars, here', live' = NoChar PROVE ListInv'
  BY DEF ListInv
<1>0. /\ files \in [Copy -> [Slot -> File]] /\ info \in [Slot -> Data \cup {NoChar}]
      /\ TypeOK /\ Shaped(todo)
  BY DEF SafeInv, TypeOK
<1> DEFINE h == Head(todo)
           t == Tail(todo)
<1>1. ASSUME todo # <<>>, here, live = NoChar, todo[Len(todo)].do = "reload",
             todo' = t \/ (h.do = "open" /\ todo' = Tail(t)), h.do # "reload"
      PROVE  todo' # <<>> /\ todo'[Len(todo')].do = "reload"
  <2>1. /\ Len(todo) \in Nat \ {0} /\ h = todo[1]
        /\ Len(t) = Len(todo) - 1 /\ Shaped(t)
        /\ \A k \in 1 .. Len(t) : t[k] = todo[k + 1]
    BY <1>0, <1>1, HeadShaped, TailShaped
  <2>2. Len(todo) > 1
    BY <1>1, <2>1
  <2>3. t[Len(t)].do = "reload" /\ t # <<>>
    <3>1. Len(t) \in 1 .. Len(t)
      BY <2>1, <2>2
    <3> QED
      BY <1>1, <2>1, <2>2, <3>1, EmptySeq
  <2>4. CASE h.do = "open" /\ todo' = Tail(t)
    <3>1. Head(t).do = "write" /\ Head(t) = t[1] /\ Len(t) \in Nat \ {0}
      <4>1. Head(t) = Step("write", h.copy, h.slot, h.data)
        BY <1>0, <1>1, <2>4, NextOps
      <4> QED
        BY <2>1, <2>3, <4>1, HeadShaped DEF Step
    <3>2. Len(t) > 1
      BY <2>3, <3>1
    <3>3. Len(Tail(t)) = Len(t) - 1 /\ \A k \in 1 .. Len(Tail(t)) : Tail(t)[k] = t[k + 1]
      BY <2>1, <2>3, TailShaped
    <3>4. Len(Tail(t)) \in 1 .. Len(Tail(t))
      BY <3>1, <3>2, <3>3
    <3>5. Tail(t)[Len(Tail(t))] = t[Len(t)]
      BY <3>1, <3>3, <3>4
    <3>6. Tail(t) # <<>>
      BY <3>4, EmptySeq
    <3> QED
      BY <2>3, <2>4, <3>5, <3>6
  <2> QED
    BY <1>1, <2>3, <2>4
<1>2. ASSUME todo # <<>>, h.do # "reload", here, live = NoChar,
             ~(todo[Len(todo)].do = "reload")
      PROVE  /\ h.do = "remove" /\ info[h.slot] = NoChar
             /\ \A s \in Slot \ (jammed \cup {h.slot}) : Matches(s)
  BY <1>2 DEF ListInv
<1>3. CASE UNCHANGED vars
  <2>1. \A s \in Slot : Matches(s)' <=> Matches(s)
    BY <1>3 DEF vars, memory, Matches, Loads, ReadFromFile
  <2> QED
    BY <1>3, <2>1 DEF ListInv, vars, memory, history
<1>4. CASE Next
  <2>1. CASE FileStep /\ h.do # "reload" /\ todo[Len(todo)].do = "reload"
    <3>1. here /\ live = NoChar /\ todo # <<>> /\ (todo' = t \/ (h.do = "open" /\ todo' = Tail(t)))
      BY <2>1 DEF FileStep, FileOpen, FileWrite, FileRemove, Jam, PreLoadChars, memory
    <3> QED
      BY <1>1, <2>1, <3>1 DEF ListInv
  <2>2. CASE FileStep /\ h.do # "reload" /\ ~(todo[Len(todo)].do = "reload")
    <3>1. /\ todo # <<>> /\ here /\ live = NoChar /\ info' = info /\ todo' = t
          /\ h.do = "remove" /\ info[h.slot] = NoChar
          /\ \A s \in Slot \ (jammed \cup {h.slot}) : Matches(s)
          /\ \/ FileRemove(h)
             \/ jammed' = jammed \cup {h.slot} /\ files' = files
      BY <1>2, <2>2 DEF FileStep, FileOpen, FileWrite, FileRemove, Jam, PreLoadChars, memory
    <3>2. /\ h \in Op /\ h.copy \in Copy /\ h.slot \in Slot
          /\ h.copy = "main" => t # <<>> /\ Head(t).do = "remove" /\ Head(t).slot = h.slot
          /\ h.copy = "backup" => t = <<>>
          /\ h.copy = "backup" /\ h.slot \notin jammed => files["main"][h.slot] = Absent
      <4>1. /\ h \in Op
            /\ h.copy = "main" => t # <<>> /\ Head(t) = Step("remove", "backup", h.slot, NoChar)
            /\ h.copy = "backup" => t = <<>>
        BY <1>0, <3>1, NextOps
      <4>2. h.copy = "backup" /\ h.slot \notin jammed => files["main"][h.slot] = Absent
        BY <3>1 DEF SafeInv, Underway
      <4> QED
        BY <4>1, <4>2 DEF Op, Step
    <3>3. /\ jammed \subseteq jammed'
          /\ \A k \in Copy, r \in Slot : r # h.slot => files'[k][r] = files[k][r]
          /\ h.copy = "backup" /\ h.slot \notin jammed' => \A k \in Copy : files'[k][h.slot] = Absent
      <4>1. CASE jammed' = jammed \cup {h.slot} /\ files' = files
        BY <3>2, <4>1
      <4>2. CASE FileRemove(h)
        <5>1. /\ files' = [files EXCEPT ![h.copy][h.slot] = Absent] /\ jammed' = jammed
          BY <4>2 DEF FileRemove, Finish
        <5> QED
          BY <1>0, <3>2, <5>1 DEF Copy
      <4> QED
        BY <3>1, <4>1, <4>2
    <3>4. \A s \in Slot \ (jammed' \cup {h.slot}) : Matches(s)'
      BY <3>1, <3>3 DEF Matches, Loads, ReadFromFile, Copy
    <3> PICK r \in Slot : r = h.slot
      BY <3>2
    <3>5. h.copy = "backup" /\ r \notin jammed' => Matches(r)'
      <4>1. SUFFICES ASSUME h.copy = "backup", r \notin jammed' PROVE Loads(r)' = NoChar
        BY <3>1 DEF Matches
      <4>2. files'["main"][r] = Absent /\ files'["backup"][r] = Absent
        BY <3>3, <4>1 DEF Copy
      <4> QED
        BY <4>2 DEF Loads, ReadFromFile, AssignChar, Absent
    <3>6. CASE h.copy = "main"
      BY <3>1, <3>2, <3>4, <3>6 DEF ListInv
    <3>7. CASE h.copy = "backup"
      <4>1. \A s \in Slot \ jammed' : Matches(s)'
        BY <3>4, <3>5, <3>7
      <4> QED
        BY <3>1, <3>2, <3>7, <4>1 DEF ListInv
    <3> QED
      BY <3>2, <3>6, <3>7 DEF Copy
  <2>3. CASE FileStep /\ h.do = "reload"
    <3>1. PreLoadChars(h) /\ todo # <<>> /\ t = <<>>
      BY <1>0, <2>3, NextOps DEF FileStep, FileOpen, FileWrite, FileRemove, Jam
    <3>2. \A s \in Slot : Matches(s)'
      BY <3>1 DEF PreLoadChars, Matches, Loads, ReadFromFile
    <3> QED
      BY <3>1, <3>2 DEF PreLoadChars, ListInv
  <2>4. CASE Crash
    BY <2>4 DEF Crash
  <2>5. CASE ServerStart
    <3>1. \A s \in Slot : Matches(s)' <=> Matches(s)
      BY <2>5 DEF ServerStart, Matches, Loads, ReadFromFile
    <3> QED
      BY <2>5, <3>1 DEF ServerStart, ListInv, history
  <2>6. CASE Connect
    <3>1. \A s \in Slot : Matches(s)'
      BY <2>6 DEF Connect, Matches, Loads, ReadFromFile
    <3> QED
      BY <2>6, <3>1 DEF Connect, ListInv, Idle
  <2>7. CASE Play
    <3>1. live' \in Data /\ NoChar \notin Data
      BY <1>0, <2>7 DEF Play, Data, TypeOK
    <3> QED
      BY <3>1
  <2>8. CASE SaveChar
    BY <2>8 DEF SaveChar, memory
  <2>9. CASE Leave
    BY <2>9 DEF Leave
  <2>10. ASSUME NEW s \in Slot, LoadCharacter(s)
         PROVE  FALSE
    BY <2>10 DEF LoadCharacter
  <2>11. ASSUME NEW s \in Slot, CreateChar(s)
         PROVE  ListInv'
    <3> DEFINE d == [id |-> made + 1, ver |-> 0, lost |-> FALSE]
               ops == WriteToFile(s, d) \o <<Step("reload", "main", s, NoChar)>>
    <3>1. d \in Data
      BY <1>0 DEF Data, TypeOK
    <3>2. ops # <<>> /\ ops[Len(ops)].do = "reload"
      <4> HIDE DEF d
      <4> QED
        BY <3>1, CreateShaped
    <3>3. todo' = ops
      BY <2>11 DEF CreateChar, Start
    <3> HIDE DEF ops
    <3> QED
      BY <3>2, <3>3 DEF ListInv
  <2>12. ASSUME NEW s \in Slot, DeleteChar(s)
         PROVE  ListInv'
    <3>1. /\ todo = <<>> /\ here /\ live = NoChar /\ todo' = RemoveFiles(s)
          /\ info' = [info EXCEPT ![s] = NoChar] /\ files' = files
          /\ jammed' = jammed \ {s}
      BY <2>12 DEF DeleteChar, Idle, Start
    <3>2. todo' # <<>> /\ Head(todo').do = "remove" /\ Head(todo').slot = s
      BY <3>1, RemoveShaped DEF Step
    <3>3. \A r \in Slot \ jammed : Matches(r)
      BY <3>1 DEF ListInv
    <3>4. \A r \in Slot \ (jammed' \cup {s}) : Matches(r)'
      BY <1>0, <3>1, <3>3 DEF Matches, Loads, ReadFromFile
    <3> QED
      BY <1>0, <3>1, <3>2, <3>4 DEF ListInv
  <2> QED
    BY <1>4, <2>1, <2>2, <2>3, <2>4, <2>5, <2>6, <2>7, <2>8, <2>9, <2>10, <2>11, <2>12 DEF Next
<1> QED
  BY <1>3, <1>4
-----------------------------------------------------------------------------
(* The theorems.                                                           *)

LEMMA SafeAlways == Spec => [](SafeInv /\ ListInv)
<1>1. Init => SafeInv /\ ListInv
  BY InitSafe
<1>2. SafeInv /\ ListInv /\ [Next]_vars => (SafeInv /\ ListInv)'
  BY SafeStep, ListStep
<1> QED
  BY <1>1, <1>2, PTL DEF Spec

\* The types.
THEOREM TypeCorrect == Spec => []TypeOK
<1>1. SafeInv => TypeOK
  BY DEF SafeInv
<1> QED
  BY <1>1, SafeAlways, PTL

\* WriteToFile rewrites one file at a time and ReadFromFile falls back on the
\* other: whatever the saves, deletes, refused file operations and crashes,
\* two crashes inside saves are needed before the next map start reads
\* something a slot should not hold.
THEOREM OneCrashSurvived == Spec => []OneCrashIsSafe
<1>1. ASSUME SafeInv
      PROVE  OneCrashIsSafe
  <2> SUFFICES ASSUME NEW s \in Slot, Disturbed(s) <= 1,
                      ReadFromFile(s).kind \notin {"stub", "torn"}
               PROVE  Loads(s) \in promised[s]
    BY DEF OneCrashIsSafe
  <2>1. /\ WholeIsPromised(s) /\ FilesSound(s)
        /\ \A c \in Copy : files[c][s] \in File
        /\ torn[s] \in 0 .. 2
    BY <1>1 DEF SafeInv, TypeOK
  <2>2. torn[s] = 0 \/ (torn[s] = 1 /\ ~Writing(s))
    BY <2>1 DEF Disturbed, Writing, Saving
  <2>3. \E c \in Copy : Sound(c, s)
    BY <2>1, <2>2 DEF FilesSound, Copy
  <2>4. CASE ReadFromFile(s).kind = "whole"
    BY <2>1, <2>4 DEF Loads, ReadFromFile, AssignChar, WholeIsPromised, Copy
  <2>5. CASE ReadFromFile(s).kind # "whole"
    <3>1. \A c \in Copy : files[c][s].kind \in {"absent", "zero", "stub", "torn", "whole"}
      BY <2>1 DEF File
    <3>2. /\ files["main"][s].kind \in {"absent", "zero"}
          /\ files["backup"][s].kind \in {"absent", "zero"}
      BY <2>5, <3>1 DEF ReadFromFile, Copy
    <3>3. NoChar \in promised[s]
      BY <2>3, <3>2 DEF Sound, Copy
    <3> QED
      BY <3>2, <3>3 DEF Loads, ReadFromFile, AssignChar
  <2> QED
    BY <2>4, <2>5
<1> QED
  BY <1>1, SafeAlways, PTL

\* And in between there is always one file from which the character could be
\* had, even when ReadFromFile does not read it.
THEOREM OneFileWhole == Spec => []WholeCopyLeft
<1>1. ASSUME SafeInv
      PROVE  WholeCopyLeft
  <2> SUFFICES ASSUME NEW s \in Slot, Disturbed(s) <= 1, NoChar \notin promised[s]
               PROVE  \E c \in Copy : files[c][s].kind = "whole" /\ files[c][s].data \in promised[s]
    BY DEF WholeCopyLeft
  <2>1. WholeIsPromised(s) /\ FilesSound(s) /\ torn[s] \in 0 .. 2
    BY <1>1 DEF SafeInv, TypeOK
  <2>2. torn[s] = 0 \/ (torn[s] = 1 /\ ~Writing(s))
    BY <2>1 DEF Disturbed, Writing, Saving
  <2>3. \E c \in Copy : Sound(c, s)
    BY <2>1, <2>2 DEF FilesSound, Copy
  <2> QED
    BY <2>1, <2>3 DEF Sound, WholeIsPromised
<1> QED
  BY <1>1, SafeAlways, PTL

\* A player chooses from the slots the files hold.
THEOREM ListIsCurrent == Spec => []ListMatchesDisk
<1>1. ListInv => ListMatchesDisk
  BY DEF ListInv, ListMatchesDisk, Idle, Matches
<1> QED
  BY <1>1, SafeAlways, PTL
=============================================================================
