------------------------ MODULE CharTransfer_proofs ------------------------
(* Theorems about CharTransfer, for every set of slots and every bound.    *)
EXTENDS CharTransfer, SequenceTheorems, TLAPS

Offer == [slot : Slot, char : Char]

PieceOf(c, i) == [char |-> c, no |-> i]

LEMMA LengthBounds ==
  ASSUME NEW c \in Char
  PROVE  Length(c) \in 1 .. MaxPieces /\ Length(c) \in Nat
<1>1. c.id \in Nat /\ c.ver \in Nat /\ c.id + c.ver \in Nat
  BY ConstantsAssumption DEF Char
<1>2. MaxPieces \in Nat /\ MaxPieces > 0
  BY ConstantsAssumption
<1>3. \A n \in Nat : n % MaxPieces \in 0 .. MaxPieces - 1
  BY <1>2
<1> QED
  BY <1>1, <1>2, <1>3 DEF Length

LEMMA PiecesAre ==
  ASSUME NEW c \in Char
  PROVE  /\ Pieces(c) \in Seq(Piece) /\ Len(Pieces(c)) = Length(c) /\ Pieces(c) # <<>>
         /\ \A i \in 1 .. Length(c) : Pieces(c)[i] = PieceOf(c, i)
         /\ Pieces(c)[1].char = c
         /\ KeptIn(Pieces(c)) = c
<1>1. Length(c) \in Nat /\ 1 \in 1 .. Length(c) /\ \A i \in 1 .. Length(c) : i \in 1 .. MaxPieces
  BY LengthBounds, ConstantsAssumption
<1>2. \A i \in 1 .. Length(c) : PieceOf(c, i) \in Piece
  BY <1>1 DEF PieceOf, Piece
<1>3. Pieces(c) = [i \in 1 .. Length(c) |-> PieceOf(c, i)]
  BY DEF Pieces, PieceOf
<1>4. /\ Pieces(c) \in [1 .. Length(c) -> Piece]
      /\ \A i \in 1 .. Length(c) : Pieces(c)[i] = PieceOf(c, i)
  BY <1>2, <1>3
<1>5. Pieces(c) \in Seq(Piece) /\ Len(Pieces(c)) = Length(c)
  BY <1>1, <1>4
<1>6. Pieces(c) # <<>>
  BY <1>1, <1>5
<1>7. Pieces(c)[1].char = c
  BY <1>1, <1>4 DEF PieceOf
<1> QED
  BY <1>4, <1>5, <1>6, <1>7 DEF KeptIn

\* Two sequences of pieces that agree up to the length of a character.
LEMMA AllPieces ==
  ASSUME NEW c \in Char, NEW f \in Seq(Piece), Len(f) = Length(c),
         \A i \in 1 .. Length(c) : f[i] = PieceOf(c, i)
  PROVE  f = Pieces(c)
BY PiecesAre, SeqEqual
-----------------------------------------------------------------------------
(***************************************************************************)
(* What is under way.  Position p after some of the messages: the client   *)
(* will then have begun p.begun of the offers o, and have p.k pieces of    *)
(* the last of these.                                                      *)
(***************************************************************************)
Position == [begun : Nat, k : Nat]

\* No transfer is going on there.
Over(p, o) == p.begun = 0 \/ p.k = Length(o[p.begun].char)

\* Where the client is: in none of the offers, or in the first.
Begins(p, o, r) ==
  \/ p.begun = 0
  \/ /\ p.begun = 1 /\ Len(o) > 0
     /\ r.status = "RECEIVING" /\ r.slot = o[1].slot /\ r.len = Length(o[1].char)
     /\ p.k = Len(r.data) /\ p.k < r.len
     /\ \A i \in 1 .. p.k : r.data[i] = PieceOf(o[1].char, i)

\* What message m does to the position.
Moves(p, m, q, o) ==
  /\ q.begun \in 0 .. Len(o)
  /\ \/ m.type \in {"info", "spawned"} /\ p.begun = 0 /\ q = p
     \/ /\ m.type = "new" /\ Over(p, o) /\ q = [begun |-> p.begun + 1, k |-> 0]
        /\ m.slot = o[q.begun].slot /\ m.len = Length(o[q.begun].char)
     \/ /\ m.type = "part" /\ p.begun > 0 /\ p.k < Length(o[p.begun].char)
        /\ q = [begun |-> p.begun, k |-> p.k + 1]
        /\ m.piece = PieceOf(o[p.begun].char, q.k)

\* Where the server is: in the last offer, with `data' left to send.
Ends(p, o, data) ==
  /\ p.begun = Len(o)
  /\ p.begun = 0 => data = <<>>
  /\ p.begun > 0 => /\ p.k + Len(data) = Length(o[p.begun].char)
                    /\ \A i \in 1 .. Len(data) : data[i] = PieceOf(o[p.begun].char, p.k + i)

Behind(p, q) == p.begun < q.begun \/ (p.begun = q.begun /\ p.k <= q.k)

Stream(at, d, o, r, data) ==
  /\ at \in [0 .. Len(d) -> Position]
  /\ Begins(at[0], o, r)
  /\ \A j \in 1 .. Len(d) : Moves(at[j - 1], d[j], at[j], o)
  /\ \A i, j \in 0 .. Len(d) : i <= j => Behind(at[i], at[j])
  /\ Ends(at[Len(d)], o, data)

\* o2 is o with more offers behind.
Extends(o2, o) == Len(o) <= Len(o2) /\ \A i \in 1 .. Len(o) : o2[i] = o[i]

LEMMA MovesExtended ==
  ASSUME NEW o \in Seq(Offer), NEW o2 \in Seq(Offer), Extends(o2, o),
         NEW p \in Position, NEW q \in Position, NEW m, Moves(p, m, q, o)
  PROVE  Moves(p, m, q, o2)
<1>1. Len(o) \in Nat /\ Len(o2) \in Nat /\ p.begun \in Nat /\ q.begun \in Nat
  BY DEF Position
<1>2. q.begun \in 0 .. Len(o2)
  BY <1>1 DEF Moves, Extends
<1>3. CASE m.type \in {"info", "spawned"} /\ p.begun = 0 /\ q = p
  BY <1>2, <1>3 DEF Moves
<1>4. CASE /\ m.type = "new" /\ Over(p, o) /\ q = [begun |-> p.begun + 1, k |-> 0]
           /\ m.slot = o[q.begun].slot /\ m.len = Length(o[q.begun].char)
  <2>1. q.begun = p.begun + 1
    BY <1>4
  <2>2. q.begun \in 1 .. Len(o) /\ (p.begun > 0 => p.begun \in 1 .. Len(o))
    BY <1>1, <2>1 DEF Moves
  <2>3. o2[q.begun] = o[q.begun] /\ (p.begun > 0 => o2[p.begun] = o[p.begun])
    BY <2>2 DEF Extends
  <2>4. Over(p, o2)
    BY <1>1, <1>4, <2>3 DEF Over
  <2> QED
    BY <1>2, <1>4, <2>3, <2>4 DEF Moves
<1>5. CASE /\ m.type = "part" /\ p.begun > 0 /\ p.k < Length(o[p.begun].char)
           /\ q = [begun |-> p.begun, k |-> p.k + 1]
           /\ m.piece = PieceOf(o[p.begun].char, q.k)
  <2>1. q.begun = p.begun
    BY <1>5
  <2>2. p.begun \in 1 .. Len(o)
    BY <1>1, <1>5, <2>1 DEF Moves
  <2>3. o2[p.begun] = o[p.begun]
    BY <2>2 DEF Extends
  <2> QED
    BY <1>2, <1>5, <2>3 DEF Moves
<1> QED
  BY <1>3, <1>4, <1>5 DEF Moves

LEMMA BehindOrder ==
  ASSUME NEW p \in Position, NEW q \in Position
  PROVE  /\ Behind(q, q)
         /\ \A u \in Position : Behind(u, p) /\ Behind(p, q) => Behind(u, q)
BY DEF Behind, Position

LEMMA MovesBehind ==
  ASSUME NEW p \in Position, NEW q \in Position, NEW m, NEW o, Moves(p, m, q, o)
  PROVE  Behind(p, q)
<1>1. \/ q = p
      \/ q = [begun |-> p.begun + 1, k |-> 0]
      \/ q = [begun |-> p.begun, k |-> p.k + 1]
  BY DEF Moves
<1>2. p.begun \in Nat /\ p.k \in Nat
  BY DEF Position
<1> QED
  BY <1>1, <1>2 DEF Behind

SameStart(at2, at) == at2[0] = at[0]
NextStart(at2, at) == at2[0] = at[1]

\* The server sends message m, and may have made an offer.
LEMMA StreamAppend ==
  ASSUME NEW d \in Seq(Message), NEW m \in Message,
         NEW o \in Seq(Offer), NEW o2 \in Seq(Offer), Extends(o2, o),
         NEW r, NEW data, NEW data2, NEW at, Stream(at, d, o, r, data),
         NEW q \in Position, Moves(at[Len(d)], m, q, o2), Ends(q, o2, data2)
  PROVE  \E at2 : SameStart(at2, at) /\ Stream(at2, Append(d, m), o2, r, data2)
<1> DEFINE n == Len(d)
           e == Append(d, m)
           at2 == [j \in 0 .. n + 1 |-> IF j = n + 1 THEN q ELSE at[j]]
<1>1. /\ n \in Nat /\ Len(e) = n + 1 /\ e[n + 1] = m
      /\ \A j \in 1 .. n : e[j] = d[j]
  OBVIOUS
<1>2. /\ at \in [0 .. n -> Position] /\ Begins(at[0], o, r)
      /\ \A j \in 1 .. n : Moves(at[j - 1], d[j], at[j], o)
      /\ \A i, j \in 0 .. n : i <= j => Behind(at[i], at[j])
      /\ Ends(at[n], o, data)
  BY DEF Stream
<1>c. \A i \in 0 .. n : at[i] \in Position
  BY <1>2
<1> HIDE DEF n, e
<1>3. /\ at2 \in [0 .. n + 1 -> Position] /\ at2[n + 1] = q
      /\ \A j \in 0 .. n : at2[j] = at[j]
  BY <1>1, <1>c
<1> HIDE DEF at2
<1>4. Begins(at2[0], o2, r)
  <2>1. at2[0] = at[0]
    BY <1>1, <1>3
  <2>2. Len(o) > 0 => o2[1] = o[1] /\ Len(o2) > 0
    BY DEF Extends
  <2> QED
    BY <1>2, <2>1, <2>2 DEF Begins
<1>5. ASSUME NEW j \in 1 .. n + 1
      PROVE  Moves(at2[j - 1], e[j], at2[j], o2)
  <2>1. CASE j = n + 1
    <3>1. at2[j - 1] = at[n] /\ at2[j] = q /\ e[j] = m
      BY <1>1, <1>3, <2>1
    <3> QED
      BY <3>1 DEF n
  <2>2. CASE j # n + 1
    <3>1. j \in 1 .. n /\ j - 1 \in 0 .. n /\ j \in 0 .. n
      BY <1>1, <2>2
    <3>2. at2[j - 1] = at[j - 1] /\ at2[j] = at[j] /\ e[j] = d[j]
      BY <1>1, <1>3, <3>1
    <3>3. Moves(at[j - 1], d[j], at[j], o2)
      BY <1>2, <1>c, <3>1, MovesExtended
    <3> QED
      BY <3>2, <3>3
  <2> QED
    BY <2>1, <2>2
<1>6. ASSUME NEW i \in 0 .. n + 1, NEW j \in 0 .. n + 1, i <= j
      PROVE  Behind(at2[i], at2[j])
  <2>1. Behind(at[n], q) /\ at[n] \in Position
    <3>1. at[n] \in Position
      BY <1>1, <1>2
    <3> QED
      BY <3>1, MovesBehind DEF n
  <2>2. CASE j = n + 1 /\ i = n + 1
    BY <1>3, <2>2, BehindOrder
  <2>3. CASE j = n + 1 /\ i # n + 1
    <3>1. i \in 0 .. n /\ n \in 0 .. n /\ i <= n
      BY <1>1, <2>3
    <3>2. Behind(at[i], at[n])
      BY <1>2, <3>1
    <3>3. at[i] \in Position
      BY <1>2, <3>1
    <3>4. Behind(at[i], q)
      BY <2>1, <3>2, <3>3, BehindOrder
    <3> QED
      BY <1>3, <2>3, <3>1, <3>4
  <2>4. CASE j # n + 1
    <3>1. i \in 0 .. n /\ j \in 0 .. n
      BY <1>1, <1>6, <2>4
    <3> QED
      BY <1>2, <1>3, <1>6, <3>1
  <2> QED
    BY <2>2, <2>3, <2>4
<1>7. Stream(at2, e, o2, r, data2)
  BY <1>1, <1>3, <1>4, <1>5, <1>6 DEF Stream
<1>8. SameStart(at2, at)
  BY <1>1, <1>3 DEF SameStart
<1> QED
  BY <1>7, <1>8 DEF e

\* The client receives the first message and comes to the next position.
LEMMA StreamReceive ==
  ASSUME NEW d \in Seq(Message), d # <<>>, NEW o \in Seq(Offer),
         NEW r, NEW r2, NEW data, NEW at, Stream(at, d, o, r, data),
         Begins(at[1], o, r2)
  PROVE  \E at2 : NextStart(at2, at) /\ Stream(at2, Tail(d), o, r2, data)
<1> DEFINE n == Len(d)
           e == Tail(d)
           at2 == [j \in 0 .. n - 1 |-> at[j + 1]]
<1>1. /\ n \in Nat /\ n > 0 /\ Len(e) = n - 1
      /\ \A j \in 1 .. n - 1 : e[j] = d[j + 1]
  BY HeadTailProperties, EmptySeq
<1>2. /\ at \in [0 .. n -> Position]
      /\ \A j \in 1 .. n : Moves(at[j - 1], d[j], at[j], o)
      /\ \A i, j \in 0 .. n : i <= j => Behind(at[i], at[j])
      /\ Ends(at[n], o, data)
  BY DEF Stream
<1> HIDE DEF n, e
<1>3. at2 \in [0 .. n - 1 -> Position] /\ \A j \in 0 .. n - 1 : at2[j] = at[j + 1]
  <2>1. \A j \in 0 .. n - 1 : j + 1 \in 0 .. n
    BY <1>1
  <2> QED
    BY <1>2, <2>1
<1> HIDE DEF at2
<1>4. at2[0] = at[1] /\ at2[n - 1] = at[n]
  BY <1>1, <1>3
<1>5. ASSUME NEW j \in 1 .. n - 1
      PROVE  Moves(at2[j - 1], e[j], at2[j], o)
  <2>1. j + 1 \in 1 .. n /\ j - 1 \in 0 .. n - 1 /\ j \in 0 .. n - 1 /\ (j - 1) + 1 = (j + 1) - 1
    BY <1>1
  <2>2. at2[j - 1] = at[(j + 1) - 1] /\ at2[j] = at[j + 1] /\ e[j] = d[j + 1]
    BY <1>1, <1>3, <2>1
  <2> QED
    BY <1>2, <2>1, <2>2
<1>6. ASSUME NEW i \in 0 .. n - 1, NEW j \in 0 .. n - 1, i <= j
      PROVE  Behind(at2[i], at2[j])
  <2>1. i + 1 \in 0 .. n /\ j + 1 \in 0 .. n /\ i + 1 <= j + 1
    BY <1>1, <1>6
  <2> QED
    BY <1>2, <1>3, <2>1
<1>7. Stream(at2, e, o, r2, data)
  BY <1>1, <1>2, <1>3, <1>4, <1>5, <1>6 DEF Stream
<1> QED
  BY <1>4, <1>7 DEF e, NextStart

\* An offer the client has got, p as seen without it.
Shifted(p) == [begun |-> p.begun - 1, k |-> p.k]

LEMMA MovesShifted ==
  ASSUME NEW o \in Seq(Offer), o # <<>>, NEW p \in Position, NEW q \in Position, NEW m,
         Moves(p, m, q, o), p.begun > 0, q.begun > 0,
         p.begun = 1 => p.k >= Length(o[1].char)
  PROVE  Moves(Shifted(p), m, Shifted(q), Tail(o))
<1> DEFINE u == Shifted(p)
           v == Shifted(q)
           o2 == Tail(o)
<1>1. /\ p.begun \in Nat /\ q.begun \in Nat /\ p.k \in Nat /\ q.k \in Nat
      /\ u.begun = p.begun - 1 /\ v.begun = q.begun - 1 /\ u.k = p.k /\ v.k = q.k
  BY DEF Position, Shifted
<1>2. /\ Len(o) \in Nat /\ Len(o2) = Len(o) - 1 /\ \A i \in 1 .. Len(o) - 1 : o2[i] = o[i + 1]
  BY HeadTailProperties
<1>3. /\ u = [begun |-> p.begun - 1, k |-> p.k] /\ v = [begun |-> q.begun - 1, k |-> q.k]
  BY DEF Shifted
<1> SUFFICES Moves(u, m, v, o2)
  OBVIOUS
<1> HIDE DEF u, v, o2
<1>4. v.begun \in 0 .. Len(o2)
  BY <1>1, <1>2 DEF Moves
<1>5. ~(m.type \in {"info", "spawned"} /\ p.begun = 0 /\ q = p)
  BY <1>1
<1>6. CASE /\ m.type = "new" /\ Over(p, o) /\ q = [begun |-> p.begun + 1, k |-> 0]
           /\ m.slot = o[q.begun].slot /\ m.len = Length(o[q.begun].char)
  <2>1. q.begun = p.begun + 1 /\ q.k = 0
    BY <1>6
  <2>2. u.begun > 0 => u.begun \in 1 .. Len(o) - 1 /\ o2[u.begun] = o[p.begun]
    <3> SUFFICES ASSUME u.begun > 0
                 PROVE  u.begun \in 1 .. Len(o) - 1 /\ o2[u.begun] = o[p.begun]
      OBVIOUS
    <3>1. u.begun \in 1 .. Len(o) - 1 /\ u.begun + 1 = p.begun
      BY <1>1, <1>2, <2>1 DEF Moves
    <3> QED
      BY <1>2, <3>1
  <2>3. v.begun \in 1 .. Len(o) - 1 /\ v.begun + 1 = q.begun
    BY <1>1, <1>2, <2>1 DEF Moves
  <2>4. o2[v.begun] = o[q.begun]
    BY <1>2, <2>3
  <2>5. Over(u, o2)
    BY <1>1, <1>6, <2>2 DEF Over
  <2>6. v = [begun |-> u.begun + 1, k |-> 0]
    BY <1>1, <1>3, <2>1
  <2> QED
    <3>1. m.slot = o2[v.begun].slot /\ m.len = Length(o2[v.begun].char)
      BY <1>6, <2>4
    <3>2. m.type = "new"
      BY <1>6
    <3> QED
      BY <1>4, <2>5, <2>6, <3>1, <3>2 DEF Moves
<1>7. CASE /\ m.type = "part" /\ p.begun > 0 /\ p.k < Length(o[p.begun].char)
           /\ q = [begun |-> p.begun, k |-> p.k + 1]
           /\ m.piece = PieceOf(o[p.begun].char, q.k)
  <2>1. q.begun = p.begun /\ q.k = p.k + 1
    BY <1>7
  <2>2. p.begun # 1
    <3> SUFFICES ASSUME p.begun = 1 PROVE FALSE
      OBVIOUS
    <3>1. o[1] \in Offer /\ Length(o[1].char) \in Nat
      <4>1. 1 \in 1 .. Len(o)
        BY <1>1, <1>2, <2>1 DEF Moves
      <4> QED
        <5>1. o[1] \in Offer
          BY <4>1, ElementOfSeq
        <5>2. o[1].char \in Char
          BY <5>1 DEF Offer
        <5> QED
          BY <5>1, <5>2, LengthBounds
    <3> QED
      BY <1>1, <1>7, <3>1
  <2>3. u.begun \in 1 .. Len(o) - 1 /\ u.begun + 1 = p.begun
    BY <1>1, <1>2, <2>1, <2>2 DEF Moves
  <2>4. o2[u.begun] = o[p.begun]
    BY <1>2, <2>3
  <2>5. v = [begun |-> u.begun, k |-> u.k + 1]
    BY <1>1, <1>3, <2>1
  <2>6. u.begun > 0 /\ u.k < Length(o2[u.begun].char) /\ m.piece = PieceOf(o2[u.begun].char, v.k)
    BY <1>1, <1>7, <2>3, <2>4
  <2> QED
    BY <1>4, <1>7, <2>5, <2>6 DEF Moves
<1> QED
  BY <1>5, <1>6, <1>7 DEF Moves

\* The client receives the last piece of the first offer.
LEMMA StreamDone ==
  ASSUME NEW d \in Seq(Message), d # <<>>, NEW o \in Seq(Offer), o # <<>>,
         NEW r, NEW r2, NEW data \in Seq(Piece), NEW at, Stream(at, d, o, r, data),
         at[1].begun = 1, at[1].k = Length(o[1].char)
  PROVE  \E at2 : at2[0].begun = 0 /\ Stream(at2, Tail(d), Tail(o), r2, data)
<1> DEFINE n == Len(d)
           e == Tail(d)
           o2 == Tail(o)
           at2 == [j \in 0 .. n - 1 |-> Shifted(at[j + 1])]
<1>1. /\ n \in Nat /\ n > 0 /\ Len(e) = n - 1
      /\ \A j \in 1 .. n - 1 : e[j] = d[j + 1]
  BY HeadTailProperties, EmptySeq
<1>o. /\ Len(o) \in Nat /\ Len(o2) = Len(o) - 1 /\ \A i \in 1 .. Len(o) - 1 : o2[i] = o[i + 1]
  BY HeadTailProperties
<1>2. /\ at \in [0 .. n -> Position]
      /\ \A j \in 1 .. n : Moves(at[j - 1], d[j], at[j], o)
      /\ \A i, j \in 0 .. n : i <= j => Behind(at[i], at[j])
      /\ Ends(at[n], o, data)
  BY DEF Stream
<1> HIDE DEF n, e
<1>3. ASSUME NEW j \in 1 .. n
      PROVE  /\ at[j] \in Position /\ at[j].begun \in Nat /\ at[j].k \in Nat /\ at[j].begun > 0
             /\ at[j].begun = 1 => at[j].k >= Length(o[1].char)
  <2>1. 1 \in 0 .. n /\ j \in 0 .. n /\ 1 <= j
    BY <1>1
  <2>2. at[j] \in Position /\ at[j].begun \in Nat /\ at[j].k \in Nat
    BY <1>2, <2>1 DEF Position
  <2>3. Behind(at[1], at[j])
    BY <1>2, <2>1
  <2>4. at[1] \in Position /\ at[1].begun \in Nat /\ at[1].k \in Nat
    BY <1>2, <2>1 DEF Position
  <2> QED
    BY <2>2, <2>3, <2>4 DEF Behind
<1>4. /\ at2 \in [0 .. n - 1 -> Position]
      /\ \A j \in 0 .. n - 1 : at2[j] = Shifted(at[j + 1])
  <2>1. \A j \in 0 .. n - 1 : j + 1 \in 1 .. n
    BY <1>1
  <2>2. \A j \in 1 .. n : Shifted(at[j]) \in Position
    BY <1>3 DEF Shifted, Position
  <2> QED
    BY <2>1, <2>2
<1>s. \A p : Shifted(p).begun = p.begun - 1 /\ Shifted(p).k = p.k
  BY DEF Shifted
<1> HIDE DEF at2
<1>5. at2[0] = Shifted(at[1]) /\ at2[n - 1] = Shifted(at[n])
  <2>1. 0 \in 0 .. n - 1 /\ n - 1 \in 0 .. n - 1 /\ 0 + 1 = 1 /\ (n - 1) + 1 = n
    BY <1>1
  <2>2. at2[0] = Shifted(at[0 + 1]) /\ at2[n - 1] = Shifted(at[(n - 1) + 1])
    BY <1>4, <2>1
  <2> QED
    BY <2>1, <2>2
<1>6. at2[0].begun = 0
  BY <1>5, <1>s
<1>7. ASSUME NEW j \in 1 .. n - 1
      PROVE  Moves(at2[j - 1], e[j], at2[j], o2)
  <2>1. j + 1 \in 1 .. n /\ j - 1 \in 0 .. n - 1 /\ j \in 0 .. n - 1 /\ (j - 1) + 1 = j /\ (j + 1) - 1 = j
        /\ j \in 1 .. n
    BY <1>1
  <2>2. at2[j - 1] = Shifted(at[j]) /\ at2[j] = Shifted(at[j + 1]) /\ e[j] = d[j + 1]
    BY <1>1, <1>4, <2>1
  <2>3. Moves(at[j], d[j + 1], at[j + 1], o)
    BY <1>2, <2>1
  <2>4. /\ at[j] \in Position /\ at[j + 1] \in Position /\ at[j].begun > 0 /\ at[j + 1].begun > 0
        /\ at[j].begun = 1 => at[j].k >= Length(o[1].char)
    BY <1>3, <2>1
  <2>5. Moves(Shifted(at[j]), d[j + 1], Shifted(at[j + 1]), Tail(o))
    BY <2>3, <2>4, MovesShifted
  <2> QED
    BY <2>2, <2>5
<1>8. ASSUME NEW i \in 0 .. n - 1, NEW j \in 0 .. n - 1, i <= j
      PROVE  Behind(at2[i], at2[j])
  <2>1. /\ i + 1 \in 0 .. n /\ j + 1 \in 0 .. n /\ i + 1 <= j + 1
        /\ i + 1 \in 1 .. n /\ j + 1 \in 1 .. n
    BY <1>1, <1>8
  <2>2. Behind(at[i + 1], at[j + 1])
    BY <1>2, <2>1
  <2>3. /\ at[i + 1].begun \in Nat /\ at[i + 1].k \in Nat
        /\ at[j + 1].begun \in Nat /\ at[j + 1].k \in Nat
    BY <1>3, <2>1
  <2>4. at2[i] = Shifted(at[i + 1]) /\ at2[j] = Shifted(at[j + 1])
    BY <1>4
  <2>5. /\ at2[i].begun = at[i + 1].begun - 1 /\ at2[i].k = at[i + 1].k
        /\ at2[j].begun = at[j + 1].begun - 1 /\ at2[j].k = at[j + 1].k
    BY <1>s, <2>4
  <2> QED
    BY <2>2, <2>3, <2>5 DEF Behind
<1>9. Ends(at2[n - 1], o2, data)
  <2> DEFINE p == at[n]
             u == at2[n - 1]
  <2>1. /\ p.begun = Len(o) /\ u.begun = p.begun - 1 /\ u.k = p.k /\ p.k \in Nat
        /\ p.k + Len(data) = Length(o[p.begun].char)
        /\ \A i \in 1 .. Len(data) : data[i] = PieceOf(o[p.begun].char, p.k + i)
    <3>1. n \in 1 .. n
      BY <1>1
    <3>2. p.begun > 0 /\ p.k \in Nat
      BY <1>3, <3>1
    <3> QED
      BY <1>2, <1>5, <1>s, <3>2 DEF Ends
  <2>2. u.begun > 0 => o2[u.begun] = o[p.begun]
    <3> HIDE DEF u, p
    <3> SUFFICES ASSUME u.begun > 0 PROVE o2[u.begun] = o[p.begun]
      OBVIOUS
    <3>1. u.begun \in 1 .. Len(o) - 1 /\ u.begun + 1 = p.begun
      BY <1>o, <2>1
    <3> QED
      BY <1>o, <3>1
  <2>3. u.begun = 0 => data = <<>>
    <3> SUFFICES ASSUME u.begun = 0 PROVE data = <<>>
      OBVIOUS
    <3>1. Len(o) = 1 /\ p.begun = 1
      BY <1>o, <2>1
    <3>2. o[1] \in Offer
      BY <3>1, ElementOfSeq
    <3>3. o[1].char \in Char
      BY <3>2 DEF Offer
    <3>4. Length(o[1].char) \in Nat
      BY <3>3, LengthBounds
    <3>5. p.k >= Length(o[1].char)
      <4>1. n \in 1 .. n
        BY <1>1
      <4> QED
        BY <1>3, <3>1, <4>1
    <3>6. Len(data) = 0
      <4>1. Len(data) \in Nat
        OBVIOUS
      <4>2. p.k + Len(data) = Length(o[1].char) /\ p.k \in Nat
        BY <2>1, <3>1
      <4> HIDE DEF p
      <4> QED
        BY <3>4, <3>5, <4>1, <4>2
    <3> QED
      BY <3>6, EmptySeq
  <2> QED
    BY <1>o, <2>1, <2>2, <2>3 DEF Ends
<1>10. Begins(at2[0], o2, r2)
  BY <1>6 DEF Begins
<1>11. Stream(at2, e, o2, r2, data)
  BY <1>1, <1>4, <1>7, <1>8, <1>9, <1>10 DEF Stream
<1> QED
  BY <1>6, <1>11 DEF e
-----------------------------------------------------------------------------
(* The inductive invariant.                                                *)

\* The messages under way lead from where the client is to where the server
\* is; nobody is in the menu while a character comes down.
StreamInv ==
  \E at : Stream(at, down, offers, recv, send.data) /\ (menu => at[0].begun = 0)

WholeFiles == \A s \in Slot : disk[s] = <<>> \/ \E c \in Char : disk[s] = Pieces(c)

\* d is c, or what has become of it.
NewerOf(c, d) == d.id = c.id /\ c.ver <= d.ver

LoadedInv ==
  /\ send.status = "DORMANT" => send.data = <<>>
  /\ num # 0 => info[num] # NoChar
  /\ num = 0 => offers = <<>> /\ send.status = "DORMANT"
  /\ recv.status = "SENDING" => recv.data # <<>>

\* The offers are copies of the character being played, the later the newer.
OffersInv ==
  \A i \in 1 .. Len(offers) :
    /\ num # 0 /\ offers[i].slot = num
    /\ NewerOf(offers[i].char, info[num])
    /\ \A j \in i .. Len(offers) : NewerOf(offers[i].char, offers[j].char)
    /\ disk[num] # <<>> => NewerOf(disk[num][1].char, offers[i].char)

FilesInv ==
  \A s \in Slot : disk[s] # <<>> /\ info[s] # NoChar => NewerOf(disk[s][1].char, info[s])

\* What the menu shows as empty is empty, and it is gone before anything
\* else comes down.
MenuInv ==
  menu => /\ \A s \in Slot : seen[s].status = "NOTFOUND" => disk[s] = <<>>
          /\ num # 0 => \E i \in 1 .. Len(down) : down[i].type = "spawned"
          /\ \A j \in 1 .. Len(down) : down[j].type \in {"new", "part"} =>
               \E i \in 1 .. j - 1 : down[i].type = "spawned"

SeenInv == \A s \in Slot : seen[s].status = "LOADED" /\ seen[s].sent = "DORMANT" => disk[s] # <<>>

IInv == /\ TypeOK /\ StreamInv /\ WholeFiles /\ LoadedInv /\ OffersInv /\ FilesInv
        /\ MenuInv /\ SeenInv

LEMMA MsgTypes ==
  ASSUME NEW type \in {"info", "spawned", "new", "part"}, NEW s \in Slot, NEW len \in 0 .. MaxPieces,
         NEW piece \in Piece \cup {NoChar}
  PROVE  /\ Msg(type, s, len, piece) \in Message
         /\ Msg(type, s, len, piece).type = type /\ Msg(type, s, len, piece).slot = s
         /\ Msg(type, s, len, piece).len = len /\ Msg(type, s, len, piece).piece = piece
BY DEF Msg, Message

LEMMA QuietTypes ==
  ASSUME NEW s \in Slot
  PROVE  /\ Quiet(s) \in SendInfo /\ Quiet(s).status = "DORMANT" /\ Quiet(s).data = <<>>
<1>1. <<>> \in Seq(Piece) /\ 0 \in 0 .. MaxPieces
  BY ConstantsAssumption
<1> QED
  BY <1>1 DEF Quiet, SendInfo, Status

LEMMA CLInitTypes ==
  ASSUME NEW files
  PROVE  /\ CLInit(files) \in [Slot -> Shown]
         /\ \A s \in Slot : /\ CLInit(files)[s].sent = "DORMANT"
                            /\ CLInit(files)[s].status = IF files[s] = <<>> THEN "NOTFOUND" ELSE "LOADED"
BY DEF CLInit, Shown

\* With no offers and no messages there is a stream, wherever the client is.
LEMMA NoStream ==
  ASSUME NEW r
  PROVE  \E at : Stream(at, <<>>, <<>>, r, <<>>) /\ at[0].begun = 0
<1> DEFINE at == [j \in 0 .. 0 |-> [begun |-> 0, k |-> 0]]
<1>1. at \in [0 .. Len(<<>>) -> Position] /\ at[0].begun = 0
  BY DEF Position
<1>2. Ends(at[Len(<<>>)], <<>>, <<>>) /\ Begins(at[0], <<>>, r)
  BY DEF Ends, Begins
<1>3. \A i, j \in 0 .. Len(<<>>) : i <= j => Behind(at[i], at[j])
  BY DEF Behind
<1> HIDE DEF at
<1>4. Len(<<>>) = 0
  OBVIOUS
<1>5. Stream(at, <<>>, <<>>, r, <<>>)
  BY <1>1, <1>2, <1>3, <1>4 DEF Stream
<1> QED
  BY <1>1, <1>5

LEMMA InitIInv == Init => IInv
<1> SUFFICES ASSUME Init PROVE IInv
  OBVIOUS
<1>1. /\ info = [s \in Slot |-> NoChar] /\ num = 0 /\ down = <<>> /\ offers = <<>>
      /\ disk = [s \in Slot |-> <<>>] /\ seen = CLInit(NoFiles) /\ menu = TRUE /\ made = 0
  BY DEF Init, NoFiles
<1>2. PICK s \in Slot : send = Quiet(s) /\ recv = Quiet(s)
  BY DEF Init
<1>3. TypeOK
  <2>1. seen \in [Slot -> Shown]
    BY <1>1, CLInitTypes
  <2>2. send \in SendInfo /\ recv \in SendInfo /\ send.status = "DORMANT" /\ recv.status = "DORMANT"
    BY <1>2, QuietTypes
  <2>3. 0 \in 0 .. MaxChars /\ down \in Seq(Message) /\ offers \in Seq([slot : Slot, char : Char])
        /\ disk \in [Slot -> Seq(Piece)]
    BY <1>1, ConstantsAssumption
  <2> QED
    BY <1>1, <2>1, <2>2, <2>3 DEF TypeOK
<1>4. StreamInv
  <2>1. send.data = <<>>
    BY <1>2, QuietTypes
  <2> QED
    BY <1>1, <2>1, NoStream DEF StreamInv
<1>5. WholeFiles /\ FilesInv /\ OffersInv
  BY <1>1 DEF WholeFiles, FilesInv, OffersInv
<1>6. LoadedInv
  <2>1. send.status = "DORMANT" /\ recv.status = "DORMANT" /\ send.data = <<>>
    BY <1>2, QuietTypes
  <2> QED
    BY <1>1, <2>1 DEF LoadedInv
<1>7. MenuInv /\ SeenInv
  <2>1. \A x \in Slot : seen[x].status = "NOTFOUND" /\ disk[x] = <<>>
    BY <1>1, CLInitTypes DEF NoFiles
  <2> QED
    BY <1>1, <2>1 DEF MenuInv, SeenInv
<1> QED
  BY <1>3, <1>4, <1>5, <1>6, <1>7 DEF IInv

\* The types, spelled out.
LEMMA Types ==
  ASSUME IInv
  PROVE  /\ info \in [Slot -> Char \cup {NoChar}]
         /\ num \in Slot \cup {0}
         /\ send \in SendInfo /\ recv \in SendInfo
         /\ send.status \in {"DORMANT", "SENDING"} /\ send.slot \in Slot /\ recv.slot \in Slot
         /\ send.data \in Seq(Piece) /\ recv.data \in Seq(Piece)
         /\ recv.len \in 0 .. MaxPieces /\ recv.status \in Status
         /\ recv.status = "RECEIVING" => Len(recv.data) < recv.len
         /\ down \in Seq(Message)
         /\ disk \in [Slot -> Seq(Piece)]
         /\ seen \in [Slot -> Shown]
         /\ menu \in BOOLEAN
         /\ made \in 0 .. MaxChars
         /\ offers \in Seq(Offer)
         /\ MaxChars \in Nat /\ MaxVer \in Nat /\ MaxPieces \in Nat /\ 1 <= MaxPieces
         /\ NoChar \notin Char
<1>1. TypeOK
  BY DEF IInv
<1>2. NoChar \notin Char
  <2>1. Char \subseteq [id : Nat, ver : Nat]
    BY ConstantsAssumption DEF Char
  <2> QED
    BY <2>1, ConstantsAssumption
<1> QED
  BY <1>1, <1>2, ConstantsAssumption DEF TypeOK, SendInfo, Offer

LEMMA AppendIs ==
  ASSUME NEW S, NEW d \in Seq(S), NEW m \in S
  PROVE  /\ Append(d, m) \in Seq(S) /\ Len(Append(d, m)) = Len(d) + 1 /\ Len(d) \in Nat
         /\ Append(d, m)[Len(d) + 1] = m
         /\ \A i \in 1 .. Len(d) : Append(d, m)[i] = d[i]
OBVIOUS

\* A message appended leaves the menu right, if it is one of those that come
\* at any time, or "spawned" is on its way before it.
LEMMA MenuAppend ==
  ASSUME NEW d \in Seq(Message), NEW m \in Message,
         \A j \in 1 .. Len(d) : d[j].type \in {"new", "part"} =>
           \E i \in 1 .. j - 1 : d[i].type = "spawned",
         m.type \in {"new", "part"} => \E i \in 1 .. Len(d) : d[i].type = "spawned"
  PROVE  /\ \A j \in 1 .. Len(Append(d, m)) : Append(d, m)[j].type \in {"new", "part"} =>
              \E i \in 1 .. j - 1 : Append(d, m)[i].type = "spawned"
         /\ (\E i \in 1 .. Len(d) : d[i].type = "spawned") \/ m.type = "spawned"
              => \E i \in 1 .. Len(Append(d, m)) : Append(d, m)[i].type = "spawned"
<1> DEFINE n == Len(d)
           e == Append(d, m)
<1>1. /\ n \in Nat /\ Len(e) = n + 1 /\ e[n + 1] = m /\ \A i \in 1 .. n : e[i] = d[i]
  BY AppendIs
<1> HIDE DEF e
<1>2. ASSUME NEW j \in 1 .. n + 1, e[j].type \in {"new", "part"}
      PROVE  \E i \in 1 .. j - 1 : e[i].type = "spawned"
  <2>1. CASE j = n + 1
    <3>1. PICK i \in 1 .. n : d[i].type = "spawned"
      BY <1>1, <1>2, <2>1
    <3>2. i \in 1 .. j - 1 /\ e[i] = d[i]
      BY <1>1, <2>1
    <3> QED
      BY <3>1, <3>2
  <2>2. CASE j # n + 1
    <3>1. j \in 1 .. n /\ e[j] = d[j]
      BY <1>1, <2>2
    <3>2. PICK i \in 1 .. j - 1 : d[i].type = "spawned"
      BY <1>2, <3>1
    <3>3. e[i] = d[i]
      BY <1>1, <3>1
    <3> QED
      BY <3>2, <3>3
  <2> QED
    BY <2>1, <2>2
<1>3. ASSUME (\E i \in 1 .. n : d[i].type = "spawned") \/ m.type = "spawned"
      PROVE  \E i \in 1 .. n + 1 : e[i].type = "spawned"
  <2>1. CASE \E i \in 1 .. n : d[i].type = "spawned"
    <3>1. PICK i \in 1 .. n : d[i].type = "spawned"
      BY <2>1
    <3>2. i \in 1 .. n + 1 /\ e[i] = d[i]
      BY <1>1
    <3> QED
      BY <3>1, <3>2
  <2>2. CASE m.type = "spawned"
    <3>1. n + 1 \in 1 .. n + 1
      BY <1>1
    <3> QED
      BY <1>1, <2>2, <3>1
  <2> QED
    BY <1>3, <2>1, <2>2
<1> QED
  BY <1>1, <1>2, <1>3 DEF e

\* Nothing is under way where nothing is offered; a message may be appended.
LEMMA StreamInfo ==
  ASSUME NEW d \in Seq(Message), NEW m \in Message, m.type \in {"info", "spawned"},
         NEW o \in Seq(Offer), o = <<>>,
         NEW r, NEW data, NEW at, Stream(at, d, o, r, data)
  PROVE  \E at2 : SameStart(at2, at) /\ Stream(at2, Append(d, m), o, r, data)
<1> DEFINE q == at[Len(d)]
<1>1. Len(d) \in Nat /\ Len(o) = 0
  OBVIOUS
<1>2. q \in Position /\ q.begun = 0 /\ Ends(q, o, data)
  BY <1>1 DEF Stream, Ends
<1>3. Moves(q, m, q, o)
  BY <1>1, <1>2 DEF Moves
<1>4. Extends(o, o)
  BY <1>1 DEF Extends
<1>5. Moves(at[Len(d)], m, q, o)
  BY <1>3
<1> HIDE DEF q
<1>6. o \in Seq(Offer) /\ d \in Seq(Message) /\ m \in Message /\ Stream(at, d, o, r, data)
  OBVIOUS
<1>7. q \in Position /\ Ends(q, o, data)
  BY <1>2
<1> QED
  BY <1>4, <1>5, <1>6, <1>7, StreamAppend, Zenon

\* A client to which nothing comes down may do what it likes.
LEMMA StreamIdle ==
  ASSUME NEW d, NEW o, NEW r, NEW r2, NEW data, NEW at, Stream(at, d, o, r, data), at[0].begun = 0
  PROVE  Stream(at, d, o, r2, data)
BY DEF Stream, Begins

LEMMA MenuTail ==
  ASSUME NEW d \in Seq(Message), d # <<>>, d[1].type # "spawned",
         \A j \in 1 .. Len(d) : d[j].type \in {"new", "part"} =>
           \E i \in 1 .. j - 1 : d[i].type = "spawned"
  PROVE  /\ \A j \in 1 .. Len(Tail(d)) : Tail(d)[j].type \in {"new", "part"} =>
              \E i \in 1 .. j - 1 : Tail(d)[i].type = "spawned"
         /\ (\E i \in 1 .. Len(d) : d[i].type = "spawned")
              => \E i \in 1 .. Len(Tail(d)) : Tail(d)[i].type = "spawned"
<1> DEFINE n == Len(d)
           e == Tail(d)
<1>1. /\ n \in Nat /\ n > 0 /\ Len(e) = n - 1 /\ \A i \in 1 .. n - 1 : e[i] = d[i + 1]
  BY HeadTailProperties, EmptySeq
<1> HIDE DEF e
<1>2. ASSUME NEW i \in 1 .. n, d[i].type = "spawned"
      PROVE  i - 1 \in 1 .. n - 1 /\ e[i - 1].type = "spawned"
  <2>1. i # 1
    BY <1>2
  <2>2. i - 1 \in 1 .. n - 1 /\ (i - 1) + 1 = i
    BY <1>1, <2>1
  <2> QED
    BY <1>1, <1>2, <2>2
<1>3. ASSUME NEW j \in 1 .. n - 1, e[j].type \in {"new", "part"}
      PROVE  \E i \in 1 .. j - 1 : e[i].type = "spawned"
  <2>1. j + 1 \in 1 .. n /\ d[j + 1].type \in {"new", "part"}
    BY <1>1, <1>3
  <2>2. PICK i \in 1 .. (j + 1) - 1 : d[i].type = "spawned"
    BY <2>1
  <2>3. i \in 1 .. n
    BY <1>1
  <2>4. i - 1 \in 1 .. n - 1 /\ e[i - 1].type = "spawned"
    BY <1>2, <2>2, <2>3
  <2>5. i - 1 \in 1 .. j - 1
    BY <1>1, <2>4
  <2> QED
    BY <2>4, <2>5
<1>4. ASSUME NEW i \in 1 .. n, d[i].type = "spawned"
      PROVE  \E k \in 1 .. n - 1 : e[k].type = "spawned"
  BY <1>2, <1>4
<1> QED
  BY <1>1, <1>3, <1>4 DEF e

LEMMA CreateCharStep ==
  ASSUME IInv, NEW s \in Slot, CreateChar(s)
  PROVE  IInv'
<1> DEFINE c == [id |-> made + 1, ver |-> 0]
           m == Msg("info", s, 0, NoChar)
<1>1. /\ menu /\ seen[s].status = "NOTFOUND" /\ num = 0 /\ made < MaxChars /\ made' = made + 1
      /\ info' = [info EXCEPT ![s] = c] /\ down' = Append(down, m)
      /\ UNCHANGED <<num, send, disk, seen, recv, menu, offers>>
  BY DEF CreateChar, EmptySlot, client
<1>2. /\ TypeOK /\ StreamInv /\ WholeFiles /\ LoadedInv /\ OffersInv /\ FilesInv
      /\ MenuInv /\ SeenInv
  BY DEF IInv
<1>3. c \in Char /\ c # NoChar
  BY <1>1, Types DEF Char
<1>4. m \in Message /\ m.type = "info"
  BY MsgTypes, Types
<1> HIDE DEF c, m
<1>5. TypeOK'
  <2>1. made' \in 0 .. MaxChars /\ info' \in [Slot -> Char \cup {NoChar}] /\ down' \in Seq(Message)
    BY <1>1, <1>3, <1>4, Types, AppendIs
  <2> QED
    BY <1>1, <1>2, <2>1 DEF TypeOK
<1>6. offers = <<>>
  BY <1>1, <1>2 DEF LoadedInv
<1>7. StreamInv'
  <2>1. PICK at : Stream(at, down, offers, recv, send.data) /\ (menu => at[0].begun = 0)
    BY <1>2 DEF StreamInv
  <2>2. PICK at2 : SameStart(at2, at) /\ Stream(at2, Append(down, m), offers, recv, send.data)
    BY <1>4, <1>6, <2>1, StreamInfo, Types
  <2> QED
    BY <1>1, <2>1, <2>2 DEF StreamInv, SameStart
<1>8. WholeFiles' /\ SeenInv' /\ LoadedInv'
  BY <1>1, <1>2 DEF WholeFiles, SeenInv, LoadedInv
<1>9. OffersInv'
  BY <1>1, <1>6 DEF OffersInv
<1>10. FilesInv'
  <2>1. disk[s] = <<>>
    BY <1>1, <1>2 DEF MenuInv
  <2>2. \A x \in Slot : x # s => info'[x] = info[x]
    BY <1>1, Types
  <2> QED
    BY <1>1, <1>2, <2>1, <2>2 DEF FilesInv
<1>11. MenuInv'
  <2>1. \A j \in 1 .. Len(down) : down[j].type \in {"new", "part"} =>
           \E i \in 1 .. j - 1 : down[i].type = "spawned"
    BY <1>1, <1>2 DEF MenuInv
  <2>2. \A j \in 1 .. Len(down') : down'[j].type \in {"new", "part"} =>
           \E i \in 1 .. j - 1 : down'[i].type = "spawned"
    BY <1>1, <1>4, <2>1, MenuAppend, Types
  <2> QED
    BY <1>1, <1>2, <2>2 DEF MenuInv
<1> QED
  BY <1>5, <1>7, <1>8, <1>9, <1>10, <1>11 DEF IInv

LEMMA LoadCharacterStep ==
  ASSUME IInv, menu, NEW s \in Slot, LoadCharacter(s)
  PROVE  IInv'
<1> DEFINE m == Msg("spawned", s, 0, NoChar)
<1>1. /\ num = 0 /\ info[s] # NoChar /\ num' = s /\ down' = Append(down, m)
      /\ UNCHANGED <<info, send, disk, seen, recv, menu, made, offers>>
  BY DEF LoadCharacter, client
<1>2. /\ TypeOK /\ StreamInv /\ WholeFiles /\ LoadedInv /\ OffersInv /\ FilesInv
      /\ MenuInv /\ SeenInv
  BY DEF IInv
<1>3. m \in Message /\ m.type = "spawned"
  BY MsgTypes, Types
<1> HIDE DEF m
<1>4. TypeOK'
  <2>1. num' \in Slot \cup {0} /\ down' \in Seq(Message)
    BY <1>1, <1>3, Types, AppendIs
  <2> QED
    BY <1>1, <1>2, <2>1 DEF TypeOK
<1>5. offers = <<>> /\ send.status = "DORMANT"
  BY <1>1, <1>2 DEF LoadedInv
<1>6. StreamInv'
  <2>1. PICK at : Stream(at, down, offers, recv, send.data) /\ (menu => at[0].begun = 0)
    BY <1>2 DEF StreamInv
  <2>2. PICK at2 : SameStart(at2, at) /\ Stream(at2, Append(down, m), offers, recv, send.data)
    BY <1>3, <1>5, <2>1, StreamInfo, Types
  <2> QED
    BY <1>1, <2>1, <2>2 DEF StreamInv, SameStart
<1>7. WholeFiles' /\ SeenInv' /\ FilesInv'
  BY <1>1, <1>2 DEF WholeFiles, SeenInv, FilesInv
<1>8. LoadedInv'
  BY <1>1, <1>2, <1>5 DEF LoadedInv
<1>9. OffersInv'
  BY <1>1, <1>5 DEF OffersInv
<1>10. MenuInv'
  <2>1. \A j \in 1 .. Len(down) : down[j].type \in {"new", "part"} =>
           \E i \in 1 .. j - 1 : down[i].type = "spawned"
    BY <1>2 DEF MenuInv
  <2>2. /\ \A j \in 1 .. Len(down') : down'[j].type \in {"new", "part"} =>
              \E i \in 1 .. j - 1 : down'[i].type = "spawned"
        /\ \E i \in 1 .. Len(down') : down'[i].type = "spawned"
    <3>1. down \in Seq(Message) /\ ~ m.type \in {"new", "part"}
      BY <1>3, Types
    <3>2. /\ \A j \in 1 .. Len(Append(down, m)) : Append(down, m)[j].type \in {"new", "part"} =>
                \E i \in 1 .. j - 1 : Append(down, m)[i].type = "spawned"
          /\ \E i \in 1 .. Len(Append(down, m)) : Append(down, m)[i].type = "spawned"
      BY <1>3, <2>1, <3>1, MenuAppend
    <3> QED
      BY <1>1, <3>2
  <2> QED
    BY <1>1, <1>2, <2>2 DEF MenuInv
<1> QED
  BY <1>4, <1>6, <1>7, <1>8, <1>9, <1>10 DEF IInv

\* The character, as it is saved next.
Advanced(c) == [c EXCEPT !.ver = @ + 1]

LEMMA AdvancedIs ==
  ASSUME NEW c \in Char, c.ver < MaxVer
  PROVE  /\ Advanced(c) \in Char
         /\ \A b \in Char : NewerOf(b, c) => NewerOf(b, Advanced(c))
<1>1. /\ c.ver \in 0 .. MaxVer /\ c.id \in 1 .. MaxChars
      /\ Advanced(c) = [id |-> c.id, ver |-> c.ver + 1]
  BY DEF Char, Advanced
<1>2. MaxVer \in Nat
  BY ConstantsAssumption
<1>3. Advanced(c) \in Char
  <2>1. c.ver + 1 \in 0 .. MaxVer
    BY <1>1, <1>2
  <2> QED
    BY <1>1, <2>1 DEF Char
<1>4. ASSUME NEW b \in Char, NewerOf(b, c)
      PROVE  NewerOf(b, Advanced(c))
  BY <1>1, <1>2, <1>4 DEF NewerOf, Char
<1> QED
  BY <1>3, <1>4

LEMMA SaveCharStep ==
  ASSUME IInv, SaveChar
  PROVE  IInv'
<1>1. /\ num # 0 /\ info[num].ver < MaxVer /\ info' = [info EXCEPT ![num] = Advanced(info[num])]
      /\ UNCHANGED <<num, send, down, disk, seen, recv, menu, made, offers>>
  BY DEF SaveChar, client, Advanced
<1>2. /\ TypeOK /\ StreamInv /\ WholeFiles /\ LoadedInv /\ OffersInv /\ FilesInv
      /\ MenuInv /\ SeenInv
  BY DEF IInv
<1>3. num \in Slot /\ info[num] \in Char
  BY <1>1, <1>2, Types DEF LoadedInv
<1>4. /\ Advanced(info[num]) \in Char
      /\ \A b \in Char : NewerOf(b, info[num]) => NewerOf(b, Advanced(info[num]))
  BY <1>1, <1>3, AdvancedIs
<1>5. info'[num] = Advanced(info[num]) /\ \A s \in Slot : s # num => info'[s] = info[s]
  BY <1>1, <1>3, Types
<1>6. TypeOK'
  <2>1. info' \in [Slot -> Char \cup {NoChar}]
    BY <1>1, <1>4, Types
  <2> QED
    BY <1>1, <1>2, <2>1 DEF TypeOK
<1>7. StreamInv' /\ WholeFiles' /\ SeenInv' /\ MenuInv'
  BY <1>1, <1>2 DEF StreamInv, WholeFiles, SeenInv, MenuInv
<1>8. LoadedInv'
  <2>1. info'[num] # NoChar
    BY <1>4, <1>5, Types
  <2> QED
    BY <1>1, <1>2, <2>1 DEF LoadedInv
<1>9. OffersInv'
  <2>1. ASSUME NEW i \in 1 .. Len(offers)
        PROVE  NewerOf(offers[i].char, info'[num])
    <3>1. offers[i] \in Offer
      BY Types, ElementOfSeq
    <3>2. offers[i].char \in Char /\ NewerOf(offers[i].char, info[num])
      BY <1>2, <3>1 DEF OffersInv, Offer
    <3> QED
      BY <1>4, <1>5, <3>2
  <2> QED
    BY <1>1, <1>2, <2>1 DEF OffersInv
<1>10. FilesInv'
  <2>1. ASSUME disk[num] # <<>>
        PROVE  NewerOf(disk[num][1].char, info'[num])
    <3>1. PICK c \in Char : disk[num] = Pieces(c)
      BY <1>2, <1>3, <2>1 DEF WholeFiles
    <3>2. disk[num][1].char \in Char
      BY <3>1, PiecesAre
    <3>3. NewerOf(disk[num][1].char, info[num])
      BY <1>2, <1>3, <2>1, Types DEF FilesInv
    <3> QED
      BY <1>4, <1>5, <3>2, <3>3
  <2> QED
    BY <1>1, <1>2, <1>5, <2>1 DEF FilesInv
<1> QED
  BY <1>6, <1>7, <1>8, <1>9, <1>10 DEF IInv

LEMMA SendCharStep ==
  ASSUME IInv, SendChar
  PROVE  IInv'
<1> DEFINE c == info[num]
           m == Msg("new", num, Length(c), NoChar)
           last == [slot |-> num, char |-> c]
           n == Len(offers)
           q == [begun |-> n + 1, k |-> 0]
<1>1. /\ num # 0 /\ send.status = "DORMANT"
      /\ send' = [status |-> "SENDING", slot |-> num, data |-> Pieces(c), len |-> Length(c)]
      /\ down' = Append(down, m) /\ offers' = Append(offers, last)
      /\ UNCHANGED <<info, num, disk, seen, recv, menu, made>>
  BY DEF SendChar, client
<1>2. /\ TypeOK /\ StreamInv /\ WholeFiles /\ LoadedInv /\ OffersInv /\ FilesInv
      /\ MenuInv /\ SeenInv
  BY DEF IInv
<1>3. num \in Slot /\ c \in Char /\ last \in Offer /\ last.slot = num /\ last.char = c
  BY <1>1, <1>2, Types DEF LoadedInv, Offer
<1>4. Length(c) \in 0 .. MaxPieces /\ Length(c) \in Nat /\ Length(c) > 0
  BY <1>3, LengthBounds, Types
<1>5. /\ m \in Message /\ m.type = "new" /\ m.slot = num /\ m.len = Length(c)
  BY <1>3, <1>4, MsgTypes
<1>6. /\ Pieces(c) \in Seq(Piece) /\ Len(Pieces(c)) = Length(c) /\ Pieces(c) # <<>>
      /\ \A i \in 1 .. Length(c) : Pieces(c)[i] = PieceOf(c, i)
  BY <1>3, PiecesAre
<1>7. /\ n \in Nat /\ Len(offers') = n + 1 /\ offers'[n + 1] = last
      /\ \A i \in 1 .. n : offers'[i] = offers[i] /\ offers[i] \in Offer
      /\ offers' \in Seq(Offer)
  BY <1>1, <1>3, Types, AppendIs, ElementOfSeq
<1>8. q \in Position /\ q.begun = n + 1 /\ q.k = 0
  BY <1>7 DEF Position
<1>9. Extends(offers', offers)
  BY <1>7 DEF Extends
<1> HIDE DEF c, m, last, n, q
<1>10. TypeOK'
  <2>1. send' \in SendInfo /\ send'.status = "SENDING"
    BY <1>1, <1>3, <1>4, <1>6 DEF SendInfo, Status
  <2>2. down' \in Seq(Message)
    BY <1>1, <1>5, Types, AppendIs
  <2> QED
    BY <1>1, <1>2, <1>7, <2>1, <2>2 DEF TypeOK, Offer
<1>11. StreamInv'
  <2>1. PICK at : Stream(at, down, offers, recv, send.data) /\ (menu => at[0].begun = 0)
    BY <1>2 DEF StreamInv
  <2> DEFINE p == at[Len(down)]
  <2>2. Len(down) \in Nat
    BY Types
  <2>3. p \in Position /\ Ends(p, offers, <<>>)
    <3>1. send.data = <<>>
      BY <1>1, <1>2 DEF LoadedInv
    <3> QED
      BY <2>1, <2>2, <3>1 DEF Stream
  <2>4. p.begun = n /\ (n > 0 => p.k = Length(offers[n].char))
    <3>1. p.begun = n /\ p.k \in Nat
      BY <2>3 DEF Ends, Position, n
    <3>2. ASSUME n > 0 PROVE p.k = Length(offers[n].char)
      <4>1. offers[n].char \in Char
        BY <1>7, <3>2 DEF Offer
      <4>2. Length(offers[n].char) \in Nat /\ Len(<<>>) = 0
        BY <4>1, LengthBounds
      <4>3. p.k + Len(<<>>) = Length(offers[n].char)
        BY <2>3, <3>1, <3>2 DEF Ends
      <4> HIDE DEF p
      <4> QED
        BY <3>1, <4>2, <4>3
    <3> QED
      BY <3>1, <3>2
  <2> HIDE DEF p
  <2>5. Moves(p, m, q, offers')
    <3>1. Over(p, offers')
      BY <1>7, <2>4 DEF Over
    <3>2. q = [begun |-> p.begun + 1, k |-> 0] /\ offers'[q.begun] = last
      BY <1>7, <1>8, <2>4 DEF q
    <3> QED
      BY <1>3, <1>5, <1>7, <1>8, <3>1, <3>2 DEF Moves
  <2>6. Ends(q, offers', Pieces(c))
    <3>1. \A i \in 1 .. Length(c) : 0 + i = i
      BY <1>4
    <3>2. q.begun > 0 /\ q.begun = Len(offers') /\ offers'[q.begun].char = c
      BY <1>3, <1>7, <1>8
    <3> QED
      BY <1>4, <1>6, <1>8, <3>1, <3>2 DEF Ends
  <2>7. \E at2 : SameStart(at2, at) /\ Stream(at2, Append(down, m), offers', recv, Pieces(c))
    <3>1. Moves(at[Len(down)], m, q, offers')
      BY <2>5 DEF p
    <3>2. down \in Seq(Message) /\ offers \in Seq(Offer)
      BY Types
    <3> QED
      BY <1>5, <1>7, <1>8, <1>9, <2>1, <2>6, <3>1, <3>2, StreamAppend, Zenon
  <2>8. send'.data = Pieces(c)
    BY <1>1
  <2> QED
    BY <1>1, <2>1, <2>7, <2>8 DEF StreamInv, SameStart
<1>12. WholeFiles' /\ SeenInv' /\ FilesInv'
  BY <1>1, <1>2 DEF WholeFiles, SeenInv, FilesInv
<1>13. LoadedInv'
  <2>1. send'.status # "DORMANT"
    BY <1>1
  <2> QED
    BY <1>1, <1>2, <2>1 DEF LoadedInv
<1>14. OffersInv'
  <2>1. NewerOf(c, c)
    <3>1. c.ver \in Nat
      BY <1>3, Types DEF Char
    <3> QED
      BY <3>1 DEF NewerOf
  <2>2. disk[num] # <<>> => NewerOf(disk[num][1].char, c)
    BY <1>2, <1>3, Types DEF FilesInv, c
  <2>3. \A i \in 1 .. n : offers[i].slot = num
    BY <1>2 DEF OffersInv, n
  <2>6. \A i \in 1 .. n : NewerOf(offers[i].char, c)
    BY <1>2 DEF OffersInv, n, c
  <2>7. disk[num] # <<>> => \A i \in 1 .. n : NewerOf(disk[num][1].char, offers[i].char)
    BY <1>2 DEF OffersInv, n
  <2>o. \A i \in 1 .. n : \A j \in i .. n : NewerOf(offers[i].char, offers[j].char)
    BY <1>2 DEF OffersInv, n
  <2>4. ASSUME NEW i \in 1 .. n + 1
        PROVE  /\ offers'[i].slot = num /\ NewerOf(offers'[i].char, c)
               /\ \A j \in i .. n + 1 : NewerOf(offers'[i].char, offers'[j].char)
               /\ disk[num] # <<>> => NewerOf(disk[num][1].char, offers'[i].char)
    <3>1. CASE i = n + 1
      <4>1. offers'[i].slot = num /\ offers'[i].char = c
        BY <1>3, <1>7, <3>1
      <4>2. \A j \in i .. n + 1 : j = i
        BY <1>7, <3>1
      <4> QED
        BY <2>1, <2>2, <4>1, <4>2
    <3>2. CASE i # n + 1
      <4>1. i \in 1 .. n /\ offers'[i] = offers[i]
        BY <1>7, <3>2
      <4>3. /\ offers[i].slot = num /\ NewerOf(offers[i].char, c)
            /\ disk[num] # <<>> => NewerOf(disk[num][1].char, offers[i].char)
        BY <2>3, <2>6, <2>7, <4>1
      <4>2. ASSUME NEW j \in i .. n + 1
            PROVE  NewerOf(offers'[i].char, offers'[j].char)
        <5>1. CASE j = n + 1
          BY <1>3, <1>7, <4>1, <4>3, <5>1
        <5>2. CASE j # n + 1
          <6>1. j \in i .. n /\ j \in 1 .. n
            BY <1>7, <4>1, <5>2
          <6>2. offers'[j] = offers[j]
            BY <1>7, <6>1
          <6>3. \A k \in i .. n : NewerOf(offers[i].char, offers[k].char)
            BY <2>o, <4>1
          <6>4. NewerOf(offers[i].char, offers[j].char)
            BY <6>1, <6>3
          <6> QED
            BY <4>1, <6>2, <6>4
        <5> QED
          BY <5>1, <5>2
      <4> QED
        BY <4>1, <4>2, <4>3
    <3> QED
      BY <3>1, <3>2
  <2>5. info'[num'] = c /\ num' = num /\ disk' = disk
    BY <1>1 DEF c
  <2> QED
    BY <1>1, <1>7, <2>4, <2>5 DEF OffersInv
<1>15. MenuInv'
  <2> SUFFICES ASSUME menu PROVE MenuInv'
    BY <1>1 DEF MenuInv
  <2>1. /\ \A j \in 1 .. Len(down) : down[j].type \in {"new", "part"} =>
              \E i \in 1 .. j - 1 : down[i].type = "spawned"
        /\ \E i \in 1 .. Len(down) : down[i].type = "spawned"
    BY <1>1, <1>2 DEF MenuInv
  <2>2. /\ \A j \in 1 .. Len(Append(down, m)) : Append(down, m)[j].type \in {"new", "part"} =>
              \E i \in 1 .. j - 1 : Append(down, m)[i].type = "spawned"
        /\ \E i \in 1 .. Len(Append(down, m)) : Append(down, m)[i].type = "spawned"
    BY <1>5, <2>1, MenuAppend, Types
  <2> QED
    BY <1>1, <1>2, <2>2 DEF MenuInv
<1> QED
  BY <1>10, <1>11, <1>12, <1>13, <1>14, <1>15 DEF IInv

LEMMA TailIs ==
  ASSUME NEW S, NEW f \in Seq(S), f # <<>>
  PROVE  /\ Tail(f) \in Seq(S) /\ Len(f) \in Nat /\ Len(f) > 0 /\ Len(Tail(f)) = Len(f) - 1
         /\ f[1] \in S /\ Head(f) = f[1]
         /\ \A i \in 1 .. Len(f) - 1 : Tail(f)[i] = f[i + 1]
<1>1. Len(f) \in Nat /\ Len(f) > 0
  BY EmptySeq
<1>2. f[1] \in S
  BY <1>1, ElementOfSeq
<1> QED
  BY <1>1, <1>2, HeadTailProperties

LEMMA ThinkSendCharStep ==
  ASSUME IInv, Think_SendChar
  PROVE  IInv'
<1>1. /\ num # 0 /\ send.status = "SENDING"
      /\ UNCHANGED <<info, num, disk, seen, recv, menu, made, offers>>
  BY DEF Think_SendChar, client
<1>2. /\ TypeOK /\ StreamInv /\ WholeFiles /\ LoadedInv /\ OffersInv /\ FilesInv
      /\ MenuInv /\ SeenInv
  BY DEF IInv
<1>3. WholeFiles' /\ SeenInv' /\ FilesInv' /\ OffersInv'
  BY <1>1, <1>2 DEF WholeFiles, SeenInv, FilesInv, OffersInv
<1>4. CASE send.data = <<>>
  <2>1. send' = Quiet(send.slot) /\ down' = down
    BY <1>4 DEF Think_SendChar
  <2>2. send' \in SendInfo /\ send'.status = "DORMANT" /\ send'.data = <<>>
    BY <2>1, QuietTypes, Types
  <2>3. TypeOK'
    BY <1>1, <1>2, <2>1, <2>2 DEF TypeOK
  <2>4. StreamInv' /\ MenuInv'
    BY <1>1, <1>2, <1>4, <2>1, <2>2 DEF StreamInv, MenuInv
  <2>5. LoadedInv'
    BY <1>1, <1>2, <2>2 DEF LoadedInv
  <2> QED
    BY <1>3, <2>3, <2>4, <2>5 DEF IInv
<1>5. CASE send.data # <<>>
  <2> DEFINE m == Msg("part", send.slot, 0, Head(send.data))
             n == Len(offers)
  <2>1. send' = [send EXCEPT !.data = Tail(@)] /\ down' = Append(down, m)
    BY <1>5 DEF Think_SendChar
  <2>2. /\ Tail(send.data) \in Seq(Piece) /\ Len(send.data) \in Nat /\ Len(send.data) > 0
        /\ Len(Tail(send.data)) = Len(send.data) - 1
        /\ send.data[1] \in Piece /\ Head(send.data) = send.data[1]
        /\ \A i \in 1 .. Len(send.data) - 1 : Tail(send.data)[i] = send.data[i + 1]
    BY <1>5, TailIs, Types
  <2>3. m \in Message /\ m.type = "part" /\ m.piece = send.data[1]
    <3>1. 0 \in 0 .. MaxPieces
      BY Types
    <3> QED
      BY <2>2, <3>1, MsgTypes, Types
  <2> HIDE DEF m
  <2>4. send' \in SendInfo /\ send'.status = "SENDING" /\ send'.data = Tail(send.data)
    <3>1. send \in [status : Status, slot : Slot, data : Seq(Piece), len : 0 .. MaxPieces]
      BY Types DEF SendInfo
    <3> QED
      BY <1>1, <2>1, <2>2, <3>1 DEF SendInfo
  <2>5. TypeOK'
    <3>1. down' \in Seq(Message)
      BY <2>1, <2>3, Types, AppendIs
    <3> QED
      BY <1>1, <1>2, <2>4, <3>1 DEF TypeOK
  <2>6. StreamInv'
    <3>1. PICK at : Stream(at, down, offers, recv, send.data) /\ (menu => at[0].begun = 0)
      BY <1>2 DEF StreamInv
    <3> DEFINE p == at[Len(down)]
               q == [begun |-> p.begun, k |-> p.k + 1]
    <3>2. Len(down) \in Nat /\ n \in Nat
      BY Types
    <3>3. p \in Position /\ Ends(p, offers, send.data)
      BY <3>1, <3>2 DEF Stream
    <3> HIDE DEF p
    <3>5. p.begun = n /\ p.begun > 0 /\ p.k \in Nat /\ p.begun \in Nat
      BY <1>5, <3>2, <3>3 DEF Ends, Position
    <3>6. /\ p.k + Len(send.data) = Length(offers[n].char)
          /\ \A i \in 1 .. Len(send.data) : send.data[i] = PieceOf(offers[n].char, p.k + i)
      BY <3>3, <3>5 DEF Ends
    <3>7. q \in Position /\ q.begun = n /\ q.k = p.k + 1
      BY <3>5 DEF Position
    <3>8. Moves(p, m, q, offers)
      <4>1. q.begun \in 0 .. Len(offers) /\ p.k < Length(offers[p.begun].char)
        <5>1. q.begun \in 0 .. Len(offers)
          BY <3>2, <3>7
        <5>2. p.k < p.k + Len(send.data)
          BY <2>2, <3>5
        <5> QED
          BY <3>5, <3>6, <5>1, <5>2
      <4>2. 1 \in 1 .. Len(send.data)
        BY <2>2
      <4>3. m.piece = PieceOf(offers[p.begun].char, q.k)
        BY <2>3, <3>5, <3>6, <3>7, <4>2
      <4> QED
        BY <2>3, <3>5, <4>1, <4>3 DEF Moves
    <3> HIDE DEF q
    <3>9. Ends(q, offers, Tail(send.data))
      <4>1. q.k + Len(Tail(send.data)) = Length(offers[n].char)
        <5>1. q.k + (Len(send.data) - 1) = p.k + Len(send.data)
          BY <2>2, <3>5, <3>7
        <5> QED
          BY <2>2, <3>6, <5>1
      <4>2. ASSUME NEW i \in 1 .. Len(Tail(send.data))
            PROVE  Tail(send.data)[i] = PieceOf(offers[n].char, q.k + i)
        <5>1. i + 1 \in 1 .. Len(send.data) /\ p.k + (i + 1) = q.k + i /\ i \in 1 .. Len(send.data) - 1
          BY <2>2, <3>5, <3>7
        <5>2. send.data[i + 1] = PieceOf(offers[n].char, p.k + (i + 1))
          BY <3>6, <5>1
        <5> QED
          BY <2>2, <5>1, <5>2
      <4> QED
        BY <3>5, <3>7, <4>1, <4>2 DEF Ends
    <3>10. \E at2 : SameStart(at2, at) /\ Stream(at2, Append(down, m), offers, recv, Tail(send.data))
      <4>1. Moves(at[Len(down)], m, q, offers)
        BY <3>8 DEF p
      <4>2. down \in Seq(Message) /\ offers \in Seq(Offer) /\ Extends(offers, offers)
        BY Types, <3>2 DEF Extends
      <4> QED
        BY <2>3, <3>1, <3>7, <3>9, <4>1, <4>2, StreamAppend, Zenon
    <3> QED
      BY <1>1, <2>1, <2>4, <3>1, <3>10 DEF StreamInv, SameStart
  <2>7. LoadedInv'
    BY <1>1, <1>2, <2>4 DEF LoadedInv
  <2>8. MenuInv'
    <3> SUFFICES ASSUME menu PROVE MenuInv'
      BY <1>1 DEF MenuInv
    <3>1. /\ \A j \in 1 .. Len(down) : down[j].type \in {"new", "part"} =>
                \E i \in 1 .. j - 1 : down[i].type = "spawned"
          /\ \E i \in 1 .. Len(down) : down[i].type = "spawned"
      BY <1>1, <1>2 DEF MenuInv
    <3>2. /\ \A j \in 1 .. Len(Append(down, m)) : Append(down, m)[j].type \in {"new", "part"} =>
                \E i \in 1 .. j - 1 : Append(down, m)[i].type = "spawned"
          /\ \E i \in 1 .. Len(Append(down, m)) : Append(down, m)[i].type = "spawned"
      BY <2>3, <3>1, MenuAppend, Types
    <3> QED
      BY <1>1, <1>2, <2>1, <3>2 DEF MenuInv
  <2> QED
    BY <1>3, <2>5, <2>6, <2>7, <2>8 DEF IInv
<1> QED
  BY <1>4, <1>5

\* The first message, and where it takes the client.
First(at) ==
  /\ Stream(at, down, offers, recv, send.data)
  /\ at[0] \in Position /\ at[1] \in Position
  /\ Begins(at[0], offers, recv)
  /\ Moves(at[0], down[1], at[1], offers)
  /\ menu => at[0].begun = 0

LEMMA FirstIs ==
  ASSUME IInv, down # <<>>
  PROVE  /\ \E at : First(at)
         /\ Head(down) = down[1] /\ down[1] \in Message /\ Tail(down) \in Seq(Message)
         /\ menu => down[1].type \in {"info", "spawned"}
<1>1. StreamInv /\ MenuInv
  BY DEF IInv
<1>2. /\ Len(down) \in Nat /\ Len(down) > 0 /\ down[1] \in Message /\ Head(down) = down[1]
      /\ Tail(down) \in Seq(Message)
  BY TailIs, Types
<1>3. PICK at : Stream(at, down, offers, recv, send.data) /\ (menu => at[0].begun = 0)
  BY <1>1 DEF StreamInv
<1>4. First(at)
  <2>1. 0 \in 0 .. Len(down) /\ 1 \in 0 .. Len(down) /\ 1 \in 1 .. Len(down) /\ 1 - 1 = 0
    BY <1>2
  <2>2. at \in [0 .. Len(down) -> Position] /\ Begins(at[0], offers, recv)
    BY <1>3 DEF Stream
  <2>3. Moves(at[1 - 1], down[1], at[1], offers)
    BY <1>3, <2>1 DEF Stream
  <2> QED
    BY <1>3, <2>1, <2>2, <2>3 DEF First
<1>5. ASSUME menu PROVE down[1].type \in {"info", "spawned"}
  <2>1. ~ \E i \in 1 .. 1 - 1 : down[i].type = "spawned"
    OBVIOUS
  <2>2. 1 \in 1 .. Len(down)
    BY <1>2
  <2>3. ~ down[1].type \in {"new", "part"}
    BY <1>1, <1>5, <2>1, <2>2 DEF MenuInv
  <2> QED
    BY <1>2, <2>3 DEF Message
<1> QED
  BY <1>2, <1>4, <1>5

\* The menu keeps what it shows when the first message is received.
LEMMA MenuReceive ==
  ASSUME IInv, down # <<>>, down' = Tail(down), num' = num, menu',
         menu, down[1].type # "spawned",
         \A s \in Slot : seen'[s].status = "NOTFOUND" => disk'[s] = <<>>
  PROVE  MenuInv'
<1>1. /\ \A j \in 1 .. Len(down) : down[j].type \in {"new", "part"} =>
              \E i \in 1 .. j - 1 : down[i].type = "spawned"
      /\ num # 0 => \E i \in 1 .. Len(down) : down[i].type = "spawned"
  BY DEF IInv, MenuInv
<1>2. down \in Seq(Message)
  BY Types
<1>3. /\ \A j \in 1 .. Len(Tail(down)) : Tail(down)[j].type \in {"new", "part"} =>
              \E i \in 1 .. j - 1 : Tail(down)[i].type = "spawned"
      /\ num # 0 => \E i \in 1 .. Len(Tail(down)) : Tail(down)[i].type = "spawned"
  BY <1>1, <1>2, MenuTail
<1> QED
  BY <1>3 DEF MenuInv

LEMMA ReceiveInfoStep ==
  ASSUME IInv, Receive, Head(down).type = "info"
  PROVE  IInv'
<1> DEFINE s == down[1].slot
<1>1. /\ down # <<>> /\ down' = Tail(down)
      /\ seen' = [seen EXCEPT ![s] = [status |-> "LOADED", sent |-> "SENT"]]
      /\ recv' = [recv EXCEPT !.status = "DORMANT"]
      /\ UNCHANGED <<info, num, send, disk, menu, made, offers>>
  <2>1. Head(down) = down[1]
    BY FirstIs DEF Receive
  <2> QED
    BY <2>1 DEF Receive, server, MsgFunc_CharInfo
<1>2. /\ TypeOK /\ StreamInv /\ WholeFiles /\ LoadedInv /\ OffersInv /\ FilesInv
      /\ MenuInv /\ SeenInv
  BY DEF IInv
<1>3. /\ Head(down) = down[1] /\ down[1] \in Message /\ Tail(down) \in Seq(Message)
      /\ down[1].type = "info" /\ s \in Slot
  BY <1>1, FirstIs DEF Message
<1> HIDE DEF s
<1>4. recv' \in SendInfo /\ recv'.status = "DORMANT"
  BY <1>1, Types DEF SendInfo, Status
<1>5. /\ seen' \in [Slot -> Shown] /\ seen'[s].status = "LOADED" /\ seen'[s].sent = "SENT"
      /\ \A x \in Slot : x # s => seen'[x] = seen[x]
  BY <1>1, <1>3, Types DEF Shown
<1>6. TypeOK'
  BY <1>1, <1>2, <1>3, <1>4, <1>5 DEF TypeOK
<1>7. StreamInv'
  <2>1. PICK at : First(at)
    BY <1>1, FirstIs
  <2>2. at[0].begun = 0 /\ at[1] = at[0]
    BY <1>3, <2>1 DEF First, Moves
  <2>3. Begins(at[1], offers, recv')
    BY <2>2 DEF Begins
  <2>4. PICK at2 : NextStart(at2, at) /\ Stream(at2, Tail(down), offers, recv', send.data)
    <3>1. Stream(at, down, offers, recv, send.data)
      BY <2>1 DEF First
    <3>2. down \in Seq(Message) /\ down # <<>> /\ offers \in Seq(Offer)
      BY <1>1, Types
    <3> QED
      BY <2>3, <3>1, <3>2, StreamReceive, Zenon
  <2> QED
    BY <1>1, <2>2, <2>4 DEF StreamInv, NextStart
<1>8. WholeFiles' /\ FilesInv' /\ OffersInv'
  BY <1>1, <1>2 DEF WholeFiles, FilesInv, OffersInv
<1>9. LoadedInv'
  BY <1>1, <1>2, <1>4 DEF LoadedInv
<1>10. SeenInv'
  BY <1>1, <1>2, <1>5 DEF SeenInv
<1>11. MenuInv'
  <2>1. CASE menu
    BY <1>1, <1>2, <1>3, <1>5, <2>1, MenuReceive DEF MenuInv
  <2>2. CASE ~ menu
    BY <1>1, <2>2 DEF MenuInv
  <2> QED
    BY <2>1, <2>2
<1> QED
  BY <1>6, <1>7, <1>8, <1>9, <1>10, <1>11 DEF IInv

LEMMA ReceiveSpawnedStep ==
  ASSUME IInv, Receive, Head(down).type = "spawned"
  PROVE  IInv'
<1>1. /\ down # <<>> /\ down' = Tail(down) /\ menu' = FALSE
      /\ UNCHANGED <<info, num, send, disk, seen, recv, made, offers>>
  BY DEF Receive, server
<1>2. /\ TypeOK /\ StreamInv /\ WholeFiles /\ LoadedInv /\ OffersInv /\ FilesInv
      /\ MenuInv /\ SeenInv
  BY DEF IInv
<1>3. /\ Head(down) = down[1] /\ down[1] \in Message /\ Tail(down) \in Seq(Message)
      /\ down[1].type = "spawned"
  BY <1>1, FirstIs
<1>4. TypeOK'
  BY <1>1, <1>2, <1>3 DEF TypeOK
<1>5. StreamInv'
  <2>1. PICK at : First(at)
    BY <1>1, FirstIs
  <2>2. at[0].begun = 0 /\ at[1] = at[0]
    BY <1>3, <2>1 DEF First, Moves
  <2>3. Begins(at[1], offers, recv)
    BY <2>2 DEF Begins
  <2>4. PICK at2 : NextStart(at2, at) /\ Stream(at2, Tail(down), offers, recv, send.data)
    <3>1. Stream(at, down, offers, recv, send.data)
      BY <2>1 DEF First
    <3>2. down \in Seq(Message) /\ down # <<>> /\ offers \in Seq(Offer)
      BY <1>1, Types
    <3> QED
      BY <2>3, <3>1, <3>2, StreamReceive, Zenon
  <2> QED
    BY <1>1, <2>4 DEF StreamInv
<1>6. WholeFiles' /\ FilesInv' /\ OffersInv' /\ LoadedInv' /\ SeenInv' /\ MenuInv'
  BY <1>1, <1>2 DEF WholeFiles, FilesInv, OffersInv, LoadedInv, SeenInv, MenuInv
<1> QED
  BY <1>4, <1>5, <1>6 DEF IInv

LEMMA ReceiveNewStep ==
  ASSUME IInv, Receive, Head(down).type = "new"
  PROVE  IInv'
<1> DEFINE s == down[1].slot
           len == down[1].len
<1>1. /\ down # <<>> /\ down' = Tail(down)
      /\ recv' = [status |-> "RECEIVING", slot |-> s, data |-> <<>>, len |-> len]
      /\ UNCHANGED <<info, num, send, disk, seen, menu, made, offers>>
  <2>1. Head(down) = down[1]
    BY FirstIs DEF Receive
  <2> QED
    BY <2>1 DEF Receive, server, HL_CLNewIncomingChar
<1>2. /\ TypeOK /\ StreamInv /\ WholeFiles /\ LoadedInv /\ OffersInv /\ FilesInv
      /\ MenuInv /\ SeenInv
  BY DEF IInv
<1>3. /\ Head(down) = down[1] /\ down[1] \in Message /\ Tail(down) \in Seq(Message)
      /\ down[1].type = "new" /\ s \in Slot /\ len \in 0 .. MaxPieces /\ ~ menu
  BY <1>1, FirstIs DEF Message
<1>4. PICK at : First(at)
  BY <1>1, FirstIs
<1>5. at[1].begun = 1 /\ at[1].k = 0 /\ Len(offers) > 0 /\ s = offers[1].slot
      /\ len = Length(offers[1].char)
  <2>1. /\ at[1] = [begun |-> at[0].begun + 1, k |-> 0] /\ Over(at[0], offers)
        /\ at[1].begun \in 0 .. Len(offers)
        /\ s = offers[at[1].begun].slot /\ len = Length(offers[at[1].begun].char)
    BY <1>3, <1>4 DEF First, Moves
  <2>2. at[0].begun = 0
    <3>1. Begins(at[0], offers, recv)
      BY <1>4 DEF First
    <3>2. ASSUME at[0].begun = 1, at[0].k < recv.len, recv.len = Length(offers[1].char) PROVE FALSE
      <4>1. at[0].k = Length(offers[1].char)
        BY <2>1, <3>2 DEF Over
      <4>2. recv.len \in Nat
        BY Types
      <4> QED
        BY <3>2, <4>1, <4>2
    <3> QED
      BY <3>1, <3>2 DEF Begins
  <2>3. at[1].begun = 1 /\ at[1].k = 0
    BY <2>1, <2>2
  <2> QED
    BY <2>1, <2>3
<1>6. Length(offers[1].char) \in Nat /\ Length(offers[1].char) > 0
  <2>1. offers[1] \in Offer
    BY <1>5, Types, ElementOfSeq
  <2> QED
    BY <2>1, LengthBounds DEF Offer
<1> HIDE DEF s, len
<1>7. recv' \in SendInfo /\ recv'.status = "RECEIVING" /\ recv'.slot = s /\ recv'.len = len
      /\ recv'.data = <<>> /\ Len(recv'.data) = 0
  BY <1>1, <1>3 DEF SendInfo, Status
<1>8. TypeOK'
  BY <1>1, <1>2, <1>3, <1>5, <1>6, <1>7 DEF TypeOK
<1>9. StreamInv'
  <2>1. Begins(at[1], offers, recv')
    BY <1>5, <1>6, <1>7 DEF Begins
  <2>2. PICK at2 : NextStart(at2, at) /\ Stream(at2, Tail(down), offers, recv', send.data)
    <3>1. Stream(at, down, offers, recv, send.data)
      BY <1>4 DEF First
    <3>2. down \in Seq(Message) /\ down # <<>> /\ offers \in Seq(Offer)
      BY <1>1, Types
    <3> QED
      BY <2>1, <3>1, <3>2, StreamReceive, Zenon
  <2> QED
    BY <1>1, <1>3, <2>2 DEF StreamInv
<1>10. WholeFiles' /\ FilesInv' /\ OffersInv' /\ SeenInv' /\ MenuInv'
  BY <1>1, <1>2, <1>3 DEF WholeFiles, FilesInv, OffersInv, SeenInv, MenuInv
<1>11. LoadedInv'
  BY <1>1, <1>2, <1>7 DEF LoadedInv
<1> QED
  BY <1>8, <1>9, <1>10, <1>11 DEF IInv

\* The pieces the client has when one more has come.
Got == Append(recv.data, down[1].piece)

\* A piece that comes is the next of the first offer, to whose slot the
\* client is receiving.
LEMMA PieceComes ==
  ASSUME IInv, Receive, Head(down).type = "part"
  PROVE  /\ down # <<>> /\ Head(down) = down[1] /\ down[1] \in Message /\ Tail(down) \in Seq(Message)
         /\ ~ menu /\ Len(offers) > 0 /\ offers # <<>> /\ offers[1] \in Offer
         /\ offers[1].slot \in Slot /\ offers[1].char \in Char
         /\ recv.status = "RECEIVING" /\ recv.slot = offers[1].slot
         /\ recv.len = Length(offers[1].char) /\ recv.len \in Nat
         /\ Got \in Seq(Piece) /\ Len(Got) \in Nat /\ Len(Got) <= recv.len
         /\ \A i \in 1 .. Len(Got) : Got[i] = PieceOf(offers[1].char, i)
         /\ \E at : First(at) /\ at[1].begun = 1 /\ at[1].k = Len(Got)
<1>1. /\ down # <<>> /\ Head(down) = down[1] /\ down[1] \in Message /\ Tail(down) \in Seq(Message)
      /\ ~ menu /\ down[1].type = "part"
  BY FirstIs DEF Receive
<1>2. PICK at : First(at)
  BY <1>1, FirstIs
<1>3. at[0].begun > 0
  BY <1>1, <1>2 DEF First, Moves
<1>4. /\ at[0].begun = 1 /\ Len(offers) > 0
      /\ recv.status = "RECEIVING" /\ recv.slot = offers[1].slot /\ recv.len = Length(offers[1].char)
      /\ at[0].k = Len(recv.data) /\ at[0].k < recv.len
      /\ \A i \in 1 .. at[0].k : recv.data[i] = PieceOf(offers[1].char, i)
  BY <1>2, <1>3 DEF First, Begins
<1>5. /\ at[1] = [begun |-> 1, k |-> at[0].k + 1]
      /\ down[1].piece = PieceOf(offers[1].char, at[0].k + 1)
  BY <1>1, <1>2, <1>4 DEF First, Moves
<1>6. offers # <<>> /\ offers[1] \in Offer /\ offers[1].slot \in Slot /\ offers[1].char \in Char
  <2>1. offers[1] \in Offer /\ offers # <<>>
    BY <1>4, Types, ElementOfSeq
  <2> QED
    BY <2>1 DEF Offer
<1>7. recv.len \in Nat /\ recv.len <= MaxPieces /\ recv.data \in Seq(Piece) /\ Len(recv.data) \in Nat
  BY Types
<1>8. down[1].piece \in Piece
  <2>1. at[0].k + 1 \in 1 .. MaxPieces
    BY <1>4, <1>7, Types
  <2> QED
    BY <1>5, <1>6, <2>1 DEF PieceOf, Piece
<1>9. /\ Got \in Seq(Piece) /\ Len(Got) = Len(recv.data) + 1 /\ Got[Len(recv.data) + 1] = down[1].piece
      /\ \A i \in 1 .. Len(recv.data) : Got[i] = recv.data[i]
  BY <1>7, <1>8, AppendIs DEF Got
<1>10. ASSUME NEW i \in 1 .. Len(Got)
       PROVE  Got[i] = PieceOf(offers[1].char, i)
  <2>1. CASE i = Len(recv.data) + 1
    BY <1>4, <1>5, <1>9, <2>1
  <2>2. CASE i # Len(recv.data) + 1
    <3>1. i \in 1 .. Len(recv.data)
      BY <1>7, <1>9, <2>2
    <3>2. recv.data[i] = PieceOf(offers[1].char, i)
      BY <1>4, <3>1
    <3> QED
      BY <1>9, <3>1, <3>2
  <2> QED
    BY <2>1, <2>2
<1>11. at[1].begun = 1 /\ at[1].k = Len(Got)
  BY <1>4, <1>5, <1>9
<1>12. Len(Got) \in Nat /\ Len(Got) <= recv.len
  BY <1>4, <1>7, <1>9
<1> QED
  BY <1>1, <1>2, <1>4, <1>6, <1>7, <1>9, <1>10, <1>11, <1>12

\* What becomes of a piece: the file of the first offer, or a part of it.
Written ==
  /\ Got = Pieces(offers[1].char)
  /\ disk' = [disk EXCEPT ![offers[1].slot] = Pieces(offers[1].char)]
  /\ recv' = Quiet(offers[1].slot) /\ offers' = Tail(offers)

Waiting ==
  /\ Len(Got) < recv.len
  /\ recv' = [recv EXCEPT !.data = Got] /\ UNCHANGED <<disk, offers>>

LEMMA PieceEffect ==
  ASSUME IInv, Receive, Head(down).type = "part"
  PROVE  /\ down' = Tail(down) /\ UNCHANGED <<info, num, send, seen, menu, made>>
         /\ Written \/ Waiting
<1>1. /\ down # <<>> /\ Head(down) = down[1]
      /\ recv.status = "RECEIVING" /\ recv.slot = offers[1].slot
      /\ offers[1].char \in Char
      /\ recv.len = Length(offers[1].char) /\ recv.len \in Nat
      /\ Got \in Seq(Piece) /\ Len(Got) \in Nat /\ Len(Got) <= recv.len
      /\ \A i \in 1 .. Len(Got) : Got[i] = PieceOf(offers[1].char, i)
  BY PieceComes
<1>2. /\ down' = Tail(down) /\ UNCHANGED <<info, num, send, made>>
      /\ HL_CLReadCharData(down[1].piece)
  BY <1>1 DEF Receive, server
<1>3. /\ IF Complete(Got, recv.len)
         THEN /\ disk' = [disk EXCEPT ![recv.slot] = Got]
              /\ recv' = Quiet(recv.slot)
              /\ offers' = Tail(offers)
         ELSE /\ recv' = [recv EXCEPT !.data = Got]
              /\ UNCHANGED <<disk, offers>>
      /\ UNCHANGED <<seen, menu>>
  BY <1>1, <1>2 DEF HL_CLReadCharData, Got
<1> HIDE DEF Got
<1>4. CASE Complete(Got, recv.len)
  <2>1. Len(Got) = Length(offers[1].char)
    BY <1>1, <1>4 DEF Complete
  <2>2. Got = Pieces(offers[1].char)
    BY <1>1, <2>1, AllPieces
  <2>3. Written
    BY <1>1, <1>3, <1>4, <2>2 DEF Written
  <2> QED
    BY <1>2, <1>3, <2>3
<1>5. CASE ~ Complete(Got, recv.len)
  <2>1. Len(Got) < recv.len
    BY <1>1, <1>5 DEF Complete
  <2>2. Waiting
    BY <1>3, <1>5, <2>1 DEF Waiting
  <2> QED
    BY <1>2, <1>3, <2>2
<1> QED
  BY <1>4, <1>5

\* The offers name one slot, which is being played.
LEMMA FirstOffer ==
  ASSUME IInv, offers # <<>>
  PROVE  /\ num # 0 /\ num \in Slot /\ offers[1].slot = num /\ offers[1] \in Offer
         /\ offers[1].char \in Char
         /\ NewerOf(offers[1].char, info[num])
         /\ \A j \in 1 .. Len(offers) : NewerOf(offers[1].char, offers[j].char)
         /\ disk[num] # <<>> => NewerOf(disk[num][1].char, offers[1].char)
<1>1. 1 \in 1 .. Len(offers) /\ offers[1] \in Offer
  BY TailIs, Types
<1>2. OffersInv
  BY DEF IInv
<1>3. num # 0 /\ offers[1].slot = num
  BY <1>1, <1>2 DEF OffersInv
<1>4. NewerOf(offers[1].char, info[num])
  BY <1>1, <1>2 DEF OffersInv
<1>5. \A j \in 1 .. Len(offers) : NewerOf(offers[1].char, offers[j].char)
  BY <1>1, <1>2 DEF OffersInv
<1>6. disk[num] # <<>> => NewerOf(disk[num][1].char, offers[1].char)
  BY <1>1, <1>2 DEF OffersInv
<1> QED
  BY <1>1, <1>3, <1>4, <1>5, <1>6, Types DEF Offer

LEMMA ReceivePartStep ==
  ASSUME IInv, Receive, Head(down).type = "part"
  PROVE  IInv'
<1> DEFINE c == offers[1].char
<1>1. /\ TypeOK /\ StreamInv /\ WholeFiles /\ LoadedInv /\ OffersInv /\ FilesInv
      /\ MenuInv /\ SeenInv
  BY DEF IInv
<1>2. /\ down # <<>> /\ down \in Seq(Message) /\ Tail(down) \in Seq(Message) /\ ~ menu
      /\ Len(offers) > 0 /\ offers # <<>> /\ offers \in Seq(Offer)
      /\ recv.status = "RECEIVING" /\ recv.slot = offers[1].slot
      /\ recv.len = Length(c) /\ recv.len \in Nat
      /\ Got \in Seq(Piece) /\ Len(Got) \in Nat
      /\ \A i \in 1 .. Len(Got) : Got[i] = PieceOf(c, i)
  BY PieceComes, Types
<1>3. /\ num # 0 /\ num \in Slot /\ offers[1].slot = num /\ c \in Char
      /\ NewerOf(c, info[num])
      /\ \A j \in 1 .. Len(offers) : NewerOf(c, offers[j].char)
  BY <1>2, FirstOffer
<1>4. PICK at : First(at) /\ at[1].begun = 1 /\ at[1].k = Len(Got)
  BY PieceComes
<1>5. Stream(at, down, offers, recv, send.data)
  BY <1>4 DEF First
<1>6. down' = Tail(down) /\ UNCHANGED <<info, num, send, seen, menu, made>> /\ (Written \/ Waiting)
  BY PieceEffect
<1> HIDE DEF c, Got
<1>7. MenuInv'
  BY <1>2, <1>6 DEF MenuInv
<1>8. CASE Waiting
  <2>1. /\ Len(Got) < recv.len
        /\ recv' = [recv EXCEPT !.data = Got] /\ UNCHANGED <<disk, offers>>
    BY <1>8 DEF Waiting
  <2>2. /\ recv' \in SendInfo /\ recv'.status = "RECEIVING" /\ recv'.slot = recv.slot
        /\ recv'.data = Got /\ recv'.len = recv.len
    <3>1. recv \in [status : Status, slot : Slot, data : Seq(Piece), len : 0 .. MaxPieces]
      BY Types DEF SendInfo
    <3> QED
      BY <1>2, <2>1, <3>1 DEF SendInfo
  <2>3. TypeOK'
    BY <1>1, <1>2, <1>6, <2>1, <2>2 DEF TypeOK
  <2>4. StreamInv'
    <3>1. Begins(at[1], offers, recv')
      BY <1>2, <1>4, <2>1, <2>2 DEF Begins, c
    <3>2. PICK at2 : NextStart(at2, at) /\ Stream(at2, Tail(down), offers, recv', send.data)
      BY <1>2, <1>5, <3>1, StreamReceive, Zenon
    <3> QED
      BY <1>2, <1>6, <2>1, <3>2 DEF StreamInv
  <2>5. WholeFiles' /\ FilesInv' /\ OffersInv' /\ SeenInv'
    BY <1>1, <1>6, <2>1 DEF WholeFiles, FilesInv, OffersInv, SeenInv
  <2>6. LoadedInv'
    BY <1>1, <1>6, <2>1, <2>2 DEF LoadedInv
  <2> QED
    BY <1>7, <2>3, <2>4, <2>5, <2>6 DEF IInv
<1>9. CASE Written
  <2>1. /\ Got = Pieces(c) /\ disk' = [disk EXCEPT ![num] = Pieces(c)]
        /\ recv' = Quiet(num) /\ offers' = Tail(offers)
    BY <1>3, <1>9 DEF Written, c
  <2>2. /\ Pieces(c) \in Seq(Piece) /\ Len(Pieces(c)) = Length(c) /\ Pieces(c) # <<>>
        /\ Pieces(c)[1].char = c
    BY <1>3, PiecesAre
  <2>3. /\ disk' \in [Slot -> Seq(Piece)] /\ disk'[num] = Pieces(c)
        /\ \A s \in Slot : s # num => disk'[s] = disk[s]
    BY <1>3, <2>1, <2>2, Types
  <2>4. recv' \in SendInfo /\ recv'.status = "DORMANT"
    BY <1>3, <2>1, QuietTypes
  <2>5. /\ Tail(offers) \in Seq(Offer) /\ Len(offers) \in Nat /\ Len(Tail(offers)) = Len(offers) - 1
        /\ \A i \in 1 .. Len(offers) - 1 : Tail(offers)[i] = offers[i + 1]
    BY <1>2, TailIs
  <2>6. TypeOK'
    BY <1>1, <1>2, <1>6, <2>1, <2>3, <2>4, <2>5 DEF TypeOK, Offer
  <2>7. StreamInv'
    <3>1. at[1].k = Length(offers[1].char)
      BY <1>4, <2>1, <2>2 DEF c
    <3>2. send.data \in Seq(Piece)
      BY Types
    <3>3. PICK at2 : at2[0].begun = 0 /\ Stream(at2, Tail(down), Tail(offers), recv', send.data)
      BY <1>2, <1>4, <1>5, <3>1, <3>2, StreamDone
    <3> QED
      BY <1>2, <1>6, <2>1, <3>3 DEF StreamInv
  <2>8. WholeFiles'
    BY <1>1, <1>3, <2>3 DEF WholeFiles
  <2>9. SeenInv'
    BY <1>1, <1>6, <2>2, <2>3 DEF SeenInv
  <2>10. FilesInv'
    BY <1>1, <1>3, <1>6, <2>2, <2>3 DEF FilesInv
  <2>11. LoadedInv'
    BY <1>1, <1>3, <1>6, <2>4 DEF LoadedInv
  <2>12. OffersInv'
    <3>1. ASSUME NEW i \in 1 .. Len(Tail(offers))
          PROVE  /\ Tail(offers)[i].slot = num /\ NewerOf(Tail(offers)[i].char, info[num])
                 /\ \A j \in i .. Len(Tail(offers)) :
                      NewerOf(Tail(offers)[i].char, Tail(offers)[j].char)
                 /\ NewerOf(c, Tail(offers)[i].char)
      <4>1. i + 1 \in 1 .. Len(offers) /\ Tail(offers)[i] = offers[i + 1]
        BY <2>5
      <4>2. offers[i + 1].slot = num /\ NewerOf(offers[i + 1].char, info[num])
        BY <1>1, <4>1 DEF OffersInv
      <4>3. \A j \in i + 1 .. Len(offers) : NewerOf(offers[i + 1].char, offers[j].char)
        BY <1>1, <4>1 DEF OffersInv
      <4>4. ASSUME NEW j \in i .. Len(Tail(offers))
            PROVE  NewerOf(Tail(offers)[i].char, Tail(offers)[j].char)
        <5>1. j + 1 \in i + 1 .. Len(offers) /\ j \in 1 .. Len(offers) - 1
          BY <2>5
        <5>2. Tail(offers)[j] = offers[j + 1]
          BY <2>5, <5>1
        <5>3. NewerOf(offers[i + 1].char, offers[j + 1].char)
          BY <4>3, <5>1
        <5> QED
          BY <4>1, <5>2, <5>3
      <4>5. NewerOf(c, offers[i + 1].char)
        BY <1>3, <4>1
      <4> QED
        BY <4>1, <4>2, <4>4, <4>5
    <3>2. /\ offers' = Tail(offers) /\ num' = num /\ num # 0 /\ info' = info
          /\ disk'[num'] = Pieces(c) /\ Pieces(c)[1].char = c
      BY <1>3, <1>6, <2>1, <2>2, <2>3
    <3> QED
      BY <3>1, <3>2 DEF OffersInv
  <2> QED
    BY <1>7, <2>6, <2>7, <2>8, <2>9, <2>10, <2>11, <2>12 DEF IInv
<1> QED
  BY <1>6, <1>8, <1>9

LEMMA ChooseFileStep ==
  ASSUME IInv, NEW s \in Slot, ChooseFile(s)
  PROVE  IInv'
<1>1. /\ menu /\ seen[s].status = "LOADED" /\ seen[s].sent = "DORMANT"
      /\ seen' = [seen EXCEPT ![s].sent = "SENDING"]
      /\ recv' = [status |-> "SENDING", slot |-> s, data |-> disk[s], len |-> Len(disk[s])]
      /\ UNCHANGED <<info, num, send, down, disk, menu, made, offers>>
  BY DEF ChooseFile, server
<1>2. /\ TypeOK /\ StreamInv /\ WholeFiles /\ LoadedInv /\ OffersInv /\ FilesInv
      /\ MenuInv /\ SeenInv
  BY DEF IInv
<1>3. disk[s] # <<>>
  BY <1>1, <1>2 DEF SeenInv
<1>4. disk[s] \in Seq(Piece) /\ Len(disk[s]) \in 0 .. MaxPieces
  <2>1. PICK c \in Char : disk[s] = Pieces(c)
    BY <1>2, <1>3 DEF WholeFiles
  <2>2. Len(disk[s]) = Length(c)
    BY <2>1, PiecesAre
  <2> QED
    BY <2>1, <2>2, LengthBounds, PiecesAre, Types
<1>5. recv' \in SendInfo /\ recv'.status = "SENDING" /\ recv'.data = disk[s]
  BY <1>1, <1>4 DEF SendInfo, Status
<1>6. /\ seen' \in [Slot -> Shown] /\ seen'[s].status = "LOADED" /\ seen'[s].sent = "SENDING"
      /\ \A x \in Slot : x # s => seen'[x] = seen[x]
  BY <1>1, Types DEF Shown
<1>7. TypeOK'
  BY <1>1, <1>2, <1>5, <1>6 DEF TypeOK
<1>8. StreamInv'
  <2>1. PICK at : Stream(at, down, offers, recv, send.data) /\ (menu => at[0].begun = 0)
    BY <1>2 DEF StreamInv
  <2>2. Stream(at, down, offers, recv', send.data)
    BY <1>1, <2>1, StreamIdle
  <2> QED
    BY <1>1, <2>1, <2>2 DEF StreamInv
<1>9. WholeFiles' /\ FilesInv' /\ OffersInv'
  BY <1>1, <1>2 DEF WholeFiles, FilesInv, OffersInv
<1>10. LoadedInv'
  BY <1>1, <1>2, <1>3, <1>5 DEF LoadedInv
<1>11. SeenInv'
  BY <1>1, <1>2, <1>6 DEF SeenInv
<1>12. MenuInv'
  <2>1. \A x \in Slot : seen'[x].status = "NOTFOUND" => disk[x] = <<>>
    BY <1>1, <1>2, <1>6 DEF MenuInv
  <2> QED
    BY <1>1, <1>2, <2>1 DEF MenuInv
<1> QED
  BY <1>7, <1>8, <1>9, <1>10, <1>11, <1>12 DEF IInv

LEMMA SendUpStep ==
  ASSUME IInv, SendUp
  PROVE  IInv'
<1> DEFINE st == IF Len(recv.data) > 1 THEN recv.status ELSE "SENT"
<1>1. /\ recv.status = "SENDING"
      /\ recv' = [recv EXCEPT !.data = Tail(recv.data), !.status = st]
      /\ UNCHANGED <<info, num, send, down, disk, seen, menu, made, offers>>
  BY DEF SendUp, server
<1>2. /\ TypeOK /\ StreamInv /\ WholeFiles /\ LoadedInv /\ OffersInv /\ FilesInv
      /\ MenuInv /\ SeenInv
  BY DEF IInv
<1>3. /\ Tail(recv.data) \in Seq(Piece) /\ Len(recv.data) \in Nat
      /\ Len(Tail(recv.data)) = Len(recv.data) - 1
  <2>1. recv.data # <<>>
    BY <1>1, <1>2 DEF LoadedInv
  <2> QED
    BY <2>1, TailIs, Types
<1>4. st \in {"SENDING", "SENT"} /\ (st = "SENDING" => Len(Tail(recv.data)) > 0)
  BY <1>1, <1>3
<1> HIDE DEF st
<1>5. recv' \in SendInfo /\ recv'.status = st /\ recv'.data = Tail(recv.data)
  <2>1. recv \in [status : Status, slot : Slot, data : Seq(Piece), len : 0 .. MaxPieces]
    BY Types DEF SendInfo
  <2> QED
    BY <1>1, <1>3, <1>4, <2>1 DEF SendInfo, Status
<1>6. TypeOK'
  BY <1>1, <1>2, <1>4, <1>5 DEF TypeOK
<1>7. StreamInv'
  <2>1. PICK at : Stream(at, down, offers, recv, send.data) /\ (menu => at[0].begun = 0)
    BY <1>2 DEF StreamInv
  <2>2. at[0].begun = 0
    BY <1>1, <2>1 DEF Stream, Begins
  <2>3. Stream(at, down, offers, recv', send.data)
    BY <2>1, <2>2, StreamIdle
  <2> QED
    BY <1>1, <2>1, <2>3 DEF StreamInv
<1>8. WholeFiles' /\ FilesInv' /\ OffersInv' /\ SeenInv' /\ MenuInv'
  BY <1>1, <1>2 DEF WholeFiles, FilesInv, OffersInv, SeenInv, MenuInv
<1>9. LoadedInv'
  <2>1. ASSUME recv'.status = "SENDING" PROVE recv'.data # <<>>
    <3>1. Len(Tail(recv.data)) > 0
      BY <1>4, <1>5, <2>1
    <3>2. Tail(recv.data) # <<>>
      BY <3>1
    <3> QED
      BY <1>5, <3>2
  <2> QED
    BY <1>1, <1>2, <2>1 DEF LoadedInv
<1> QED
  BY <1>6, <1>7, <1>8, <1>9 DEF IInv

LEMMA DeleteFileStep ==
  ASSUME IInv, NEW s \in Slot, DeleteFile(s)
  PROVE  IInv'
<1>1. /\ menu /\ disk' = [disk EXCEPT ![s] = <<>>]
      /\ seen' = [seen EXCEPT ![s].status = "NOTFOUND"]
      /\ UNCHANGED <<info, num, send, down, recv, menu, made, offers>>
  BY DEF DeleteFile, server
<1>2. /\ TypeOK /\ StreamInv /\ WholeFiles /\ LoadedInv /\ OffersInv /\ FilesInv
      /\ MenuInv /\ SeenInv
  BY DEF IInv
<1>3. /\ disk' \in [Slot -> Seq(Piece)] /\ disk'[s] = <<>>
      /\ \A x \in Slot : x # s => disk'[x] = disk[x]
  BY <1>1, Types
<1>4. /\ seen' \in [Slot -> Shown] /\ seen'[s].status = "NOTFOUND"
      /\ \A x \in Slot : x # s => seen'[x] = seen[x]
  BY <1>1, Types DEF Shown
<1>5. TypeOK'
  BY <1>1, <1>2, <1>3, <1>4 DEF TypeOK
<1>6. StreamInv' /\ LoadedInv'
  BY <1>1, <1>2 DEF StreamInv, LoadedInv
<1>7. WholeFiles' /\ FilesInv' /\ SeenInv'
  BY <1>1, <1>2, <1>3, <1>4 DEF WholeFiles, FilesInv, SeenInv
<1>8. OffersInv'
  <2>1. \A i \in 1 .. Len(offers) :
          disk'[num] # <<>> => NewerOf(disk'[num][1].char, offers[i].char)
    <3>1. CASE num = s
      BY <1>3, <3>1
    <3>2. CASE num # s
      <4> SUFFICES ASSUME NEW i \in 1 .. Len(offers)
                   PROVE  disk'[num] # <<>> => NewerOf(disk'[num][1].char, offers[i].char)
        OBVIOUS
      <4>1. num # 0 /\ (disk[num] # <<>> => NewerOf(disk[num][1].char, offers[i].char))
        BY <1>2 DEF OffersInv
      <4>2. disk'[num] = disk[num]
        BY <1>3, <3>2, <4>1, Types
      <4> QED
        BY <4>1, <4>2
    <3> QED
      BY <3>1, <3>2
  <2> QED
    BY <1>1, <1>2, <2>1 DEF OffersInv
<1>9. MenuInv'
  <2>1. \A x \in Slot : seen'[x].status = "NOTFOUND" => disk'[x] = <<>>
    BY <1>1, <1>2, <1>3, <1>4 DEF MenuInv
  <2> QED
    BY <1>1, <1>2, <2>1 DEF MenuInv
<1> QED
  BY <1>5, <1>6, <1>7, <1>8, <1>9 DEF IInv

LEMMA ReconnectStep ==
  ASSUME IInv, Reconnect
  PROVE  IInv'
<1>1. /\ info' = [s \in Slot |-> NoChar] /\ num' = 0
      /\ send' = Quiet(send.slot) /\ down' = <<>>
      /\ seen' = CLInit(disk) /\ menu' = TRUE /\ offers' = <<>>
      /\ UNCHANGED <<disk, recv, made>>
  BY DEF Reconnect
<1>2. TypeOK /\ WholeFiles /\ LoadedInv
  BY DEF IInv
<1>3. send' \in SendInfo /\ send'.status = "DORMANT" /\ send'.data = <<>>
  BY <1>1, QuietTypes, Types
<1>4. /\ seen' \in [Slot -> Shown]
      /\ \A s \in Slot : seen'[s].status = IF disk[s] = <<>> THEN "NOTFOUND" ELSE "LOADED"
  BY <1>1, CLInitTypes
<1>5. TypeOK'
  <2>1. /\ info' \in [Slot -> Char \cup {NoChar}] /\ num' \in Slot \cup {0}
        /\ down' \in Seq(Message) /\ offers' \in Seq([slot : Slot, char : Char])
    BY <1>1
  <2> QED
    BY <1>1, <1>2, <1>3, <1>4, <2>1 DEF TypeOK
<1>6. StreamInv'
  BY <1>1, <1>3, NoStream DEF StreamInv
<1>7. WholeFiles' /\ OffersInv' /\ FilesInv' /\ LoadedInv'
  BY <1>1, <1>2, <1>3 DEF WholeFiles, OffersInv, FilesInv, LoadedInv
<1>8. MenuInv' /\ SeenInv'
  BY <1>1, <1>4 DEF MenuInv, SeenInv
<1> QED
  BY <1>5, <1>6, <1>7, <1>8 DEF IInv

LEMMA StutterStep ==
  ASSUME IInv, UNCHANGED vars
  PROVE  IInv'
<1>1. /\ UNCHANGED <<info, num, send, down, disk, seen, recv, menu, made, offers>>
      /\ TypeOK /\ StreamInv /\ WholeFiles /\ LoadedInv /\ OffersInv /\ FilesInv
      /\ MenuInv /\ SeenInv
  BY DEF IInv, vars, server, client
<1>2. TypeOK' /\ StreamInv' /\ WholeFiles' /\ LoadedInv'
  BY <1>1 DEF TypeOK, StreamInv, WholeFiles, LoadedInv
<1>3. OffersInv' /\ FilesInv' /\ MenuInv' /\ SeenInv'
  BY <1>1 DEF OffersInv, FilesInv, MenuInv, SeenInv
<1> QED
  BY <1>2, <1>3 DEF IInv

LEMMA ReceiveStep ==
  ASSUME IInv, Receive
  PROVE  IInv'
<1>1. Head(down).type \in {"info", "spawned", "new", "part"}
  BY FirstIs DEF Receive, Message
<1> QED
  BY <1>1, ReceiveInfoStep, ReceiveSpawnedStep, ReceiveNewStep, ReceivePartStep

LEMMA NextIInv == IInv /\ [Next]_vars => IInv'
<1> SUFFICES ASSUME IInv, [Next]_vars PROVE IInv'
  OBVIOUS
<1>1. CASE SaveChar
  BY <1>1, SaveCharStep
<1>2. CASE SendChar
  BY <1>2, SendCharStep
<1>3. CASE Think_SendChar
  BY <1>3, ThinkSendCharStep
<1>4. CASE Receive
  BY <1>4, ReceiveStep
<1>5. CASE SendUp
  BY <1>5, SendUpStep
<1>6. CASE Reconnect
  BY <1>6, ReconnectStep
<1>7. ASSUME NEW s \in Slot, CreateChar(s) PROVE IInv'
  BY <1>7, CreateCharStep
<1>8. ASSUME NEW s \in Slot, ChooseUploaded(s) PROVE IInv'
  BY <1>8, LoadCharacterStep DEF ChooseUploaded
<1>9. ASSUME NEW s \in Slot, ChooseFile(s) PROVE IInv'
  BY <1>9, ChooseFileStep
<1>10. ASSUME NEW s \in Slot, DeleteFile(s) PROVE IInv'
  BY <1>10, DeleteFileStep
<1>11. CASE UNCHANGED vars
  BY <1>11, StutterStep
<1> QED
  BY <1>1, <1>2, <1>3, <1>4, <1>5, <1>6, <1>7, <1>8, <1>9, <1>10, <1>11 DEF Next

\* The state stays well formed: lengths and pieces stay in their ranges, and
\* a client that receives never holds a whole character.
THEOREM TypeCorrect == Spec => []TypeOK
<1>1. IInv => TypeOK
  BY DEF IInv
<1> QED
  BY InitIInv, NextIInv, <1>1, PTL DEF Spec
-----------------------------------------------------------------------------
(* The files.                                                              *)

NeverOlderStep ==
  \A s \in Slot : disk[s] # <<>> /\ disk'[s] # <<>> =>
    /\ disk'[s][1].char.id = disk[s][1].char.id
    /\ disk'[s][1].char.ver >= disk[s][1].char.ver

\* What an action does to the files: nothing, but for the last piece of a
\* character and for the menu's delete.
LEMMA SameFiles ==
  ASSUME IInv, disk' = disk
  PROVE  NeverOlderStep
<1> SUFFICES ASSUME NEW s \in Slot, disk[s] # <<>>
             PROVE  disk[s][1].char.ver >= disk[s][1].char.ver
  BY DEF NeverOlderStep
<1>1. PICK c \in Char : disk[s] = Pieces(c)
  BY DEF IInv, WholeFiles
<1>2. disk[s][1].char \in Char
  BY <1>1, PiecesAre
<1> QED
  BY <1>2, Types DEF Char

LEMMA WrittenFile ==
  ASSUME IInv, offers # <<>>, Written
  PROVE  NeverOlderStep
<1> DEFINE c == offers[1].char
<1>1. /\ num \in Slot /\ offers[1].slot = num /\ c \in Char
      /\ disk[num] # <<>> => NewerOf(disk[num][1].char, c)
  BY FirstOffer
<1>2. /\ disk' = [disk EXCEPT ![num] = Pieces(c)]
      /\ Pieces(c)[1].char = c
  BY <1>1, PiecesAre DEF Written
<1> HIDE DEF c
<1>3. /\ disk'[num] = Pieces(c) /\ \A s \in Slot : s # num => disk'[s] = disk[s]
  BY <1>1, <1>2, Types
<1> SUFFICES ASSUME NEW s \in Slot, disk[s] # <<>>, disk'[s] # <<>>
             PROVE  /\ disk'[s][1].char.id = disk[s][1].char.id
                    /\ disk'[s][1].char.ver >= disk[s][1].char.ver
  BY DEF NeverOlderStep
<1>4. PICK b \in Char : disk[s] = Pieces(b)
  BY DEF IInv, WholeFiles
<1>5. disk[s][1].char = b /\ b.ver \in Nat /\ c.ver \in Nat
  <2>1. disk[s][1].char = b
    BY <1>4, PiecesAre
  <2>2. b.ver \in Nat /\ c.ver \in Nat
    BY <1>1, Types DEF Char
  <2> QED
    BY <2>1, <2>2
<1>6. CASE s = num
  <2>1. disk'[s][1].char = c /\ NewerOf(b, c)
    BY <1>1, <1>2, <1>3, <1>5, <1>6
  <2> QED
    BY <1>5, <2>1 DEF NewerOf
<1>7. CASE s # num
  BY <1>3, <1>5, <1>7
<1> QED
  BY <1>6, <1>7

LEMMA DeletedFile ==
  ASSUME IInv, NEW s \in Slot, DeleteFile(s)
  PROVE  NeverOlderStep
<1>1. disk'[s] = <<>> /\ \A x \in Slot : x # s => disk'[x] = disk[x]
  BY Types DEF DeleteFile
<1> SUFFICES ASSUME NEW x \in Slot, disk[x] # <<>>, disk'[x] # <<>>
             PROVE  /\ disk'[x][1].char.id = disk[x][1].char.id
                    /\ disk'[x][1].char.ver >= disk[x][1].char.ver
  BY DEF NeverOlderStep
<1>2. disk'[x] = disk[x]
  BY <1>1
<1>3. PICK b \in Char : disk[x] = Pieces(b)
  BY DEF IInv, WholeFiles
<1>4. disk[x][1].char \in Char
  BY <1>3, PiecesAre
<1>5. disk[x][1].char.ver \in Nat
  BY <1>4, Types DEF Char
<1> QED
  BY <1>2, <1>5

\* The other messages leave the files and the offers.
LEMMA ReceiveOther ==
  ASSUME IInv, Receive
  PROVE  \/ UNCHANGED <<disk, offers, info>>
         \/ Head(down).type = "part"
<1>1. Head(down).type \in {"info", "spawned", "new", "part"}
  BY FirstIs DEF Receive, Message
<1> QED
  BY <1>1 DEF Receive, server, MsgFunc_CharInfo, HL_CLNewIncomingChar

LEMMA FilesStep == IInv /\ [Next]_vars => NeverOlderStep
<1> SUFFICES ASSUME IInv, [Next]_vars PROVE NeverOlderStep
  OBVIOUS
<1>1. CASE Receive
  <2>1. CASE disk' = disk
    BY <2>1, SameFiles
  <2>2. CASE disk' # disk
    <3>1. Head(down).type = "part"
      BY <1>1, <2>2, ReceiveOther
    <3>2. Written /\ offers # <<>>
      BY <1>1, <2>2, <3>1, PieceEffect, PieceComes DEF Waiting
    <3> QED
      BY <3>2, WrittenFile
  <2> QED
    BY <2>1, <2>2
<1>2. ASSUME NEW s \in Slot, DeleteFile(s) PROVE NeverOlderStep
  BY <1>2, DeletedFile
<1>3. CASE SaveChar \/ SendChar \/ Think_SendChar \/ SendUp \/ Reconnect \/ UNCHANGED vars
  <2>1. disk' = disk
    BY <1>3 DEF SaveChar, SendChar, Think_SendChar, SendUp, Reconnect, vars, client
  <2> QED
    BY <2>1, SameFiles
<1>4. ASSUME NEW s \in Slot, CreateChar(s) \/ ChooseUploaded(s) \/ ChooseFile(s)
      PROVE  NeverOlderStep
  <2>1. disk' = disk
    BY <1>4 DEF CreateChar, ChooseUploaded, LoadCharacter, ChooseFile, client
  <2> QED
    BY <2>1, SameFiles
<1> QED
  BY <1>1, <1>2, <1>3, <1>4 DEF Next

\* No file of the client is ever overwritten with another character or with
\* an earlier save of the same, whatever is interrupted and resumed: the
\* offers under way are for the slot being played, and the later the newer.
THEOREM FilesNeverOlder == Spec => NeverOlder
<1>1. IInv /\ [Next]_vars =>
        [\A s \in Slot : disk[s] # <<>> /\ disk'[s] # <<>> =>
           /\ disk'[s][1].char.id = disk[s][1].char.id
           /\ disk'[s][1].char.ver >= disk[s][1].char.ver]_vars
  BY FilesStep DEF NeverOlderStep
<1> QED
  BY InitIInv, NextIInv, <1>1, PTL DEF Spec, NeverOlder
-----------------------------------------------------------------------------
(* The refinement of CharCopy.                                             *)

Kept == [s \in Slot |-> KeptIn(disk[s])]

LEMMA KeptIs ==
  /\ \A c \in Char : KeptIn(Pieces(c)) = c
  /\ KeptIn(<<>>) = NoChar
BY PiecesAre DEF KeptIn

LEMMA InitCopy == Init => Copy!Init
<1> SUFFICES ASSUME Init PROVE Copy!Init
  OBVIOUS
<1>1. info = [s \in Slot |-> NoChar] /\ offers = <<>> /\ disk = [s \in Slot |-> <<>>]
  BY DEF Init, NoFiles
<1>2. [s \in Slot |-> KeptIn(disk[s])] = [s \in Slot |-> NoChar]
  BY <1>1, KeptIs
<1> QED
  BY <1>1, <1>2 DEF Copy!Init, Copy!Nothing

\* A character replaced.
LEMMA ChangeStep ==
  ASSUME NEW s \in Slot, NEW c \in Char, info' = [info EXCEPT ![s] = c],
         UNCHANGED <<offers, disk>>
  PROVE  Copy!Next
<1>1. Copy!Change(s, c)
  BY DEF Copy!Change
<1> QED
  BY <1>1 DEF Copy!Next

LEMMA DeliverStep ==
  ASSUME IInv, offers # <<>>, Written, info' = info
  PROVE  Copy!Next
<1> DEFINE c == offers[1].char
<1>1. /\ num \in Slot /\ offers[1].slot = num /\ c \in Char /\ Head(offers) = offers[1]
  BY FirstOffer, TailIs, Types
<1>2. disk' = [disk EXCEPT ![num] = Pieces(c)] /\ offers' = Tail(offers)
  BY <1>1 DEF Written
<1> HIDE DEF c
<1>3. disk'[num] = Pieces(c) /\ \A s \in Slot : s # num => disk'[s] = disk[s]
  BY <1>1, <1>2, Types
<1>4. KeptIn(disk'[num]) = c
  BY <1>1, <1>3, KeptIs
<1>5. [s \in Slot |-> KeptIn(disk'[s])] = [[s \in Slot |-> KeptIn(disk[s])] EXCEPT ![num] = c]
  BY <1>1, <1>3, <1>4
<1>6. Head(offers).slot = num /\ Head(offers).char = c
  BY <1>1 DEF c
<1>7. Copy!Deliver
  BY <1>2, <1>5, <1>6 DEF Copy!Deliver
<1> QED
  BY <1>7 DEF Copy!Next

LEMMA DeleteCopyStep ==
  ASSUME IInv, NEW s \in Slot, DeleteFile(s)
  PROVE  Copy!Next
<1>1. disk'[s] = <<>> /\ (\A x \in Slot : x # s => disk'[x] = disk[x]) /\ UNCHANGED <<info, offers>>
  BY Types DEF DeleteFile, server
<1>2. KeptIn(disk'[s]) = NoChar
  BY <1>1, KeptIs
<1>3. [x \in Slot |-> KeptIn(disk'[x])] = [[x \in Slot |-> KeptIn(disk[x])] EXCEPT ![s] = NoChar]
  BY <1>1, <1>2
<1>4. Copy!Delete(s)
  BY <1>1, <1>3 DEF Copy!Delete
<1> QED
  BY <1>4 DEF Copy!Next

LEMMA CopyStep == IInv /\ [Next]_vars => [Copy!Next]_(Copy!vars)
<1> SUFFICES ASSUME IInv, [Next]_vars PROVE [Copy!Next]_(Copy!vars)
  OBVIOUS
<1>s. ASSUME UNCHANGED <<info, offers, disk>> PROVE UNCHANGED Copy!vars
  BY <1>s DEF Copy!vars
<1>1. CASE SaveChar
  <2>1. /\ num # 0 /\ info[num].ver < MaxVer /\ info' = [info EXCEPT ![num] = Advanced(info[num])]
        /\ UNCHANGED <<offers, disk>>
    BY <1>1 DEF SaveChar, client, Advanced
  <2>2. num \in Slot /\ info[num] \in Char
    BY <2>1, Types DEF IInv, LoadedInv
  <2>3. Advanced(info[num]) \in Char
    BY <2>1, <2>2, AdvancedIs
  <2> QED
    BY <2>1, <2>2, <2>3, ChangeStep
<1>2. CASE SendChar
  <2>1. /\ num # 0 /\ offers' = Append(offers, [slot |-> num, char |-> info[num]])
        /\ UNCHANGED <<info, disk>>
    BY <1>2 DEF SendChar, client
  <2>2. num \in Slot /\ info[num] # NoChar
    BY <2>1, Types DEF IInv, LoadedInv
  <2>3. Copy!Offer(num)
    BY <2>1, <2>2 DEF Copy!Offer
  <2> QED
    BY <2>2, <2>3 DEF Copy!Next
<1>3. CASE Think_SendChar \/ SendUp \/ UNCHANGED vars
  BY <1>3, <1>s DEF Think_SendChar, SendUp, vars, server, client
<1>4. CASE Receive
  <2>1. info' = info
    BY <1>4 DEF Receive, server
  <2>2. CASE UNCHANGED <<disk, offers, info>>
    BY <1>s, <2>2
  <2>3. CASE ~ UNCHANGED <<disk, offers, info>>
    <3>1. Head(down).type = "part"
      BY <1>4, <2>3, ReceiveOther
    <3>2. Written /\ offers # <<>>
      BY <1>4, <2>1, <2>3, <3>1, PieceEffect, PieceComes DEF Waiting
    <3> QED
      BY <2>1, <3>2, DeliverStep
  <2> QED
    BY <2>2, <2>3
<1>5. CASE Reconnect
  <2>1. Copy!Lose
    BY <1>5 DEF Reconnect, Copy!Lose, Copy!Nothing
  <2> QED
    BY <2>1 DEF Copy!Next
<1>6. ASSUME NEW s \in Slot, CreateChar(s) PROVE Copy!Next
  <2> DEFINE c == [id |-> made + 1, ver |-> 0]
  <2>1. info' = [info EXCEPT ![s] = c] /\ made < MaxChars /\ UNCHANGED <<offers, disk>>
    BY <1>6 DEF CreateChar, client
  <2>2. c \in Char
    BY <2>1, Types DEF Char
  <2> HIDE DEF c
  <2> QED
    BY <2>1, <2>2, ChangeStep
<1>7. ASSUME NEW s \in Slot, ChooseUploaded(s) \/ ChooseFile(s) PROVE UNCHANGED Copy!vars
  BY <1>7, <1>s DEF ChooseUploaded, LoadCharacter, ChooseFile, server, client
<1>8. ASSUME NEW s \in Slot, DeleteFile(s) PROVE Copy!Next
  BY <1>8, DeleteCopyStep
<1> QED
  BY <1>1, <1>2, <1>3, <1>4, <1>5, <1>6, <1>7, <1>8 DEF Next

\* Piecewise transfers implement CharCopy: the file of a slot is replaced
\* whole, in one step, by the copy offered first, whatever was interrupted.
THEOREM CopyImplemented == Spec => ImplementsCharCopy
BY InitIInv, NextIInv, InitCopy, CopyStep, PTL DEF Spec, ImplementsCharCopy, Copy!Spec
=============================================================================
