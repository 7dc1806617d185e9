----------------------- MODULE PartiesScripts_proofs -----------------------
(* Theorems about Parties, for any players, addresses, names and numbers of *)
(* parties and maps, and about ScriptEvents, for any events and any depth   *)
(* of calls.  Both erase entries from a list while they walk it (Only): the *)
(* lemmas about that come first.                                            *)
EXTENDS Parties, ScriptEvents, SequenceTheorems, WellFoundedInduction, TLAPS
-----------------------------------------------------------------------------
(* The entries a list keeps.                                                *)

\* A set of numbers has a least one.
LEMMA NatLeast ==
  ASSUME NEW T \in SUBSET Nat, T # {}
  PROVE  \E m \in T : \A k \in T : m <= k
<1>1. IsWellFoundedOn(OpToRel(<, Nat), Nat)
  BY NatLessThanWellFounded
<1>2. PICK m \in T : \A k \in T : ~(<<k, m>> \in OpToRel(<, Nat))
  BY <1>1, WFMin
<1>3. \A k \in T : k \in Nat /\ m \in Nat /\ ~(k < m)
  BY <1>2 DEF OpToRel
<1> QED
  BY <1>3

\* The loop of Only after n entries, and its results so far.
Step(s, S, f, n) == IF n = 0 THEN <<>>
                    ELSE IF s[n] \in S THEN Append(f[n - 1], s[n])
                    ELSE f[n - 1]

Rounds(s, S, f, n) == f = [k \in 0 .. n |-> Step(s, S, f, k)]

\* The loop has a result after any number of entries.
LEMMA RoundsExist ==
  ASSUME NEW s, NEW S, NEW n \in Nat
  PROVE  \E f : Rounds(s, S, f, n)
<1> DEFINE bad == {m \in Nat : ~ \E f : Rounds(s, S, f, m)}
<1>1. SUFFICES ASSUME bad # {} PROVE FALSE
  OBVIOUS
<1>2. PICK m \in bad : \A k \in bad : m <= k
  BY <1>1, NatLeast
<1>3. m \in Nat /\ \A f : ~Rounds(s, S, f, m)
  BY <1>2
<1>4. m # 0
  <2> DEFINE f == [k \in 0 .. 0 |-> <<>>]
  <2>1. Rounds(s, S, f, 0)
    BY DEF Rounds, Step
  <2> QED
    BY <1>3, <2>1
<1>5. m - 1 \in Nat /\ m - 1 \notin bad
  BY <1>2, <1>3, <1>4
<1>6. PICK f : Rounds(s, S, f, m - 1)
  BY <1>5
<1> DEFINE g == [k \in 0 .. m |-> IF k < m THEN f[k] ELSE Step(s, S, f, m)]
<1>7. ASSUME NEW k \in 0 .. m
      PROVE  g[k] = Step(s, S, g, k)
  <2>1. k # 0 => k - 1 \in 0 .. m /\ k - 1 < m /\ g[k - 1] = f[k - 1]
    BY <1>3
  <2>2. Step(s, S, g, k) = Step(s, S, f, k)
    BY <2>1 DEF Step
  <2>3. CASE k < m
    <3>1. f[k] = Step(s, S, f, k)
      BY <1>3, <1>6, <2>3 DEF Rounds
    <3> QED
      BY <2>2, <2>3, <3>1
  <2>4. CASE k = m
    BY <2>2, <2>4
  <2> QED
    BY <1>3, <2>3, <2>4
<1>8. Rounds(s, S, g, m)
  <2>1. g = [k \in 0 .. m |-> g[k]]
    OBVIOUS
  <2> HIDE DEF g
  <2>2. [k \in 0 .. m |-> g[k]] = [k \in 0 .. m |-> Step(s, S, g, k)]
    BY <1>7
  <2> QED
    BY <2>1, <2>2 DEF Rounds
<1> QED
  BY <1>3, <1>8

\* Only is what that loop returns.
LEMMA OnlyRounds ==
  ASSUME NEW q, NEW R, Len(q) \in Nat
  PROVE  \E f : /\ Only(q, R) = f[Len(q)]
                /\ f[0] = <<>>
                /\ \A n \in 0 .. Len(q) - 1 :
                     f[n + 1] = IF q[n + 1] \in R THEN Append(f[n], q[n + 1]) ELSE f[n]
<1> DEFINE kept == CHOOSE f : Rounds(q, R, f, Len(q))
<1>1. Rounds(q, R, kept, Len(q))
  BY RoundsExist
<1>2. Only(q, R) = kept[Len(q)]
  BY DEF Only, Rounds, Step
<1> HIDE DEF kept
<1>3. \A n \in 0 .. Len(q) : kept[n] = Step(q, R, kept, n)
  BY <1>1 DEF Rounds
<1>4. kept[0] = <<>>
  BY <1>3 DEF Step
<1>5. ASSUME NEW n \in 0 .. Len(q) - 1
      PROVE  kept[n + 1] = IF q[n + 1] \in R THEN Append(kept[n], q[n + 1]) ELSE kept[n]
  <2>1. n + 1 \in 0 .. Len(q) /\ n + 1 # 0 /\ (n + 1) - 1 = n
    OBVIOUS
  <2> QED
    BY <1>3, <2>1 DEF Step
<1> QED
  BY <1>2, <1>4, <1>5

\* Counting up to n, without the library's induction.
LEMMA UpTo ==
  ASSUME NEW T, NEW n \in Nat,
         0 \in T, \A k \in 0 .. n - 1 : k \in T => k + 1 \in T
  PROVE  \A k \in 0 .. n : k \in T
<1> DEFINE bad == {k \in 0 .. n : k \notin T}
<1>1. SUFFICES ASSUME bad # {} PROVE FALSE
  OBVIOUS
<1>2. PICK m \in bad : \A k \in bad : m <= k
  <2>1. bad \in SUBSET Nat
    OBVIOUS
  <2> HIDE DEF bad
  <2> QED
    BY <1>1, <2>1, NatLeast
<1>3. m \in 1 .. n /\ m \notin T
  BY <1>2
<1>4. m - 1 \in T
  BY <1>2, <1>3
<1> QED
  BY <1>3, <1>4

\* Only keeps the entries in S, and keeps them apart.
LEMMA OnlySelects ==
  ASSUME NEW T, NEW s \in Seq(T), NEW S
  PROVE  /\ Only(s, S) \in Seq(T)
         /\ \A x : x \in ToSet(Only(s, S)) <=> x \in ToSet(s) /\ x \in S
         /\ IsInjective(s) => IsInjective(Only(s, S))
<1>1. Len(s) \in Nat /\ DOMAIN s = 1 .. Len(s) /\ \A n \in 1 .. Len(s) : s[n] \in T
  OBVIOUS
<1>2. PICK f :
        /\ Only(s, S) = f[Len(s)]
        /\ f[0] = <<>>
        /\ \A n \in 0 .. Len(s) - 1 :
             f[n + 1] = IF s[n + 1] \in S THEN Append(f[n], s[n + 1]) ELSE f[n]
  <2>1. Len(s) \in Nat
    OBVIOUS
  <2> QED
    BY <2>1, OnlyRounds
<1> DEFINE Selected(n) ==
             /\ f[n] \in Seq(T)
             /\ \A j \in 1 .. Len(f[n]) : f[n][j] \in S /\ \E k \in 1 .. n : s[k] = f[n][j]
             /\ \A k \in 1 .. n : s[k] \in S => \E j \in 1 .. Len(f[n]) : f[n][j] = s[k]
             /\ IsInjective(s) =>
                  \A i, j \in 1 .. Len(f[n]) : f[n][i] = f[n][j] => i = j
           Reached == {n \in 0 .. Len(s) : Selected(n)}
<1>3. Selected(0)
  BY <1>2
<1>4. ASSUME NEW n \in 0 .. Len(s) - 1, Selected(n)
      PROVE  Selected(n + 1)
  <2>1. n + 1 \in 1 .. Len(s) /\ s[n + 1] \in T
    BY <1>1
  <2>2. CASE s[n + 1] \notin S
    <3>1. f[n + 1] = f[n]
      BY <1>2, <2>1, <2>2
    <3>2. \A k \in 1 .. n + 1 : k \in 1 .. n \/ k = n + 1
      BY <2>1
    <3>3. \A k \in 1 .. n : k \in 1 .. n + 1
      BY <2>1
    <3> QED
      BY <1>4, <2>2, <3>1, <3>2, <3>3
  <2>3. CASE s[n + 1] \in S
    <3> DEFINE u == f[n]
               w == f[n + 1]
    <3>1. w = Append(u, s[n + 1])
      BY <1>2, <2>1, <2>3
    <3>2. u \in Seq(T)
      BY <1>4
    <3>3. /\ w \in Seq(T) /\ Len(w) = Len(u) + 1 /\ Len(u) \in Nat
          /\ \A j \in 1 .. Len(u) : w[j] = u[j]
          /\ w[Len(u) + 1] = s[n + 1]
      <4> HIDE DEF u, w
      <4> QED
        BY <2>1, <3>1, <3>2
    <3>4. \A j \in 1 .. Len(u) : u[j] \in S /\ \E k \in 1 .. n : s[k] = u[j]
      BY <1>4
    <3>5. \A k \in 1 .. n : s[k] \in S => \E j \in 1 .. Len(u) : u[j] = s[k]
      BY <1>4
    <3>6. IsInjective(s) => \A i, j \in 1 .. Len(u) : u[i] = u[j] => i = j
      BY <1>4
    <3> HIDE DEF u, w
    <3>7. \A j \in 1 .. Len(w) : w[j] \in S /\ \E k \in 1 .. n + 1 : s[k] = w[j]
      <4> TAKE j \in 1 .. Len(w)
      <4>1. CASE j \in 1 .. Len(u)
        BY <2>1, <3>3, <3>4, <4>1
      <4>2. CASE j = Len(u) + 1
        BY <2>1, <2>3, <3>3, <4>2
      <4> QED
        BY <3>3, <4>1, <4>2
    <3>8. \A k \in 1 .. n + 1 : s[k] \in S => \E j \in 1 .. Len(w) : w[j] = s[k]
      <4> SUFFICES ASSUME NEW k \in 1 .. n + 1, s[k] \in S
                   PROVE  \E j \in 1 .. Len(w) : w[j] = s[k]
        OBVIOUS
      <4>1. CASE k \in 1 .. n
        <5>1. PICK j \in 1 .. Len(u) : u[j] = s[k]
          BY <3>5, <4>1
        <5> QED
          BY <3>3, <5>1
      <4>2. CASE k = n + 1
        BY <3>3, <4>2
      <4> QED
        BY <2>1, <4>1, <4>2
    <3>9. ASSUME IsInjective(s), NEW i \in 1 .. Len(w), NEW j \in 1 .. Len(w), w[i] = w[j]
          PROVE  i = j
      <4>1. \A a, b \in 1 .. Len(s) : s[a] = s[b] => a = b
        BY <1>1, <3>9 DEF IsInjective
      <4>2. ASSUME NEW a \in 1 .. Len(u)
            PROVE  u[a] # s[n + 1]
        <5>1. PICK k \in 1 .. n : s[k] = u[a]
          BY <3>4
        <5>2. k \in 1 .. Len(s) /\ k # n + 1
          BY <1>1, <2>1
        <5> QED
          BY <2>1, <4>1, <5>1, <5>2
      <4> QED
        BY <3>3, <3>6, <3>9, <4>2
    <3> QED
      BY <3>3, <3>7, <3>8, <3>9 DEF w
  <2> QED
    BY <2>2, <2>3
<1>5. Selected(Len(s))
  <2>1. 0 \in Reached
    BY <1>1, <1>3
  <2>2. \A k \in 0 .. Len(s) - 1 : k \in Reached => k + 1 \in Reached
    <3> SUFFICES ASSUME NEW k \in 0 .. Len(s) - 1, k \in Reached PROVE k + 1 \in Reached
      OBVIOUS
    <3>1. Selected(k)
      OBVIOUS
    <3>2. Selected(k + 1)
      BY <1>4, <3>1
    <3>3. k + 1 \in 0 .. Len(s)
      BY <1>1
    <3> QED
      BY <3>2, <3>3
  <2>3. Len(s) \in Reached
    <3> HIDE DEF Reached, Selected
    <3>1. \A k \in 0 .. Len(s) : k \in Reached
      BY <1>1, <2>1, <2>2, UpTo
    <3> QED
      BY <1>1, <3>1
  <2> QED
    BY <2>3
<1> DEFINE o == f[Len(s)]
<1>6. /\ o \in Seq(T) /\ DOMAIN o = 1 .. Len(o)
      /\ \A j \in 1 .. Len(o) : o[j] \in S /\ \E k \in 1 .. Len(s) : s[k] = o[j]
      /\ \A k \in 1 .. Len(s) : s[k] \in S => \E j \in 1 .. Len(o) : o[j] = s[k]
      /\ IsInjective(s) => \A i, j \in 1 .. Len(o) : o[i] = o[j] => i = j
  BY <1>5
<1> HIDE DEF Selected, o
<1>7. \A x : x \in ToSet(o) <=> x \in ToSet(s) /\ x \in S
  <2> TAKE x
  <2>1. x \in ToSet(o) <=> \E j \in 1 .. Len(o) : o[j] = x
    BY <1>6 DEF ToSet
  <2>2. x \in ToSet(s) <=> \E k \in 1 .. Len(s) : s[k] = x
    BY <1>1 DEF ToSet
  <2> QED
    BY <1>6, <2>1, <2>2
<1>8. IsInjective(s) => IsInjective(o)
  BY <1>6 DEF IsInjective
<1> QED
  BY <1>2, <1>6, <1>7, <1>8 DEF o

LEMMA Longer ==
  ASSUME NEW U, NEW q \in Seq(U), NEW e \in U
  PROVE  Len(Append(q, e)) = Len(q) + 1
OBVIOUS

\* An entry is kept by A or by B, never by both: nothing is lost or doubled.
LEMMA OnlySplits ==
  ASSUME NEW T, NEW s \in Seq(T), NEW A, NEW B,
         \A n \in 1 .. Len(s) : s[n] \in A <=> s[n] \notin B
  PROVE  Len(Only(s, A)) + Len(Only(s, B)) = Len(s)
<1>1. Len(s) \in Nat /\ \A n \in 1 .. Len(s) : s[n] \in T
  OBVIOUS
<1>2. PICK f :
        /\ Only(s, A) = f[Len(s)]
        /\ f[0] = <<>>
        /\ \A n \in 0 .. Len(s) - 1 :
             f[n + 1] = IF s[n + 1] \in A THEN Append(f[n], s[n + 1]) ELSE f[n]
  BY <1>1, OnlyRounds
<1>3. PICK g :
        /\ Only(s, B) = g[Len(s)]
        /\ g[0] = <<>>
        /\ \A n \in 0 .. Len(s) - 1 :
             g[n + 1] = IF s[n + 1] \in B THEN Append(g[n], s[n + 1]) ELSE g[n]
  BY <1>1, OnlyRounds
<1> DEFINE Split(n) == /\ f[n] \in Seq(T) /\ g[n] \in Seq(T)
                       /\ Len(f[n]) + Len(g[n]) = n
           Reached == {n \in 0 .. Len(s) : Split(n)}
<1>4. Split(0)
  BY <1>2, <1>3
<1>5. ASSUME NEW n \in 0 .. Len(s) - 1, Split(n)
      PROVE  Split(n + 1)
  <2>1. n + 1 \in 1 .. Len(s) /\ s[n + 1] \in T
    BY <1>1
  <2>2. CASE s[n + 1] \in A
    <3>1. f[n + 1] = Append(f[n], s[n + 1]) /\ g[n + 1] = g[n]
      BY <1>2, <1>3, <2>1, <2>2
    <3>2. f[n] \in Seq(T) /\ g[n] \in Seq(T) /\ Len(f[n]) + Len(g[n]) = n
      BY <1>5
    <3>3. f[n + 1] \in Seq(T) /\ g[n + 1] \in Seq(T)
      BY <2>1, <3>1, <3>2
    <3>4. Len(f[n]) \in Nat /\ Len(g[n]) \in Nat
      BY <3>2
    <3>5. Len(f[n + 1]) = Len(f[n]) + 1
      BY <2>1, <3>1, <3>2, Longer
    <3>6. Len(f[n + 1]) + Len(g[n + 1]) = n + 1
      <4>1. Len(g[n + 1]) = Len(g[n])
        BY <3>1
      <4>2. n \in Int
        BY <1>1
      <4>5. Len(f[n]) + Len(g[n]) = n
        BY <3>2
      <4> DEFINE a == Len(f[n])
                 b == Len(g[n])
                 c == Len(f[n + 1])
                 d == Len(g[n + 1])
      <4>3. a \in Nat /\ b \in Nat /\ a + b = n /\ c = a + 1 /\ d = b
        BY <3>4, <3>5, <4>1, <4>5
      <4> HIDE DEF a, b, c, d
      <4>4. c + d = n + 1
        BY <4>2, <4>3
      <4> QED
        BY <4>4 DEF c, d
    <3> QED
      BY <3>3, <3>6
  <2>3. CASE s[n + 1] \notin A
    <3>1. g[n + 1] = Append(g[n], s[n + 1]) /\ f[n + 1] = f[n]
      BY <1>2, <1>3, <2>1, <2>3
    <3>2. f[n] \in Seq(T) /\ g[n] \in Seq(T) /\ Len(f[n]) + Len(g[n]) = n
      BY <1>5
    <3>3. f[n + 1] \in Seq(T) /\ g[n + 1] \in Seq(T)
      BY <2>1, <3>1, <3>2
    <3>4. Len(f[n]) \in Nat /\ Len(g[n]) \in Nat
      BY <3>2
    <3>5. Len(g[n + 1]) = Len(g[n]) + 1
      BY <2>1, <3>1, <3>2, Longer
    <3>6. Len(f[n + 1]) + Len(g[n + 1]) = n + 1
      <4>1. Len(f[n + 1]) = Len(f[n])
        BY <3>1
      <4>2. n \in Int
        BY <1>1
      <4>5. Len(f[n]) + Len(g[n]) = n
        BY <3>2
      <4> DEFINE a == Len(f[n])
                 b == Len(g[n])
                 c == Len(f[n + 1])
                 d == Len(g[n + 1])
      <4>3. a \in Nat /\ b \in Nat /\ a + b = n /\ d = b + 1 /\ c = a
        BY <3>4, <3>5, <4>1, <4>5
      <4> HIDE DEF a, b, c, d
      <4>4. c + d = n + 1
        BY <4>2, <4>3
      <4> QED
        BY <4>4 DEF c, d
    <3> QED
      BY <3>3, <3>6
  <2> QED
    BY <2>2, <2>3
<1>6. Split(Len(s))
  <2>1. 0 \in Reached
    <3> HIDE DEF Split
    <3> QED
      BY <1>1, <1>4
  <2>2. \A k \in 0 .. Len(s) - 1 : k \in Reached => k + 1 \in Reached
    <3> SUFFICES ASSUME NEW k \in 0 .. Len(s) - 1, k \in Reached PROVE k + 1 \in Reached
      OBVIOUS
    <3>1. Split(k)
      OBVIOUS
    <3>2. Split(k + 1)
      BY <1>5, <3>1
    <3>3. k + 1 \in 0 .. Len(s)
      BY <1>1
    <3> QED
      BY <3>2, <3>3
  <2>3. Len(s) \in Reached
    <3> HIDE DEF Reached, Split
    <3>1. \A k \in 0 .. Len(s) : k \in Reached
      BY <1>1, <2>1, <2>2, UpTo
    <3> QED
      BY <1>1, <3>1
  <2> QED
    BY <2>3
<1> QED
  BY <1>2, <1>3, <1>6

LEMMA LowestIndex ==
  ASSUME NEW I \in SUBSET Nat, I # {}
  PROVE  Min(I) \in I
<1>1. \E m \in I : \A k \in I : m <= k
  BY NatLeast
<1> QED
  BY <1>1 DEF Min
-----------------------------------------------------------------------------
(* The parties.                                                             *)

USE PartiesAssumption

\* vector::erase: those behind the element move up.
LEMMA RemoveAtShifts ==
  ASSUME NEW S, NEW v \in Seq(S), NEW i \in 1 .. Len(v)
  PROVE  /\ RemoveAt(v, i) \in Seq(S)
         /\ Len(RemoveAt(v, i)) = Len(v) - 1
         /\ \A j \in 1 .. Len(v) - 1 :
              RemoveAt(v, i)[j] = IF j < i THEN v[j] ELSE v[j + 1]
<1> DEFINE a == SubSeq(v, 1, i - 1)
           b == SubSeq(v, i + 1, Len(v))
<1>1. a \in Seq(S) /\ Len(a) = i - 1 /\ \A j \in 1 .. i - 1 : a[j] = v[j]
  OBVIOUS
<1>2. b \in Seq(S) /\ Len(b) = Len(v) - i /\ \A j \in 1 .. Len(v) - i : b[j] = v[i + j]
  OBVIOUS
<1> HIDE DEF a, b
<1>3. RemoveAt(v, i) = a \o b
  BY DEF RemoveAt, a, b
<1>4. ASSUME NEW j \in 1 .. Len(v) - 1
      PROVE  (a \o b)[j] = IF j < i THEN v[j] ELSE v[j + 1]
  <2>1. CASE j < i
    BY <1>1, <1>2, <2>1
  <2>2. CASE ~(j < i)
    <3>1. (a \o b)[j] = b[j - Len(a)]
      BY <1>1, <1>2, <2>2
    <3> QED
      BY <1>1, <1>2, <2>2, <3>1
  <2> QED
    BY <2>1, <2>2
<1>5. a \o b \in Seq(S)
  BY <1>1, <1>2
<1>6. Len(a \o b) = Len(a) + Len(b)
  <2>1. a \in Seq(S) /\ b \in Seq(S)
    BY <1>1, <1>2
  <2> QED
    BY <2>1
<1>7. Len(a) + Len(b) = Len(v) - 1
  BY <1>1, <1>2
<1> QED
  BY <1>3, <1>4, <1>5, <1>6, <1>7
\* No two entries of v are the same.
Distinct(v) == \A i, j \in 1 .. Len(v) : v[i] = v[j] => i = j

\* x stands somewhere in v.
Holds(v, x) == \E j \in 1 .. Len(v) : v[j] = x

\* vector::erase of one of several different entries takes that one only.
LEMMA RemoveAtRemoves ==
  ASSUME NEW S, NEW v \in Seq(S), Distinct(v), NEW i \in 1 .. Len(v),
         NEW u, u = RemoveAt(v, i)
  PROVE  /\ Distinct(u)
         /\ \A x : Holds(u, x) <=> Holds(v, x) /\ x # v[i]
<1> DEFINE n == Len(v)
<1>1. n \in Nat /\ i \in 1 .. n /\ Len(u) = n - 1
  BY RemoveAtShifts
<1>2. \A j \in 1 .. n - 1 : u[j] = IF j < i THEN v[j] ELSE v[j + 1]
  BY RemoveAtShifts
<1>3. \A a, b \in 1 .. n : v[a] = v[b] => a = b
  BY DEF Distinct
<1> HIDE DEF n
<1>4. ASSUME NEW a \in 1 .. n - 1, NEW b \in 1 .. n - 1, u[a] = u[b]
      PROVE  a = b
  <2> DEFINE c == IF a < i THEN a ELSE a + 1
             d == IF b < i THEN b ELSE b + 1
  <2>1. c \in 1 .. n /\ d \in 1 .. n /\ u[a] = v[c] /\ u[b] = v[d]
    BY <1>1, <1>2
  <2>2. c = d
    <3> HIDE DEF c, d
    <3> QED
      BY <1>3, <1>4, <2>1
  <2> QED
    BY <1>1, <2>2
<1>5. ASSUME NEW x, NEW a \in 1 .. n - 1, u[a] = x
      PROVE  (\E j \in 1 .. n : v[j] = x) /\ x # v[i]
  <2> DEFINE c == IF a < i THEN a ELSE a + 1
  <2>1. c \in 1 .. n /\ u[a] = v[c] /\ c # i
    BY <1>1, <1>2
  <2> HIDE DEF c
  <2> QED
    BY <1>1, <1>3, <1>5, <2>1
<1>6. ASSUME NEW x, NEW a \in 1 .. n, v[a] = x, x # v[i]
      PROVE  \E j \in 1 .. n - 1 : u[j] = x
  <2> DEFINE c == IF a < i THEN a ELSE a - 1
  <2>1. a # i
    BY <1>6
  <2>2. c \in 1 .. n - 1 /\ u[c] = v[a]
    BY <1>1, <1>2, <2>1
  <2> HIDE DEF c
  <2> QED
    BY <1>6, <2>2
<1>7. Distinct(u)
  BY <1>1, <1>4 DEF Distinct
<1>8. \A x : Holds(u, x) <=> Holds(v, x) /\ x # v[i]
  <2> TAKE x
  <2>1. Holds(u, x) <=> \E j \in 1 .. n - 1 : u[j] = x
    BY <1>1 DEF Holds
  <2>2. Holds(v, x) <=> \E j \in 1 .. n : v[j] = x
    BY DEF Holds, n
  <2> QED
    BY <1>5, <1>6, <2>1, <2>2
<1> QED
  BY <1>7, <1>8

\* RemoveFromTeam finds the player and erases him.
LEMMA RemoveFirstRemoves ==
  ASSUME NEW S, NEW v \in Seq(S), Distinct(v), NEW e,
         NEW u, u = RemoveFirst(v, e)
  PROVE  /\ u \in Seq(S)
         /\ Distinct(u)
         /\ \A x : Holds(u, x) <=> Holds(v, x) /\ x # e
<1> DEFINE I == {i \in 1 .. Len(v) : v[i] = e}
<1>1. CASE I = {}
  <2>1. u = v
    BY <1>1 DEF RemoveFirst
  <2> QED
    BY <1>1, <2>1 DEF Holds
<1>2. CASE I # {}
  <2>1. Min(I) \in I
    <3>1. I \in SUBSET Nat
      OBVIOUS
    <3> HIDE DEF I
    <3> QED
      BY <1>2, <3>1, LowestIndex
  <2>2. SelectInSeq(v, LAMBDA w : w = e) = Min(I)
    BY <1>2 DEF SelectInSeq
  <2>3. u = RemoveAt(v, Min(I))
    BY <1>2, <2>2 DEF RemoveFirst
  <2>4. Min(I) \in 1 .. Len(v) /\ v[Min(I)] = e
    BY <2>1
  <2> HIDE DEF I
  <2>5. PICK i \in 1 .. Len(v) : u = RemoveAt(v, i) /\ v[i] = e
    BY <2>3, <2>4
  <2>6. Distinct(u) /\ \A x : Holds(u, x) <=> Holds(v, x) /\ x # e
    BY <2>5, RemoveAtRemoves
  <2>7. u \in Seq(S)
    BY <2>5, RemoveAtShifts
  <2> QED
    BY <2>6, <2>7
<1> QED
  BY <1>1, <1>2

LEMMA HoldsIsToSet ==
  ASSUME NEW S, NEW v \in Seq(S)
  PROVE  /\ \A x : Holds(v, x) <=> x \in ToSet(v)
         /\ Distinct(v) <=> IsInjective(v)
<1>1. DOMAIN v = 1 .. Len(v)
  OBVIOUS
<1> QED
  BY <1>1 DEF Holds, Distinct, ToSet, IsInjective

\* RemoveFromTeam, for the party it is called on.
LEMMA WithoutEffect ==
  ASSUME NEW o \in Party, IsInjective(o.members), NEW p \in Player
  PROVE  /\ Without(o, p) \in Party
         /\ IsInjective(Without(o, p).members)
         /\ ToSet(Without(o, p).members) = ToSet(o.members) \ {p}
<1> DEFINE rest == RemoveFirst(o.members, p)
<1>1. o.members \in Seq(Player)
  BY DEF Party
<1>2. /\ rest \in Seq(Player) /\ IsInjective(rest)
      /\ \A x : x \in ToSet(rest) <=> x \in ToSet(o.members) /\ x # p
  BY <1>1, RemoveFirstRemoves, HoldsIsToSet
<1>3. ToSet(rest) = ToSet(o.members) \ {p}
  BY <1>2
<1>4. rest # <<>> => rest[1] \in Player
  BY <1>2
<1> HIDE DEF rest
<1>5. Without(o, p) = [o EXCEPT !.members = rest, !.first = IF rest = <<>> THEN @ ELSE rest[1]]
  BY DEF Without, rest
<1>6. Without(o, p).members = rest
  BY <1>5 DEF Party
<1>7. Without(o, p) \in Party
  BY <1>2, <1>4, <1>5 DEF Party
<1> QED
  BY <1>2, <1>3, <1>6, <1>7

\* AddToTeam, for the party it is called on.
LEMMA WithEffect ==
  ASSUME NEW o \in Party, IsInjective(o.members), NEW p \in Player
  PROVE  /\ With(o, p) \in Party
         /\ IsInjective(With(o, p).members)
         /\ ToSet(With(o, p).members) = ToSet(o.members) \cup {p}
<1>1. CASE p \in ToSet(o.members)
  BY <1>1 DEF With
<1>2. CASE p \notin ToSet(o.members)
  <2> DEFINE v == o.members
             w == Append(v, p)
  <2>1. v \in Seq(Player)
    BY DEF Party
  <2>2. /\ w \in Seq(Player) /\ Len(w) = Len(v) + 1 /\ Len(v) \in Nat
        /\ \A i \in 1 .. Len(v) : w[i] = v[i]
        /\ w[Len(v) + 1] = p
    <3> HIDE DEF v
    <3> QED
      BY <2>1
  <2>3. With(o, p) = [o EXCEPT !.members = w, !.first = w[1]]
    BY <1>2 DEF With
  <2> HIDE DEF v, w
  <2>4. w[1] \in Player
    BY <2>2
  <2>5. With(o, p) \in Party /\ With(o, p).members = w
    BY <2>2, <2>3, <2>4 DEF Party
  <2>6. Distinct(v) /\ ~Holds(v, p)
    BY <1>2, <2>1, HoldsIsToSet DEF v
  <2>7. Distinct(w)
    BY <2>2, <2>6 DEF Distinct, Holds
  <2>8. \A x : Holds(w, x) <=> Holds(v, x) \/ x = p
    <3> TAKE x
    <3>1. Holds(w, x) => Holds(v, x) \/ x = p
      BY <2>2 DEF Holds
    <3>2. Holds(v, x) => Holds(w, x)
      BY <2>2 DEF Holds
    <3>3. Holds(w, p)
      BY <2>2 DEF Holds
    <3> QED
      BY <3>1, <3>2, <3>3
  <2>9. IsInjective(w) /\ \A x : x \in ToSet(w) <=> x \in ToSet(v) \/ x = p
    BY <2>1, <2>2, <2>7, <2>8, HoldsIsToSet
  <2> QED
    BY <2>5, <2>9 DEF v
<1> QED
  BY <1>1, <1>2

\* SetTeam, for the parties at the addresses A.
LEMMA MovedEffect ==
  ASSUME PartiesTypeOK, NEW A \in SUBSET Addr, NEW p \in here,
         NEW t \in A \cup {Null}, team[p] \in A \cup {Null},
         NEW objs \in [Addr -> Party \cup {Null}],
         \A a \in A : /\ objs[a] \in Party
                      /\ IsInjective(objs[a].members)
                      /\ ToSet(objs[a].members) = {q \in here : team[q] = a}
  PROVE  /\ Moved(objs, p, t) \in [Addr -> Party \cup {Null}]
         /\ \A a \in A :
              /\ Moved(objs, p, t)[a] \in Party
              /\ IsInjective(Moved(objs, p, t)[a].members)
              /\ ToSet(Moved(objs, p, t)[a].members) =
                   {q \in here : [team EXCEPT ![p] = t][q] = a}
<1> DEFINE left == IF team[p] = Null THEN objs
                   ELSE [objs EXCEPT ![team[p]] = Without(@, p)]
           m == IF t = Null THEN left ELSE [left EXCEPT ![t] = With(@, p)]
<1>1. Moved(objs, p, t) = m
  BY DEF Moved
<1>2. p \in Player /\ here \subseteq Player /\ team \in [Player -> Addr \cup {Null}]
  BY DEF PartiesTypeOK
<1>3. /\ left \in [Addr -> Party \cup {Null}]
      /\ \A a \in A : /\ left[a] \in Party
                      /\ IsInjective(left[a].members)
                      /\ ToSet(left[a].members) = {q \in here : team[q] = a} \ {p}
  <2>1. CASE team[p] = Null
    BY <2>1
  <2>2. CASE team[p] # Null
    <3>1. team[p] \in A /\ left = [objs EXCEPT ![team[p]] = Without(objs[team[p]], p)]
      BY <2>2
    <3>2. /\ Without(objs[team[p]], p) \in Party
          /\ IsInjective(Without(objs[team[p]], p).members)
          /\ ToSet(Without(objs[team[p]], p).members) = ToSet(objs[team[p]].members) \ {p}
      BY <1>2, <3>1, WithoutEffect
    <3> HIDE DEF left
    <3>3. left[team[p]] = Without(objs[team[p]], p)
      BY <3>1
    <3>4. \A a \in A \ {team[p]} : left[a] = objs[a]
      BY <3>1
    <3>5. left \in [Addr -> Party \cup {Null}]
      BY <3>1, <3>2
    <3> QED
      BY <3>1, <3>2, <3>3, <3>4, <3>5
  <2> QED
    BY <2>1, <2>2
<1> HIDE DEF left
<1>4. /\ m \in [Addr -> Party \cup {Null}]
      /\ \A a \in A : /\ m[a] \in Party
                      /\ IsInjective(m[a].members)
                      /\ ToSet(m[a].members) =
                           ({q \in here : team[q] = a} \ {p}) \cup IF a = t THEN {p} ELSE {}
  <2>1. CASE t = Null
    BY <1>3, <2>1
  <2>2. CASE t # Null
    <3>1. t \in A /\ m = [left EXCEPT ![t] = With(left[t], p)]
      BY <2>2
    <3>2. /\ With(left[t], p) \in Party
          /\ IsInjective(With(left[t], p).members)
          /\ ToSet(With(left[t], p).members) = ToSet(left[t].members) \cup {p}
      BY <1>2, <1>3, <3>1, WithEffect
    <3> HIDE DEF m
    <3>3. m[t] = With(left[t], p)
      BY <1>3, <3>1
    <3>4. \A a \in A \ {t} : m[a] = left[a]
      BY <1>3, <3>1
    <3>5. m \in [Addr -> Party \cup {Null}]
      BY <1>3, <3>1, <3>2
    <3> QED
      BY <1>3, <3>1, <3>2, <3>3, <3>4, <3>5
  <2> QED
    BY <2>1, <2>2
<1> HIDE DEF m
<1>5. \A a \in A : ({q \in here : team[q] = a} \ {p}) \cup (IF a = t THEN {p} ELSE {})
                     = {q \in here : [team EXCEPT ![p] = t][q] = a}
  BY <1>2
<1> QED
  BY <1>1, <1>4, <1>5

\* MembersAgree, and a player who has left is in no party.
Agreed == PartiesTypeOK /\ MembersAgree /\ \A p \in Player \ here : team[p] = Null

\* The part of Agreed that parties are about.
Teamed ==
  /\ team \in [Player -> Addr \cup {Null}]
  /\ Teams \in Seq(Addr) /\ IsInjective(Teams)
  /\ object \in [Addr -> Party \cup {Null}]
  /\ \A a \in ToSet(Teams) : object[a] \in Party
  /\ MembersAgree
  /\ \A p \in Player \ here : team[p] = Null

LEMMA TeamsAreAddrs ==
  ASSUME Teams \in Seq(Addr)
  PROVE  ToSet(Teams) \in SUBSET Addr /\ Null \notin ToSet(Teams)
BY DEF ToSet, PartiesAssumption

\* SetTeam to no party, or to one that exists, for a player who is here.
LEMMA SetTeamStep ==
  ASSUME Agreed, NEW p \in here, NEW t \in ToSet(Teams) \cup {Null},
         SetTeam(p, t), Teams' = Teams,
         here' = here \/ (here' = here \ {p} /\ t = Null)
  PROVE  Teamed'
<1>1. /\ here \subseteq Player /\ team \in [Player -> Addr \cup {Null}]
      /\ Teams \in Seq(Addr) /\ IsInjective(Teams) /\ PartiesTypeOK
      /\ object \in [Addr -> Party \cup {Null}]
  BY DEF Agreed, PartiesTypeOK
<1> DEFINE A == ToSet(Teams)
<1>2. A \in SUBSET Addr /\ Null \notin A /\ ToSet(Teams') = A
  BY <1>1, TeamsAreAddrs
<1>3. /\ \A q \in Player : team[q] \in A \cup {Null}
      /\ \A a \in A : /\ object[a] \in Party
                      /\ IsInjective(object[a].members)
                      /\ ToSet(object[a].members) = {q \in here : team[q] = a}
  <2>1. \A q \in here : team[q] # Null => team[q] \in A
    BY DEF Agreed, MembersAgree
  <2>2. \A q \in Player : team[q] \in A \cup {Null}
    BY <2>1 DEF Agreed
  <2>3. \A a \in A : object[a] \in Party
    BY DEF Agreed, PartiesTypeOK
  <2> QED
    BY <2>2, <2>3 DEF Agreed, MembersAgree
<1> HIDE DEF A
<1>4. /\ object' \in [Addr -> Party \cup {Null}]
      /\ \A a \in A : /\ object'[a] \in Party
                      /\ IsInjective(object'[a].members)
                      /\ ToSet(object'[a].members) = {q \in here : team'[q] = a}
  <2>1. object' = Moved(object, p, t) /\ team' = [team EXCEPT ![p] = t]
    BY DEF SetTeam
  <2>2. t \in A \cup {Null} /\ team[p] \in A \cup {Null}
    BY <1>1, <1>3 DEF A
  <2> QED
    <3>1. /\ Moved(object, p, t) \in [Addr -> Party \cup {Null}]
          /\ \A a \in A :
               /\ Moved(object, p, t)[a] \in Party
               /\ IsInjective(Moved(object, p, t)[a].members)
               /\ ToSet(Moved(object, p, t)[a].members) =
                    {q \in here : [team EXCEPT ![p] = t][q] = a}
      <4>1. PartiesTypeOK /\ A \in SUBSET Addr
        BY <1>1, <1>2
      <4>2. object \in [Addr -> Party \cup {Null}]
        BY <1>1
      <4>3. \A a \in A : /\ object[a] \in Party
                         /\ IsInjective(object[a].members)
                         /\ ToSet(object[a].members) = {q \in here : team[q] = a}
        BY <1>3
      <4> QED
        BY <4>1, <4>2, <4>3, <2>2, MovedEffect
    <3> QED
      BY <2>1, <3>1
<1>5. team' = [team EXCEPT ![p] = t]
  BY DEF SetTeam
<1>6. team' \in [Player -> Addr \cup {Null}] /\ \A q \in Player : team'[q] \in A \cup {Null}
  BY <1>1, <1>2, <1>3, <1>5 DEF A
<1>7. \A q \in Player \ here' : team'[q] = Null
  BY <1>1, <1>5 DEF Agreed
<1>8. \A a \in A : {q \in here : team'[q] = a} = {q \in here' : team'[q] = a}
  BY <1>1, <1>2, <1>5
<1>9. MembersAgree'
  <2>1. here' \subseteq Player
    BY <1>1
  <2> QED
    BY <1>2, <1>4, <1>6, <1>8, <2>1 DEF MembersAgree
<1> QED
  BY <1>1, <1>2, <1>4, <1>6, <1>7, <1>9 DEF Teamed

\* CreateTeam at an address no party has, and SetTeam to it.
LEMMA FoundStep ==
  ASSUME Agreed, NEW p \in here, NEW name \in PartyName, FoundAndJoin(p, name), here' = here
  PROVE  Teamed' /\ serial' \in Nat
<1>1. /\ here \subseteq Player /\ team \in [Player -> Addr \cup {Null}]
      /\ Teams \in Seq(Addr) /\ IsInjective(Teams) /\ PartiesTypeOK
      /\ object \in [Addr -> Party \cup {Null}] /\ serial \in Nat
  BY DEF Agreed, PartiesTypeOK
<1> DEFINE A == ToSet(Teams)
<1>2. A \in SUBSET Addr /\ Null \notin A
  BY <1>1, TeamsAreAddrs
<1>3. /\ \A q \in Player : team[q] \in A \cup {Null}
      /\ \A a \in A : /\ object[a] \in Party
                      /\ IsInjective(object[a].members)
                      /\ ToSet(object[a].members) = {q \in here : team[q] = a}
  <2>1. \A q \in here : team[q] # Null => team[q] \in A
    BY DEF Agreed, MembersAgree
  <2>2. \A q \in Player : team[q] \in A \cup {Null}
    BY <2>1 DEF Agreed
  <2>3. \A a \in A : object[a] \in Party
    BY DEF Agreed, PartiesTypeOK
  <2> QED
    BY <2>2, <2>3 DEF Agreed, MembersAgree
<1> DEFINE new == [name |-> name, id |-> serial + 1, members |-> <<>>, first |-> Null]
<1>4. PICK b \in Addr \ A :
        /\ Teams' = Append(Teams, b)
        /\ team' = [team EXCEPT ![p] = b]
        /\ object' = Moved([object EXCEPT ![b] = new], p, b)
  BY DEF FoundAndJoin, Free
<1>5. serial' \in Nat
  BY <1>1 DEF FoundAndJoin
<1>6. /\ Teams' \in Seq(Addr) /\ Len(Teams') = Len(Teams) + 1 /\ Len(Teams) \in Nat
      /\ \A i \in 1 .. Len(Teams) : Teams'[i] = Teams[i]
      /\ Teams'[Len(Teams) + 1] = b
  BY <1>1, <1>4
<1>7. IsInjective(Teams') /\ ToSet(Teams') = A \cup {b}
  <2>1. DOMAIN Teams = 1 .. Len(Teams) /\ DOMAIN Teams' = 1 .. Len(Teams) + 1
    BY <1>1, <1>6
  <2>2. \A i \in 1 .. Len(Teams) : Teams[i] # b
    BY <1>4, <2>1 DEF ToSet
  <2>3. IsInjective(Teams')
    BY <1>1, <1>6, <2>1, <2>2 DEF IsInjective
  <2>4. \A x : x \in ToSet(Teams') <=> x \in A \/ x = b
    <3> TAKE x
    <3>1. x \in ToSet(Teams') <=> \E i \in 1 .. Len(Teams) + 1 : Teams'[i] = x
      BY <2>1 DEF ToSet
    <3>2. x \in A <=> \E i \in 1 .. Len(Teams) : Teams[i] = x
      BY <2>1 DEF ToSet
    <3>3. \A i \in 1 .. Len(Teams) + 1 : i \in 1 .. Len(Teams) \/ i = Len(Teams) + 1
      BY <1>6
    <3>4. Len(Teams) + 1 \in 1 .. Len(Teams) + 1 /\ 1 .. Len(Teams) \subseteq 1 .. Len(Teams) + 1
      BY <1>6
    <3> HIDE DEF A
    <3> QED
      BY <1>6, <3>1, <3>2, <3>3, <3>4
  <2> QED
    BY <2>3, <2>4
<1> DEFINE B == A \cup {b}
           founded == [object EXCEPT ![b] = new]
<1>8. B \in SUBSET Addr /\ Null \notin B
  BY <1>2, <1>4, PartiesAssumption DEF PartiesAssumption
<1>9. new \in Party /\ IsInjective(new.members) /\ ToSet(new.members) = {}
  BY <1>1 DEF Party, IsInjective, ToSet
<1> HIDE DEF A
<1>10. {q \in here : team[q] = b} = {}
  BY <1>1, <1>2, <1>3, <1>4, <1>8
<1>11. /\ founded \in [Addr -> Party \cup {Null}]
       /\ \A a \in B : /\ founded[a] \in Party
                       /\ IsInjective(founded[a].members)
                       /\ ToSet(founded[a].members) = {q \in here : team[q] = a}
  <2> HIDE DEF new
  <2>1. founded \in [Addr -> Party \cup {Null}]
    BY <1>1, <1>9
  <2>2. founded[b] = new
    BY <1>1, <1>4
  <2>3. \A a \in A : founded[a] = object[a]
    BY <1>1, <1>2, <1>4
  <2> HIDE DEF founded
  <2> QED
    BY <1>3, <1>9, <1>10, <2>1, <2>2, <2>3
<1> HIDE DEF B, founded
<1>12. /\ object' \in [Addr -> Party \cup {Null}]
       /\ \A a \in B : /\ object'[a] \in Party
                       /\ IsInjective(object'[a].members)
                       /\ ToSet(object'[a].members) = {q \in here : team'[q] = a}
  <2>1. object' = Moved(founded, p, b) /\ team' = [team EXCEPT ![p] = b]
    BY <1>4 DEF founded
  <2>2. b \in B \cup {Null} /\ team[p] \in B \cup {Null}
    BY <1>1, <1>3 DEF B
  <2> QED
    <3>1. /\ Moved(founded, p, b) \in [Addr -> Party \cup {Null}]
          /\ \A a \in B :
               /\ Moved(founded, p, b)[a] \in Party
               /\ IsInjective(Moved(founded, p, b)[a].members)
               /\ ToSet(Moved(founded, p, b)[a].members) =
                    {q \in here : [team EXCEPT ![p] = b][q] = a}
      <4>1. PartiesTypeOK /\ B \in SUBSET Addr
        BY <1>1, <1>8
      <4>2. founded \in [Addr -> Party \cup {Null}]
        BY <1>11
      <4>3. \A a \in B : /\ founded[a] \in Party
                         /\ IsInjective(founded[a].members)
                         /\ ToSet(founded[a].members) = {q \in here : team[q] = a}
        BY <1>11
      <4> QED
        BY <4>1, <4>2, <4>3, <2>2, MovedEffect
    <3> QED
      BY <2>1, <3>1
<1>13. team' \in [Player -> Addr \cup {Null}] /\ \A q \in Player : team'[q] \in B \cup {Null}
  BY <1>1, <1>3, <1>4 DEF B
<1>14. \A q \in Player \ here' : team'[q] = Null
  BY <1>1, <1>4 DEF Agreed
<1>15. MembersAgree'
  <2>1. ToSet(Teams') = B
    BY <1>7 DEF B
  <2> QED
    BY <1>1, <1>12, <1>13, <2>1 DEF MembersAgree
<1>16. ToSet(Teams') = B
  BY <1>7 DEF B
<1> QED
  BY <1>5, <1>6, <1>7, <1>12, <1>13, <1>14, <1>15, <1>16 DEF Teamed

\* A party that GetTeam finds exists.
LEMMA FirstOfGetTeam ==
  ASSUME Teams \in Seq(Addr), NEW field, NEW value, GetTeam(field, value) # <<>>
  PROVE  GetTeam(field, value)[1] \in ToSet(Teams)
<1> DEFINE same == GetTeam(field, value)
           S == {a \in ToSet(Teams) : object[a][field] = value}
<1>1. /\ same \in Seq(Addr)
      /\ \A x : x \in ToSet(same) <=> x \in ToSet(Teams) /\ x \in S
  <2> HIDE DEF S
  <2>1. same = Only(Teams, S)
    BY DEF GetTeam, S
  <2> HIDE DEF same
  <2> QED
    BY <2>1, OnlySelects
<1> HIDE DEF same
<1>2. 1 \in DOMAIN same
  BY <1>1 DEF same
<1>3. same[1] \in ToSet(same)
  BY <1>2 DEF ToSet
<1> QED
  BY <1>1, <1>3 DEF same

\* Deleting the empty parties leaves no pointer behind.
LEMMA DeleteStep == Agreed /\ DeleteEmptyTeams => Teamed'
<1> SUFFICES ASSUME Agreed, DeleteEmptyTeams
             PROVE  Teamed'
  OBVIOUS
<1> DEFINE kept == {a \in ToSet(Teams) : ~Empty(a)}
<1>1. /\ here \subseteq Player /\ team \in [Player -> Addr \cup {Null}]
      /\ Teams \in Seq(Addr) /\ IsInjective(Teams)
      /\ object \in [Addr -> Party \cup {Null}]
      /\ \A a \in ToSet(Teams) : object[a] \in Party
  BY DEF Agreed, PartiesTypeOK
<1>2. /\ Teams' = Only(Teams, kept)
      /\ here' = here /\ team' = team /\ object' = object
  BY DEF DeleteEmptyTeams
<1>3. /\ Teams' \in Seq(Addr) /\ IsInjective(Teams')
      /\ \A x : x \in ToSet(Teams') <=> x \in ToSet(Teams) /\ x \in kept
  <2> HIDE DEF kept
  <2> QED
    BY <1>1, <1>2, OnlySelects
<1>4. ASSUME NEW p \in here, team[p] # Null
      PROVE  team[p] \in ToSet(Teams')
  <2>1. /\ team[p] \in ToSet(Teams)
        /\ p \in ToSet(object[team[p]].members)
    BY <1>4 DEF Agreed, MembersAgree
  <2>2. ~Empty(team[p])
    BY <2>1 DEF Empty, ToSet
  <2> QED
    BY <1>3, <2>1, <2>2
<1>5. MembersAgree'
  <2>1. \A a \in ToSet(Teams) :
          /\ ToSet(object[a].members) = {p \in here : team[p] = a}
          /\ IsInjective(object[a].members)
    BY DEF Agreed, MembersAgree
  <2>2. \A a \in ToSet(Teams') : a \in ToSet(Teams)
    BY <1>3
  <2> HIDE DEF kept
  <2> QED
    BY <1>2, <1>4, <2>1, <2>2 DEF MembersAgree
<1>6. \A a \in ToSet(Teams') : object'[a] \in Party
  BY <1>1, <1>2, <1>3
<1> QED
  BY <1>1, <1>2, <1>3, <1>5, <1>6 DEF Teamed, Agreed

LEMMA MapChangeStep == Agreed /\ MapChange => Teamed'
<1> SUFFICES ASSUME Agreed, MapChange
             PROVE  Teamed'
  OBVIOUS
<1>1. /\ here' = {} /\ Teams' = <<>> /\ team' = [p \in Player |-> Null]
      /\ object' = [a \in Addr |-> IF a \in ToSet(Teams)
                                    THEN [object[a] EXCEPT !.members = <<>>] ELSE object[a]]
  BY DEF MapChange
<1>2. ToSet(Teams') = {} /\ Teams' \in Seq(Addr) /\ IsInjective(Teams')
  BY <1>1 DEF ToSet, IsInjective
<1>3. object' \in [Addr -> Party \cup {Null}]
  <2>1. \A a \in ToSet(Teams) : object[a] \in Party
    BY DEF Agreed, PartiesTypeOK
  <2>2. ASSUME NEW o \in Party
        PROVE  [o EXCEPT !.members = <<>>] \in Party
    <3>1. <<>> \in Seq(Player)
      OBVIOUS
    <3> QED
      BY <3>1 DEF Party
  <2>3. \A a \in Addr : object[a] \in Party \cup {Null}
    BY DEF Agreed, PartiesTypeOK
  <2> QED
    BY <1>1, <2>1, <2>2, <2>3
<1> QED
  BY <1>1, <1>2, <1>3 DEF Teamed, MembersAgree

\* What is left of TypeOK.
Others == /\ loaded \subseteq here /\ here \subseteq Player
          /\ join \in [Player -> Addr \cup {Null}]
          /\ serial \in Nat /\ maps \in Nat
          /\ saved \in [Player -> [name : PartyName \cup {Null}, id : Nat]]

LEMMA AgreedParts == Teamed' /\ Others' => Agreed'
BY DEF Agreed, Teamed, Others, PartiesTypeOK

LEMMA PartyOfType ==
  ASSUME Agreed, NEW p \in here
  PROVE  PartyOf(p) \in [name : PartyName \cup {Null}, id : Nat]
<1>1. CASE team[p] = Null
  BY <1>1 DEF PartyOf, NoParty
<1>2. CASE team[p] # Null
  <2>1. object[team[p]] \in Party
    BY <1>2 DEF Agreed, MembersAgree, PartiesTypeOK
  <2> QED
    BY <1>2, <2>1 DEF PartyOf, Party
<1> QED
  BY <1>1, <1>2

\* Every step keeps pointers and lists together.
LEMMA AgreedStep == Agreed /\ [PartiesNext]_partyVars => Agreed'
<1> SUFFICES ASSUME Agreed, [PartiesNext]_partyVars
             PROVE  Agreed'
  OBVIOUS
<1>t. /\ here \subseteq Player /\ loaded \subseteq here
      /\ team \in [Player -> Addr \cup {Null}] /\ join \in [Player -> Addr \cup {Null}]
      /\ Teams \in Seq(Addr)
      /\ saved \in [Player -> [name : PartyName \cup {Null}, id : Nat]]
      /\ serial \in Nat /\ maps \in Nat
      /\ \A p \in here : team[p] = Null \/ team[p] \in ToSet(Teams)
  BY DEF Agreed, PartiesTypeOK, MembersAgree
<1>u. ToSet(Teams) \in SUBSET Addr
  BY <1>t, TeamsAreAddrs
<1>1. CASE DeleteEmptyTeams
  <2>1. Others'
    BY <1>1, <1>t DEF DeleteEmptyTeams, Others
  <2> QED
    BY <1>1, <2>1, DeleteStep, AgreedParts
<1>2. CASE MapChange
  <2>1. \A p \in loaded : PartyOf(p) \in [name : PartyName \cup {Null}, id : Nat]
    BY <1>t, PartyOfType
  <2>2. Others'
    BY <1>2, <1>t, <2>1 DEF MapChange, Others
  <2> QED
    BY <1>2, <2>2, MapChangeStep, AgreedParts
<1>3. ASSUME NEW p \in Player, PutInServer(p)
      PROVE  Agreed'
  <2>1. /\ p \notin here /\ here' = here \cup {p}
        /\ team' = team /\ Teams' = Teams /\ object' = object
    BY <1>3 DEF PutInServer
  <2>2. team[p] = Null
    BY <2>1 DEF Agreed
  <2>3. Null \notin ToSet(Teams)
    BY <1>t, TeamsAreAddrs
  <2>4. \A a \in ToSet(Teams) : {q \in here' : team[q] = a} = {q \in here : team[q] = a}
    BY <2>1, <2>2, <2>3
  <2>5. MembersAgree'
    BY <2>1, <2>2, <2>4 DEF Agreed, MembersAgree
  <2>6. Teamed'
    BY <2>1, <2>5 DEF Agreed, PartiesTypeOK, Teamed
  <2>7. Others'
    BY <1>3, <1>t DEF PutInServer, Others
  <2> QED
    BY <2>6, <2>7, AgreedParts
<1>4. ASSUME NEW p \in Player, RestoreAllServer(p)
      PROVE  Agreed'
  <2> DEFINE same == GetTeam("id", saved[p].id)
  <2>1. p \in here \ loaded /\ loaded' = loaded \cup {p} /\ UNCHANGED <<here, join, saved, maps>>
    BY <1>4 DEF RestoreAllServer
  <2>2. Teamed' /\ serial' \in Nat
    <3>1. CASE saved[p].name = Null /\ SetTeam(p, Null) /\ UNCHANGED <<Teams, serial>>
      BY <1>t, <2>1, <3>1, SetTeamStep
    <3>2. CASE saved[p].name # Null /\ same # <<>> /\ SetTeam(p, same[1]) /\ UNCHANGED <<Teams, serial>>
      <4>1. same[1] \in ToSet(Teams)
        BY <1>t, <3>2, FirstOfGetTeam
      <4> HIDE DEF same
      <4> QED
        <5>1. SetTeam(p, same[1]) /\ Teams' = Teams /\ serial' = serial
          BY <3>2
        <5>2. p \in here /\ here' = here
          BY <2>1
        <5>3. Teamed'
          BY <4>1, <5>1, <5>2, SetTeamStep
        <5> QED
          BY <1>t, <5>1, <5>3
    <3>3. CASE saved[p].name # Null /\ same = <<>> /\ FoundAndJoin(p, saved[p].name)
      <4>1. saved[p].name \in PartyName
        BY <1>t, <3>3
      <4> QED
        BY <2>1, <3>3, <4>1, FoundStep
    <3> QED
      BY <1>4, <3>1, <3>2, <3>3 DEF RestoreAllServer
  <2>3. Others'
    BY <1>t, <2>1, <2>2 DEF Others
  <2> QED
    BY <2>2, <2>3, AgreedParts
<1>5. ASSUME NEW p \in Player, NEW n \in PartyName, JoinParty(p, n)
      PROVE  Agreed'
  <2> DEFINE same == GetTeam("name", n)
  <2>1. p \in here /\ UNCHANGED <<here, loaded, saved, maps>>
    BY <1>5, <1>t DEF JoinParty
  <2>2. CASE same = <<>>
    <3>1. FoundAndJoin(p, n) /\ UNCHANGED join
      BY <1>5, <2>2 DEF JoinParty
    <3>2. Teamed' /\ serial' \in Nat
      BY <2>1, <3>1, FoundStep
    <3>3. Others'
      BY <1>t, <2>1, <3>1, <3>2 DEF Others
    <3> QED
      BY <3>2, <3>3, AgreedParts
  <2>3. CASE same # <<>>
    <3>1. /\ join' = [join EXCEPT ![p] = same[1]]
          /\ UNCHANGED <<Teams, team, object, serial>>
      BY <1>5, <2>3 DEF JoinParty
    <3>2. same[1] \in Addr
      BY <1>t, <1>u, <2>3, FirstOfGetTeam
    <3> HIDE DEF same
    <3>3. Others'
      BY <1>t, <2>1, <3>1, <3>2 DEF Others
    <3>4. Teamed'
      BY <2>1, <3>1 DEF Agreed, PartiesTypeOK, MembersAgree, Teamed
    <3> QED
      BY <3>3, <3>4, AgreedParts
  <2> QED
    BY <2>2, <2>3
<1>6. ASSUME NEW p \in Player, LeaveParty(p)
      PROVE  Agreed'
  <2>1. Teamed'
    BY <1>6, SetTeamStep DEF LeaveParty
  <2>2. Others'
    BY <1>6, <1>t DEF LeaveParty, Others
  <2> QED
    BY <2>1, <2>2, AgreedParts
<1>7. ASSUME NEW p \in Player, Disconnect(p)
      PROVE  Agreed'
  <2>1. Teamed'
    BY <1>7, SetTeamStep DEF Disconnect
  <2>2. PartyOf(p) \in [name : PartyName \cup {Null}, id : Nat]
    BY <1>7, PartyOfType DEF Disconnect
  <2>3. Others'
    BY <1>7, <1>t, <2>2 DEF Disconnect, Others
  <2> QED
    BY <2>1, <2>3, AgreedParts
<1>8. ASSUME NEW p \in Player, NEW q \in Player, Accept(p, q)
      PROVE  Agreed'
  <2>1. p \in here /\ q \in here /\ team[p] \in ToSet(Teams)
    BY <1>8, <1>t DEF Accept
  <2>2. Teamed'
    <3>1. SetTeam(q, team[p]) /\ Teams' = Teams /\ here' = here
      BY <1>8 DEF Accept
    <3> QED
      BY <2>1, <3>1, SetTeamStep
  <2>3. Others'
    BY <1>8, <1>t DEF Accept, Others
  <2> QED
    BY <2>2, <2>3, AgreedParts
<1>9. CASE UNCHANGED partyVars
  BY <1>9 DEF partyVars, Agreed, PartiesTypeOK, MembersAgree
<1> QED
  BY <1>1, <1>2, <1>3, <1>4, <1>5, <1>6, <1>7, <1>8, <1>9 DEF PartiesNext

LEMMA AgreedInit == PartiesInit => Agreed
<1> SUFFICES ASSUME PartiesInit
             PROVE  Agreed
  OBVIOUS
<1>1. ToSet(Teams) = {} /\ IsInjective(Teams) /\ Teams \in Seq(Addr)
  BY DEF PartiesInit, ToSet, IsInjective
<1>2. saved \in [Player -> [name : PartyName \cup {Null}, id : Nat]]
  BY DEF PartiesInit, NoParty
<1> QED
  BY <1>1, <1>2 DEF PartiesInit, Agreed, PartiesTypeOK, MembersAgree

LEMMA AgreedHolds == PartiesSpec => []Agreed
BY AgreedInit, AgreedStep, PTL DEF PartiesSpec

\* Every reachable state is well typed; above all, no address is used for two
\* parties at once.
THEOREM PartiesTypeCorrect == PartiesSpec => []PartiesTypeOK
<1>1. Agreed => PartiesTypeOK
  BY DEF Agreed
<1> QED
  BY <1>1, AgreedHolds, PTL

\* SetTeam, however it is reached, keeps m_pTeam and MemberList together.
THEOREM PartiesAgree == PartiesSpec => []MembersAgree
<1>1. Agreed => MembersAgree
  BY DEF Agreed
<1> QED
  BY <1>1, AgreedHolds, PTL
-----------------------------------------------------------------------------
(* The events of a script.                                                  *)

USE ConstantsAssumption

\* What the assumption says of events and bounds.
LEMMA EventsAreNumbers ==
  /\ Len(Names) \in Nat
  /\ Event \subseteq Nat \ {0}
  /\ \A e : e \in Event <=> e \in Nat /\ 1 <= e /\ e <= Len(Names)
  /\ EffectDie \in Name
  /\ MaxTime \in Nat /\ MaxDelay \in Nat
<1>1. Len(Names) \in Nat
  BY DEF ConstantsAssumption
<1> QED
  BY <1>1 DEF ConstantsAssumption, Event

\* The fields of a frame, by its function.
LEMMA FrameFields ==
  ASSUME NEW f \in Frame
  PROVE  /\ f.proc \in {"RunScriptEvents", "RunScriptEventByName", "Script_ExecuteEvent", "CallEvent"}
         /\ f.proc = "RunScriptEvents" =>
              f.named \in BOOLEAN /\ f.i \in 0 .. Len(Names) /\ f.left \in Nat
         /\ f.proc = "RunScriptEventByName" =>
              f.name \in Name /\ f.i \in 0 .. Len(Names) /\ f.saved \in Event \cup {0}
         /\ f.proc = "Script_ExecuteEvent" => f.event \in Event
         /\ f.proc = "CallEvent" =>
              f.name \in Name /\ f.i \in Nat /\ f.loops \in Nat /\ f.saved \in Nat
BY DEF Frame

\* The functions that are called have frames of those types.
LEMMA FrameTypes ==
  /\ \A named \in BOOLEAN, i \in 0 .. Len(Names), left \in Nat : Running(named, i, left) \in Frame
  /\ \A name \in Name, i \in 0 .. Len(Names), old \in Event \cup {0} : ByName(name, i, old) \in Frame
  /\ \A e \in Event : Executing(e) \in Frame
  /\ \A name \in Name, i \in Nat, loops \in Nat, old \in Nat : Looping(name, i, loops, old) \in Frame
BY DEF Frame, Running, ByName, Executing, Looping
-----------------------------------------------------------------------------
(* The stack.                                                               *)

\* A call.
LEMMA PushedStack ==
  ASSUME NEW s \in Seq(Frame), NEW f \in Frame, NEW t, t = Append(s, f)
  PROVE  /\ t \in Seq(Frame) /\ t # <<>> /\ Len(s) \in Nat /\ Len(t) = Len(s) + 1
         /\ t[Len(s) + 1] = f /\ Last(t) = f
         /\ \A j \in 1 .. Len(s) : t[j] = s[j]
BY DEF Last

\* A return.
LEMMA PoppedStack ==
  ASSUME NEW s \in Seq(Frame), s # <<>>, NEW t, t = Front(s)
  PROVE  /\ t \in Seq(Frame) /\ Len(s) \in Nat \ {0} /\ Len(t) = Len(s) - 1
         /\ \A j \in 1 .. Len(s) - 1 : t[j] = s[j]
         /\ Last(s) = s[Len(s)] /\ Last(s) \in Frame
<1>1. Len(s) \in Nat \ {0}
  OBVIOUS
<1>2. Last(s) = s[Len(s)] /\ Last(s) \in Frame
  BY <1>1 DEF Last
<1> DEFINE u == SubSeq(s, 1, Len(s) - 1)
<1>3. u \in Seq(Frame) /\ Len(u) = Len(s) - 1 /\ \A i \in 1 .. Len(s) - 1 : u[i] = s[i]
  <2> DEFINE n == Len(s) - 1
  <2>1. n \in Nat /\ \A i \in 1 .. n : s[i] \in Frame
    BY <1>1
  <2> HIDE DEF n
  <2> DEFINE w == SubSeq(s, 1, n)
  <2>2. w \in Seq(Frame)
    BY <2>1
  <2>3. Len(w) = n
    BY <2>1
  <2>4. \A i \in 1 .. n : w[i] = s[i]
    BY <2>1
  <2> QED
    BY <2>2, <2>3, <2>4 DEF n
<1>4. t = u
  BY DEF Front
<1> HIDE DEF u
<1> QED
  BY <1>1, <1>2, <1>3, <1>4

LEMMA TwoPushed ==
  ASSUME NEW s \in Seq(Frame), NEW f \in Frame, NEW g \in Frame
  PROVE  s \o <<f, g>> = Append(Append(s, f), g)
<1> DEFINE u == s \o <<f, g>>
           w == Append(Append(s, f), g)
<1>1. u \in Seq(Frame) /\ Len(u) = Len(s) + 2 /\ Len(s) \in Nat
  OBVIOUS
<1>2. w \in Seq(Frame) /\ Len(w) = Len(s) + 2
  OBVIOUS
<1>3. \A j \in 1 .. Len(s) + 2 : u[j] = w[j]
  OBVIOUS
<1> HIDE DEF u, w
<1>4. u = w
  BY <1>1, <1>2, <1>3, SeqEqual
<1> QED
  BY <1>4 DEF u, w
-----------------------------------------------------------------------------
\* v is the count of the innermost loop among the n outermost functions of s, or
\* 0 outside of all loops.
Innermost(s, n, v) ==
  \/ v = 0 /\ \A j \in 1 .. n : s[j].proc # "CallEvent"
  \/ \E j \in 1 .. n : /\ s[j].proc = "CallEvent" /\ v = s[j].i
                       /\ \A l \in j + 1 .. n : s[l].proc # "CallEvent"

LEMMA InnermostSame ==
  ASSUME NEW s, NEW t, NEW n \in Nat, NEW v, \A j \in 1 .. n : t[j] = s[j], Innermost(s, n, v)
  PROVE  Innermost(t, n, v)
<1>1. CASE v = 0 /\ \A j \in 1 .. n : s[j].proc # "CallEvent"
  BY <1>1 DEF Innermost
<1>2. CASE \E j \in 1 .. n : /\ s[j].proc = "CallEvent" /\ v = s[j].i
                             /\ \A l \in j + 1 .. n : s[l].proc # "CallEvent"
  <2>1. PICK j \in 1 .. n : /\ s[j].proc = "CallEvent" /\ v = s[j].i
                            /\ \A l \in j + 1 .. n : s[l].proc # "CallEvent"
    BY <1>2
  <2>2. \A l \in j + 1 .. n : l \in 1 .. n
    OBVIOUS
  <2> QED
    BY <2>1, <2>2 DEF Innermost
<1> QED
  BY <1>1, <1>2 DEF Innermost

LEMMA InnermostLoop ==
  ASSUME NEW s, NEW n \in Nat, s[n + 1].proc = "CallEvent"
  PROVE  Innermost(s, n + 1, s[n + 1].i)
<1>1. n + 1 \in 1 .. n + 1 /\ \A l \in (n + 1) + 1 .. n + 1 : FALSE
  OBVIOUS
<1> QED
  BY <1>1 DEF Innermost

LEMMA InnermostOther ==
  ASSUME NEW s, NEW n \in Nat, NEW v, s[n + 1].proc # "CallEvent"
  PROVE  Innermost(s, n + 1, v) <=> Innermost(s, n, v)
<1>1. \A j : j \in 1 .. n + 1 <=> j \in 1 .. n \/ j = n + 1
  OBVIOUS
<1>2. \A j \in 1 .. n : \A l : l \in j + 1 .. n + 1 <=> l \in j + 1 .. n \/ l = n + 1
  OBVIOUS
<1>3. ASSUME Innermost(s, n, v)
      PROVE  Innermost(s, n + 1, v)
  BY <1>1, <1>2, <1>3 DEF Innermost
<1>4. ASSUME Innermost(s, n + 1, v)
      PROVE  Innermost(s, n, v)
  BY <1>1, <1>2, <1>4 DEF Innermost
<1> QED
  BY <1>3, <1>4

\* What may call what, and what each function has saved of its caller: the event
\* that called it, or the loop around that event.
Placed(s, k) ==
  LET f == s[k]
  IN /\ f.proc = "RunScriptEvents" => k = 1 /\ (f.i = 0 => f.left = 0)
     /\ f.proc = "Script_ExecuteEvent" =>
          k > 1 /\ s[k - 1].proc \in {"RunScriptEvents", "RunScriptEventByName"}
     /\ f.proc = "CallEvent" =>
          /\ k > 1 /\ s[k - 1].proc = "Script_ExecuteEvent"
          /\ Innermost(s, k - 1, f.saved)
     /\ f.proc = "RunScriptEventByName" =>
          \/ k = 1 /\ f.saved = 0
          \/ k > 1 /\ s[k - 1].proc = "Script_ExecuteEvent" /\ f.saved = s[k - 1].event
          \/ k > 2 /\ s[k - 1].proc = "CallEvent" /\ f.saved = s[k - 2].event

\* So stands the whole stack.
Standing(s) == \A k \in 1 .. Len(s) : Placed(s, k)

LEMMA PlacedSame ==
  ASSUME NEW s, NEW t, NEW k \in Nat \ {0}, \A j \in 1 .. k : t[j] = s[j], Placed(s, k)
  PROVE  Placed(t, k)
<1>1. t[k] = s[k] /\ (k > 1 => t[k - 1] = s[k - 1]) /\ (k > 2 => t[k - 2] = s[k - 2])
  OBVIOUS
<1>2. Innermost(s, k - 1, s[k].saved) => Innermost(t, k - 1, t[k].saved)
  <2>1. k - 1 \in Nat /\ \A j \in 1 .. k - 1 : t[j] = s[j]
    OBVIOUS
  <2> QED
    BY <1>1, <2>1, InnermostSame
<1> QED
  BY <1>1, <1>2 DEF Placed

\* A return leaves the rest of the stack as it stood.
LEMMA PopStands ==
  ASSUME NEW s \in Seq(Frame), s # <<>>, Standing(s), NEW t, t = Front(s)
  PROVE  Standing(t)
<1>1. /\ Len(s) \in Nat \ {0} /\ Len(t) = Len(s) - 1
      /\ \A j \in 1 .. Len(s) - 1 : t[j] = s[j]
  BY PoppedStack
<1>2. ASSUME NEW k \in 1 .. Len(t)
      PROVE  Placed(t, k)
  <2>1. k \in 1 .. Len(s) /\ k \in Nat \ {0} /\ \A j \in 1 .. k : t[j] = s[j]
    BY <1>1
  <2> QED
    BY <2>1, PlacedSame DEF Standing
<1> QED
  BY <1>2 DEF Standing

\* A call needs only the new function in its place.
LEMMA PushStands ==
  ASSUME NEW s \in Seq(Frame), Standing(s), NEW f \in Frame, NEW t, t = Append(s, f),
         Placed(t, Len(s) + 1)
  PROVE  Standing(t)
<1>1. /\ Len(s) \in Nat /\ Len(t) = Len(s) + 1
      /\ \A j \in 1 .. Len(s) : t[j] = s[j]
  BY PushedStack
<1>2. ASSUME NEW k \in 1 .. Len(t)
      PROVE  Placed(t, k)
  <2>1. CASE k = Len(s) + 1
    BY <2>1
  <2>2. CASE k # Len(s) + 1
    <3>1. k \in 1 .. Len(s) /\ k \in Nat \ {0} /\ \A j \in 1 .. k : t[j] = s[j]
      BY <1>1, <2>2
    <3> QED
      BY <3>1, PlacedSame DEF Standing
  <2> QED
    BY <2>1, <2>2
<1> QED
  BY <1>2 DEF Standing
-----------------------------------------------------------------------------
(* The registers.                                                           *)

\* c is the event m.CurrentEvent should be when the outer functions are as in s;
\* RunScriptEventByName sets it before each event, whatever it was.
Current(s, c) ==
  /\ s = <<>> => c = 0
  /\ s # <<>> =>
       /\ Last(s).proc = "RunScriptEvents" => c = 0
       /\ Last(s).proc = "Script_ExecuteEvent" => c = Last(s).event
       /\ Last(s).proc = "CallEvent" => c = s[Len(s) - 1].event

\* m.CurrentEvent and m_Iteration are c and v where the stack is s.
Registered(s, c, v) == Standing(s) /\ Current(s, c) /\ Innermost(s, Len(s), v)

\* A command may call an event, and so may the entity.
Callable(s) == s = <<>> \/ Last(s).proc \in {"Script_ExecuteEvent", "CallEvent"}

LEMMA StandingTop ==
  ASSUME NEW s \in Seq(Frame), s # <<>>, Standing(s)
  PROVE  Placed(s, Len(s)) /\ Last(s) = s[Len(s)] /\ Len(s) \in Nat \ {0}
<1>1. Len(s) \in Nat \ {0} /\ Last(s) = s[Len(s)]
  BY PoppedStack
<1> QED
  BY <1>1 DEF Standing

LEMMA PushInnermost ==
  ASSUME NEW s \in Seq(Frame), NEW f \in Frame, NEW v, Innermost(s, Len(s), v),
         NEW t, t = Append(s, f)
  PROVE  /\ Innermost(t, Len(s), v)
         /\ f.proc # "CallEvent" => Innermost(t, Len(t), v)
         /\ f.proc = "CallEvent" => Innermost(t, Len(t), f.i)
<1>1. /\ Len(s) \in Nat /\ Len(t) = Len(s) + 1 /\ t[Len(s) + 1] = f
      /\ \A j \in 1 .. Len(s) : t[j] = s[j]
  BY PushedStack
<1>2. Innermost(t, Len(s), v)
  BY <1>1, InnermostSame
<1>3. f.proc # "CallEvent" => Innermost(t, Len(s) + 1, v)
  BY <1>1, <1>2, InnermostOther
<1>4. f.proc = "CallEvent" => Innermost(t, Len(s) + 1, f.i)
  BY <1>1, InnermostLoop
<1> QED
  BY <1>1, <1>2, <1>3, <1>4

\* RunScriptEventByName is called: it saves the event of its caller.
LEMMA PushByName ==
  ASSUME NEW s \in Seq(Frame), NEW c \in Event \cup {0}, NEW v, Registered(s, c, v), Callable(s),
         NEW name \in Name, NEW i \in 0 .. Len(Names),
         NEW t, t = Append(s, ByName(name, i, c))
  PROVE  t \in Seq(Frame) /\ Registered(t, c, v)
<1> DEFINE new == ByName(name, i, c)
<1>1. new \in Frame /\ new.proc = "RunScriptEventByName" /\ new.saved = c
  BY FrameTypes DEF ByName
<1> HIDE DEF new
<1>2. t = Append(s, new)
  BY DEF new
<1>3. /\ t \in Seq(Frame) /\ t # <<>> /\ Len(s) \in Nat /\ Len(t) = Len(s) + 1
      /\ t[Len(s) + 1] = new /\ Last(t) = new
      /\ \A j \in 1 .. Len(s) : t[j] = s[j]
  <2>1. /\ t \in Seq(Frame) /\ t # <<>> /\ Len(s) \in Nat /\ Len(t) = Len(s) + 1
        /\ t[Len(s) + 1] = new
    BY <1>1, <1>2, PushedStack
  <2>2. \A j \in 1 .. Len(s) : t[j] = s[j]
    BY <1>1, <1>2, PushedStack
  <2>3. Last(t) = new
    BY <2>1 DEF Last
  <2> QED
    BY <2>1, <2>2, <2>3
<1>4. Placed(t, Len(s) + 1)
  <2>1. CASE s = <<>>
    <3>1. Len(s) = 0 /\ c = 0
      BY <2>1 DEF Registered, Current
    <3> QED
      BY <1>1, <1>3, <3>1 DEF Placed
  <2>2. CASE s # <<>> /\ Last(s).proc = "Script_ExecuteEvent"
    <3>1. Len(s) \in Nat \ {0} /\ Last(s) = s[Len(s)] /\ c = Last(s).event
      BY <2>2, PoppedStack DEF Registered, Current
    <3>2. t[Len(s)] = s[Len(s)]
      BY <1>3, <3>1
    <3> QED
      BY <1>1, <1>3, <2>2, <3>1, <3>2 DEF Placed
  <2>3. CASE s # <<>> /\ Last(s).proc = "CallEvent"
    <3>1. Len(s) \in Nat \ {0} /\ Last(s) = s[Len(s)] /\ c = s[Len(s) - 1].event
      BY <2>3, PoppedStack DEF Registered, Current
    <3>2. Len(s) > 1
      BY <2>3, StandingTop DEF Registered, Placed
    <3>3. t[Len(s)] = s[Len(s)] /\ t[Len(s) - 1] = s[Len(s) - 1]
      BY <1>3, <3>1, <3>2
    <3> QED
      BY <1>1, <1>3, <2>3, <3>1, <3>2, <3>3 DEF Placed
  <2> QED
    BY <2>1, <2>2, <2>3 DEF Callable
<1>5. Standing(t)
  BY <1>1, <1>2, <1>4, PushStands DEF Registered
<1>6. Innermost(t, Len(t), v)
  BY <1>1, <1>2, PushInnermost DEF Registered
<1>7. Current(t, c)
  BY <1>1, <1>3 DEF Current
<1> QED
  BY <1>3, <1>5, <1>6, <1>7 DEF Registered

\* An event is run by either of the functions that run events.
LEMMA PushExecuting ==
  ASSUME NEW s \in Seq(Frame), NEW c, NEW v, Registered(s, c, v), s # <<>>,
         Last(s).proc \in {"RunScriptEvents", "RunScriptEventByName"},
         NEW e \in Event, NEW t, t = Append(s, Executing(e))
  PROVE  t \in Seq(Frame) /\ Registered(t, e, v)
<1> DEFINE new == Executing(e)
<1>1. new \in Frame /\ new.proc = "Script_ExecuteEvent" /\ new.event = e
  BY FrameTypes DEF Executing
<1> HIDE DEF new
<1>2. t = Append(s, new)
  BY DEF new
<1>3. /\ t \in Seq(Frame) /\ t # <<>> /\ Len(s) \in Nat /\ Len(t) = Len(s) + 1
      /\ t[Len(s) + 1] = new /\ Last(t) = new
      /\ \A j \in 1 .. Len(s) : t[j] = s[j]
  <2>1. /\ t \in Seq(Frame) /\ t # <<>> /\ Len(s) \in Nat /\ Len(t) = Len(s) + 1
        /\ t[Len(s) + 1] = new
    BY <1>1, <1>2, PushedStack
  <2>2. \A j \in 1 .. Len(s) : t[j] = s[j]
    BY <1>1, <1>2, PushedStack
  <2>3. Last(t) = new
    BY <2>1 DEF Last
  <2> QED
    BY <2>1, <2>2, <2>3
<1>4. Placed(t, Len(s) + 1)
  <2>1. Len(s) \in Nat \ {0} /\ Last(s) = s[Len(s)]
    BY PoppedStack
  <2>2. t[Len(s)] = s[Len(s)]
    BY <1>3, <2>1
  <2> QED
    BY <1>1, <1>3, <2>1, <2>2 DEF Placed
<1>5. Standing(t)
  BY <1>1, <1>2, <1>4, PushStands DEF Registered
<1>6. Innermost(t, Len(t), v)
  BY <1>1, <1>2, PushInnermost DEF Registered
<1>7. Current(t, e)
  BY <1>1, <1>3 DEF Current
<1> QED
  BY <1>3, <1>5, <1>6, <1>7 DEF Registered

\* A loop is entered: it saves the count of the loop around it.
LEMMA PushLooping ==
  ASSUME NEW s \in Seq(Frame), NEW c, NEW v \in Nat, Registered(s, c, v), s # <<>>,
         Last(s).proc = "Script_ExecuteEvent",
         NEW name \in Name, NEW i \in Nat, NEW loops \in Nat,
         NEW t, t = Append(s, Looping(name, i, loops, v))
  PROVE  t \in Seq(Frame) /\ Registered(t, c, i) /\ Callable(t)
<1> DEFINE new == Looping(name, i, loops, v)
<1>1. new \in Frame /\ new.proc = "CallEvent" /\ new.i = i /\ new.saved = v
  BY FrameTypes DEF Looping
<1> HIDE DEF new
<1>2. t = Append(s, new)
  BY DEF new
<1>3. /\ t \in Seq(Frame) /\ t # <<>> /\ Len(s) \in Nat /\ Len(t) = Len(s) + 1
      /\ t[Len(s) + 1] = new /\ Last(t) = new
      /\ \A j \in 1 .. Len(s) : t[j] = s[j]
  <2>1. /\ t \in Seq(Frame) /\ t # <<>> /\ Len(s) \in Nat /\ Len(t) = Len(s) + 1
        /\ t[Len(s) + 1] = new
    BY <1>1, <1>2, PushedStack
  <2>2. \A j \in 1 .. Len(s) : t[j] = s[j]
    BY <1>1, <1>2, PushedStack
  <2>3. Last(t) = new
    BY <2>1 DEF Last
  <2> QED
    BY <2>1, <2>2, <2>3
<1>4. Len(s) \in Nat \ {0} /\ Last(s) = s[Len(s)] /\ c = Last(s).event
  BY PoppedStack DEF Registered, Current
<1>5. t[Len(s)] = s[Len(s)]
  BY <1>3, <1>4
<1>6. Innermost(t, Len(s), v) /\ Innermost(t, Len(t), i)
  BY <1>1, <1>2, PushInnermost DEF Registered
<1>7. Placed(t, Len(s) + 1)
  <2> DEFINE k == Len(s) + 1
  <2>1. k - 1 = Len(s) /\ k > 1
    BY <1>4
  <2>2. t[k] = new /\ t[k - 1].proc = "Script_ExecuteEvent" /\ Innermost(t, k - 1, v)
    BY <1>3, <1>4, <1>5, <1>6, <2>1
  <2> HIDE DEF k
  <2>3. Placed(t, k)
    BY <1>1, <2>1, <2>2 DEF Placed
  <2> QED
    BY <2>3 DEF k
<1>8. Standing(t)
  BY <1>1, <1>2, <1>7, PushStands DEF Registered
<1>9. Current(t, c) /\ Callable(t)
  BY <1>1, <1>3, <1>4, <1>5 DEF Current, Callable
<1> QED
  BY <1>3, <1>6, <1>8, <1>9 DEF Registered

LEMMA PopInnermost ==
  ASSUME NEW s \in Seq(Frame), s # <<>>, NEW v, Innermost(s, Len(s), v),
         Last(s).proc # "CallEvent", NEW t, t = Front(s)
  PROVE  Innermost(t, Len(t), v)
<1>1. /\ Len(s) \in Nat \ {0} /\ Len(t) = Len(s) - 1 /\ Last(s) = s[Len(s)]
      /\ \A j \in 1 .. Len(s) - 1 : t[j] = s[j]
  BY PoppedStack
<1>2. Len(t) \in Nat /\ Len(t) + 1 = Len(s)
  BY <1>1
<1>3. Innermost(s, Len(t), v)
  BY <1>1, <1>2, InnermostOther
<1> QED
  BY <1>1, <1>2, <1>3, InnermostSame

\* RunScriptEventByName returns: the event of its caller is restored.
LEMMA PopByName ==
  ASSUME NEW s \in Seq(Frame), s # <<>>, NEW c, NEW v, Registered(s, c, v),
         Last(s).proc = "RunScriptEventByName", NEW t, t = Front(s)
  PROVE  t \in Seq(Frame) /\ Registered(t, Last(s).saved, v) /\ Callable(t)
<1>1. /\ t \in Seq(Frame) /\ Len(s) \in Nat \ {0} /\ Len(t) = Len(s) - 1 /\ Last(s) = s[Len(s)]
      /\ \A j \in 1 .. Len(s) - 1 : t[j] = s[j]
  BY PoppedStack
<1>2. Standing(t)
  BY PopStands DEF Registered
<1>3. Innermost(t, Len(t), v)
  BY PopInnermost DEF Registered
<1>4. \/ Len(s) = 1 /\ Last(s).saved = 0
      \/ /\ Len(s) > 1 /\ s[Len(s) - 1].proc = "Script_ExecuteEvent"
         /\ Last(s).saved = s[Len(s) - 1].event
      \/ /\ Len(s) > 2 /\ s[Len(s) - 1].proc = "CallEvent"
         /\ Last(s).saved = s[Len(s) - 2].event
  BY StandingTop DEF Registered, Placed
<1>5. t = <<>> <=> Len(s) = 1
  BY <1>1
<1>6. Len(s) > 1 => Last(t) = s[Len(s) - 1]
  BY <1>1 DEF Last
<1>7. Len(s) > 2 => t[Len(t) - 1] = s[Len(s) - 2]
  <2> SUFFICES ASSUME Len(s) > 2
               PROVE  t[Len(t) - 1] = s[Len(s) - 2]
    OBVIOUS
  <2>1. Len(t) - 1 = Len(s) - 2 /\ Len(s) - 2 \in 1 .. Len(s) - 1
    BY <1>1
  <2> QED
    BY <1>1, <2>1
<1>8. Current(t, Last(s).saved) /\ Callable(t)
  <2>1. CASE Len(s) = 1
    BY <1>4, <1>5, <2>1 DEF Current, Callable
  <2>2. CASE Len(s) > 1 /\ s[Len(s) - 1].proc = "Script_ExecuteEvent"
    BY <1>1, <1>4, <1>5, <1>6, <2>2 DEF Current, Callable
  <2>3. CASE Len(s) > 2 /\ s[Len(s) - 1].proc = "CallEvent"
    BY <1>1, <1>4, <1>5, <1>6, <1>7, <2>3 DEF Current, Callable
  <2> QED
    BY <1>1, <1>4, <2>1, <2>2, <2>3
<1> QED
  BY <1>1, <1>2, <1>3, <1>8 DEF Registered

\* An event is over: m.CurrentEvent is NULL until somebody sets it.
LEMMA PopExecuting ==
  ASSUME NEW s \in Seq(Frame), s # <<>>, NEW c, NEW v, Registered(s, c, v),
         Last(s).proc = "Script_ExecuteEvent", NEW t, t = Front(s)
  PROVE  t \in Seq(Frame) /\ Registered(t, 0, v)
<1>1. /\ t \in Seq(Frame) /\ Len(s) \in Nat \ {0} /\ Len(t) = Len(s) - 1 /\ Last(s) = s[Len(s)]
      /\ \A j \in 1 .. Len(s) - 1 : t[j] = s[j]
  BY PoppedStack
<1>2. Standing(t)
  BY PopStands DEF Registered
<1>3. Innermost(t, Len(t), v)
  BY PopInnermost DEF Registered
<1>4. Len(s) > 1 /\ s[Len(s) - 1].proc \in {"RunScriptEvents", "RunScriptEventByName"}
  BY StandingTop DEF Registered, Placed
<1>5. Last(t) = s[Len(s) - 1]
  BY <1>1, <1>4 DEF Last
<1>6. Current(t, 0)
  BY <1>4, <1>5 DEF Current
<1> QED
  BY <1>1, <1>2, <1>3, <1>6 DEF Registered

\* A loop is over: the count of the loop around it is restored.
LEMMA PopLooping ==
  ASSUME NEW s \in Seq(Frame), s # <<>>, NEW c, NEW v, Registered(s, c, v),
         Last(s).proc = "CallEvent", NEW t, t = Front(s)
  PROVE  /\ t \in Seq(Frame) /\ Registered(t, c, Last(s).saved) /\ t # <<>>
         /\ Last(t).proc = "Script_ExecuteEvent"
<1>1. /\ t \in Seq(Frame) /\ Len(s) \in Nat \ {0} /\ Len(t) = Len(s) - 1 /\ Last(s) = s[Len(s)]
      /\ \A j \in 1 .. Len(s) - 1 : t[j] = s[j]
  BY PoppedStack
<1>2. Standing(t)
  BY PopStands DEF Registered
<1>3. /\ Len(s) > 1 /\ s[Len(s) - 1].proc = "Script_ExecuteEvent"
      /\ Innermost(s, Len(s) - 1, Last(s).saved)
  BY StandingTop DEF Registered, Placed
<1>4. Innermost(t, Len(t), Last(s).saved)
  <2>1. Len(t) \in Nat /\ Len(t) = Len(s) - 1
    BY <1>1
  <2> QED
    BY <1>1, <1>3, <2>1, InnermostSame
<1>5. Last(t) = s[Len(s) - 1] /\ t # <<>>
  BY <1>1, <1>3 DEF Last
<1>6. c = s[Len(s) - 1].event
  BY DEF Registered, Current
<1>7. Current(t, c)
  BY <1>3, <1>5, <1>6 DEF Current
<1> QED
  BY <1>1, <1>2, <1>3, <1>4, <1>5, <1>7 DEF Registered

\* RunScriptEvents stands alone, and returns to the entity.
LEMMA PopRunning ==
  ASSUME NEW s \in Seq(Frame), s # <<>>, NEW c, NEW v, Registered(s, c, v),
         Last(s).proc = "RunScriptEvents"
  PROVE  /\ Len(s) = 1 /\ Front(s) = <<>> /\ c = 0 /\ Registered(<<>>, 0, v) /\ Last(s) = s[1]
         /\ Last(s).i = 0 => Last(s).left = 0
<1> DEFINE t == Front(s)
<1>1. Len(s) = 1 /\ (Last(s).i = 0 => Last(s).left = 0)
  BY StandingTop DEF Registered, Placed
<1>2. c = 0
  BY DEF Registered, Current
<1>3. t \in Seq(Frame) /\ Len(t) = Len(s) - 1 /\ Last(s) = s[Len(s)]
  BY PoppedStack
<1>4. Innermost(t, Len(t), v)
  BY PopInnermost DEF Registered
<1>5. t = <<>>
  <2> HIDE DEF t
  <2> QED
    BY <1>1, <1>3
<1>6. Standing(<<>>) /\ Current(<<>>, 0)
  BY DEF Standing, Current
<1> QED
  BY <1>1, <1>2, <1>3, <1>4, <1>5, <1>6 DEF Registered

\* RunScriptEvents, called by the entity's frame, at its event i.
LEMMA PushRunning ==
  ASSUME NEW v, Registered(<<>>, 0, v),
         NEW named \in BOOLEAN, NEW i \in 0 .. Len(Names), NEW left \in Nat,
         i = 0 => left = 0,
         NEW t, t = <<Running(named, i, left)>>
  PROVE  /\ t \in Seq(Frame) /\ Registered(t, 0, v) /\ t # <<>>
         /\ t = Append(<<>>, Running(named, i, left))
         /\ Len(t) = 1 /\ t[1] = Running(named, i, left) /\ Last(t) = t[1]
         /\ Last(t).proc = "RunScriptEvents"
<1> DEFINE new == Running(named, i, left)
           s == <<>>
<1>1. new \in Frame /\ new.proc = "RunScriptEvents" /\ new.i = i /\ new.left = left
  BY FrameTypes DEF Running
<1> HIDE DEF new
<1>2. t = Append(<<>>, new) /\ t = <<new>>
  BY DEF new
<1>3. /\ t \in Seq(Frame) /\ t # <<>> /\ Len(t) = 1 /\ t[1] = new /\ Last(t) = new
  BY <1>1, <1>2 DEF Last
<1>4. Standing(t)
  BY <1>1, <1>3 DEF Standing, Placed
<1>5. Innermost(t, Len(t), v)
  <2>1. <<>> \in Seq(Frame) /\ Innermost(<<>>, Len(<<>>), v)
    BY DEF Registered
  <2>2. t = Append(<<>>, new)
    BY <1>2
  <2> QED
    BY <1>1, <2>1, <2>2, PushInnermost
<1>6. Current(t, 0)
  BY <1>1, <1>3 DEF Current
<1> QED
  BY <1>1, <1>2, <1>3, <1>4, <1>5, <1>6 DEF Registered, new
-----------------------------------------------------------------------------
\* The times of delayed calls.
Time == 0 .. MaxTime + MaxDelay

\* A delayed call is due or waiting, and only what waits is later than now.
LEMMA DueOrWaiting ==
  ASSUME NEW times \in Seq(Time), now \in Nat
  PROVE  /\ Due(times) \in Seq(Time) /\ Waiting(times) \in Seq(Time)
         /\ Len(Due(times)) \in Nat /\ Len(Waiting(times)) \in Nat
         /\ Len(Due(times)) + Len(Waiting(times)) = Len(times)
         /\ \A x : x \in ToSet(Waiting(times)) <=> x \in ToSet(times) /\ x > now
<1> DEFINE A == 0 .. now
           B == Nat \ 0 .. now
<1>1. Due(times) = Only(times, A) /\ Waiting(times) = Only(times, B)
  BY DEF Due, Waiting
<1>2. \A n \in 1 .. Len(times) : times[n] \in Nat
  BY DEF Time
<1>3. \A n \in 1 .. Len(times) : times[n] \in A <=> times[n] \notin B
  BY <1>2
<1>4. \A x : x \in ToSet(times) => x \in Nat
  BY <1>2 DEF ToSet
<1>5. \A x \in Nat : x \in B <=> x > now
  OBVIOUS
<1> HIDE DEF A, B
<1>6. Only(times, A) \in Seq(Time)
  BY OnlySelects
<1>7. /\ Only(times, B) \in Seq(Time)
      /\ \A x : x \in ToSet(Only(times, B)) <=> x \in ToSet(times) /\ x \in B
  BY OnlySelects
<1>8. Len(Only(times, A)) + Len(Only(times, B)) = Len(times)
  BY <1>3, OnlySplits
<1>9. Len(Due(times)) \in Nat /\ Len(Waiting(times)) \in Nat
  BY <1>1, <1>6, <1>7
<1> QED
  BY <1>1, <1>4, <1>5, <1>6, <1>7, <1>8, <1>9

\* The registers after a step.
RegistersNext ==
  /\ stack' \in Seq(Frame) /\ current' \in Event \cup {0} /\ iteration' \in Nat
  /\ Registered(stack', current', iteration')

Registers == Registered(stack, current, iteration)

\* Each action leaves the registers to their owners.
LEMMA RunsStep ==
  ASSUME TypeOK, Registers, \E named \in BOOLEAN : RunScripts(named)
  PROVE  RegistersNext
<1>1. PICK named \in BOOLEAN : RunScripts(named)
  OBVIOUS
<1>2. /\ stack = <<>> /\ current' = current /\ iteration' = iteration
      /\ stack' = stack \/ stack' = <<Running(named, 0, 0)>>
  BY <1>1 DEF RunScripts, registers
<1>3. current = 0 /\ Registered(<<>>, 0, iteration)
  BY <1>2 DEF Registers, Registered, Current
<1>4. 0 \in 0 .. Len(Names) /\ 0 \in Nat
  BY EventsAreNumbers
<1>5. CASE stack' = stack
  BY <1>2, <1>5 DEF TypeOK, RegistersNext, Registers
<1>6. CASE stack' = <<Running(named, 0, 0)>>
  <2>1. stack' \in Seq(Frame) /\ Registered(stack', 0, iteration)
    BY <1>3, <1>4, <1>6, PushRunning
  <2> QED
    BY <1>2, <1>3, <2>1 DEF TypeOK, RegistersNext
<1> QED
  BY <1>2, <1>5, <1>6

LEMMA NextEventStep ==
  ASSUME TypeOK, Registers, NextEvent
  PROVE  RegistersNext
<1> DEFINE top == Last(stack)
           e == top.i + 1
<1>1. /\ stack # <<>> /\ top.proc = "RunScriptEvents"
      /\ current' = current /\ iteration' = iteration
  BY DEF NextEvent, Top, registers
<1>2. Front(stack) = <<>> /\ current = 0 /\ Registered(<<>>, 0, iteration)
  BY <1>1, PopRunning DEF TypeOK, Registers
<1>3. top \in Frame /\ top.named \in BOOLEAN /\ top.i \in 0 .. Len(Names)
  <2>1. top \in Frame
    BY <1>1, PoppedStack DEF TypeOK
  <2> HIDE DEF top
  <2> QED
    BY <1>1, <2>1, FrameFields
<1>4. \/ stack' = Front(stack)
      \/ \E left \in Nat : e <= Len(Names) /\ stack' = Append(Front(stack), Running(top.named, e, left))
  <2>1. CASE e > Len(Names)
    BY <2>1 DEF NextEvent
  <2>2. CASE ~(e > Len(Names)) /\ Names[e] = Unnamed /\ top.named
    <3>1. stack' = Append(Front(stack), Running(top.named, e, 0))
      BY <2>2 DEF NextEvent
    <3>2. e <= Len(Names)
      BY <1>3, <2>2, EventsAreNumbers
    <3> QED
      BY <3>1, <3>2
  <2>3. CASE ~(e > Len(Names)) /\ ~(Names[e] = Unnamed /\ top.named)
    <3> DEFINE left == Len(Due(timed[e])) + IF next[e] > Never /\ now >= next[e] THEN 1 ELSE 0
    <3>1. stack' = Append(Front(stack), Running(top.named, e, left))
      BY <2>3 DEF NextEvent
    <3>2. e <= Len(Names) /\ e \in Event
      BY <1>3, <2>3, EventsAreNumbers
    <3>3. timed[e] \in Seq(Time) /\ now \in Nat
      BY <3>2 DEF TypeOK, Time
    <3>4. Len(Due(timed[e])) \in Nat
      BY <3>3, DueOrWaiting
    <3>5. left \in Nat
      BY <3>4
    <3> HIDE DEF left
    <3> QED
      BY <3>1, <3>2, <3>5
  <2> QED
    BY <2>1, <2>2, <2>3
<1>5. CASE stack' = Front(stack)
  BY <1>1, <1>2, <1>5 DEF TypeOK, RegistersNext
<1>6. CASE \E left \in Nat : e <= Len(Names) /\ stack' = Append(Front(stack), Running(top.named, e, left))
  <2>1. PICK left \in Nat : e <= Len(Names) /\ stack' = Append(Front(stack), Running(top.named, e, left))
    BY <1>6
  <2>2. e \in 0 .. Len(Names)
    BY <1>3, <2>1, EventsAreNumbers
  <2>3. stack' = <<Running(top.named, e, left)>>
    BY <1>2, <2>1
  <2>4. e # 0
    BY <1>3
  <2> HIDE DEF e, top
  <2>5. stack' \in Seq(Frame) /\ Registered(stack', 0, iteration)
    BY <1>2, <1>3, <2>2, <2>3, <2>4, PushRunning
  <2> QED
    BY <1>1, <1>2, <2>5 DEF TypeOK, RegistersNext
<1> QED
  BY <1>4, <1>5, <1>6

LEMMA RunDueStep ==
  ASSUME TypeOK, Registers, RunDue
  PROVE  RegistersNext
<1> DEFINE top == Last(stack)
           f == Running(top.named, top.i, top.left - 1)
<1>1. /\ stack # <<>> /\ top.proc = "RunScriptEvents" /\ top.left > 0
      /\ stack' = Front(stack) \o <<f, Executing(top.i)>>
      /\ current' = top.i /\ iteration' = iteration
  BY DEF RunDue, Top
<1>2. /\ Front(stack) = <<>> /\ Registered(<<>>, 0, iteration)
      /\ top.i = 0 => top.left = 0
  BY <1>1, PopRunning DEF TypeOK, Registers
<1>3. top \in Frame
  BY <1>1, PoppedStack DEF TypeOK
<1> HIDE DEF top
<1>4. top.named \in BOOLEAN /\ top.i \in 0 .. Len(Names) /\ top.left \in Nat
  BY <1>1, <1>3, FrameFields
<1>5. top.i \in Event /\ top.left - 1 \in Nat /\ top.i # 0
  BY <1>1, <1>2, <1>4, EventsAreNumbers
<1> DEFINE s == <<f>>
<1>6. /\ s \in Seq(Frame) /\ Registered(s, 0, iteration) /\ s # <<>> /\ Last(s) = s[1]
      /\ Last(s).proc = "RunScriptEvents" /\ s = Append(<<>>, f)
  BY <1>2, <1>4, <1>5, PushRunning
<1>7. f \in Frame /\ Executing(top.i) \in Frame
  BY <1>4, <1>5, FrameTypes
<1>8. stack' = Append(s, Executing(top.i))
  <2> DEFINE g == Executing(top.i)
  <2> HIDE DEF f, g
  <2>1. <<>> \in Seq(Frame) /\ stack' = <<>> \o <<f, g>>
    BY <1>1, <1>2 DEF g
  <2>2. stack' = Append(Append(<<>>, f), g)
    BY <1>7, <2>1, TwoPushed DEF g
  <2> QED
    BY <1>6, <2>2 DEF g
<1> HIDE DEF s
<1>9. stack' \in Seq(Frame) /\ Registered(stack', top.i, iteration)
  BY <1>5, <1>6, <1>8, PushExecuting
<1> QED
  BY <1>1, <1>5, <1>9 DEF TypeOK, RegistersNext

LEMMA CallScriptEventStep ==
  ASSUME TypeOK, Registers, NEW name \in Name, CallScriptEvent(name)
  PROVE  RegistersNext
<1>1. /\ stack = <<>> /\ stack' = <<ByName(name, 0, current)>>
      /\ current' = current /\ iteration' = iteration
  BY DEF CallScriptEvent, registers
<1>2. /\ stack \in Seq(Frame) /\ current \in Event \cup {0} /\ iteration \in Nat
      /\ Registered(stack, current, iteration) /\ Callable(stack)
  BY <1>1 DEF TypeOK, Registers, Callable
<1>3. stack' = Append(stack, ByName(name, 0, current)) /\ 0 \in 0 .. Len(Names)
  BY <1>1, EventsAreNumbers
<1>4. stack' \in Seq(Frame) /\ Registered(stack', current, iteration)
  BY <1>2, <1>3, PushByName
<1> QED
  BY <1>1, <1>2, <1>4 DEF RegistersNext

LEMMA NextOfNameStep ==
  ASSUME TypeOK, Registers, NextOfName
  PROVE  RegistersNext
<1> DEFINE top  == Last(stack)
           more == {e \in Event : e > top.i /\ Names[e] = top.name}
           s    == Front(stack)
<1>1. /\ stack # <<>> /\ top.proc = "RunScriptEventByName" /\ iteration' = iteration
      /\ \/ more = {} /\ stack' = s /\ current' = top.saved
         \/ /\ more # {} /\ current' = Min(more)
            /\ stack' = s \o <<ByName(top.name, Min(more), top.saved), Executing(Min(more))>>
  BY DEF NextOfName, Top
<1>2. top \in Frame /\ iteration \in Nat
  BY <1>1, PoppedStack DEF TypeOK
<1>3. s \in Seq(Frame) /\ Registered(s, top.saved, iteration) /\ Callable(s)
  BY <1>1, PopByName DEF TypeOK, Registers
<1> HIDE DEF s, top
<1>4. top.name \in Name /\ top.saved \in Event \cup {0}
  BY <1>1, <1>2, FrameFields
<1>5. CASE more = {}
  BY <1>1, <1>2, <1>3, <1>4, <1>5 DEF RegistersNext
<1>6. CASE more # {}
  <2>1. Min(more) \in Event
    <3>1. more \in SUBSET Nat /\ more \subseteq Event
      BY EventsAreNumbers
    <3> HIDE DEF more
    <3> QED
      BY <1>6, <3>1, LowestIndex
  <2>2. PICK e \in Event : e = Min(more)
    BY <2>1
  <2> HIDE DEF more
  <2>3. stack' = s \o <<ByName(top.name, e, top.saved), Executing(e)>> /\ current' = e
    BY <1>1, <1>6, <2>2
  <2>4. e \in 0 .. Len(Names)
    BY EventsAreNumbers
  <2> DEFINE f == ByName(top.name, e, top.saved)
             g == Executing(e)
             u == Append(s, f)
  <2>5. f \in Frame /\ g \in Frame /\ f.proc = "RunScriptEventByName"
    BY <1>4, <2>4, FrameTypes DEF ByName
  <2>6. u \in Seq(Frame) /\ Registered(u, top.saved, iteration)
    BY <1>3, <1>4, <2>4, PushByName
  <2> HIDE DEF f
  <2>7. u # <<>> /\ Last(u) = f
    BY <1>3, <2>5, PushedStack
  <2>8. stack' = Append(u, g)
    <3> HIDE DEF g
    <3>1. stack' = s \o <<f, g>>
      BY <2>3 DEF f, g
    <3> QED
      BY <1>3, <2>5, <3>1, TwoPushed
  <2> HIDE DEF u
  <2>9. stack' \in Seq(Frame) /\ Registered(stack', e, iteration)
    BY <2>5, <2>6, <2>7, <2>8, PushExecuting
  <2> QED
    BY <1>1, <1>2, <2>3, <2>9 DEF RegistersNext
<1> QED
  BY <1>5, <1>6

LEMMA ReturnStep ==
  ASSUME TypeOK, Registers, Return
  PROVE  RegistersNext
<1>1. /\ stack # <<>> /\ Last(stack).proc = "Script_ExecuteEvent"
      /\ stack' = Front(stack) /\ current' = 0 /\ iteration' = iteration
  BY DEF Return, Top
<1>2. stack' \in Seq(Frame) /\ Registered(stack', 0, iteration)
  BY <1>1, PopExecuting DEF TypeOK, Registers
<1> QED
  BY <1>1, <1>2 DEF TypeOK, RegistersNext

LEMMA LoopAgainStep ==
  ASSUME TypeOK, Registers, LoopAgain
  PROVE  RegistersNext
<1> DEFINE top  == Last(stack)
           s    == Front(stack)
           i    == 1 + IF resetLoop # NoReset THEN resetLoop ELSE top.i
<1>1. /\ stack # <<>> /\ top.proc = "CallEvent" /\ current' = current
      /\ \/ stack' = s /\ iteration' = top.saved
         \/ /\ stack' = s \o <<Looping(top.name, i, top.loops, top.saved), ByName(top.name, 0, current)>>
            /\ iteration' = i
  BY DEF LoopAgain, Top
<1>2. top \in Frame /\ current \in Event \cup {0}
  BY <1>1, PoppedStack DEF TypeOK
<1>3. /\ s \in Seq(Frame) /\ Registered(s, current, top.saved)
      /\ s # <<>> /\ Last(s).proc = "Script_ExecuteEvent"
  BY <1>1, PopLooping DEF TypeOK, Registers
<1> HIDE DEF s, top
<1>4. top.name \in Name /\ top.saved \in Nat /\ top.loops \in Nat /\ top.i \in Nat
  BY <1>1, <1>2, FrameFields
<1>5. i \in Nat
  BY <1>4 DEF TypeOK, NoReset
<1> HIDE DEF i
<1>6. CASE stack' = s /\ iteration' = top.saved
  BY <1>1, <1>2, <1>3, <1>4, <1>6 DEF RegistersNext
<1>7. CASE /\ stack' = s \o <<Looping(top.name, i, top.loops, top.saved), ByName(top.name, 0, current)>>
           /\ iteration' = i
  <2> DEFINE f == Looping(top.name, i, top.loops, top.saved)
             g == ByName(top.name, 0, current)
             u == Append(s, f)
  <2>1. 0 \in 0 .. Len(Names)
    BY EventsAreNumbers
  <2>2. f \in Frame /\ g \in Frame
    BY <1>2, <1>4, <1>5, <2>1, FrameTypes
  <2>3. u \in Seq(Frame) /\ Registered(u, current, i) /\ Callable(u)
    BY <1>3, <1>4, <1>5, PushLooping
  <2>4. stack' = Append(u, g)
    <3> HIDE DEF f, g
    <3>1. stack' = s \o <<f, g>>
      BY <1>7 DEF f, g
    <3> QED
      BY <1>3, <2>2, <3>1, TwoPushed
  <2> HIDE DEF u
  <2>5. stack' \in Seq(Frame) /\ Registered(stack', current, i)
    BY <1>2, <1>4, <2>1, <2>3, <2>4, PushByName
  <2> QED
    BY <1>1, <1>2, <1>5, <1>7, <2>5 DEF RegistersNext
<1> QED
  BY <1>1, <1>6, <1>7

LEMMA EventStepStep ==
  ASSUME TypeOK, Registers, NEW e \in Event, EventStep(e)
  PROVE  RegistersNext
<1>1. /\ stack \in Seq(Frame) /\ current \in Event \cup {0} /\ iteration \in Nat
      /\ Registered(stack, current, iteration)
  BY DEF TypeOK, Registers
<1>2. stack # <<>> /\ Last(stack).proc = "Script_ExecuteEvent" /\ Callable(stack)
  BY DEF EventStep, Exit, BreakLoop, ResetLoop, RemoveScript, RepeatDelay, CallEvent,
         CallExternal, CallEventTimed, Executes, Top, Callable
<1>3. 0 \in 0 .. Len(Names)
  BY EventsAreNumbers
<1>4. CASE UNCHANGED <<stack, current, iteration>>
  BY <1>1, <1>4 DEF RegistersNext
<1>5. ASSUME NEW name \in Name, stack' = Append(stack, ByName(name, 0, current)),
             current' = current, iteration' = iteration
      PROVE  RegistersNext
  <2>1. stack' \in Seq(Frame) /\ Registered(stack', current, iteration)
    BY <1>1, <1>2, <1>3, <1>5, PushByName
  <2> QED
    BY <1>1, <1>5, <2>1 DEF RegistersNext
<1>6. ASSUME NEW name \in Name, NEW loops \in 1 .. MaxLoops, CallEvent(e, name, loops)
      PROVE  RegistersNext
  <2> DEFINE f == Looping(name, 0, loops, iteration)
             g == ByName(name, 0, current)
             u == Append(stack, f)
  <2>1. stack' = stack \o <<f, g>> /\ current' = current /\ iteration' = 0
    BY <1>6 DEF CallEvent
  <2>2. loops \in Nat /\ 0 \in Nat
    BY DEF ConstantsAssumption
  <2>3. f \in Frame /\ g \in Frame
    BY <1>1, <1>3, <2>2, FrameTypes
  <2>4. u \in Seq(Frame) /\ Registered(u, current, 0) /\ Callable(u)
    BY <1>1, <1>2, <2>2, PushLooping
  <2>5. stack' = Append(u, g)
    <3> HIDE DEF f, g
    <3> QED
      BY <1>1, <2>1, <2>3, TwoPushed
  <2> HIDE DEF u
  <2>6. stack' \in Seq(Frame) /\ Registered(stack', current, 0)
    BY <1>1, <1>3, <2>4, <2>5, PushByName
  <2> QED
    BY <1>1, <2>1, <2>2, <2>6 DEF RegistersNext
<1>7. ASSUME NEW effect \in BOOLEAN, RemoveScript(e, effect)
      PROVE  RegistersNext
  <2>1. /\ stack' = IF effect THEN Append(stack, ByName(EffectDie, 0, current)) ELSE stack
        /\ current' = current /\ iteration' = iteration
    BY <1>7 DEF RemoveScript, registers
  <2>2. CASE effect
    BY <1>5, <2>1, <2>2, EventsAreNumbers
  <2>3. CASE ~effect
    BY <1>4, <2>1, <2>3
  <2> QED
    BY <2>2, <2>3
<1>8. ASSUME NEW name \in Name, CallExternal(e, name)
      PROVE  RegistersNext
  BY <1>5, <1>8 DEF CallExternal, registers
<1>9. ASSUME \/ Exit(e) \/ BreakLoop(e) \/ ResetLoop(e)
             \/ \E delay \in 0 .. MaxDelay : RepeatDelay(e, delay)
             \/ \E name \in Name, delay \in 1 .. MaxDelay : CallEventTimed(e, name, delay)
      PROVE  RegistersNext
  BY <1>4, <1>9 DEF Exit, BreakLoop, ResetLoop, RepeatDelay, CallEventTimed, registers
<1> QED
  BY <1>6, <1>7, <1>8, <1>9 DEF EventStep

\* All of them do.
LEMMA RegistersStep == TypeOK /\ Registers /\ [Next]_vars => RegistersNext
<1> SUFFICES ASSUME TypeOK, Registers, [Next]_vars
             PROVE  RegistersNext
  OBVIOUS
<1>1. CASE Tick \/ UNCHANGED vars
  BY <1>1 DEF Tick, vars, registers, RegistersNext, Registers, TypeOK
<1>2. CASE \E named \in BOOLEAN : RunScripts(named)
  BY <1>2, RunsStep
<1>3. ASSUME NEW name \in Name, CallScriptEvent(name)
      PROVE  RegistersNext
  BY <1>3, CallScriptEventStep
<1>4. CASE NextEvent
  BY <1>4, NextEventStep
<1>5. CASE RunDue
  BY <1>5, RunDueStep
<1>6. CASE NextOfName
  BY <1>6, NextOfNameStep
<1>7. CASE LoopAgain
  BY <1>7, LoopAgainStep
<1>8. CASE Return
  BY <1>8, ReturnStep
<1>9. ASSUME NEW e \in Event, EventStep(e)
      PROVE  RegistersNext
  BY <1>9, EventStepStep
<1> QED
  BY <1>1, <1>2, <1>3, <1>4, <1>5, <1>6, <1>7, <1>8, <1>9 DEF Next
-----------------------------------------------------------------------------
(* The schedule.                                                            *)

\* The entity's frame runs the script: its function is the outermost one.
Runs(s) == s # <<>> /\ s[1].proc = "RunScriptEvents"

\* The executions of e it has taken from the schedule and not begun.
LeftOf(s, e) == IF Runs(s) /\ s[1].i = e THEN s[1].left ELSE 0

\* Every execution promised waits in TimedExecutions, in fNextExecutionTime, or
\* has been taken by the frame that is running.
Promised ==
  \A e \in Event :
    owed[e] = Len(timed[e]) + (IF next[e] = Never THEN 0 ELSE 1) + LeftOf(stack, e)

\* The events the frame has passed, all of them between frames.
Passed(s, e) == Runs(s) => s[1].i >= e

\* Nothing is overdue that the frame has passed, and unnamed events are never
\* called with a delay.
Punctual ==
  /\ seen <= now
  /\ Runs(stack) => seen = now
  /\ \A e \in Event :
       /\ Names[e] = Unnamed => timed[e] = <<>>
       /\ Passed(stack, e) => \A t \in ToSet(timed[e]) : t > seen

\* The frame, if one runs the script, stands in t as it did in s.
SameRun(s, t) == (Runs(t) <=> Runs(s)) /\ (Runs(s) => t[1] = s[1])

\* Calls and returns of everything else leave it alone.
LEMMA PushSameRun ==
  ASSUME NEW s \in Seq(Frame), NEW f \in Frame, f.proc # "RunScriptEvents",
         NEW t, t = Append(s, f)
  PROVE  SameRun(s, t)
<1>1. /\ t # <<>> /\ Len(s) \in Nat /\ t[Len(s) + 1] = f
      /\ \A j \in 1 .. Len(s) : t[j] = s[j]
  BY PushedStack
<1>2. CASE s = <<>>
  BY <1>1, <1>2 DEF SameRun, Runs
<1>3. CASE s # <<>>
  <2>1. 1 \in 1 .. Len(s)
    BY <1>3
  <2> QED
    BY <1>1, <1>3, <2>1 DEF SameRun, Runs
<1> QED
  BY <1>2, <1>3

LEMMA PopSameRun ==
  ASSUME NEW s \in Seq(Frame), s # <<>>, Last(s).proc # "RunScriptEvents",
         NEW t, t = Front(s)
  PROVE  SameRun(s, t)
<1>1. /\ t \in Seq(Frame) /\ Len(s) \in Nat \ {0} /\ Len(t) = Len(s) - 1
      /\ \A j \in 1 .. Len(s) - 1 : t[j] = s[j]
      /\ Last(s) = s[Len(s)]
  BY PoppedStack
<1>2. CASE Len(s) = 1
  BY <1>1, <1>2 DEF SameRun, Runs
<1>3. CASE Len(s) > 1
  <2>1. 1 \in 1 .. Len(s) - 1 /\ t # <<>>
    BY <1>1, <1>3
  <2> QED
    BY <1>1, <2>1 DEF SameRun, Runs
<1> QED
  BY <1>1, <1>2, <1>3

LEMMA PushTwoSameRun ==
  ASSUME NEW s \in Seq(Frame), NEW f \in Frame, NEW g \in Frame,
         f.proc # "RunScriptEvents", g.proc # "RunScriptEvents", NEW t, t = s \o <<f, g>>
  PROVE  SameRun(s, t)
<1> DEFINE u == Append(s, f)
<1>1. u \in Seq(Frame) /\ SameRun(s, u)
  <2>1. u \in Seq(Frame)
    OBVIOUS
  <2>2. SameRun(s, u)
    BY PushSameRun
  <2> QED
    BY <2>1, <2>2
<1>2. t = Append(u, g)
  BY TwoPushed
<1> HIDE DEF u
<1>3. SameRun(u, t)
  BY <1>1, <1>2, PushSameRun
<1> QED
  BY <1>1, <1>3 DEF SameRun

LEMMA OtherProcs ==
  /\ \A name, i, old : ByName(name, i, old).proc # "RunScriptEvents"
  /\ \A e : Executing(e).proc # "RunScriptEvents"
  /\ \A name, i, loops, old : Looping(name, i, loops, old).proc # "RunScriptEvents"
BY DEF ByName, Executing, Looping

LEMMA NextOfNameSameRun ==
  ASSUME TypeOK, NextOfName
  PROVE  SameRun(stack, stack')
<1> DEFINE top  == Last(stack)
           more == {e \in Event : e > top.i /\ Names[e] = top.name}
           s    == Front(stack)
           f == ByName(top.name, Min(more), top.saved)
           g == Executing(Min(more))
<1>1. /\ stack # <<>> /\ top.proc = "RunScriptEventByName" /\ stack \in Seq(Frame)
      /\ \/ more = {} /\ stack' = s
         \/ more # {} /\ stack' = s \o <<f, g>>
  BY DEF NextOfName, Top, TypeOK
<1>2. top \in Frame /\ s \in Seq(Frame) /\ SameRun(stack, s)
  <2>1. top \in Frame /\ s \in Seq(Frame)
    BY <1>1, PoppedStack
  <2>2. SameRun(stack, s)
    BY <1>1, PopSameRun
  <2> QED
    BY <2>1, <2>2
<1>3. CASE stack' = s
  BY <1>2, <1>3
<1>4. CASE more # {} /\ stack' = s \o <<f, g>>
  <2>1. Min(more) \in Event
    <3>1. more \in SUBSET Nat /\ more \subseteq Event
      BY EventsAreNumbers
    <3> HIDE DEF more
    <3> QED
      BY <1>4, <3>1, LowestIndex
  <2>2. Min(more) \in 0 .. Len(Names)
    BY <2>1, EventsAreNumbers
  <2>3. top.name \in Name /\ top.saved \in Event \cup {0}
    <3> HIDE DEF top
    <3> QED
      BY <1>1, <1>2, FrameFields
  <2>4. f \in Frame /\ g \in Frame
    <3> HIDE DEF more, top
    <3> QED
      BY <2>1, <2>2, <2>3, FrameTypes
  <2>5. f.proc # "RunScriptEvents" /\ g.proc # "RunScriptEvents"
    BY OtherProcs
  <2> HIDE DEF f, g, s
  <2>6. SameRun(s, stack')
    BY <1>2, <1>4, <2>4, <2>5, PushTwoSameRun
  <2> QED
    BY <1>2, <2>6 DEF SameRun
<1> QED
  BY <1>1, <1>3, <1>4

LEMMA LoopAgainSameRun ==
  ASSUME TypeOK, LoopAgain
  PROVE  SameRun(stack, stack')
<1> DEFINE top  == Last(stack)
           s    == Front(stack)
           i    == 1 + IF resetLoop # NoReset THEN resetLoop ELSE top.i
           f    == Looping(top.name, i, top.loops, top.saved)
           g    == ByName(top.name, 0, current)
<1>1. /\ stack # <<>> /\ top.proc = "CallEvent" /\ stack \in Seq(Frame)
      /\ \/ stack' = s
         \/ stack' = s \o <<f, g>>
  BY DEF LoopAgain, Top, TypeOK
<1>2. top \in Frame /\ s \in Seq(Frame) /\ SameRun(stack, s)
  <2>1. top \in Frame /\ s \in Seq(Frame)
    BY <1>1, PoppedStack
  <2>2. SameRun(stack, s)
    BY <1>1, PopSameRun
  <2> QED
    BY <2>1, <2>2
<1> HIDE DEF s, top
<1>3. top.name \in Name /\ top.saved \in Nat /\ top.loops \in Nat /\ top.i \in Nat
  BY <1>1, <1>2, FrameFields
<1>4. i \in Nat
  BY <1>3 DEF TypeOK, NoReset
<1> HIDE DEF i
<1>5. f \in Frame /\ g \in Frame
  <2>1. current \in Event \cup {0} /\ 0 \in 0 .. Len(Names)
    BY EventsAreNumbers DEF TypeOK
  <2> QED
    BY <1>3, <1>4, <2>1, FrameTypes
<1>6. f.proc # "RunScriptEvents" /\ g.proc # "RunScriptEvents"
  BY OtherProcs
<1> HIDE DEF f, g
<1>7. CASE stack' = s
  BY <1>2, <1>7
<1>8. CASE stack' = s \o <<f, g>>
  <2>1. SameRun(s, stack')
    BY <1>2, <1>5, <1>6, <1>8, PushTwoSameRun
  <2> QED
    BY <1>2, <2>1 DEF SameRun
<1> QED
  BY <1>1, <1>7, <1>8

LEMMA CallsSameRun ==
  ASSUME TypeOK
  PROVE  /\ \A name \in Name : stack' = Append(stack, ByName(name, 0, current)) => SameRun(stack, stack')
         /\ \A name \in Name, loops \in 1 .. MaxLoops :
              stack' = stack \o <<Looping(name, 0, loops, iteration), ByName(name, 0, current)>>
                => SameRun(stack, stack')
<1>1. current \in Event \cup {0} /\ 0 \in 0 .. Len(Names) /\ iteration \in Nat /\ stack \in Seq(Frame)
  BY EventsAreNumbers DEF TypeOK
<1>2. ASSUME NEW name \in Name, stack' = Append(stack, ByName(name, 0, current))
      PROVE  SameRun(stack, stack')
  <2> DEFINE f == ByName(name, 0, current)
  <2>1. f \in Frame /\ f.proc # "RunScriptEvents"
    BY <1>1, FrameTypes, OtherProcs
  <2> HIDE DEF f
  <2>2. stack' = Append(stack, f)
    BY <1>2 DEF f
  <2> QED
    BY <1>1, <2>1, <2>2, PushSameRun
<1>3. ASSUME NEW name \in Name, NEW loops \in 1 .. MaxLoops,
             stack' = stack \o <<Looping(name, 0, loops, iteration), ByName(name, 0, current)>>
      PROVE  SameRun(stack, stack')
  <2> DEFINE f == Looping(name, 0, loops, iteration)
             g == ByName(name, 0, current)
  <2>1. loops \in Nat
    BY DEF ConstantsAssumption
  <2>2. f \in Frame /\ g \in Frame
    BY <1>1, <2>1, FrameTypes
  <2>3. f.proc # "RunScriptEvents" /\ g.proc # "RunScriptEvents"
    BY OtherProcs
  <2> HIDE DEF f, g
  <2>4. stack' = stack \o <<f, g>>
    BY <1>3 DEF f, g
  <2> QED
    BY <1>1, <2>2, <2>3, <2>4, PushTwoSameRun
<1> QED
  BY <1>2, <1>3
-----------------------------------------------------------------------------
(* What a step does to the schedule.                                        *)

\* The schedule after a step.
ScheduleNext ==
  /\ next' \in [Event -> Never .. MaxTime + MaxDelay]
  /\ timed' \in [Event -> Seq(Time)]
  /\ owed' \in [Event -> Nat]
  /\ Promised' /\ Punctual'

LEMMA ScheduleTypes ==
  ASSUME TypeOK
  PROVE  /\ now \in Nat /\ seen \in Int /\ now <= MaxTime
         /\ \A e \in Event :
              /\ next[e] \in Int /\ owed[e] \in Nat
              /\ timed[e] \in Seq(Time) /\ Len(timed[e]) \in Nat
BY EventsAreNumbers DEF TypeOK, Time, Never

LEMMA LeftIsNumber ==
  ASSUME TypeOK, NEW e
  PROVE  LeftOf(stack, e) \in Nat
<1>1. CASE Runs(stack)
  <2>1. stack[1] \in Frame
    BY <1>1 DEF Runs, TypeOK
  <2> QED
    BY <1>1, <2>1, FrameFields DEF Runs, LeftOf
<1>2. CASE ~Runs(stack)
  BY <1>2 DEF LeftOf
<1> QED
  BY <1>1, <1>2

\* A step that neither changes the schedule nor concerns the frame.
LEMMA QuietStep ==
  ASSUME TypeOK, Promised, Punctual, SameRun(stack, stack'), UNCHANGED schedule,
         UNCHANGED <<now, seen>>
  PROVE  ScheduleNext
<1>1. \A e \in Event : LeftOf(stack', e) = LeftOf(stack, e) /\ (Passed(stack', e) <=> Passed(stack, e))
  BY DEF SameRun, LeftOf, Passed
<1>2. next' = next /\ timed' = timed /\ owed' = owed
  BY DEF schedule
<1>3. Promised'
  BY <1>1, <1>2 DEF Promised
<1>4. Punctual'
  BY <1>1, <1>2 DEF Punctual, SameRun
<1> QED
  BY <1>2, <1>3, <1>4 DEF ScheduleNext, TypeOK, Time

LEMMA TickSchedule ==
  ASSUME TypeOK, Promised, Punctual, Tick
  PROVE  ScheduleNext
<1>1. /\ stack = <<>> /\ stack' = stack /\ now' = now + 1 /\ seen' = seen
      /\ next' = next /\ timed' = timed /\ owed' = owed
  BY DEF Tick, schedule
<1>2. ~Runs(stack)
  BY <1>1 DEF Runs
<1>3. Promised'
  BY <1>1 DEF Promised
<1>4. Punctual'
  BY <1>1, <1>2, ScheduleTypes DEF Punctual
<1> QED
  BY <1>1, <1>3, <1>4 DEF ScheduleNext, TypeOK, Time

\* The frame begins: it has passed no event yet.
LEMMA RunsSchedule ==
  ASSUME TypeOK, Promised, Punctual, NEW named \in BOOLEAN, RunScripts(named)
  PROVE  ScheduleNext
<1>1. /\ stack = <<>> /\ now' = now /\ next' = next /\ timed' = timed /\ owed' = owed
      /\ \/ stack' = stack /\ seen' = seen
         \/ stack' = <<Running(named, 0, 0)>> /\ seen' = now
  BY DEF RunScripts, schedule
<1>2. CASE stack' = stack /\ seen' = seen
  BY <1>1, <1>2, QuietStep DEF SameRun, schedule
<1>3. CASE stack' = <<Running(named, 0, 0)>> /\ seen' = now
  <2> DEFINE f == Running(named, 0, 0)
  <2>1. f.proc = "RunScriptEvents" /\ f.i = 0 /\ f.left = 0
    BY DEF Running
  <2> HIDE DEF f
  <2>2. stack' # <<>> /\ stack'[1] = f
    BY <1>3 DEF f
  <2>3. Runs(stack') /\ \A e \in Event : LeftOf(stack', e) = 0 /\ ~Passed(stack', e)
    BY <2>1, <2>2, EventsAreNumbers DEF Runs, LeftOf, Passed
  <2>4. \A e \in Event : LeftOf(stack, e) = 0
    BY <1>1 DEF LeftOf, Runs
  <2>5. Promised'
    BY <1>1, <2>3, <2>4 DEF Promised
  <2>6. Punctual'
    BY <1>1, <1>3, <2>3, ScheduleTypes DEF Punctual
  <2> QED
    BY <1>1, <2>5, <2>6 DEF ScheduleNext, TypeOK, Time
<1> QED
  BY <1>1, <1>2, <1>3

\* The frame takes what is due of the next event: counted, and no more waiting.
LEMMA NextEventSchedule ==
  ASSUME TypeOK, Registers, Promised, Punctual, NextEvent
  PROVE  ScheduleNext
<1> DEFINE top == Last(stack)
           e == top.i + 1
           repeats == next[e] > Never /\ now >= next[e]
           left == Len(Due(timed[e])) + IF repeats THEN 1 ELSE 0
<1>1. /\ stack # <<>> /\ top.proc = "RunScriptEvents" /\ top.left = 0
      /\ owed' = owed /\ now' = now /\ seen' = seen
  BY DEF NextEvent, Top, lifetime
<1>2. Front(stack) = <<>> /\ stack[1] = top
  BY <1>1, PopRunning DEF TypeOK, Registers
<1>3. top \in Frame /\ top.named \in BOOLEAN /\ top.i \in 0 .. Len(Names)
  <2>1. top \in Frame
    BY <1>1, PoppedStack DEF TypeOK
  <2> HIDE DEF top
  <2> QED
    BY <1>1, <2>1, FrameFields
<1>4. \/ e > Len(Names) /\ stack' = <<>> /\ next' = next /\ timed' = timed
      \/ /\ ~(e > Len(Names)) /\ Names[e] = Unnamed
         /\ stack' = <<Running(top.named, e, 0)>> /\ next' = next /\ timed' = timed
      \/ /\ ~(e > Len(Names))
         /\ next' = [next EXCEPT ![e] = IF repeats THEN Never ELSE @]
         /\ timed' = [timed EXCEPT ![e] = Waiting(@)]
         /\ stack' = <<Running(top.named, e, left)>>
  <2>1. CASE e > Len(Names)
    BY <1>2, <2>1 DEF NextEvent
  <2>2. CASE ~(e > Len(Names)) /\ Names[e] = Unnamed /\ top.named
    <3>1. stack' = Append(Front(stack), Running(top.named, e, 0)) /\ next' = next /\ timed' = timed
      BY <2>2 DEF NextEvent
    <3> HIDE DEF top, e
    <3>2. stack' = <<Running(top.named, e, 0)>>
      BY <1>2, <3>1
    <3> QED
      BY <2>2, <3>1, <3>2
  <2>3. CASE ~(e > Len(Names)) /\ ~(Names[e] = Unnamed /\ top.named)
    <3>1. /\ next' = [next EXCEPT ![e] = IF repeats THEN Never ELSE @]
          /\ timed' = [timed EXCEPT ![e] = Waiting(@)]
          /\ stack' = Append(Front(stack), Running(top.named, e, left))
      BY <2>3 DEF NextEvent
    <3> HIDE DEF top, e, left, repeats
    <3>2. stack' = <<Running(top.named, e, left)>>
      BY <1>2, <3>1
    <3> QED
      BY <2>3, <3>1, <3>2
  <2> QED
    BY <2>1, <2>2, <2>3
<1>5. /\ Runs(stack) /\ seen = now
      /\ \A a \in Event : LeftOf(stack, a) = 0
      /\ \A a \in Event : Passed(stack, a) <=> a <= top.i
  <2>1. Runs(stack) /\ seen = now
    BY <1>1, <1>2 DEF Runs, Punctual
  <2> HIDE DEF top
  <2> QED
    BY <1>1, <1>2, <1>3, <2>1, EventsAreNumbers DEF LeftOf, Passed
<1>6. ASSUME NEW n \in Nat, stack' = <<Running(top.named, e, n)>>
      PROVE  /\ Runs(stack')
             /\ \A a \in Event : LeftOf(stack', a) = IF a = e THEN n ELSE 0
             /\ \A a \in Event : Passed(stack', a) <=> a <= e
  <2> DEFINE f == Running(top.named, e, n)
  <2>1. f.proc = "RunScriptEvents" /\ f.i = e /\ f.left = n
    BY DEF Running
  <2>2. e \in Nat
    BY <1>3
  <2> HIDE DEF e
  <2>3. stack' # <<>> /\ stack'[1] = f
    BY <1>6
  <2> HIDE DEF f
  <2>4. Runs(stack')
    BY <2>1, <2>3 DEF Runs
  <2> QED
    BY <2>1, <2>2, <2>3, <2>4, EventsAreNumbers DEF LeftOf, Passed
<1>7. \A a \in Event : a <= e <=> a <= top.i \/ a = e
  <2>1. top.i \in Nat
    BY <1>3
  <2> HIDE DEF top
  <2> QED
    BY <2>1, EventsAreNumbers
<1> HIDE DEF top
<1>8. CASE e > Len(Names) /\ stack' = <<>> /\ next' = next /\ timed' = timed
  <2>1. \A a \in Event : a <= top.i
    BY <1>3, <1>8, EventsAreNumbers
  <2>2. ~Runs(stack') /\ \A a \in Event : LeftOf(stack', a) = 0
    BY <1>8 DEF Runs, LeftOf
  <2>3. Promised'
    BY <1>1, <1>5, <1>8, <2>2 DEF Promised
  <2>4. Punctual'
    BY <1>1, <1>5, <1>8, <2>1, <2>2 DEF Punctual
  <2> QED
    BY <1>1, <1>8, <2>3, <2>4 DEF ScheduleNext, TypeOK, Time
<1>9. CASE /\ ~(e > Len(Names)) /\ Names[e] = Unnamed
           /\ stack' = <<Running(top.named, e, 0)>> /\ next' = next /\ timed' = timed
  <2>1. /\ Runs(stack') /\ \A a \in Event : LeftOf(stack', a) = 0
        /\ \A a \in Event : Passed(stack', a) <=> a <= top.i \/ a = e
    BY <1>6, <1>7, <1>9
  <2>2. e \in Event
    BY <1>3, <1>9, EventsAreNumbers
  <2>3. \A t \in ToSet(timed[e]) : FALSE
    <3>1. timed[e] = <<>>
      BY <1>9, <2>2 DEF Punctual
    <3> QED
      BY <3>1 DEF ToSet
  <2> HIDE DEF e
  <2>4. Promised'
    BY <1>1, <1>5, <1>9, <2>1 DEF Promised
  <2>5. Punctual'
    BY <1>1, <1>5, <1>9, <2>1, <2>3 DEF Punctual
  <2> QED
    BY <1>1, <1>9, <2>4, <2>5 DEF ScheduleNext, TypeOK, Time
<1>10. CASE /\ ~(e > Len(Names))
            /\ next' = [next EXCEPT ![e] = IF repeats THEN Never ELSE @]
            /\ timed' = [timed EXCEPT ![e] = Waiting(@)]
            /\ stack' = <<Running(top.named, e, left)>>
  <2>1. e \in Event
    BY <1>3, <1>10, EventsAreNumbers
  <2>2. /\ timed[e] \in Seq(Time) /\ now \in Nat /\ next[e] \in Int
        /\ next[e] \in Never .. MaxTime + MaxDelay
    BY <2>1, ScheduleTypes DEF TypeOK
  <2>3. /\ Waiting(timed[e]) \in Seq(Time)
        /\ Len(Due(timed[e])) \in Nat /\ Len(Waiting(timed[e])) \in Nat
        /\ Len(Due(timed[e])) + Len(Waiting(timed[e])) = Len(timed[e])
        /\ \A x : x \in ToSet(Waiting(timed[e])) <=> x \in ToSet(timed[e]) /\ x > now
    BY <2>2, DueOrWaiting
  <2>4. left \in Nat
    BY <2>3
  <2>5. /\ Runs(stack')
        /\ \A a \in Event : LeftOf(stack', a) = IF a = e THEN left ELSE 0
        /\ \A a \in Event : Passed(stack', a) <=> a <= top.i \/ a = e
    <3> HIDE DEF left
    <3> QED
      BY <1>6, <1>7, <1>10, <2>4
  <2>6. /\ next[e] # Never => next[e] > Never
        /\ Never \in Never .. MaxTime + MaxDelay
    BY <2>2, EventsAreNumbers DEF Never
  <2>7. /\ next'[e] = IF repeats THEN Never ELSE next[e]
        /\ timed'[e] = Waiting(timed[e])
        /\ \A a \in Event \ {e} : next'[a] = next[a] /\ timed'[a] = timed[a]
    <3> HIDE DEF e
    <3> QED
      BY <1>10, <2>1 DEF TypeOK
  <2>8. next' \in [Event -> Never .. MaxTime + MaxDelay] /\ timed' \in [Event -> Seq(Time)]
    <3> HIDE DEF e, repeats
    <3> QED
      BY <1>10, <2>2, <2>3, <2>6 DEF TypeOK, Time
  <2>9. \A a \in Event : owed[a] = Len(timed[a]) + IF next[a] = Never THEN 0 ELSE 1
    <3>1. ASSUME NEW a \in Event
          PROVE  owed[a] = Len(timed[a]) + IF next[a] = Never THEN 0 ELSE 1
      <4> DEFINE n == Len(timed[a])
                 m == IF next[a] = Never THEN 0 ELSE 1
      <4>1. owed[a] = n + m + 0 /\ n \in Nat /\ m \in Nat
        BY <1>5, ScheduleTypes DEF Promised
      <4> HIDE DEF n, m
      <4>2. owed[a] = n + m
        BY <4>1
      <4> QED
        BY <4>2 DEF n, m
    <3> QED
      BY <3>1
  <2>10. ASSUME NEW a \in Event
         PROVE  owed'[a] = Len(timed'[a]) + (IF next'[a] = Never THEN 0 ELSE 1) + LeftOf(stack', a)
    <3> HIDE DEF e
    <3>1. CASE a = e
      <4>1. LeftOf(stack', e) = left
        BY <2>1, <2>5
      <4>2. repeats => next[e] # Never
        BY <2>2 DEF Never
      <4> DEFINE d == Len(Due(timed[e]))
                 w == Len(Waiting(timed[e]))
      <4> HIDE DEF d, w
      <4>3. owed[e] = d + w + IF next[e] = Never THEN 0 ELSE 1
        BY <2>1, <2>3, <2>9 DEF d, w
      <4>4. left = d + IF repeats THEN 1 ELSE 0
        BY DEF d
      <4>5. Len(timed'[e]) = w /\ d \in Nat /\ w \in Nat
        BY <2>3, <2>7 DEF d, w
      <4> HIDE DEF left, repeats
      <4>6. owed[e] = w + (IF next'[e] = Never THEN 0 ELSE 1) + left
        <5>1. CASE repeats
          <6>1. next'[e] = Never /\ next[e] # Never
            BY <2>7, <4>2, <5>1
          <6> QED
            BY <4>3, <4>4, <4>5, <5>1, <6>1
        <5>2. CASE ~repeats
          <6>1. next'[e] = next[e]
            BY <2>7, <5>2
          <6> QED
            BY <4>3, <4>4, <4>5, <5>2, <6>1
        <5> QED
          BY <5>1, <5>2
      <4> QED
        BY <1>1, <3>1, <4>1, <4>5, <4>6
    <3>2. CASE a # e
      <4>1. LeftOf(stack', a) = 0
        BY <2>5, <3>2
      <4> DEFINE n == Len(timed[a])
                 m == IF next[a] = Never THEN 0 ELSE 1
      <4>2. owed'[a] = n + m /\ n \in Nat /\ m \in Nat
        BY <1>1, <2>9, ScheduleTypes
      <4>3. timed'[a] = timed[a] /\ next'[a] = next[a]
        BY <2>7, <3>2
      <4> HIDE DEF n, m
      <4>4. owed'[a] = n + m + 0
        BY <4>2
      <4> QED
        BY <4>1, <4>3, <4>4 DEF n, m
    <3> QED
      BY <3>1, <3>2
  <2>11. Promised'
    BY <2>10 DEF Promised
  <2>12. Punctual'
    <3> HIDE DEF e
    <3>1. ASSUME NEW a \in Event, Names[a] = Unnamed
          PROVE  timed'[a] = <<>>
      <4>1. timed[a] = <<>>
        BY <3>1 DEF Punctual
      <4>2. CASE a = e
        <5>1. Len(timed[e]) = 0
          BY <4>1, <4>2
        <5>2. Waiting(timed[e]) = <<>>
          BY <2>3, <5>1
        <5> QED
          BY <2>7, <4>2, <5>2
      <4> QED
        BY <2>7, <4>1, <4>2
    <3>2. ASSUME NEW a \in Event, Passed(stack', a), NEW t \in ToSet(timed'[a])
          PROVE  t > now
      <4>1. CASE a = e
        BY <2>3, <2>7, <3>2, <4>1
      <4>2. CASE a # e
        BY <1>5, <2>5, <2>7, <3>2, <4>2 DEF Punctual
      <4> QED
        BY <4>1, <4>2
    <3> QED
      BY <1>1, <1>5, <2>5, <3>1, <3>2 DEF Punctual
  <2> QED
    BY <1>1, <2>8, <2>11, <2>12 DEF ScheduleNext, TypeOK
<1> QED
  BY <1>4, <1>8, <1>9, <1>10

\* The frame begins one of the executions it has taken.
LEMMA RunDueSchedule ==
  ASSUME TypeOK, Registers, Promised, Punctual, RunDue
  PROVE  ScheduleNext
<1> DEFINE top == Last(stack)
           f == Running(top.named, top.i, top.left - 1)
<1>1. /\ stack # <<>> /\ top.proc = "RunScriptEvents" /\ top.left > 0
      /\ stack' = Front(stack) \o <<f, Executing(top.i)>>
      /\ owed' = [owed EXCEPT ![top.i] = @ - 1]
      /\ next' = next /\ timed' = timed /\ now' = now /\ seen' = seen
  BY DEF RunDue, Top, lifetime
<1>2. /\ Front(stack) = <<>> /\ stack[1] = top
      /\ top.i = 0 => top.left = 0
  BY <1>1, PopRunning DEF TypeOK, Registers
<1>3. top \in Frame
  BY <1>1, PoppedStack DEF TypeOK
<1>4. /\ f.proc = "RunScriptEvents" /\ f.i = top.i /\ f.left = top.left - 1
  BY DEF Running
<1> HIDE DEF top
<1>5. top.named \in BOOLEAN /\ top.i \in 0 .. Len(Names) /\ top.left \in Nat
  BY <1>1, <1>3, FrameFields
<1>6. top.i \in Event
  BY <1>1, <1>2, <1>5, EventsAreNumbers
<1>7. Runs(stack) /\ stack'[1] = f /\ stack' # <<>>
  <2>1. Runs(stack)
    BY <1>1, <1>2 DEF Runs
  <2> HIDE DEF f
  <2> DEFINE g == Executing(top.i)
  <2> HIDE DEF g
  <2>2. stack' = <<>> \o <<f, g>>
    BY <1>1, <1>2 DEF g
  <2>3. stack' = <<f, g>>
    BY <2>2
  <2> QED
    BY <2>1, <2>3
<1> HIDE DEF f
<1>8. Runs(stack')
  BY <1>4, <1>7 DEF Runs
<1>9. ASSUME NEW a \in Event
      PROVE  /\ Passed(stack', a) <=> Passed(stack, a)
             /\ LeftOf(stack, a) = IF a = top.i THEN top.left ELSE 0
             /\ LeftOf(stack', a) = IF a = top.i THEN top.left - 1 ELSE 0
  BY <1>2, <1>4, <1>7, <1>8 DEF Passed, LeftOf
<1>10. ASSUME NEW a \in Event
       PROVE  /\ owed'[a] \in Nat
              /\ owed'[a] = Len(timed[a]) + (IF next[a] = Never THEN 0 ELSE 1) + LeftOf(stack', a)
  <2> DEFINE n == Len(timed[a])
             m == IF next[a] = Never THEN 0 ELSE 1
  <2>1. owed[a] = n + m + LeftOf(stack, a) /\ n \in Nat /\ m \in Nat
    BY <1>1, <1>9, ScheduleTypes DEF Promised
  <2>2. owed'[a] = IF a = top.i THEN owed[a] - 1 ELSE owed[a]
    BY <1>1, <1>6 DEF TypeOK
  <2> HIDE DEF n, m
  <2>3. CASE a = top.i
    <3>1. LeftOf(stack, a) = top.left /\ LeftOf(stack', a) = top.left - 1
      BY <1>9, <2>3
    <3>2. owed'[a] = n + m + LeftOf(stack', a) /\ owed'[a] \in Nat
      BY <1>1, <1>5, <2>1, <2>2, <2>3, <3>1
    <3> QED
      BY <3>2 DEF n, m
  <2>4. CASE a # top.i
    <3>1. LeftOf(stack, a) = 0 /\ LeftOf(stack', a) = 0
      BY <1>9, <2>4
    <3>2. owed'[a] = n + m + LeftOf(stack', a) /\ owed'[a] \in Nat
      BY <2>1, <2>2, <2>4, <3>1
    <3> QED
      BY <3>2 DEF n, m
  <2> QED
    BY <2>3, <2>4
<1>11. Promised'
  BY <1>1, <1>10 DEF Promised
<1>12. Punctual'
  BY <1>1, <1>7, <1>8, <1>9 DEF Punctual
<1>13. owed' \in [Event -> Nat]
  <2>1. DOMAIN owed' = Event /\ owed' = [a \in Event |-> owed'[a]]
    BY <1>1 DEF TypeOK
  <2> QED
    BY <1>10, <2>1
<1> QED
  BY <1>1, <1>11, <1>12, <1>13 DEF ScheduleNext, TypeOK, Time

\* A delayed call is promised, for a time after this frame.
LEMMA CallEventTimedSchedule ==
  ASSUME TypeOK, Promised, Punctual, NEW e \in Event, NEW name \in Name,
         NEW delay \in 1 .. MaxDelay, CallEventTimed(e, name, delay)
  PROVE  ScheduleNext
<1> DEFINE called == {f \in Event : Names[f] = name}
<1>1. /\ timed' = [f \in Event |-> IF f \in called THEN Append(timed[f], now + delay) ELSE timed[f]]
      /\ owed' = [f \in Event |-> IF f \in called THEN owed[f] + 1 ELSE owed[f]]
      /\ next' = next /\ stack' = stack /\ now' = now /\ seen' = seen
  BY DEF CallEventTimed, lifetime
<1>2. now + delay \in Time /\ now + delay > seen
  BY EventsAreNumbers DEF TypeOK, Punctual, Time, Never
<1>3. ASSUME NEW a \in Event
      PROVE  /\ timed'[a] = IF a \in called THEN Append(timed[a], now + delay) ELSE timed[a]
             /\ owed'[a] = IF a \in called THEN owed[a] + 1 ELSE owed[a]
             /\ timed[a] \in Seq(Time) /\ Len(timed[a]) \in Nat /\ owed[a] \in Nat
  BY <1>1, ScheduleTypes
<1>4. timed' \in [Event -> Seq(Time)] /\ owed' \in [Event -> Nat]
  <2>1. ASSUME NEW a \in Event
        PROVE  Append(timed[a], now + delay) \in Seq(Time) /\ owed[a] + 1 \in Nat
    BY <1>2, <1>3
  <2> HIDE DEF called
  <2> QED
    BY <1>1, <1>3, <2>1
<1>5. ASSUME NEW a \in Event
      PROVE  /\ owed'[a] = Len(timed'[a]) + (IF next[a] = Never THEN 0 ELSE 1) + LeftOf(stack, a)
             /\ Names[a] = Unnamed => timed'[a] = <<>>
             /\ Passed(stack, a) => \A t \in ToSet(timed'[a]) : t > seen
  <2>1. CASE a \in called
    <3>1. timed'[a] = Append(timed[a], now + delay) /\ owed'[a] = owed[a] + 1
      BY <1>3, <2>1
    <3>2. Len(timed'[a]) = Len(timed[a]) + 1
      BY <1>2, <1>3, <3>1
    <3>3. Names[a] # Unnamed
      BY <2>1 DEF Name
    <3>4. \A t \in ToSet(timed'[a]) : t \in ToSet(timed[a]) \/ t = now + delay
      BY <1>2, <1>3, <3>1 DEF ToSet
    <3> DEFINE n == Len(timed[a])
               m == (IF next[a] = Never THEN 0 ELSE 1)
    <3>5. owed[a] = n + m + LeftOf(stack, a) /\ n \in Nat /\ m \in Nat
      BY <1>3 DEF Promised
    <3>6. LeftOf(stack, a) \in Nat
      BY LeftIsNumber
    <3> HIDE DEF n, m
    <3>7. owed'[a] = (n + 1) + m + LeftOf(stack, a)
      BY <3>1, <3>5, <3>6
    <3>8. owed'[a] = Len(timed'[a]) + m + LeftOf(stack, a)
      BY <3>2, <3>7 DEF n
    <3>9. Passed(stack, a) => \A t \in ToSet(timed'[a]) : t > seen
      BY <1>2, <3>4 DEF Punctual
    <3> QED
      BY <3>3, <3>8, <3>9 DEF m
  <2>2. CASE a \notin called
    BY <1>3, <2>2 DEF Promised, Punctual
  <2> QED
    BY <2>1, <2>2
<1>6. Promised'
  BY <1>1, <1>5 DEF Promised
<1>7. Punctual'
  BY <1>1, <1>5 DEF Punctual
<1> QED
  BY <1>1, <1>4, <1>6, <1>7 DEF ScheduleNext, TypeOK

\* A repeat is promised, or one that is promised is put off.
LEMMA RepeatDelaySchedule ==
  ASSUME TypeOK, Promised, Punctual, NEW e \in Event,
         NEW delay \in 0 .. MaxDelay, RepeatDelay(e, delay)
  PROVE  ScheduleNext
<1>1. /\ next' = [next EXCEPT ![e] = now + delay]
      /\ owed' = [owed EXCEPT ![e] = IF next[e] = Never THEN @ + 1 ELSE @]
      /\ timed' = timed /\ stack' = stack /\ now' = now /\ seen' = seen
  BY DEF RepeatDelay, lifetime
<1>2. now + delay \in Never .. MaxTime + MaxDelay /\ now + delay # Never
  BY EventsAreNumbers DEF TypeOK, Never
<1>3. next' \in [Event -> Never .. MaxTime + MaxDelay] /\ owed' \in [Event -> Nat]
  BY <1>1, <1>2 DEF TypeOK
<1>4. /\ next'[e] = now + delay
      /\ owed'[e] = IF next[e] = Never THEN owed[e] + 1 ELSE owed[e]
      /\ \A a \in Event \ {e} : next'[a] = next[a] /\ owed'[a] = owed[a]
  BY <1>1 DEF TypeOK
<1>5. owed'[e] = Len(timed[e]) + 1 + LeftOf(stack, e)
  <2> DEFINE n == Len(timed[e])
             l == LeftOf(stack, e)
  <2>1. n \in Nat /\ owed[e] \in Nat
    BY ScheduleTypes
  <2>2. l \in Int
    BY LeftIsNumber
  <2>3. owed[e] = n + (IF next[e] = Never THEN 0 ELSE 1) + l
    BY DEF Promised
  <2> HIDE DEF n, l
  <2>4. owed'[e] = n + 1 + l
    <3>1. CASE next[e] = Never
      BY <1>4, <2>1, <2>2, <2>3, <3>1
    <3>2. CASE next[e] # Never
      BY <1>4, <2>1, <2>2, <2>3, <3>2
    <3> QED
      BY <3>1, <3>2
  <2> QED
    BY <2>4 DEF n, l
<1>6. ASSUME NEW a \in Event
      PROVE  owed'[a] = Len(timed[a]) + (IF next'[a] = Never THEN 0 ELSE 1) + LeftOf(stack, a)
  <2>1. CASE a = e
    BY <1>2, <1>4, <1>5, <2>1
  <2>2. CASE a # e
    BY <1>4, <2>2 DEF Promised
  <2> QED
    BY <2>1, <2>2
<1>7. Promised'
  BY <1>1, <1>6 DEF Promised
<1>8. Punctual'
  BY <1>1 DEF Punctual
<1> QED
  BY <1>1, <1>3, <1>7, <1>8 DEF ScheduleNext, TypeOK, Time

LEMMA EventStepSchedule ==
  ASSUME TypeOK, Promised, Punctual, NEW e \in Event, EventStep(e)
  PROVE  ScheduleNext
<1>1. SameRun(stack, stack)
  BY DEF SameRun
<1>2. ASSUME NEW name \in Name, NEW loops \in 1 .. MaxLoops, CallEvent(e, name, loops)
      PROVE  ScheduleNext
  <2>1. SameRun(stack, stack') /\ UNCHANGED schedule /\ UNCHANGED <<now, seen>>
    BY <1>2, CallsSameRun DEF CallEvent, lifetime
  <2> QED
    BY <2>1, QuietStep
<1>3. ASSUME NEW name \in Name, CallExternal(e, name)
      PROVE  ScheduleNext
  <2>1. SameRun(stack, stack') /\ UNCHANGED schedule /\ UNCHANGED <<now, seen>>
    BY <1>3, CallsSameRun DEF CallExternal, lifetime
  <2> QED
    BY <2>1, QuietStep
<1>4. ASSUME NEW effect \in BOOLEAN, RemoveScript(e, effect)
      PROVE  ScheduleNext
  <2>1. /\ UNCHANGED schedule /\ UNCHANGED <<now, seen>>
        /\ stack' = IF effect THEN Append(stack, ByName(EffectDie, 0, current)) ELSE stack
    BY <1>4 DEF RemoveScript
  <2>2. SameRun(stack, stack')
    BY <1>1, <2>1, CallsSameRun, EventsAreNumbers
  <2> QED
    BY <2>1, <2>2, QuietStep
<1>5. ASSUME Exit(e) \/ BreakLoop(e) \/ ResetLoop(e)
      PROVE  ScheduleNext
  <2>1. stack' = stack /\ UNCHANGED schedule /\ UNCHANGED <<now, seen>>
    BY <1>5 DEF Exit, BreakLoop, ResetLoop, lifetime
  <2> QED
    BY <1>1, <2>1, QuietStep
<1>6. ASSUME NEW delay \in 0 .. MaxDelay, RepeatDelay(e, delay)
      PROVE  ScheduleNext
  BY <1>6, RepeatDelaySchedule
<1>7. ASSUME NEW name \in Name, NEW delay \in 1 .. MaxDelay, CallEventTimed(e, name, delay)
      PROVE  ScheduleNext
  BY <1>7, CallEventTimedSchedule
<1> QED
  BY <1>2, <1>3, <1>4, <1>5, <1>6, <1>7 DEF EventStep

\* Every step keeps the promises.
LEMMA ScheduleStep == TypeOK /\ Registers /\ Promised /\ Punctual /\ [Next]_vars => ScheduleNext
<1> SUFFICES ASSUME TypeOK, Registers, Promised, Punctual, [Next]_vars
             PROVE  ScheduleNext
  OBVIOUS
<1>1. ASSUME UNCHANGED vars
      PROVE  ScheduleNext
  BY <1>1, QuietStep DEF vars, schedule, SameRun
<1>2. ASSUME Tick
      PROVE  ScheduleNext
  BY <1>2, TickSchedule
<1>3. ASSUME NEW named \in BOOLEAN, RunScripts(named)
      PROVE  ScheduleNext
  BY <1>3, RunsSchedule
<1>4. ASSUME NEW name \in Name, CallScriptEvent(name)
      PROVE  ScheduleNext
  <2>1. /\ stack = <<>> /\ stack' = <<ByName(name, 0, current)>>
        /\ UNCHANGED schedule /\ UNCHANGED <<now, seen>>
    BY <1>4 DEF CallScriptEvent, lifetime
  <2>2. stack' = Append(stack, ByName(name, 0, current))
    BY <2>1
  <2>3. SameRun(stack, stack')
    BY <2>2, CallsSameRun
  <2> QED
    BY <2>1, <2>3, QuietStep
<1>5. ASSUME NextEvent
      PROVE  ScheduleNext
  BY <1>5, NextEventSchedule
<1>6. ASSUME RunDue
      PROVE  ScheduleNext
  BY <1>6, RunDueSchedule
<1>7. ASSUME NextOfName
      PROVE  ScheduleNext
  <2>1. SameRun(stack, stack')
    BY <1>7, NextOfNameSameRun
  <2> QED
    BY <1>7, <2>1, QuietStep DEF NextOfName, lifetime
<1>8. ASSUME LoopAgain
      PROVE  ScheduleNext
  <2>1. SameRun(stack, stack')
    BY <1>8, LoopAgainSameRun
  <2>2. UNCHANGED schedule /\ UNCHANGED <<now, seen>>
    BY <1>8 DEF LoopAgain, lifetime
  <2> QED
    BY <2>1, <2>2, QuietStep
<1>9. ASSUME Return
      PROVE  ScheduleNext
  <2>1. /\ stack # <<>> /\ Last(stack).proc = "Script_ExecuteEvent" /\ stack' = Front(stack)
        /\ UNCHANGED schedule /\ UNCHANGED <<now, seen>>
    BY <1>9 DEF Return, Top, lifetime
  <2>2. SameRun(stack, stack')
    BY <2>1, PopSameRun DEF TypeOK
  <2> QED
    BY <2>1, <2>2, QuietStep
<1>10. ASSUME NEW e \in Event, EventStep(e)
       PROVE  ScheduleNext
  BY <1>10, EventStepSchedule
<1> QED
  BY <1>1, <1>2, <1>3, <1>4, <1>5, <1>6, <1>7, <1>8, <1>9, <1>10 DEF Next
-----------------------------------------------------------------------------
(* The theorems.                                                            *)

\* What the registers, the schedule and the types keep together.
Scheduled == TypeOK /\ Registers /\ Promised /\ Punctual

\* The types that need no invariant.
LEMMA OthersStep ==
  ASSUME TypeOK, [Next]_vars
  PROVE  /\ now' \in 0 .. MaxTime /\ seen' \in Never .. MaxTime
         /\ stop' \subseteq Event
         /\ breakLoop' \in BOOLEAN /\ resetLoop' \in {NoReset, -1}
         /\ removed' \in BOOLEAN /\ alive' \in BOOLEAN
<1> USE EventsAreNumbers DEF TypeOK, Never
<1>1. CASE UNCHANGED vars
  BY <1>1 DEF vars
<1>2. CASE Tick
  BY <1>2 DEF Tick, registers
<1>3. ASSUME NEW named \in BOOLEAN, RunScripts(named)
      PROVE  /\ now' \in 0 .. MaxTime /\ seen' \in Never .. MaxTime
             /\ stop' \subseteq Event
             /\ breakLoop' \in BOOLEAN /\ resetLoop' \in {NoReset, -1}
             /\ removed' \in BOOLEAN /\ alive' \in BOOLEAN
  <2>1. seen' \in {seen, now}
    BY <1>3 DEF RunScripts
  <2>2. alive' \in {FALSE, alive}
    BY <1>3 DEF RunScripts
  <2>3. UNCHANGED <<now, stop, breakLoop, resetLoop, removed>>
    BY <1>3 DEF RunScripts, registers
  <2>4. seen' \in Never .. MaxTime
    BY <2>1
  <2> QED
    BY <2>2, <2>3, <2>4
<1>4. CASE \E name \in Name : CallScriptEvent(name)
  BY <1>4 DEF CallScriptEvent, registers, lifetime
<1>5. CASE NextEvent
  BY <1>5 DEF NextEvent, registers, lifetime
<1>6. CASE RunDue
  BY <1>6 DEF RunDue, lifetime
<1>7. CASE NextOfName
  BY <1>7 DEF NextOfName, lifetime
<1>8. CASE LoopAgain
  BY <1>8 DEF LoopAgain, lifetime
<1>9. CASE Return
  BY <1>9 DEF Return, StopsLeft, lifetime
<1>10. ASSUME NEW e \in Event, EventStep(e)
       PROVE  /\ now' \in 0 .. MaxTime /\ seen' \in Never .. MaxTime
              /\ stop' \subseteq Event
              /\ breakLoop' \in BOOLEAN /\ resetLoop' \in {NoReset, -1}
              /\ removed' \in BOOLEAN /\ alive' \in BOOLEAN
  BY <1>10 DEF EventStep, Exit, BreakLoop, ResetLoop, RemoveScript, RepeatDelay, CallEvent,
               CallExternal, CallEventTimed, registers, lifetime
<1> QED
  BY <1>1, <1>2, <1>3, <1>4, <1>5, <1>6, <1>7, <1>8, <1>9, <1>10 DEF Next

LEMMA ScheduledInit == Init => Scheduled
<1> SUFFICES ASSUME Init
             PROVE  Scheduled
  OBVIOUS
<1>1. /\ stack = <<>> /\ current = 0 /\ iteration = 0 /\ now = 0 /\ seen = Never
      /\ \A e \in Event : /\ timed[e] = <<>>
                          /\ next[e] = IF Names[e] = Unnamed THEN 0 ELSE Never
                          /\ owed[e] = IF Names[e] = Unnamed THEN 1 ELSE 0
  BY DEF Init
<1>2. TypeOK
  <2>1. now \in 0 .. MaxTime /\ seen \in Never .. MaxTime
    BY <1>1, EventsAreNumbers DEF Never
  <2>2. {0, Never} \subseteq Never .. MaxTime + MaxDelay
    BY EventsAreNumbers DEF Never
  <2>3. next \in [Event -> Never .. MaxTime + MaxDelay]
    BY <2>2 DEF Init
  <2>4. timed \in [Event -> Seq(0 .. MaxTime + MaxDelay)] /\ owed \in [Event -> Nat]
    BY DEF Init
  <2>5. stack \in Seq(Frame) /\ stop \subseteq Event /\ current \in Event \cup {0} /\ iteration \in Nat
    BY DEF Init
  <2> QED
    BY <2>1, <2>3, <2>4, <2>5 DEF Init, TypeOK
<1>3. Registers
  BY <1>1 DEF Registers, Registered, Standing, Current, Innermost
<1>4. ~Runs(stack) /\ \A e \in Event : LeftOf(stack, e) = 0
  BY <1>1 DEF Runs, LeftOf
<1>5. Promised
  <2>1. ASSUME NEW e \in Event
        PROVE  owed[e] = Len(timed[e]) + (IF next[e] = Never THEN 0 ELSE 1) + LeftOf(stack, e)
    <3>1. Len(timed[e]) = 0 /\ LeftOf(stack, e) = 0
      BY <1>1, <1>4
    <3>2. owed[e] = IF next[e] = Never THEN 0 ELSE 1
      BY <1>1 DEF Never
    <3> QED
      BY <3>1, <3>2
  <2> QED
    BY <2>1 DEF Promised
<1>6. Punctual
  BY <1>1, <1>4 DEF Punctual, ToSet, Never
<1> QED
  BY <1>2, <1>3, <1>5, <1>6 DEF Scheduled

LEMMA ScheduledStep == Scheduled /\ [Next]_vars => Scheduled'
<1> SUFFICES ASSUME Scheduled, [Next]_vars
             PROVE  Scheduled'
  OBVIOUS
<1>1. RegistersNext
  BY RegistersStep DEF Scheduled
<1>2. ScheduleNext
  BY ScheduleStep DEF Scheduled
<1>3. /\ now' \in 0 .. MaxTime /\ seen' \in Never .. MaxTime
      /\ stop' \subseteq Event
      /\ breakLoop' \in BOOLEAN /\ resetLoop' \in {NoReset, -1}
      /\ removed' \in BOOLEAN /\ alive' \in BOOLEAN
  BY OthersStep DEF Scheduled
<1>4. TypeOK'
  BY <1>1, <1>2, <1>3 DEF TypeOK, RegistersNext, ScheduleNext, Time
<1> QED
  BY <1>1, <1>2, <1>4 DEF Scheduled, Registers, RegistersNext, ScheduleNext

\* Every register, schedule and frame on the C++ stack of a script has its
\* type whatever its events call.
THEOREM TypeCorrect == Spec => []TypeOK
<1>1. Scheduled => TypeOK
  BY DEF Scheduled
<1> QED
  BY <1>1, ScheduledInit, ScheduledStep, PTL DEF Spec

\* m.CurrentEvent and m_Iteration belong to the event that is running and to
\* the innermost loop around it, for every script and every depth of calls.
THEOREM RegistersRestored == Spec => []RegistersBelongToCaller
<1>1. ASSUME Scheduled
      PROVE  RegistersBelongToCaller
  <2>1. stack \in Seq(Frame) /\ Current(stack, current) /\ Innermost(stack, Len(stack), iteration)
    BY <1>1 DEF Scheduled, TypeOK, Registers, Registered
  <2>2. stack = <<>> => current = 0
    BY <2>1 DEF Current
  <2>3. Top("Script_ExecuteEvent") => current = Last(stack).event
    BY <2>1 DEF Current, Top
  <2>4. CASE iteration = 0 /\ \A j \in 1 .. Len(stack) : stack[j].proc # "CallEvent"
    BY <2>2, <2>3, <2>4 DEF RegistersBelongToCaller, Loops
  <2>5. CASE \E j \in 1 .. Len(stack) :
               /\ stack[j].proc = "CallEvent" /\ iteration = stack[j].i
               /\ \A l \in j + 1 .. Len(stack) : stack[l].proc # "CallEvent"
    <3>1. PICK j \in 1 .. Len(stack) :
                 /\ stack[j].proc = "CallEvent" /\ iteration = stack[j].i
                 /\ \A l \in j + 1 .. Len(stack) : stack[l].proc # "CallEvent"
      BY <2>5
    <3>2. j \in Loops /\ \A k \in Loops : k \in Int /\ k <= j
      BY <3>1 DEF Loops
    <3>3. Max(Loops) = j
      BY <3>2 DEF Max
    <3>4. iteration = IF Loops = {} THEN 0 ELSE stack[Max(Loops)].i
      BY <3>1, <3>2, <3>3
    <3> QED
      BY <2>2, <2>3, <3>4 DEF RegistersBelongToCaller
  <2> QED
    BY <2>1, <2>4, <2>5 DEF Innermost
<1> QED
  BY <1>1, ScheduledInit, ScheduledStep, PTL DEF Spec

\* A delayed call or a repeat runs its event once, in the first frame at or
\* after its time: TimedExecutions and fNextExecutionTime account for every
\* execution promised, whatever the events run from them schedule.
THEOREM DelayedCallsKept == Spec => []DelayedCallsRunOnce
<1>1. ASSUME Scheduled
      PROVE  DelayedCallsRunOnce
  <2> SUFFICES ASSUME stack = <<>>, NEW e \in Event
               PROVE  /\ \A t \in ToSet(timed[e]) : t > seen
                      /\ owed[e] = Len(timed[e]) + IF next[e] = Never THEN 0 ELSE 1
    BY DEF DelayedCallsRunOnce
  <2>1. ~Runs(stack) /\ LeftOf(stack, e) = 0 /\ Passed(stack, e)
    BY DEF Runs, LeftOf, Passed
  <2>2. \A t \in ToSet(timed[e]) : t > seen
    BY <1>1, <2>1 DEF Scheduled, Punctual
  <2>3. owed[e] = Len(timed[e]) + IF next[e] = Never THEN 0 ELSE 1
    <3> DEFINE n == Len(timed[e])
               m == IF next[e] = Never THEN 0 ELSE 1
    <3>1. owed[e] = n + m + 0 /\ n \in Nat /\ m \in Nat
      BY <1>1, <2>1, ScheduleTypes DEF Scheduled, Promised
    <3> HIDE DEF n, m
    <3>2. owed[e] = n + m
      BY <3>1
    <3> QED
      BY <3>2 DEF n, m
  <2> QED
    BY <2>2, <2>3
<1> QED
  BY <1>1, ScheduledInit, ScheduledStep, PTL DEF Spec

\* bFullStop is set only for the event that runs exit, until it returns.
THEOREM ExitStopsItself == Spec => []ExitIsOwn
<1>1. Init => ExitIsOwn
  BY DEF Init, ExitIsOwn
<1>2. ASSUME TypeOK, ExitIsOwn, [Next]_vars
      PROVE  ExitIsOwn'
  <2>1. ASSUME ~Top("Script_ExecuteEvent")
        PROVE  stop = {}
    BY <1>2, <2>1 DEF ExitIsOwn
  <2>2. ASSUME stop' = {}
        PROVE  ExitIsOwn'
    BY <2>2 DEF ExitIsOwn
  <2>3. CASE UNCHANGED vars
    BY <1>2, <2>3 DEF vars, ExitIsOwn, Top
  <2>4. CASE Tick \/ (\E named \in BOOLEAN : RunScripts(named)) \/ (\E name \in Name : CallScriptEvent(name))
    BY <2>1, <2>2, <2>4 DEF Tick, RunScripts, CallScriptEvent, Top
  <2>5. CASE NextEvent \/ RunDue \/ NextOfName \/ LoopAgain
    BY <2>1, <2>2, <2>5 DEF NextEvent, RunDue, NextOfName, LoopAgain, Top
  <2>6. CASE Return
    BY <1>2, <2>2, <2>6 DEF Return, StopsLeft, ExitIsOwn
  <2>7. ASSUME NEW e \in Event, EventStep(e)
        PROVE  ExitIsOwn'
    <3>1. Top("Script_ExecuteEvent") /\ e = Last(stack).event /\ e \notin stop
      BY <2>7 DEF EventStep, Exit, BreakLoop, ResetLoop, RemoveScript, RepeatDelay, CallEvent,
                  CallExternal, CallEventTimed, Executes
    <3>2. stop = {}
      BY <1>2, <3>1 DEF ExitIsOwn
    <3>3. CASE Exit(e)
      BY <3>1, <3>2, <3>3 DEF Exit, ExitIsOwn, Top
    <3>4. CASE ~Exit(e)
      BY <2>2, <2>7, <3>2, <3>4 DEF EventStep, BreakLoop, ResetLoop, RemoveScript, RepeatDelay,
                  CallEvent, CallExternal, CallEventTimed
    <3> QED
      BY <3>3, <3>4
  <2> QED
    BY <1>2, <2>3, <2>4, <2>5, <2>6, <2>7 DEF Next
<1> QED
  BY <1>1, <1>2, TypeCorrect, PTL DEF Spec
=============================================================================
