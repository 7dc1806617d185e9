----------------------- MODULE RequestManager_proofs -----------------------
(* Theorems about RequestManager, for every set of requests and every     *)
(* value of the other constants.                                           *)
EXTENDS RequestManager, WellFoundedInduction, TLAPS

\* Every nonempty set of numbers has a least one.
LEMMA NatLeast ==
  ASSUME NEW T \in SUBSET Nat, T # {}
  PROVE  \E m \in T : \A k \in T : m <= k
<1>1. IsWellFoundedOn(OpToRel(<, Nat), Nat)
  BY NatLessThanWellFounded
<1>2. PICK m \in T : \A k \in T : ~(<<k, m>> \in OpToRel(<, Nat))
  BY <1>1, WFMin
<1>3. \A k \in T : k \in Nat /\ m \in Nat /\ ~(k < m)
  BY <1>2 DEF OpToRel
<1> QED
  BY <1>3

\* vector::erase: those behind the element move up.
LEMMA RemoveAtShifts ==
  ASSUME NEW S, NEW v \in Seq(S), NEW i \in 1 .. Len(v)
  PROVE  /\ RemoveAt(v, i) \in Seq(S)
         /\ Len(RemoveAt(v, i)) = Len(v) - 1
         /\ \A j \in 1 .. Len(v) - 1 :
              RemoveAt(v, i)[j] = IF j < i THEN v[j] ELSE v[j + 1]
<1> DEFINE a == SubSeq(v, 1, i - 1)
           b == SubSeq(v, i + 1, Len(v))
<1>1. a \in Seq(S) /\ Len(a) = i - 1 /\ \A j \in 1 .. i - 1 : a[j] = v[j]
  OBVIOUS
<1>2. b \in Seq(S) /\ Len(b) = Len(v) - i /\ \A j \in 1 .. Len(v) - i : b[j] = v[i + j]
  OBVIOUS
<1> HIDE DEF a, b
<1>3. RemoveAt(v, i) = a \o b
  BY DEF RemoveAt, a, b
<1>4. ASSUME NEW j \in 1 .. Len(v) - 1
      PROVE  (a \o b)[j] = IF j < i THEN v[j] ELSE v[j + 1]
  <2>1. CASE j < i
    BY <1>1, <1>2, <2>1
  <2>2. CASE ~(j < i)
    <3>1. (a \o b)[j] = b[j - Len(a)]
      BY <1>1, <1>2, <2>2
    <3> QED
      BY <1>1, <1>2, <2>2, <3>1
  <2> QED
    BY <2>1, <2>2
<1>5. a \o b \in Seq(S)
  BY <1>1, <1>2
<1>6. Len(a \o b) = Len(a) + Len(b)
  <2>1. a \in Seq(S) /\ b \in Seq(S)
    BY <1>1, <1>2
  <2> QED
    BY <2>1
<1>7. Len(a) + Len(b) = Len(v) - 1
  BY <1>1, <1>2
<1> QED
  BY <1>3, <1>4, <1>5, <1>6, <1>7
Distinct(v) == \A i, j \in 1 .. Len(v) : v[i] = v[j] => i = j

\* x stands somewhere in v.
Holds(v, x) == \E j \in 1 .. Len(v) : v[j] = x

LEMMA RemoveAtRemoves ==
  ASSUME NEW S, NEW v \in Seq(S), Distinct(v), NEW i \in 1 .. Len(v),
         NEW u, u = RemoveAt(v, i)
  PROVE  /\ Distinct(u)
         /\ \A x : Holds(u, x) <=> Holds(v, x) /\ x # v[i]
<1> DEFINE n == Len(v)
<1>1. n \in Nat /\ i \in 1 .. n /\ Len(u) = n - 1
  BY RemoveAtShifts
<1>2. \A j \in 1 .. n - 1 : u[j] = IF j < i THEN v[j] ELSE v[j + 1]
  BY RemoveAtShifts
<1>3. \A a, b \in 1 .. n : v[a] = v[b] => a = b
  BY DEF Distinct
<1> HIDE DEF n
<1>4. ASSUME NEW a \in 1 .. n - 1, NEW b \in 1 .. n - 1, u[a] = u[b]
      PROVE  a = b
  <2> DEFINE c == IF a < i THEN a ELSE a + 1
             d == IF b < i THEN b ELSE b + 1
  <2>1. c \in 1 .. n /\ d \in 1 .. n /\ u[a] = v[c] /\ u[b] = v[d]
    BY <1>1, <1>2
  <2>2. c = d
    <3> HIDE DEF c, d
    <3> QED
      BY <1>3, <1>4, <2>1
  <2> QED
    BY <1>1, <2>2
<1>5. ASSUME NEW x, NEW a \in 1 .. n - 1, u[a] = x
      PROVE  (\E j \in 1 .. n : v[j] = x) /\ x # v[i]
  <2> DEFINE c == IF a < i THEN a ELSE a + 1
  <2>1. c \in 1 .. n /\ u[a] = v[c] /\ c # i
    BY <1>1, <1>2
  <2> HIDE DEF c
  <2> QED
    BY <1>1, <1>3, <1>5, <2>1
<1>6. ASSUME NEW x, NEW a \in 1 .. n, v[a] = x, x # v[i]
      PROVE  \E j \in 1 .. n - 1 : u[j] = x
  <2> DEFINE c == IF a < i THEN a ELSE a - 1
  <2>1. a # i
    BY <1>6
  <2>2. c \in 1 .. n - 1 /\ u[c] = v[a]
    BY <1>1, <1>2, <2>1
  <2> HIDE DEF c
  <2> QED
    BY <1>6, <2>2
<1>7. Distinct(u)
  BY <1>1, <1>4 DEF Distinct
<1>8. \A x : Holds(u, x) <=> Holds(v, x) /\ x # v[i]
  <2> TAKE x
  <2>1. Holds(u, x) <=> \E j \in 1 .. n - 1 : u[j] = x
    BY <1>1 DEF Holds
  <2>2. Holds(v, x) <=> \E j \in 1 .. n : v[j] = x
    BY DEF Holds, n
  <2> QED
    BY <1>5, <1>6, <2>1, <2>2
<1> QED
  BY <1>7, <1>8
-----------------------------------------------------------------------------
(* What a round of the loop of Think does to the object it looks at.       *)

VisitedObject(o, suppressResp, failed) ==
  [life     |-> IF o.state = FINISHED THEN "deleted" ELSE o.life,
   state    |-> IF o.state # QUEUED THEN o.state ELSE IF failed THEN FINISHED ELSE EXECUTED,
   handle   |-> IF o.state # QUEUED THEN o.handle ELSE IF failed THEN FALSE ELSE TRUE,
   suppress |-> suppressResp]

VisitedCall(o, c, failed) == IF o.state = QUEUED /\ ~failed THEN "pending" ELSE c

LoopState == [v : Seq(Req), obj : [Req -> Object], call : [Req -> Call]]

LEMMA StatesDiffer == QUEUED # EXECUTED /\ QUEUED # FINISHED /\ EXECUTED # FINISHED
BY DEF QUEUED, EXECUTED, FINISHED

LEMMA VisitedTypes ==
  ASSUME NEW o \in Object, NEW c \in Call, NEW suppressResp \in BOOLEAN, NEW failed
  PROVE  VisitedObject(o, suppressResp, failed) \in Object /\ VisitedCall(o, c, failed) \in Call
BY DEF VisitedObject, VisitedCall, Object, Call, RequestState

LEMMA VisitEffect ==
  ASSUME NEW s \in LoopState, NEW i \in 1 .. Len(s.v), NEW suppressResp \in BOOLEAN, NEW unsent,
         NEW r, r = s.v[i], NEW t, t = Visit(s, i, suppressResp, unsent)
  PROVE  /\ r \in Req /\ t \in LoopState
         /\ t.v = IF s.obj[r].state = FINISHED THEN RemoveAt(s.v, i) ELSE s.v
         /\ t.obj[r] = VisitedObject(s.obj[r], suppressResp, r \in unsent)
         /\ t.call[r] = VisitedCall(s.obj[r], s.call[r], r \in unsent)
         /\ \A x \in Req \ {r} : t.obj[x] = s.obj[x] /\ t.call[x] = s.call[x]
<1> DEFINE o == s.obj[r]
           p == [o EXCEPT !.suppress = suppressResp]
           w == [s EXCEPT !.obj[r].suppress = suppressResp]
<1>1. r \in Req /\ o \in Object /\ o.state \in RequestState
  BY DEF LoopState, Object
<1>2. /\ w \in LoopState /\ w.v = s.v /\ w.call = s.call /\ w.obj[r] = p
      /\ \A x \in Req \ {r} : w.obj[x] = s.obj[x]
  <2>1. p \in Object
    BY <1>1 DEF Object
  <2>2. w.v = s.v /\ w.call = s.call /\ w.obj = [s.obj EXCEPT ![r] = p]
    BY <1>1 DEF LoopState
  <2>3. w \in LoopState
    BY <1>1, <2>1, <2>2 DEF LoopState
  <2> QED
    BY <1>1, <2>2, <2>3 DEF LoopState
<1> HIDE DEF o
<1>p. /\ p \in Object
      /\ p = [life |-> o.life, state |-> o.state, handle |-> o.handle, suppress |-> suppressResp]
  BY <1>1 DEF Object
<1> HIDE DEF w, p
<1>3. ASSUME NEW u, u = VisitedObject(o, suppressResp, r \in unsent)
      PROVE  u \in Object
  BY <1>1, <1>3 DEF VisitedObject, Object, RequestState
<1>4. CASE o.state = FINISHED
  <2>1. t = [w EXCEPT !.v = RemoveAt(w.v, i), !.obj[r].life = "deleted"]
    BY <1>4, StatesDiffer DEF Visit, w, o
  <2>2. /\ t.v = RemoveAt(s.v, i) /\ t.call = s.call
        /\ t.obj[r] = [p EXCEPT !.life = "deleted"]
        /\ \A x \in Req \ {r} : t.obj[x] = s.obj[x]
    BY <1>1, <1>2, <2>1 DEF LoopState
  <2>3. t.obj[r] = VisitedObject(o, suppressResp, r \in unsent)
    <3>1. PICK u : u = t.obj[r]
      OBVIOUS
    <3>2. u = [life |-> "deleted", state |-> o.state, handle |-> o.handle,
               suppress |-> suppressResp]
      BY <1>p, <2>2, <3>1 DEF Object
    <3> QED
      BY <1>4, <3>1, <3>2, StatesDiffer DEF VisitedObject
  <2>4. t \in LoopState
    <3>1. RemoveAt(s.v, i) \in Seq(Req)
      BY RemoveAtShifts DEF LoopState
    <3>2. t.obj = [w.obj EXCEPT ![r] = t.obj[r]] /\ t.obj[r] \in Object
      BY <1>1, <1>2, <1>3, <2>1, <2>3 DEF LoopState
    <3>3. t.obj \in [Req -> Object] /\ t.call \in [Req -> Call] /\ t.v \in Seq(Req)
      BY <1>1, <1>2, <2>2, <3>1, <3>2 DEF LoopState
    <3> QED
      BY <1>2, <2>1, <3>3 DEF LoopState
  <2>5. VisitedCall(o, s.call[r], r \in unsent) = s.call[r]
    BY <1>4, StatesDiffer DEF VisitedCall
  <2> QED
    BY <1>1, <1>4, <2>2, <2>3, <2>4, <2>5 DEF o
<1>5. CASE o.state = EXECUTED
  <2>1. t = w
    BY <1>5, StatesDiffer DEF Visit, w, o
  <2>2. VisitedCall(o, s.call[r], r \in unsent) = s.call[r]
    BY <1>5, StatesDiffer DEF VisitedCall
  <2>3. t.obj[r] = VisitedObject(o, suppressResp, r \in unsent)
    BY <1>2, <1>5, <1>p, <2>1, StatesDiffer DEF VisitedObject
  <2> QED
    BY <1>1, <1>2, <1>5, <2>1, <2>2, <2>3, StatesDiffer DEF o
<1>6. CASE o.state = QUEUED
  <2>1. t = SendRequest(w, r, unsent)
    BY <1>6, StatesDiffer DEF Visit, w, o
  <2>2. CASE r \in unsent
    <3>1. t = [w EXCEPT !.obj[r].state = FINISHED, !.obj[r].handle = FALSE]
      BY <2>1, <2>2 DEF SendRequest
    <3>2. /\ t.v = s.v /\ t.call = s.call
          /\ t.obj[r] = [p EXCEPT !.state = FINISHED, !.handle = FALSE]
          /\ \A x \in Req \ {r} : t.obj[x] = s.obj[x]
      BY <1>1, <1>2, <3>1 DEF LoopState
    <3>d. r \in Req /\ w \in LoopState
      BY <1>1, <1>2
    <3>e. t.obj = [x \in Req |-> t.obj[x]]
      BY <3>1, <3>d DEF LoopState
    <3>3. t.obj[r] = VisitedObject(o, suppressResp, r \in unsent)
      <4>1. PICK u : u = t.obj[r]
        OBVIOUS
      <4>2. u = [life |-> o.life, state |-> FINISHED, handle |-> FALSE,
                 suppress |-> suppressResp]
        BY <1>p, <3>2, <4>1 DEF Object
      <4> QED
        BY <1>6, <2>2, <4>1, <4>2, StatesDiffer DEF VisitedObject
    <3>4. \A x \in Req : t.obj[x] \in Object
      BY <1>2, <1>3, <3>2, <3>3 DEF LoopState
    <3>5. t \in LoopState
      <4>1. t.obj \in [Req -> Object] /\ t.call \in [Req -> Call] /\ t.v \in Seq(Req)
        BY <1>1, <1>2, <3>2, <3>e, <3>4 DEF LoopState
      <4> QED
        BY <1>2, <3>1, <4>1 DEF LoopState
    <3>6. VisitedCall(o, s.call[r], r \in unsent) = s.call[r]
      BY <2>2 DEF VisitedCall
    <3> QED
      BY <1>1, <1>6, <3>2, <3>3, <3>5, <3>6, StatesDiffer DEF o
  <2>3. CASE r \notin unsent
    <3>1. t = [w EXCEPT !.obj[r].state = EXECUTED, !.obj[r].handle = TRUE, !.call[r] = "pending"]
      BY <2>1, <2>3 DEF SendRequest
    <3>2. /\ t.v = s.v /\ t.call[r] = "pending"
          /\ t.obj[r] = [p EXCEPT !.state = EXECUTED, !.handle = TRUE]
          /\ \A x \in Req \ {r} : t.obj[x] = s.obj[x] /\ t.call[x] = s.call[x]
      BY <1>1, <1>2, <3>1 DEF LoopState
    <3>d. r \in Req /\ w \in LoopState
      BY <1>1, <1>2
    <3>e. t.obj = [x \in Req |-> t.obj[x]]
      <4>1. PICK u : u = [w EXCEPT !.obj[r].state = EXECUTED, !.obj[r].handle = TRUE]
        OBVIOUS
      <4>2. u.obj = [x \in Req |-> u.obj[x]]
        BY <3>d, <4>1 DEF LoopState
      <4>3. t = [u EXCEPT !.call[r] = "pending"]
        BY <3>1, <4>1
      <4>4. t.obj = u.obj
        BY <3>d, <4>1, <4>3 DEF LoopState
      <4> QED
        BY <4>2, <4>4
    <3>3. t.obj[r] = VisitedObject(o, suppressResp, r \in unsent)
      <4>1. PICK u : u = t.obj[r]
        OBVIOUS
      <4>2. u = [life |-> o.life, state |-> EXECUTED, handle |-> TRUE,
                 suppress |-> suppressResp]
        BY <1>p, <3>2, <4>1 DEF Object
      <4> QED
        BY <1>6, <2>3, <4>1, <4>2, StatesDiffer DEF VisitedObject
    <3>4. \A x \in Req : t.obj[x] \in Object
      BY <1>2, <1>3, <3>2, <3>3 DEF LoopState
    <3>5. t \in LoopState
      <4>1. t.obj \in [Req -> Object] /\ t.v \in Seq(Req)
        BY <1>1, <1>2, <3>2, <3>e, <3>4 DEF LoopState
      <4>2. t.call = [s.call EXCEPT ![r] = "pending"]
        BY <1>1, <1>2, <3>1 DEF LoopState
      <4>3. t.call \in [Req -> Call]
        BY <1>1, <4>2 DEF LoopState, Call
      <4> QED
        BY <1>2, <3>1, <4>1, <4>3 DEF LoopState
    <3>6. VisitedCall(o, s.call[r], r \in unsent) = "pending"
      BY <1>6, <2>3 DEF VisitedCall
    <3> QED
      BY <1>1, <1>6, <3>2, <3>3, <3>5, <3>6, StatesDiffer DEF o
  <2> QED
    BY <2>2, <2>3
<1> QED
  BY <1>1, <1>4, <1>5, <1>6 DEF RequestState, o
-----------------------------------------------------------------------------
(* The loop as a whole.                                                    *)

\* f[k] is what the loop has made of the manager after k rounds, k <= m.
Rounds(f, m, suppressResp, unsent) ==
  f = [k \in 0 .. m |->
         IF k = 0 THEN [v |-> m_vRequests, obj |-> obj, call |-> call]
         ELSE CHOOSE t \in {Visit(s, Len(m_vRequests) - k + 1, suppressResp, unsent) :
                              s \in {f[k - 1]}} : TRUE]

LEMMA RoundsAre ==
  ASSUME NEW m \in Nat, NEW suppressResp, NEW unsent, NEW f,
         f = [k \in 0 .. m |-> f[k]],
         f[0] = [v |-> m_vRequests, obj |-> obj, call |-> call],
         \A k \in 1 .. m : f[k] = Visit(f[k - 1], Len(m_vRequests) - k + 1, suppressResp, unsent)
  PROVE  Rounds(f, m, suppressResp, unsent)
<1>1. ASSUME NEW k \in 1 .. m
      PROVE  f[k] = CHOOSE t \in {Visit(s, Len(m_vRequests) - k + 1, suppressResp, unsent) :
                                    s \in {f[k - 1]}} : TRUE
  OBVIOUS
<1>2. ASSUME NEW k \in 0 .. m
      PROVE  f[k] = IF k = 0 THEN [v |-> m_vRequests, obj |-> obj, call |-> call]
                    ELSE CHOOSE t \in {Visit(s, Len(m_vRequests) - k + 1, suppressResp, unsent) :
                                         s \in {f[k - 1]}} : TRUE
  <2>1. CASE k = 0
    BY <2>1
  <2>2. CASE k # 0
    <3>1. k \in 1 .. m
      BY <2>2
    <3> QED
      BY <1>1, <2>2, <3>1
  <2> QED
    BY <2>1, <2>2
<1> QED
  BY <1>2 DEF Rounds

LEMMA RoundsStep ==
  ASSUME NEW m \in Nat, NEW suppressResp, NEW unsent, NEW f, Rounds(f, m, suppressResp, unsent)
  PROVE  /\ f = [k \in 0 .. m |-> f[k]]
         /\ f[0] = [v |-> m_vRequests, obj |-> obj, call |-> call]
         /\ \A k \in 1 .. m :
              f[k] = Visit(f[k - 1], Len(m_vRequests) - k + 1, suppressResp, unsent)
<1>1. f = [k \in 0 .. m |-> f[k]]
  BY DEF Rounds
<1>2. f[0] = [v |-> m_vRequests, obj |-> obj, call |-> call]
  BY DEF Rounds
<1>3. ASSUME NEW k \in 1 .. m
      PROVE  f[k] = Visit(f[k - 1], Len(m_vRequests) - k + 1, suppressResp, unsent)
  <2>1. f[k] = CHOOSE t \in {Visit(s, Len(m_vRequests) - k + 1, suppressResp, unsent) :
                               s \in {f[k - 1]}} : TRUE
    BY DEF Rounds
  <2> QED
    BY <2>1
<1> QED
  BY <1>1, <1>2, <1>3

\* There are any number of rounds: the least number that is missing would be
\* one more than one that is not.
LEMMA RoundsExist ==
  ASSUME NEW suppressResp, NEW unsent
  PROVE  \A m \in Nat : \E f : Rounds(f, m, suppressResp, unsent)
<1> DEFINE T == {m \in Nat : ~\E f : Rounds(f, m, suppressResp, unsent)}
<1> SUFFICES ASSUME T # {} PROVE FALSE
  OBVIOUS
<1>1. PICK m \in T : \A k \in T : m <= k
  BY NatLeast
<1>2. m \in Nat /\ ~\E f : Rounds(f, m, suppressResp, unsent)
  BY <1>1
<1>3. CASE m = 0
  <2> DEFINE f == [k \in 0 .. 0 |-> [v |-> m_vRequests, obj |-> obj, call |-> call]]
  <2>1. /\ f = [k \in 0 .. 0 |-> f[k]]
        /\ f[0] = [v |-> m_vRequests, obj |-> obj, call |-> call]
    OBVIOUS
  <2> HIDE DEF f
  <2>2. Rounds(f, 0, suppressResp, unsent)
    BY <2>1, RoundsAre
  <2> QED
    BY <1>2, <1>3, <2>2
<1>4. CASE m # 0
  <2>1. m - 1 \in Nat /\ m - 1 \notin T
    BY <1>1, <1>2, <1>4
  <2>2. PICK f : Rounds(f, m - 1, suppressResp, unsent)
    BY <2>1
  <2>3. /\ f[0] = [v |-> m_vRequests, obj |-> obj, call |-> call]
        /\ \A k \in 1 .. m - 1 :
             f[k] = Visit(f[k - 1], Len(m_vRequests) - k + 1, suppressResp, unsent)
    BY <2>1, <2>2, RoundsStep
  <2> DEFINE last == Visit(f[m - 1], Len(m_vRequests) - m + 1, suppressResp, unsent)
  <2> HIDE DEF last
  <2> DEFINE g == [k \in 0 .. m |-> IF k = m THEN last ELSE f[k]]
  <2>4. g = [k \in 0 .. m |-> g[k]] /\ g[0] = f[0]
    BY <1>2, <1>4
  <2>5. ASSUME NEW k \in 1 .. m
        PROVE  g[k] = Visit(g[k - 1], Len(m_vRequests) - k + 1, suppressResp, unsent)
    <3>1. g[k - 1] = f[k - 1]
      BY <1>2
    <3>2. CASE k = m
      BY <1>2, <3>1, <3>2 DEF last
    <3>3. CASE k # m
      BY <1>2, <2>3, <3>1, <3>3
    <3> QED
      BY <3>2, <3>3
  <2> HIDE DEF g
  <2>6. Rounds(g, m, suppressResp, unsent)
    BY <1>2, <2>3, <2>4, <2>5, RoundsAre
  <2> QED
    BY <1>2, <2>6
<1> QED
  BY <1>3, <1>4

LEMMA LoopIsRounds ==
  ASSUME NEW suppressResp, NEW unsent, Len(m_vRequests) \in Nat
  PROVE  \E f : /\ Rounds(f, Len(m_vRequests), suppressResp, unsent)
                /\ ThinkLoop(suppressResp, unsent) = f[Len(m_vRequests)]
<1> DEFINE P(f) == Rounds(f, Len(m_vRequests), suppressResp, unsent)
           g == CHOOSE f : P(f)
<1>1. ThinkLoop(suppressResp, unsent) = g[Len(m_vRequests)]
  BY DEF ThinkLoop, Rounds
<1>2. \E f : P(f)
  BY RoundsExist
<1>3. P(g)
  <2> HIDE DEF P
  <2> QED
    BY <1>2
<1> QED
  BY <1>1, <1>3

\* The requests the loop has looked at after k rounds.
Seen(k) == {m_vRequests[j] : j \in Len(m_vRequests) - k + 1 .. Len(m_vRequests)}

\* Why Think reaches every request: what is erased lies behind the index, so
\* that the elements still to come stay where they were.
Walked(s, k, suppressResp, unsent) ==
  /\ s \in LoopState
  /\ Len(s.v) >= Len(m_vRequests) - k
  /\ \A j \in 1 .. Len(m_vRequests) - k : s.v[j] = m_vRequests[j]
  /\ Distinct(s.v)
  /\ \A r \in Req : Holds(s.v, r) <=>
       /\ Holds(m_vRequests, r)
       /\ r \in Seen(k) => obj[r].state # FINISHED
  /\ \A r \in Req :
       /\ s.obj[r] = IF r \in Seen(k) THEN VisitedObject(obj[r], suppressResp, r \in unsent)
                                      ELSE obj[r]
       /\ s.call[r] = IF r \in Seen(k) THEN VisitedCall(obj[r], call[r], r \in unsent)
                                       ELSE call[r]

LEMMA WalkedStart ==
  ASSUME TypeOK, Distinct(m_vRequests), NEW suppressResp, NEW unsent,
         NEW s, s = [v |-> m_vRequests, obj |-> obj, call |-> call]
  PROVE  Walked(s, 0, suppressResp, unsent)
<1>1. s \in LoopState /\ s.v = m_vRequests /\ s.obj = obj /\ s.call = call
  BY DEF LoopState, TypeOK
<1>2. Seen(0) = {} /\ Len(m_vRequests) \in Nat
  BY DEF Seen, TypeOK
<1> QED
  BY <1>1, <1>2 DEF Walked, Distinct

LEMMA WalkedStep ==
  ASSUME TypeOK, Distinct(m_vRequests), NEW suppressResp \in BOOLEAN, NEW unsent,
         NEW k \in 1 .. Len(m_vRequests), NEW s, Walked(s, k - 1, suppressResp, unsent),
         NEW t, t = Visit(s, Len(m_vRequests) - k + 1, suppressResp, unsent)
  PROVE  Walked(t, k, suppressResp, unsent)
<1> DEFINE n == Len(m_vRequests)
           i == n - k + 1
           r == m_vRequests[i]
<1>1. /\ n \in Nat /\ k \in Nat /\ i \in Nat /\ i \in 1 .. n /\ n - (k - 1) = i /\ n - k = i - 1
      /\ s \in LoopState /\ s.v \in Seq(Req) /\ Len(s.v) \in Nat /\ i \in 1 .. Len(s.v)
  BY DEF Walked, TypeOK, LoopState
<1>2. r = s.v[i] /\ r \in Req
  BY <1>1 DEF Walked, TypeOK
<1>3. r \notin Seen(k - 1) /\ Seen(k) = Seen(k - 1) \cup {r}
  <2>1. r \notin Seen(k - 1)
    BY <1>1 DEF Seen, Distinct
  <2>2. i .. n = {i} \cup (i + 1 .. n)
    BY <1>1
  <2> QED
    BY <1>1, <2>1, <2>2 DEF Seen
<1> HIDE DEF r
<1>4. s.obj[r] = obj[r] /\ s.call[r] = call[r]
  BY <1>2, <1>3 DEF Walked
<1>5. /\ t \in LoopState
      /\ t.v = IF obj[r].state = FINISHED THEN RemoveAt(s.v, i) ELSE s.v
      /\ t.obj[r] = VisitedObject(obj[r], suppressResp, r \in unsent)
      /\ t.call[r] = VisitedCall(obj[r], call[r], r \in unsent)
      /\ \A x \in Req \ {r} : t.obj[x] = s.obj[x] /\ t.call[x] = s.call[x]
  BY <1>1, <1>2, <1>4, VisitEffect
<1>6. ASSUME NEW x \in Req
      PROVE  /\ t.obj[x] = IF x \in Seen(k) THEN VisitedObject(obj[x], suppressResp, x \in unsent)
                                            ELSE obj[x]
             /\ t.call[x] = IF x \in Seen(k) THEN VisitedCall(obj[x], call[x], x \in unsent)
                                             ELSE call[x]
  BY <1>3, <1>5 DEF Walked
<1>7. Len(s.v) >= i /\ \A j \in 1 .. i : s.v[j] = m_vRequests[j]
  BY <1>1 DEF Walked
<1>8. Distinct(s.v)
  BY DEF Walked
<1>9. \A x \in Req : Holds(s.v, x) <=>
        /\ Holds(m_vRequests, x)
        /\ x \in Seen(k - 1) => obj[x].state # FINISHED
  BY DEF Walked
<1>a. Holds(m_vRequests, r)
  BY <1>1 DEF Holds, r
<1> HIDE DEF n, i
<1>b. /\ Len(t.v) >= i - 1 /\ \A j \in 1 .. i - 1 : t.v[j] = m_vRequests[j]
      /\ Distinct(t.v)
      /\ \A x \in Req : Holds(t.v, x) <=>
           /\ Holds(m_vRequests, x)
           /\ x \in Seen(k) => obj[x].state # FINISHED
  <2>1. CASE obj[r].state # FINISHED
    <3>1. t.v = s.v
      BY <1>5, <2>1
    <3>2. Len(t.v) >= i - 1 /\ \A j \in 1 .. i - 1 : t.v[j] = m_vRequests[j]
      BY <1>1, <1>7, <3>1
    <3>3. \A x \in Req : Holds(t.v, x) <=>
           /\ Holds(m_vRequests, x)
           /\ x \in Seen(k) => obj[x].state # FINISHED
      BY <1>3, <1>9, <2>1, <3>1
    <3> QED
      BY <1>8, <3>1, <3>2, <3>3
  <2>2. CASE obj[r].state = FINISHED
    <3>1. t.v = RemoveAt(s.v, i)
      BY <1>5, <2>2
    <3>2. /\ Distinct(t.v)
          /\ \A x : Holds(t.v, x) <=> Holds(s.v, x) /\ x # r
      BY <1>1, <1>2, <1>8, <3>1, RemoveAtRemoves
    <3>3. /\ Len(t.v) = Len(s.v) - 1
          /\ \A j \in 1 .. Len(s.v) - 1 : t.v[j] = IF j < i THEN s.v[j] ELSE s.v[j + 1]
      BY <1>1, <3>1, RemoveAtShifts
    <3>4. Len(t.v) >= i - 1
      BY <1>1, <1>7, <3>3
    <3>5. ASSUME NEW j \in 1 .. i - 1
          PROVE  t.v[j] = m_vRequests[j]
      <4>1. j \in 1 .. Len(s.v) - 1 /\ j < i /\ j \in 1 .. i
        BY <1>1, <1>7
      <4> QED
        BY <1>7, <3>3, <4>1
    <3>6. \A x \in Req : Holds(t.v, x) <=>
           /\ Holds(m_vRequests, x)
           /\ x \in Seen(k) => obj[x].state # FINISHED
      BY <1>3, <1>9, <2>2, <3>2
    <3> QED
      BY <3>2, <3>4, <3>5, <3>6
  <2> QED
    BY <2>1, <2>2
<1>c. Len(m_vRequests) - k = i - 1
  BY <1>1 DEF i, n
<1> QED
  BY <1>5, <1>6, <1>b, <1>c DEF Walked

(***************************************************************************)
(* One Think, whatever the vector holds: every element is visited once,    *)
(* the finished ones leave it, nothing else changes.                       *)
(***************************************************************************)
LEMMA ThinkLoopEffect ==
  ASSUME TypeOK, Distinct(m_vRequests), NEW suppressResp \in BOOLEAN, NEW unsent,
         NEW t, t = ThinkLoop(suppressResp, unsent)
  PROVE  /\ t \in LoopState /\ Distinct(t.v)
         /\ \A r \in Req : Holds(t.v, r) <=> Holds(m_vRequests, r) /\ obj[r].state # FINISHED
         /\ \A r \in Req : Holds(m_vRequests, r) =>
              /\ t.obj[r] = VisitedObject(obj[r], suppressResp, r \in unsent)
              /\ t.call[r] = VisitedCall(obj[r], call[r], r \in unsent)
         /\ \A r \in Req : ~Holds(m_vRequests, r) => t.obj[r] = obj[r] /\ t.call[r] = call[r]
<1> DEFINE n == Len(m_vRequests)
<1>1. n \in Nat /\ m_vRequests \in Seq(Req)
  BY DEF TypeOK
<1>2. PICK f : Rounds(f, n, suppressResp, unsent) /\ t = f[n]
  BY <1>1, LoopIsRounds
<1>3. /\ f[0] = [v |-> m_vRequests, obj |-> obj, call |-> call]
      /\ \A k \in 1 .. n : f[k] = Visit(f[k - 1], n - k + 1, suppressResp, unsent)
  BY <1>1, <1>2, RoundsStep
<1>4. Walked(t, n, suppressResp, unsent)
  <2> DEFINE W(k) == Walked(f[k], k, suppressResp, unsent)
             T == {k \in 0 .. n : ~W(k)}
  <2>1. W(0)
    BY <1>3, WalkedStart
  <2>2. ASSUME NEW k \in 1 .. n, W(k - 1)
        PROVE  W(k)
    BY <1>3, <2>2, WalkedStep
  <2> HIDE DEF W
  <2>3. T = {}
    <3> SUFFICES ASSUME T # {} PROVE FALSE
      OBVIOUS
    <3>1. T \in SUBSET Nat
      BY <1>1
    <3>2. PICK k \in T : \A j \in T : k <= j
      BY <3>1, NatLeast
    <3>3. k \in 1 .. n
      BY <1>1, <2>1, <3>2
    <3>4. k - 1 \in 0 .. n /\ k - 1 \notin T
      BY <1>1, <3>1, <3>2, <3>3
    <3> QED
      BY <2>2, <3>2, <3>3, <3>4
  <2>4. W(n)
    BY <1>1, <2>3
  <2> QED
    BY <1>2, <2>4 DEF W
<1>5. \A r : r \in Seen(n) <=> Holds(m_vRequests, r)
  <2>1. n - n + 1 = 1
    BY <1>1
  <2> QED
    BY <2>1 DEF Seen, Holds
<1> QED
  BY <1>4, <1>5 DEF Walked
-----------------------------------------------------------------------------
(* The inductive invariant.                                                *)

\* What is true of each request.  The last three conjuncts are what the
\* properties do not say: a handler has run only if the request is finished,
\* and nothing is sent without the interface or by a manager not loaded, so
\* that Shutdown, which clears the vector without deleting, has no live
\* object to lose.
RequestOK(inVector, o, c, a, idle) ==
  /\ inVector <=> o.life = "live"
  /\ (c = "pending" \/ c \in Outcome) <=> o.state = EXECUTED
  /\ o.handle <=> o.state = EXECUTED
  /\ o.state = EXECUTED => o.life = "live"
  /\ o.life = "unborn" => o.state = QUEUED
  /\ o.state # FINISHED => a = 0
  /\ o.life = "live" /\ idle => o.state = QUEUED

RequestInv(r) ==
  RequestOK(Holds(m_vRequests, r), obj[r], call[r], answers[r], ~http \/ ~m_bLoaded)

DriveInv ==
  /\ tryLoad => ~http
  /\ mode = "drain" => m_bLoaded

IInv == TypeOK /\ Distinct(m_vRequests) /\ DriveInv /\ \A r \in Req : RequestInv(r)

LEMMA HoldsIsToSet == ASSUME NEW v \in Seq(Req), NEW x PROVE Holds(v, x) <=> x \in ToSet(v)
BY DEF Holds, ToSet

LEMMA CallsDiffer ==
  /\ "pending" \notin Outcome /\ "over" \notin Outcome /\ "none" \notin Outcome
  /\ Outcome \subseteq Call /\ {"pending", "over", "none"} \subseteq Call
BY DEF Outcome, Call

LEMMA InitIInv == Init => IInv
<1> SUFFICES ASSUME Init PROVE IInv
  OBVIOUS
<1>1. TypeOK
  <2>1. NewObject \in Object
    BY DEF NewObject, Object, RequestState
  <2>2. obj \in [Req -> Object] /\ call \in [Req -> Call] /\ answers \in [Req -> Nat]
    BY <2>1, CallsDiffer DEF Init
  <2>3. m_vRequests \in Seq(Req)
    BY DEF Init
  <2> QED
    BY <2>2, <2>3 DEF Init, TypeOK
<1>2. Distinct(m_vRequests) /\ DriveInv
  BY DEF Init, Distinct, DriveInv
<1>3. ASSUME NEW r \in Req PROVE RequestInv(r)
  <2>1. ~Holds(m_vRequests, r)
    BY DEF Init, Holds
  <2>2. obj[r] = NewObject /\ call[r] = "none" /\ answers[r] = 0
    BY DEF Init
  <2> QED
    BY <2>1, <2>2, CallsDiffer, StatesDiffer DEF RequestInv, RequestOK, NewObject
<1> QED
  BY <1>1, <1>2, <1>3 DEF IInv

\* A visit of Think keeps what is true of a request.
LEMMA VisitKeeps ==
  ASSUME NEW o \in Object, NEW c \in Call, NEW a, NEW idle, RequestOK(TRUE, o, c, a, idle),
         NEW suppressResp \in BOOLEAN, NEW failed
  PROVE  RequestOK(o.state # FINISHED, VisitedObject(o, suppressResp, failed),
                   VisitedCall(o, c, failed), a, FALSE)
<1>1. o.state \in {QUEUED, EXECUTED, FINISHED}
  BY DEF Object, RequestState
<1> QED
  BY <1>1, StatesDiffer, CallsDiffer DEF RequestOK, VisitedObject, VisitedCall

\* ReleaseHandle, at the end of a call.
ClosedObject(o) == [o EXCEPT !.handle = FALSE, !.state = FINISHED]

\* So does the delivery of its call, which it can only get if it is EXECUTED.
LEMMA CompletionKeeps ==
  ASSUME NEW o \in Object, NEW c \in Outcome, NEW a, NEW b, NEW idle, NEW inVector,
         RequestOK(inVector, o, c, a, idle)
  PROVE  RequestOK(inVector, ClosedObject(o), "over", b, idle)
<1> DEFINE p == ClosedObject(o)
<1>1. p.life = o.life /\ p.handle = FALSE /\ p.state = FINISHED
  BY DEF Object, ClosedObject
<1>2. o.state = EXECUTED /\ o.life = "live" /\ ~idle /\ inVector
  BY StatesDiffer DEF RequestOK
<1> HIDE DEF p
<1>3. RequestOK(inVector, p, "over", b, idle)
  BY <1>1, <1>2, StatesDiffer, CallsDiffer DEF RequestOK
<1> QED
  BY <1>3 DEF p

\* Think keeps it for every request.  The interface may have come up in the
\* same frame; without it there was nothing to send, hence nothing at all.
LEMMA ThinkKeeps ==
  ASSUME IInv, m_bLoaded, NEW suppressResp \in BOOLEAN, NEW unsent, NEW t,
         t = ThinkLoop(suppressResp, unsent),
         NEW up \in BOOLEAN, http => up, ToSend = {} \/ up
  PROVE  /\ t \in LoopState /\ Distinct(t.v)
         /\ \A r \in Req : RequestOK(Holds(t.v, r), t.obj[r], t.call[r], answers[r], ~up)
<1>1. TypeOK /\ Distinct(m_vRequests) /\ http \in BOOLEAN
  BY DEF IInv, TypeOK
<1>2. /\ t \in LoopState /\ Distinct(t.v)
      /\ \A r \in Req : Holds(t.v, r) <=> Holds(m_vRequests, r) /\ obj[r].state # FINISHED
      /\ \A r \in Req : Holds(m_vRequests, r) =>
           /\ t.obj[r] = VisitedObject(obj[r], suppressResp, r \in unsent)
           /\ t.call[r] = VisitedCall(obj[r], call[r], r \in unsent)
      /\ \A r \in Req : ~Holds(m_vRequests, r) => t.obj[r] = obj[r] /\ t.call[r] = call[r]
  BY <1>1, ThinkLoopEffect
<1>3. ASSUME NEW r \in Req
      PROVE  RequestOK(Holds(t.v, r), t.obj[r], t.call[r], answers[r], ~up)
  <2>1. /\ obj[r] \in Object /\ call[r] \in Call
        /\ RequestOK(Holds(m_vRequests, r), obj[r], call[r], answers[r], ~http)
    BY DEF IInv, TypeOK, RequestInv, RequestOK
  <2>2. CASE Holds(m_vRequests, r)
    <3>1. RequestOK(TRUE, obj[r], call[r], answers[r], ~http)
      BY <2>1, <2>2 DEF RequestOK
    <3>2. RequestOK(obj[r].state # FINISHED, t.obj[r], t.call[r], answers[r], FALSE)
      <4>1. RequestOK(obj[r].state # FINISHED,
                      VisitedObject(obj[r], suppressResp, r \in unsent),
                      VisitedCall(obj[r], call[r], r \in unsent), answers[r], FALSE)
        BY <2>1, <3>1, VisitKeeps
      <4> QED
        BY <1>2, <2>2, <4>1
    <3>3. up
      <4> SUFFICES ASSUME ~up PROVE FALSE
        OBVIOUS
      <4>1. obj[r].state = QUEUED
        BY <3>1, <1>1 DEF RequestOK
      <4>2. r \in ToSend
        BY <1>1, <2>2, <4>1, HoldsIsToSet DEF ToSend, TypeOK
      <4> QED
        BY <4>2
    <3> QED
      BY <1>2, <2>2, <3>2, <3>3 DEF RequestOK
  <2>3. CASE ~Holds(m_vRequests, r)
    BY <1>2, <2>1, <2>3 DEF RequestOK
  <2> QED
    BY <2>2, <2>3
<1> QED
  BY <1>2, <1>3

\* The delivery of a set of calls, and the object at each of them.
LEMMA CompletedEffect ==
  ASSUME NEW o \in [Req -> Object], NEW done
  PROVE  /\ Completed(o, done) \in [Req -> Object]
         /\ \A r \in Req : Completed(o, done)[r] =
              IF r \in done THEN ClosedObject(o[r]) ELSE o[r]
         /\ \A r \in Req : Completed(o, done)[r].life = o[r].life
<1>1. ASSUME NEW r \in Req
      PROVE  ClosedObject(o[r]) \in Object /\ ClosedObject(o[r]).life = o[r].life
  BY DEF Object, RequestState, ClosedObject
<1>2. Completed(o, done) = [r \in Req |-> IF r \in done THEN ClosedObject(o[r]) ELSE o[r]]
  BY DEF Completed, ClosedObject
<1> QED
  BY <1>1, <1>2

\* Appending a request that is not there.
LEMMA AppendHolds ==
  ASSUME NEW v \in Seq(Req), NEW r \in Req, ~Holds(v, r), Distinct(v)
  PROVE  /\ Append(v, r) \in Seq(Req)
         /\ Distinct(Append(v, r))
         /\ \A x : Holds(Append(v, r), x) <=> Holds(v, x) \/ x = r
<1> DEFINE n == Len(v)
           w == Append(v, r)
<1>1. /\ n \in Nat /\ w \in Seq(Req) /\ Len(w) = n + 1 /\ w[n + 1] = r
      /\ \A j \in 1 .. n : w[j] = v[j]
  OBVIOUS
<1>2. \A i, j \in 1 .. n : v[i] = v[j] => i = j
  BY DEF Distinct
<1>3. \A j \in 1 .. n : v[j] # r
  BY DEF Holds
<1>4. \A x : Holds(v, x) <=> \E j \in 1 .. n : v[j] = x
  BY DEF Holds
<1> HIDE DEF n, w
<1>5. 1 .. n + 1 = (1 .. n) \cup {n + 1}
  BY <1>1
<1>6. Distinct(w)
  BY <1>1, <1>2, <1>3, <1>5 DEF Distinct
<1>7. \A x : Holds(w, x) <=> Holds(v, x) \/ x = r
  BY <1>1, <1>4, <1>5 DEF Holds
<1> QED
  BY <1>1, <1>6, <1>7 DEF w

\* A round of SendAndWait in which `unsent' fails, and t is what Think left.
SendAndWaitRound(unsent, t) ==
  /\ t = ThinkLoop(TRUE, unsent)
  /\ LET done == {r \in Req : t.call[r] \in Outcome}
     IN /\ obj' = Completed(t.obj, done)
        /\ call' = [r \in Req |-> IF r \in done THEN "over" ELSE t.call[r]]
        /\ answers' = [r \in Req |-> answers[r] + IF r \in Answered(t.obj, done) THEN 1 ELSE 0]
        /\ \/ /\ KeepWaiting(http, t.v)
              /\ m_vRequests' = t.v /\ UNCHANGED <<mode, m_bLoaded, http, tryLoad>>
           \/ /\ ~KeepWaiting(http, t.v)
              /\ m_vRequests' = <<>> /\ m_bLoaded' = FALSE /\ mode' = "off"
              /\ http' = FALSE /\ tryLoad' = TRUE

LEMMA SendAndWaitRounds ==
  ASSUME SendAndWait, ~(ToSend # {} /\ ~http)
  PROVE  \E unsent, t : SendAndWaitRound(unsent, t)
BY DEF SendAndWait, steamVars, SendAndWaitRound

LEMMA NextIInv == ASSUME IInv, [Next]_vars PROVE IInv'
<1>1. TypeOK /\ Distinct(m_vRequests) /\ DriveInv /\ \A r \in Req : RequestInv(r)
  BY DEF IInv
<1>t. /\ mode \in {"off", "running", "drain", "crashed"}
      /\ enabled \in BOOLEAN /\ m_bLoaded \in BOOLEAN /\ http \in BOOLEAN /\ tryLoad \in BOOLEAN
      /\ m_vRequests \in Seq(Req)
      /\ obj \in [Req -> Object] /\ call \in [Req -> Call] /\ answers \in [Req -> Nat]
  BY <1>1 DEF TypeOK
<1>2. CASE MSWorldSpawn
  <2>1. /\ mode' = "running" /\ enabled' \in BOOLEAN /\ m_bLoaded' \in BOOLEAN
        /\ m_bLoaded => m_bLoaded'
        /\ UNCHANGED <<m_vRequests, http, tryLoad, obj, call, answers>>
    BY <1>2, <1>t, ConfigAssumption DEF MSWorldSpawn, steamVars
  <2>2. TypeOK'
    BY <1>t, <2>1 DEF TypeOK
  <2>3. DriveInv' /\ Distinct(m_vRequests)'
    BY <1>1, <2>1 DEF DriveInv, Distinct
  <2>4. ASSUME NEW r \in Req PROVE RequestInv(r)'
    BY <1>1, <1>t, <2>1 DEF RequestInv, RequestOK, Holds
  <2> QED
    BY <2>2, <2>3, <2>4 DEF IInv
<1>3. CASE MSGameThink
  <2> DEFINE up == http'
  <2>1. /\ mode = "running" /\ mode' \in {"running", "crashed"}
        /\ http' \in BOOLEAN /\ (http => http') /\ tryLoad' = FALSE
        /\ UNCHANGED <<enabled, m_bLoaded, answers>>
    BY <1>1, <1>3, <1>t, ConfigAssumption DEF MSGameThink, DriveInv
  <2>2. DriveInv'
    BY <2>1 DEF DriveInv
  <2>3. CASE UNCHANGED <<m_vRequests, obj, call>> /\ (m_bLoaded => mode' = "crashed")
    <3>1. ASSUME NEW r \in Req PROVE RequestInv(r)'
      BY <1>1, <2>1, <2>3 DEF RequestInv, RequestOK, Holds
    <3>2. TypeOK' /\ Distinct(m_vRequests)'
      BY <1>1, <1>t, <2>1, <2>3 DEF TypeOK, Distinct
    <3> QED
      BY <2>2, <3>1, <3>2 DEF IInv
  <2>4. CASE ~(UNCHANGED <<m_vRequests, obj, call>> /\ (m_bLoaded => mode' = "crashed"))
    <3>1. /\ m_bLoaded /\ (ToSend = {} \/ http')
          /\ \E unsent \in SUBSET ToSend : \E t \in {ThinkLoop(FALSE, unsent)} :
               m_vRequests' = t.v /\ obj' = t.obj /\ call' = t.call
      BY <1>3, <2>4 DEF MSGameThink
    <3>2. PICK unsent, t : /\ t = ThinkLoop(FALSE, unsent)
                           /\ m_vRequests' = t.v /\ obj' = t.obj /\ call' = t.call
      BY <3>1
    <3>3. /\ t \in LoopState /\ Distinct(t.v)
          /\ \A r \in Req : RequestOK(Holds(t.v, r), t.obj[r], t.call[r], answers[r], ~http')
      BY <2>1, <3>1, <3>2, ThinkKeeps
    <3>4. TypeOK'
      BY <1>t, <2>1, <3>2, <3>3 DEF TypeOK, LoopState
    <3>5. Distinct(m_vRequests)'
      BY <3>2, <3>3 DEF Distinct
    <3>6. ASSUME NEW r \in Req PROVE RequestInv(r)'
      BY <2>1, <3>1, <3>2, <3>3 DEF RequestInv, RequestOK, Holds
    <3> QED
      BY <2>2, <3>4, <3>5, <3>6 DEF IInv
  <2> QED
    BY <2>3, <2>4
<1>4. CASE RunCallbacks
  <2>1. /\ obj' = Completed(obj, Done)
        /\ call' = [r \in Req |-> IF r \in Done THEN "over" ELSE call[r]]
        /\ answers' = [r \in Req |-> answers[r] + IF r \in Answered(obj, Done) THEN 1 ELSE 0]
        /\ enabled' \in BOOLEAN
        /\ UNCHANGED <<mode, m_bLoaded, m_vRequests, http, tryLoad>>
    BY <1>4, <1>t DEF RunCallbacks, steamVars
  <2>2. TypeOK'
    <3>1. obj' \in [Req -> Object]
      BY <1>t, <2>1, CompletedEffect
    <3>2. call' \in [Req -> Call] /\ answers' \in [Req -> Nat]
      BY <1>t, <2>1, CallsDiffer
    <3> QED
      BY <1>t, <2>1, <3>1, <3>2 DEF TypeOK
  <2>3. DriveInv' /\ Distinct(m_vRequests)'
    BY <1>1, <2>1 DEF DriveInv, Distinct
  <2>4. ASSUME NEW r \in Req PROVE RequestInv(r)'
    <3>1. obj'[r] = IF r \in Done THEN ClosedObject(obj[r])
                    ELSE obj[r]
      BY <1>t, <2>1, CompletedEffect
    <3>2. RequestOK(Holds(m_vRequests, r), obj[r], call[r], answers[r], ~http \/ ~m_bLoaded)
      BY <1>1 DEF RequestInv
    <3>3. CASE r \in Done
      <4>1. call[r] \in Outcome /\ obj[r] \in Object /\ call'[r] = "over"
        BY <1>t, <2>1, <3>3 DEF Done
      <4>2. RequestOK(Holds(m_vRequests, r), obj'[r], call'[r], answers'[r], ~http \/ ~m_bLoaded)
        BY <3>1, <3>2, <3>3, <4>1, CompletionKeeps
      <4> QED
        BY <2>1, <4>2 DEF RequestInv, RequestOK, Holds
    <3>4. CASE r \notin Done
      <4>1. obj'[r] = obj[r] /\ call'[r] = call[r]
        BY <2>1, <3>1, <3>4
      <4>2. answers'[r] = answers[r]
        BY <1>t, <2>1, <3>4 DEF Answered
      <4> QED
        BY <2>1, <3>2, <4>1, <4>2 DEF RequestInv, RequestOK, Holds
    <3> QED
      BY <3>3, <3>4
  <2> QED
    BY <2>2, <2>3, <2>4 DEF IInv
<1>5. CASE MSGameEnd
  <2>1. /\ UNCHANGED <<enabled, m_bLoaded, m_vRequests, obj, call, answers>>
        /\ \/ m_bLoaded /\ mode' = "drain" /\ UNCHANGED <<http, tryLoad>>
           \/ ~m_bLoaded /\ mode' = "off" /\ http' = FALSE /\ tryLoad' = TRUE
    BY <1>5 DEF MSGameEnd, steamVars
  <2>2. TypeOK'
    BY <1>t, <2>1 DEF TypeOK
  <2>3. DriveInv' /\ Distinct(m_vRequests)'
    BY <1>1, <2>1 DEF DriveInv, Distinct
  <2>4. ASSUME NEW r \in Req PROVE RequestInv(r)'
    BY <1>1, <2>1 DEF RequestInv, RequestOK, Holds
  <2> QED
    BY <2>2, <2>3, <2>4 DEF IInv
<1>6. CASE SendAndWait
  <2>1. mode = "drain" /\ m_bLoaded /\ UNCHANGED enabled
    BY <1>1, <1>6 DEF SendAndWait, DriveInv
  <2>2. CASE /\ mode' = "crashed"
             /\ UNCHANGED <<m_bLoaded, m_vRequests, http, tryLoad, obj, call, answers>>
    <3>1. TypeOK' /\ DriveInv' /\ Distinct(m_vRequests)'
      BY <1>1, <1>t, <2>1, <2>2 DEF TypeOK, DriveInv, Distinct
    <3>2. ASSUME NEW r \in Req PROVE RequestInv(r)'
      BY <1>1, <2>2 DEF RequestInv, RequestOK, Holds
    <3> QED
      BY <3>1, <3>2 DEF IInv
  <2>3. CASE ~(ToSend # {} /\ ~http)
    <3>1. PICK unsent, t : SendAndWaitRound(unsent, t)
      BY <1>6, <2>3, SendAndWaitRounds
    <3> DEFINE done == {r \in Req : t.call[r] \in Outcome}
    <3>2. /\ t \in LoopState /\ Distinct(t.v)
          /\ \A r \in Req : RequestOK(Holds(t.v, r), t.obj[r], t.call[r], answers[r], ~http)
      BY <1>t, <2>1, <2>3, <3>1, ThinkKeeps DEF SendAndWaitRound
    <3>3. t.v \in Seq(Req) /\ t.obj \in [Req -> Object] /\ t.call \in [Req -> Call]
      BY <3>2 DEF LoopState
    <3>4. /\ obj' = Completed(t.obj, done)
          /\ call' = [r \in Req |-> IF r \in done THEN "over" ELSE t.call[r]]
          /\ answers' = [r \in Req |-> answers[r] + IF r \in Answered(t.obj, done) THEN 1 ELSE 0]
      BY <3>1 DEF SendAndWaitRound
    <3>5. obj' \in [Req -> Object] /\ call' \in [Req -> Call] /\ answers' \in [Req -> Nat]
      <4>1. obj' \in [Req -> Object]
        BY <3>3, <3>4, CompletedEffect
      <4>2. call' \in [Req -> Call] /\ answers' \in [Req -> Nat]
        BY <1>t, <3>3, <3>4, CallsDiffer
      <4> QED
        BY <4>1, <4>2
    <3>6. ASSUME NEW r \in Req
          PROVE  RequestOK(Holds(t.v, r), obj'[r], call'[r], answers'[r], ~http)
      <4>1. obj'[r] = IF r \in done THEN ClosedObject(t.obj[r])
                      ELSE t.obj[r]
        BY <3>3, <3>4, CompletedEffect
      <4>2. CASE r \in done
        <5>1. t.call[r] \in Outcome /\ t.obj[r] \in Object /\ call'[r] = "over"
          BY <3>3, <3>4, <4>2
        <5>2. RequestOK(Holds(t.v, r), t.obj[r], t.call[r], answers[r], ~http)
          BY <3>2
        <5>3. RequestOK(Holds(t.v, r), ClosedObject(t.obj[r]),
                        "over", answers'[r], ~http)
          BY <5>1, <5>2, CompletionKeeps
        <5> QED
          BY <4>1, <4>2, <5>1, <5>3
      <4>3. CASE r \notin done
        <5>1. obj'[r] = t.obj[r] /\ call'[r] = t.call[r]
          BY <3>4, <4>1, <4>3
        <5>2. answers'[r] = answers[r]
          BY <1>t, <3>4, <4>3 DEF Answered
        <5> QED
          BY <3>2, <5>1, <5>2
      <4> QED
        BY <4>2, <4>3
    <3>7. CASE m_vRequests' = t.v /\ UNCHANGED <<mode, m_bLoaded, http, tryLoad>>
      <4>1. TypeOK' /\ DriveInv' /\ Distinct(m_vRequests)'
        BY <1>1, <1>t, <2>1, <3>2, <3>3, <3>5, <3>7 DEF TypeOK, DriveInv, Distinct
      <4>2. ASSUME NEW r \in Req PROVE RequestInv(r)'
        BY <2>1, <3>6, <3>7 DEF RequestInv, RequestOK, Holds
      <4> QED
        BY <4>1, <4>2 DEF IInv
    <3>8. CASE /\ ~KeepWaiting(http, t.v)
               /\ m_vRequests' = <<>> /\ m_bLoaded' = FALSE /\ mode' = "off"
               /\ http' = FALSE /\ tryLoad' = TRUE
      <4>1. TypeOK' /\ DriveInv' /\ Distinct(m_vRequests)'
        <5>1. m_vRequests' \in Seq(Req) /\ Distinct(m_vRequests)'
          BY <3>8 DEF Distinct
        <5> QED
          BY <1>t, <2>1, <3>5, <3>8, <5>1 DEF TypeOK, DriveInv
      <4>2. ASSUME NEW r \in Req PROVE ~Holds(t.v, r)
        <5>1. CASE ~http
          <6> SUFFICES ASSUME Holds(t.v, r) PROVE FALSE
            OBVIOUS
          <6>1. /\ Holds(m_vRequests, r) /\ obj[r].state # FINISHED
            BY <1>1, <3>1, ThinkLoopEffect DEF SendAndWaitRound
          <6>2. obj[r].state = QUEUED
            BY <1>1, <5>1, <6>1 DEF RequestInv, RequestOK
          <6>3. r \in ToSend
            BY <1>t, <6>1, <6>2, HoldsIsToSet DEF ToSend
          <6> QED
            BY <2>3, <5>1, <6>3
        <5>2. CASE http
          <6>1. ~(Len(t.v) > 0)
            BY <3>8, <5>2 DEF KeepWaiting
          <6> QED
            BY <3>3, <6>1 DEF Holds
        <5> QED
          BY <1>t, <5>1, <5>2
      <4>3. ASSUME NEW r \in Req PROVE RequestInv(r)'
        <5>1. ~Holds(<<>>, r)
          BY DEF Holds
        <5>2. RequestOK(FALSE, obj'[r], call'[r], answers'[r], TRUE)
          BY <3>6, <4>2 DEF RequestOK
        <5> QED
          BY <3>8, <5>1, <5>2 DEF RequestInv, RequestOK, Holds
      <4> QED
        BY <4>1, <4>3 DEF IInv
    <3> QED
      BY <3>1, <3>7, <3>8 DEF SendAndWaitRound
  <2> QED
    BY <1>6, <2>2, <2>3 DEF SendAndWait, steamVars
<1>7. ASSUME NEW r \in Req, QueueRequest(r) PROVE IInv'
  <2>1. /\ obj[r].life = "unborn" /\ obj' = [obj EXCEPT ![r].life = "live"]
        /\ m_vRequests' = Append(m_vRequests, r)
        /\ UNCHANGED <<mode, enabled, m_bLoaded, http, tryLoad, call, answers>>
    BY <1>7 DEF QueueRequest, steamVars
  <2>2. ~Holds(m_vRequests, r)
    BY <1>1, <2>1 DEF RequestInv, RequestOK
  <2>3. /\ m_vRequests' \in Seq(Req) /\ Distinct(m_vRequests')
        /\ \A x : Holds(m_vRequests', x) <=> Holds(m_vRequests, x) \/ x = r
    BY <1>1, <1>t, <2>1, <2>2, AppendHolds
  <2>4. /\ obj' \in [Req -> Object] /\ obj'[r].life = "live" /\ obj'[r].state = obj[r].state
        /\ obj'[r].handle = obj[r].handle
        /\ \A x \in Req \ {r} : obj'[x] = obj[x]
    <3>1. obj[r] \in Object
      BY <1>t
    <3>2. [obj[r] EXCEPT !.life = "live"] \in Object
      BY <3>1 DEF Object
    <3> QED
      BY <1>t, <2>1, <3>1, <3>2 DEF Object
  <2>5. TypeOK' /\ DriveInv' /\ Distinct(m_vRequests)'
    BY <1>1, <1>t, <2>1, <2>3, <2>4 DEF TypeOK, DriveInv, Distinct
  <2>6. ASSUME NEW x \in Req PROVE RequestInv(x)'
    <3>1. Holds(m_vRequests, x)' <=> Holds(m_vRequests, x) \/ x = r
      BY <2>3 DEF Holds
    <3>2. RequestOK(Holds(m_vRequests, x), obj[x], call[x], answers[x], ~http \/ ~m_bLoaded)
      BY <1>1 DEF RequestInv
    <3>3. CASE x = r
      BY <2>1, <2>4, <3>1, <3>2, <3>3, StatesDiffer DEF RequestInv, RequestOK
    <3>4. CASE x # r
      BY <2>1, <2>4, <3>1, <3>2, <3>4 DEF RequestInv, RequestOK
    <3> QED
      BY <3>3, <3>4
  <2> QED
    BY <2>5, <2>6 DEF IInv
<1>8. ASSUME NEW r \in Req, NEW o \in Outcome, SteamCompletes(r, o) PROVE IInv'
  <2>1. /\ call[r] = "pending" /\ call' = [call EXCEPT ![r] = o]
        /\ UNCHANGED <<mode, enabled, m_bLoaded, m_vRequests, http, tryLoad, obj, answers>>
    BY <1>8 DEF SteamCompletes, steamVars
  <2>2. TypeOK' /\ DriveInv' /\ Distinct(m_vRequests)'
    BY <1>1, <1>t, <2>1, CallsDiffer DEF TypeOK, DriveInv, Distinct
  <2>3. ASSUME NEW x \in Req PROVE RequestInv(x)'
    <3>1. RequestOK(Holds(m_vRequests, x), obj[x], call[x], answers[x], ~http \/ ~m_bLoaded)
      BY <1>1 DEF RequestInv
    <3>2. call'[x] = IF x = r THEN o ELSE call[x]
      BY <1>t, <2>1
    <3> QED
      BY <2>1, <3>1, <3>2 DEF RequestInv, RequestOK, Holds
  <2> QED
    BY <2>2, <2>3 DEF IInv
<1>9. CASE UNCHANGED vars
  <2>1. UNCHANGED <<mode, enabled, m_bLoaded, m_vRequests, http, tryLoad, obj, call, answers>>
    BY <1>9 DEF vars, steamVars
  <2>2. TypeOK' /\ DriveInv' /\ Distinct(m_vRequests)'
    BY <1>1, <2>1 DEF TypeOK, DriveInv, Distinct
  <2>3. ASSUME NEW x \in Req PROVE RequestInv(x)'
    BY <1>1, <2>1 DEF RequestInv, RequestOK, Holds
  <2> QED
    BY <2>2, <2>3 DEF IInv
<1> QED
  BY <1>2, <1>3, <1>4, <1>5, <1>6, <1>7, <1>8, <1>9 DEF Next

LEMMA AlwaysIInv == Spec => []IInv
<1>1. Init => IInv
  BY InitIInv
<1>2. IInv /\ [Next]_vars => IInv'
  BY NextIInv
<1> QED
  BY <1>1, <1>2, PTL DEF Spec
-----------------------------------------------------------------------------
(***************************************************************************)
(* The fields stay in their types, for any requests, any configuration and *)
(* any length of the vector.                                               *)
(***************************************************************************)
THEOREM TypeCorrect == Spec => []TypeOK
<1>1. IInv => TypeOK
  BY DEF IInv
<1> QED
  BY <1>1, AlwaysIInv, PTL

(***************************************************************************)
(* Ownership: Think, which erases from the vector it walks, and Shutdown,  *)
(* which clears it, never lose, leak or keep an object past its delete.    *)
(***************************************************************************)
THEOREM Ownership == Spec => []VectorOwnsLiveObjects
<1>1. ASSUME IInv PROVE VectorOwnsLiveObjects
  <2>1. m_vRequests \in Seq(Req)
    BY <1>1 DEF IInv, TypeOK
  <2>2. \A i, j \in DOMAIN m_vRequests : m_vRequests[i] = m_vRequests[j] => i = j
    BY <1>1, <2>1 DEF IInv, Distinct
  <2>3. \A r \in Req : r \in ToSet(m_vRequests) <=> obj[r].life = "live"
    BY <1>1, <2>1, HoldsIsToSet DEF IInv, RequestInv, RequestOK
  <2> QED
    BY <2>2, <2>3 DEF VectorOwnsLiveObjects
<1> QED
  BY <1>1, AlwaysIInv, PTL

(***************************************************************************)
(* A request is EXECUTED, with an open handle, exactly while Steam owes it *)
(* a callback: no object is deleted under a call in flight, none waits for *)
(* a callback that cannot come.                                            *)
(***************************************************************************)
THEOREM CallbackOwed == Spec => []ExecutedMeansCallPending
<1>1. IInv => ExecutedMeansCallPending
  BY DEF IInv, RequestInv, RequestOK, ExecutedMeansCallPending
<1> QED
  BY <1>1, AlwaysIInv, PTL

\* What a frame's Think, or a round of SendAndWait, does to the requests.
LEMMA ThinkSteps ==
  ASSUME MSGameThink \/ SendAndWait, m_bLoaded, mode' # "crashed"
  PROVE  \E suppressResp \in BOOLEAN : \E unsent, done :
           \/ obj' = ThinkLoop(suppressResp, unsent).obj
           \/ obj' = Completed(ThinkLoop(suppressResp, unsent).obj, done)
<1>1. CASE MSGameThink
  <2>1. \E unsent : obj' = ThinkLoop(FALSE, unsent).obj
    BY <1>1 DEF MSGameThink
  <2> QED
    BY <2>1
<1>2. CASE SendAndWait
  <2>1. \E unsent, done : obj' = Completed(ThinkLoop(TRUE, unsent).obj, done)
    BY <1>2 DEF SendAndWait
  <2> QED
    BY <2>1
<1> QED
  BY <1>1, <1>2

(***************************************************************************)
(* One Think reaches every element although it erases while it walks.      *)
(***************************************************************************)
THEOREM ThinkReaches == Spec => ThinkReachesEveryRequest
<1>1. ASSUME IInv, MSGameThink \/ SendAndWait, m_bLoaded, mode' # "crashed",
             NEW r \in ToSet(m_vRequests)
      PROVE  /\ obj[r].state = QUEUED => obj'[r].state # QUEUED
             /\ obj[r].state = FINISHED => obj'[r].life = "deleted"
  <2>1. /\ TypeOK /\ Distinct(m_vRequests) /\ m_vRequests \in Seq(Req)
    BY <1>1 DEF IInv, TypeOK
  <2>2. r \in Req /\ Holds(m_vRequests, r)
    BY <2>1, HoldsIsToSet DEF ToSet
  <2>3. PICK suppressResp \in BOOLEAN : \E unsent, done :
          \/ obj' = ThinkLoop(suppressResp, unsent).obj
          \/ obj' = Completed(ThinkLoop(suppressResp, unsent).obj, done)
    BY <1>1, ThinkSteps
  <2>p. PICK unsent, done :
          \/ obj' = ThinkLoop(suppressResp, unsent).obj
          \/ obj' = Completed(ThinkLoop(suppressResp, unsent).obj, done)
    BY <2>3
  <2>4. PICK t : t = ThinkLoop(suppressResp, unsent)
    OBVIOUS
  <2>5. t \in LoopState /\ t.obj[r] = VisitedObject(obj[r], suppressResp, r \in unsent)
    BY <2>1, <2>2, <2>3, <2>4, ThinkLoopEffect
  <2>6. t.obj \in [Req -> Object] /\ (obj' = t.obj \/ obj' = Completed(t.obj, done))
    BY <2>p, <2>4, <2>5 DEF LoopState
  <2>7. obj'[r].life = t.obj[r].life
    BY <2>2, <2>6, CompletedEffect
  <2>8. obj'[r].state = t.obj[r].state \/ obj'[r].state = FINISHED
    <3>1. ClosedObject(t.obj[r]).state = FINISHED
      BY <2>2, <2>6 DEF ClosedObject, Object
    <3> QED
      BY <2>2, <2>6, <3>1, CompletedEffect
  <2>9. /\ obj[r].state = QUEUED => t.obj[r].state # QUEUED
        /\ obj[r].state = FINISHED => t.obj[r].life = "deleted"
    BY <2>5, StatesDiffer DEF VisitedObject
  <2> QED
    BY <2>7, <2>8, <2>9, StatesDiffer
<1>2. ASSUME IInv, [Next]_vars
      PROVE  [(MSGameThink \/ SendAndWait) /\ m_bLoaded /\ mode' # "crashed" =>
                \A r \in ToSet(m_vRequests) :
                  /\ obj[r].state = QUEUED => obj'[r].state # QUEUED
                  /\ obj[r].state = FINISHED => obj'[r].life = "deleted"]_vars
  BY <1>1, <1>2
<1> QED
  BY <1>2, AlwaysIInv, PTL DEF Spec, ThinkReachesEveryRequest
-----------------------------------------------------------------------------
(* The refinement of RequestPool, on a dedicated server.                   *)

\* Between two maps nothing is live, so that the players a handler would
\* write to are never those of an earlier map.  Only a dedicated server loads
\* the manager wherever it may queue a request.
LifeInv ==
  /\ mode = "running" /\ enabled => m_bLoaded
  /\ mode = "off" \/ ~m_bLoaded => \A r \in Req : obj[r].life # "live"

LEMMA LifeStep ==
  ASSUME Dedicated = TRUE, IInv, LifeInv, [Next]_vars
  PROVE  LifeInv'
<1>1. TypeOK /\ Distinct(m_vRequests) /\ DriveInv /\ \A r \in Req : RequestInv(r)
  BY DEF IInv
<1>t. /\ enabled \in BOOLEAN /\ m_bLoaded \in BOOLEAN /\ http \in BOOLEAN
      /\ obj \in [Req -> Object] /\ m_vRequests \in Seq(Req)
  BY <1>1 DEF TypeOK
<1>i. IInv' /\ (\A r \in Req : RequestInv(r)')
  BY NextIInv DEF IInv
<1>2. CASE MSWorldSpawn
  BY <1>2, <1>t DEF LifeInv, MSWorldSpawn
<1>3. CASE MSGameThink
  <2>1. mode = "running" /\ mode' \in {"running", "crashed"} /\ UNCHANGED <<enabled, m_bLoaded>>
    BY <1>3 DEF MSGameThink
  <2>2. ~m_bLoaded => UNCHANGED obj
    BY <1>3 DEF MSGameThink
  <2> QED
    BY <2>1, <2>2 DEF LifeInv
<1>4. CASE RunCallbacks
  <2>1. /\ mode = "running" /\ UNCHANGED <<mode, m_bLoaded>>
        /\ enabled' = enabled \/ enabled' = FALSE
        /\ obj' = Completed(obj, Done)
    BY <1>4 DEF RunCallbacks
  <2>2. \A r \in Req : obj'[r].life = obj[r].life
    BY <1>t, <2>1, CompletedEffect
  <2> QED
    BY <2>1, <2>2 DEF LifeInv
<1>5. CASE MSGameEnd
  BY <1>5 DEF LifeInv, MSGameEnd
<1>6. CASE SendAndWait
  <2>1. mode = "drain" /\ m_bLoaded
    BY <1>1, <1>6 DEF SendAndWait, DriveInv
  <2>2. \/ mode' \in {"drain", "crashed"} /\ UNCHANGED m_bLoaded
        \/ mode' = "off" /\ m_vRequests' = <<>>
    BY <1>6, <2>1 DEF SendAndWait
  <2>3. m_vRequests' = <<>> => \A r \in Req : obj'[r].life # "live"
    <3> SUFFICES ASSUME m_vRequests' = <<>>, NEW r \in Req PROVE obj'[r].life # "live"
      OBVIOUS
    <3>1. ~Holds(m_vRequests, r)'
      BY DEF Holds
    <3> QED
      BY <1>i, <3>1 DEF RequestInv, RequestOK
  <2> QED
    BY <2>1, <2>2, <2>3 DEF LifeInv
<1>7. ASSUME NEW r \in Req, QueueRequest(r) PROVE LifeInv'
  BY <1>7, <1>t DEF LifeInv, QueueRequest
<1>8. ASSUME NEW r \in Req, NEW o \in Outcome, SteamCompletes(r, o) PROVE LifeInv'
  BY <1>8 DEF LifeInv, SteamCompletes
<1>9. CASE UNCHANGED vars
  BY <1>9 DEF LifeInv, vars
<1> QED
  BY <1>2, <1>3, <1>4, <1>5, <1>6, <1>7, <1>8, <1>9 DEF Next

\* FateOf, of an object and how often its handler was called.
FateOfObject(o, a) ==
  CASE o.life = "unborn"  -> "new"
    [] o.life = "deleted" -> "gone"
    [] OTHER -> IF o.state # FINISHED THEN "waiting"
                ELSE IF a > 0 THEN "answered" ELSE "dropped"

\* What a frame may do to a fate without calling a handler.
Quietly(f, g) ==
  \/ g = f
  \/ f = "waiting" /\ g = "dropped"
  \/ f \in {"answered", "dropped"} /\ g = "gone"

LEMMA FateTypes ==
  ASSUME NEW o \in Object, NEW a
  PROVE  /\ FateOfObject(o, a) \in Pool!Fate
         /\ o.life = "unborn"  => FateOfObject(o, a) = "new"
         /\ o.life = "deleted" => FateOfObject(o, a) = "gone"
         /\ o.life = "live" => FateOfObject(o, a) =
              IF o.state # FINISHED THEN "waiting" ELSE IF a > 0 THEN "answered" ELSE "dropped"
<1>1. o.life \in {"unborn", "live", "deleted"}
  BY DEF Object
<1> QED
  BY <1>1 DEF FateOfObject, Pool!Fate

LEMMA VisitFate ==
  ASSUME NEW o \in Object, NEW c \in Call, NEW a \in Nat, NEW idle, RequestOK(TRUE, o, c, a, idle),
         NEW suppressResp \in BOOLEAN, NEW failed
  PROVE  Quietly(FateOfObject(o, a), FateOfObject(VisitedObject(o, suppressResp, failed), a))
<1>1. o.state \in {QUEUED, EXECUTED, FINISHED} /\ o.life = "live"
  BY DEF Object, RequestState, RequestOK
<1> DEFINE p == VisitedObject(o, suppressResp, failed)
<1>2. p \in Object
  BY VisitedTypes
<1>3. /\ o.state = QUEUED => p.state \in {EXECUTED, FINISHED} /\ p.life = "live"
      /\ o.state = EXECUTED => p.state = EXECUTED /\ p.life = "live"
      /\ o.state = FINISHED => p.life = "deleted"
  BY <1>1, StatesDiffer DEF VisitedObject
<1>4. o.state # FINISHED => a = 0
  BY DEF RequestOK
<1> HIDE DEF p
<1>5. Quietly(FateOfObject(o, a), FateOfObject(p, a))
  BY <1>1, <1>2, <1>3, <1>4, FateTypes, StatesDiffer DEF Quietly
<1> QED
  BY <1>5 DEF p

LEMMA CompletionFate ==
  ASSUME NEW o \in Object, NEW c \in Outcome, NEW a \in Nat, NEW idle, NEW inVector,
         RequestOK(inVector, o, c, a, idle)
  PROVE  /\ FateOfObject(o, a) = "waiting"
         /\ FateOfObject(ClosedObject(o), a) = "dropped"
         /\ FateOfObject(ClosedObject(o), a + 1) = "answered"
<1>1. o.state = EXECUTED /\ o.life = "live" /\ a = 0
  BY StatesDiffer DEF RequestOK
<1> DEFINE p == ClosedObject(o)
<1>2. p \in Object /\ p.life = "live" /\ p.state = FINISHED
  BY <1>1 DEF ClosedObject, Object, RequestState
<1> HIDE DEF p
<1>3. FateOfObject(p, a) = "dropped" /\ FateOfObject(p, a + 1) = "answered"
  BY <1>1, <1>2, FateTypes
<1>4. FateOfObject(o, a) = "waiting"
  BY <1>1, FateTypes, StatesDiffer
<1> QED
  BY <1>3, <1>4 DEF p

LEMMA FateIsOfObject == \A r : FateOf(r) = FateOfObject(obj[r], answers[r])
BY DEF FateOf, FateOfObject

\* The fates after a step, of the objects and the counts after it.
LEMMA FateIsOfObjectAfter == \A r : FateOf(r)' = FateOfObject(obj'[r], answers'[r])
BY DEF FateOf, FateOfObject

\* A step that calls handlers only while a map runs is a Progress.
LEMMA StepIsProgress ==
  ASSUME (mode = "running")' <=> mode = "running",
         \A r \in Req : /\ FateOf(r)' \in Pool!Fate
                        /\ \/ Quietly(FateOf(r), FateOf(r)')
                           \/ FateOf(r) = "waiting" /\ FateOf(r)' = "answered" /\ mode = "running"
  PROVE  Pool!Progress
<1> DEFINE f == [r \in Req |-> FateOf(r)]
           g == [r \in Req |-> FateOf(r)']
<1>1. g \in [Req -> Pool!Fate]
  OBVIOUS
<1>2. ASSUME NEW r \in Req
      PROVE  \/ g[r] = f[r]
             \/ f[r] = "waiting" /\ g[r] = "answered" /\ mode = "running"
             \/ f[r] = "waiting" /\ g[r] = "dropped"
             \/ f[r] \in {"answered", "dropped"} /\ g[r] = "gone"
  BY DEF Quietly
<1>3. (mode = "running")' = (mode = "running")
  OBVIOUS
<1> QED
  BY <1>1, <1>2, <1>3 DEF Pool!Progress

\* A step that leaves the fates and the openness alone is a stutter.
LEMMA StepIsStutter ==
  ASSUME (mode = "running")' <=> mode = "running",
         \A r \in Req : FateOf(r)' = FateOf(r)
  PROVE  UNCHANGED Pool!poolVars
BY DEF Pool!poolVars

LEMMA StepRefines ==
  ASSUME Dedicated = TRUE, IInv, LifeInv, [Next]_vars
  PROVE  [Pool!PoolNext]_Pool!poolVars
<1>1. TypeOK /\ Distinct(m_vRequests) /\ DriveInv /\ \A r \in Req : RequestInv(r)
  BY DEF IInv
<1>t. /\ mode \in {"off", "running", "drain", "crashed"}
      /\ m_bLoaded \in BOOLEAN /\ http \in BOOLEAN
      /\ obj \in [Req -> Object] /\ call \in [Req -> Call] /\ answers \in [Req -> Nat]
  BY <1>1 DEF TypeOK
<1>2. CASE MSWorldSpawn
  <2>1. mode = "off" /\ mode' = "running" /\ UNCHANGED <<obj, answers>>
    BY <1>2 DEF MSWorldSpawn
  <2>2. \A r \in Req : FateOf(r) \in {"new", "gone"}
    <3> SUFFICES ASSUME NEW r \in Req PROVE FateOf(r) \in {"new", "gone"}
      OBVIOUS
    <3>1. obj[r] \in Object /\ obj[r].life \in {"unborn", "deleted"}
      BY <1>t, <2>1 DEF LifeInv, Object
    <3> QED
      BY <3>1, FateTypes, FateIsOfObject
  <2>3. \A r \in Req : FateOf(r)' = FateOf(r)
    BY <2>1, FateIsOfObject, FateIsOfObjectAfter
  <2>4. Pool!Open
    BY <2>1, <2>2, <2>3 DEF Pool!Open
  <2> QED
    BY <2>4 DEF Pool!PoolNext
<1>3. CASE MSGameThink
  <2>1. /\ mode = "running" /\ mode' \in {"running", "crashed"} /\ UNCHANGED answers
    BY <1>3 DEF MSGameThink
  <2>2. CASE UNCHANGED obj
    <3>1. \A r \in Req : FateOf(r)' = FateOf(r)
      BY <2>1, <2>2, FateIsOfObject, FateIsOfObjectAfter
    <3>2. CASE mode' = "running"
      BY <2>1, <3>1, <3>2, StepIsStutter
    <3>3. CASE mode' = "crashed"
      <4>1. Pool!Close
        BY <2>1, <3>1, <3>3 DEF Pool!Close
      <4> QED
        BY <4>1 DEF Pool!PoolNext
    <3> QED
      BY <2>1, <3>2, <3>3
  <2>3. CASE ~UNCHANGED obj
    <3>1. mode' = "running" /\ \E unsent : obj' = ThinkLoop(FALSE, unsent).obj
      BY <1>3, <2>1, <2>3 DEF MSGameThink
    <3>2. PICK unsent : obj' = ThinkLoop(FALSE, unsent).obj
      BY <3>1
    <3>3. PICK t : t = ThinkLoop(FALSE, unsent)
      OBVIOUS
    <3>4. obj' = t.obj
      BY <3>2, <3>3
    <3>5. /\ t \in LoopState
          /\ \A r \in Req : Holds(m_vRequests, r) =>
               t.obj[r] = VisitedObject(obj[r], FALSE, r \in unsent)
          /\ \A r \in Req : ~Holds(m_vRequests, r) => t.obj[r] = obj[r]
      BY <1>1, <3>3, ThinkLoopEffect
    <3>6. ASSUME NEW r \in Req
          PROVE  FateOf(r)' \in Pool!Fate /\ Quietly(FateOf(r), FateOf(r)')
      <4>1. FateOf(r) = FateOfObject(obj[r], answers[r])
        BY FateIsOfObject
      <4>2. FateOf(r)' = FateOfObject(t.obj[r], answers[r])
        BY <2>1, <3>4, FateIsOfObjectAfter
      <4>3. t.obj[r] \in Object
        BY <3>5 DEF LoopState
      <4>4. Quietly(FateOf(r), FateOf(r)')
        <5>1. CASE Holds(m_vRequests, r)
          <6>1. RequestOK(TRUE, obj[r], call[r], answers[r], ~http \/ ~m_bLoaded)
            BY <1>1, <5>1 DEF RequestInv, RequestOK
          <6>2. Quietly(FateOfObject(obj[r], answers[r]),
                        FateOfObject(VisitedObject(obj[r], FALSE, r \in unsent), answers[r]))
            BY <1>t, <6>1, VisitFate
          <6> QED
            BY <3>5, <4>1, <4>2, <5>1, <6>2
        <5>2. CASE ~Holds(m_vRequests, r)
          BY <3>5, <4>1, <4>2, <5>2 DEF Quietly
        <5> QED
          BY <5>1, <5>2
      <4> QED
        BY <4>2, <4>3, <4>4, FateTypes
    <3>7. Pool!Progress
      BY <2>1, <3>1, <3>6, StepIsProgress
    <3> QED
      BY <3>7 DEF Pool!PoolNext
  <2> QED
    BY <2>2, <2>3
<1>4. CASE RunCallbacks
  <2>1. /\ mode = "running" /\ UNCHANGED mode /\ obj' = Completed(obj, Done)
        /\ answers' = [r \in Req |-> answers[r] + IF r \in Answered(obj, Done) THEN 1 ELSE 0]
    BY <1>4 DEF RunCallbacks
  <2>2. ASSUME NEW r \in Req
        PROVE  /\ FateOf(r)' \in Pool!Fate
               /\ \/ Quietly(FateOf(r), FateOf(r)')
                  \/ FateOf(r) = "waiting" /\ FateOf(r)' = "answered" /\ mode = "running"
    <3>1. /\ obj'[r] = IF r \in Done THEN ClosedObject(obj[r]) ELSE obj[r]
          /\ obj'[r] \in Object
      BY <1>t, <2>1, CompletedEffect
    <3>2. answers'[r] \in {answers[r], answers[r] + 1} /\ (r \notin Done => answers'[r] = answers[r])
      BY <1>t, <2>1 DEF Answered
    <3>3. FateOf(r) = FateOfObject(obj[r], answers[r]) /\ FateOf(r)' = FateOfObject(obj'[r], answers'[r])
      BY FateIsOfObject, FateIsOfObjectAfter
    <3>4. CASE r \in Done
      <4>1. call[r] \in Outcome /\ obj[r] \in Object /\ answers[r] \in Nat
        BY <1>t, <3>4 DEF Done
      <4>2. RequestOK(Holds(m_vRequests, r), obj[r], call[r], answers[r], ~http \/ ~m_bLoaded)
        BY <1>1 DEF RequestInv
      <4>3. /\ FateOfObject(obj[r], answers[r]) = "waiting"
            /\ FateOfObject(ClosedObject(obj[r]), answers[r]) = "dropped"
            /\ FateOfObject(ClosedObject(obj[r]), answers[r] + 1) = "answered"
        BY <4>1, <4>2, CompletionFate
      <4> QED
        BY <2>1, <3>1, <3>2, <3>3, <3>4, <4>3, FateTypes DEF Quietly
    <3>5. CASE r \notin Done
      BY <3>1, <3>2, <3>3, <3>5, FateTypes DEF Quietly
    <3> QED
      BY <3>4, <3>5
  <2>3. Pool!Progress
    BY <2>1, <2>2, StepIsProgress
  <2> QED
    BY <2>3 DEF Pool!PoolNext
<1>5. CASE MSGameEnd
  <2>1. mode = "running" /\ mode' \in {"drain", "off"} /\ UNCHANGED <<obj, answers>>
    BY <1>5 DEF MSGameEnd
  <2>2. \A r \in Req : FateOf(r)' = FateOf(r)
    BY <2>1, FateIsOfObject, FateIsOfObjectAfter
  <2>3. Pool!Close
    BY <2>1, <2>2 DEF Pool!Close
  <2> QED
    BY <2>3 DEF Pool!PoolNext
<1>6. CASE SendAndWait
  <2>1. mode = "drain" /\ m_bLoaded /\ mode' \in {"drain", "crashed", "off"}
    BY <1>1, <1>6 DEF SendAndWait, DriveInv
  <2>2. CASE UNCHANGED <<obj, answers>>
    <3>1. \A r \in Req : FateOf(r)' = FateOf(r)
      BY <2>2, FateIsOfObject, FateIsOfObjectAfter
    <3> QED
      BY <2>1, <3>1, StepIsStutter
  <2>3. CASE ~UNCHANGED <<obj, answers>>
    <3>1. ~(ToSend # {} /\ ~http)
      BY <1>6, <2>3 DEF SendAndWait
    <3>2. PICK unsent, t : SendAndWaitRound(unsent, t)
      BY <1>6, <3>1, SendAndWaitRounds
    <3> DEFINE done == {r \in Req : t.call[r] \in Outcome}
    <3>d. /\ obj' = Completed(t.obj, done)
          /\ answers' = [r \in Req |-> answers[r] + IF r \in Answered(t.obj, done) THEN 1 ELSE 0]
          /\ \A r \in Req : r \in done => t.call[r] \in Outcome
      BY <3>2 DEF SendAndWaitRound
    <3> HIDE DEF done
    <3>3. /\ t \in LoopState
          /\ \A r \in Req : Holds(m_vRequests, r) =>
               /\ t.obj[r] = VisitedObject(obj[r], TRUE, r \in unsent)
               /\ t.call[r] = VisitedCall(obj[r], call[r], r \in unsent)
          /\ \A r \in Req : ~Holds(m_vRequests, r) => t.obj[r] = obj[r] /\ t.call[r] = call[r]
      BY <1>1, <3>2, ThinkLoopEffect DEF SendAndWaitRound
    <3>4. \A r \in Req : RequestOK(Holds(t.v, r), t.obj[r], t.call[r], answers[r], ~http)
      BY <1>t, <2>1, <3>1, <3>2, ThinkKeeps DEF SendAndWaitRound
    <3>5. ASSUME NEW r \in Req
          PROVE  FateOf(r)' \in Pool!Fate /\ Quietly(FateOf(r), FateOf(r)')
      <4>1. /\ t.obj[r] \in Object /\ t.obj \in [Req -> Object] /\ t.call[r] \in Call
        BY <3>3 DEF LoopState
      <4>2. /\ obj'[r] = IF r \in done THEN ClosedObject(t.obj[r]) ELSE t.obj[r]
            /\ obj'[r] \in Object
        BY <3>d, <4>1, CompletedEffect
      <4>3. RequestOK(Holds(m_vRequests, r), obj[r], call[r], answers[r], ~http \/ ~m_bLoaded)
        BY <1>1 DEF RequestInv
      <4>4. answers[r] \in Nat /\ obj[r] \in Object /\ call[r] \in Call
        BY <1>t
      <4>5. Quietly(FateOfObject(obj[r], answers[r]), FateOfObject(t.obj[r], answers[r]))
        <5>1. CASE Holds(m_vRequests, r)
          <6>1. RequestOK(TRUE, obj[r], call[r], answers[r], ~http \/ ~m_bLoaded)
            BY <4>3, <5>1 DEF RequestOK
          <6>2. Quietly(FateOfObject(obj[r], answers[r]),
                        FateOfObject(VisitedObject(obj[r], TRUE, r \in unsent), answers[r]))
            BY <4>4, <6>1, VisitFate
          <6> QED
            BY <3>3, <5>1, <6>2
        <5>2. CASE ~Holds(m_vRequests, r)
          BY <3>3, <5>2 DEF Quietly
        <5> QED
          BY <5>1, <5>2
      <4>6. FateOf(r) = FateOfObject(obj[r], answers[r]) /\ FateOf(r)' = FateOfObject(obj'[r], answers'[r])
        BY FateIsOfObject, FateIsOfObjectAfter
      <4>7. CASE r \in done
        <5>1. t.call[r] \in Outcome
          BY <3>d, <4>7
        <5>2. RequestOK(Holds(t.v, r), t.obj[r], t.call[r], answers[r], ~http)
          BY <3>4
        <5>3. /\ FateOfObject(t.obj[r], answers[r]) = "waiting"
              /\ FateOfObject(ClosedObject(t.obj[r]), answers[r]) = "dropped"
          BY <4>1, <4>4, <5>1, <5>2, CompletionFate
        <5>4. Holds(m_vRequests, r)
          <6> SUFFICES ASSUME ~Holds(m_vRequests, r) PROVE FALSE
            OBVIOUS
          <6>1. call[r] \in Outcome
            BY <3>3, <5>1
          <6> QED
            BY <4>3, <6>1 DEF RequestOK
        <5>5. t.obj[r].suppress
          <6>1. t.obj[r] = VisitedObject(obj[r], TRUE, r \in unsent)
            BY <3>3, <5>4
          <6>2. \A p, failed : p = VisitedObject(obj[r], TRUE, failed) => p.suppress = TRUE
            BY DEF VisitedObject
          <6> QED
            BY <6>1, <6>2
        <5>6. r \notin Answered(t.obj, done)
          BY <5>5 DEF Answered, OnHTTPRequestCompleted
        <5>7. answers'[r] = answers[r]
          BY <3>d, <4>4, <5>6
        <5>8. FateOf(r)' = "dropped"
          BY <4>2, <4>6, <4>7, <5>3, <5>7
        <5>9. FateOf(r) = "waiting"
          BY <4>5, <4>6, <5>3 DEF Quietly
        <5> QED
          BY <4>2, <4>6, <5>8, <5>9, FateTypes DEF Quietly
      <4>8. CASE r \notin done
        <5>1. answers'[r] = answers[r]
          BY <3>d, <4>4, <4>8 DEF Answered
        <5> QED
          BY <4>2, <4>5, <4>6, <4>8, <5>1, FateTypes
      <4> QED
        BY <4>7, <4>8
    <3>6. Pool!Progress
      BY <2>1, <3>5, StepIsProgress
    <3> QED
      BY <3>6 DEF Pool!PoolNext
  <2> QED
    BY <2>2, <2>3
<1>7. ASSUME NEW r \in Req, QueueRequest(r) PROVE [Pool!PoolNext]_Pool!poolVars
  <2>1. /\ mode = "running" /\ UNCHANGED <<mode, answers>> /\ obj[r].life = "unborn"
        /\ obj' = [obj EXCEPT ![r].life = "live"]
    BY <1>7 DEF QueueRequest
  <2>2. /\ obj[r] \in Object /\ obj'[r] \in Object /\ obj'[r].life = "live"
        /\ obj'[r].state = obj[r].state
    <3>1. obj[r] \in Object
      BY <1>t
    <3> QED
      BY <1>t, <2>1, <3>1 DEF Object
  <2>3. obj[r].state = QUEUED
    BY <1>1, <2>1 DEF RequestInv, RequestOK
  <2>4. FateOf(r) = "new" /\ FateOf(r)' = "waiting"
    BY <2>1, <2>2, <2>3, FateTypes, FateIsOfObject, FateIsOfObjectAfter, StatesDiffer
  <2>5. \A x \in Req \ {r} : FateOf(x)' = FateOf(x)
    <3>1. \A x \in Req \ {r} : obj'[x] = obj[x] /\ answers'[x] = answers[x]
      BY <1>t, <2>1
    <3> QED
      BY <3>1, FateIsOfObject, FateIsOfObjectAfter
  <2>6. [x \in Req |-> FateOf(x)'] = [[x \in Req |-> FateOf(x)] EXCEPT ![r] = "waiting"]
    BY <2>4, <2>5
  <2>7. Pool!Submit(r)
    BY <2>1, <2>4, <2>6 DEF Pool!Submit
  <2> QED
    BY <2>7 DEF Pool!PoolNext
<1>8. ASSUME NEW r \in Req, NEW o \in Outcome, SteamCompletes(r, o)
      PROVE  [Pool!PoolNext]_Pool!poolVars
  <2>1. UNCHANGED <<mode, obj, answers>>
    BY <1>8 DEF SteamCompletes
  <2> QED
    BY <2>1, FateIsOfObject, FateIsOfObjectAfter, StepIsStutter
<1>9. CASE UNCHANGED vars
  <2>1. UNCHANGED <<mode, obj, answers>>
    BY <1>9 DEF vars
  <2> QED
    BY <2>1, FateIsOfObject, FateIsOfObjectAfter, StepIsStutter
<1> QED
  BY <1>2, <1>3, <1>4, <1>5, <1>6, <1>7, <1>8, <1>9 DEF Next

LEMMA InitRefines == Init => Pool!PoolInit /\ LifeInv
<1> SUFFICES ASSUME Init PROVE Pool!PoolInit /\ LifeInv
  OBVIOUS
<1>1. \A r \in Req : FateOf(r) = "new" /\ obj[r].life = "unborn"
  BY DEF Init, FateOf, NewObject
<1>2. [r \in Req |-> FateOf(r)] = [r \in Req |-> "new"] /\ (mode = "running") = FALSE
  BY <1>1 DEF Init
<1> QED
  BY <1>1, <1>2 DEF Pool!PoolInit, LifeInv, Init

(***************************************************************************)
(* The manager of a dedicated server implements RequestPool: a handler is  *)
(* called at most once per request and never after its map is over, a      *)
(* request is forgotten only when its call has ended, and none outlives    *)
(* the map it was queued in.                                               *)
(***************************************************************************)
THEOREM PoolImplemented == ASSUME Dedicated = TRUE PROVE Spec => ImplementsRequestPool
<1>1. Init => Pool!PoolInit /\ LifeInv
  BY InitRefines
<1>2. IInv /\ LifeInv /\ [Next]_vars => LifeInv'
  BY LifeStep
<1>3. IInv /\ LifeInv /\ [Next]_vars => [Pool!PoolNext]_Pool!poolVars
  BY StepRefines
<1> QED
  BY <1>1, <1>2, <1>3, AlwaysIInv, PTL DEF Spec, ImplementsRequestPool, Pool!PoolSpec
=============================================================================
