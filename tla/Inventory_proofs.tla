-------------------------- MODULE Inventory_proofs --------------------------
(* For any number of players, items and packs, and whatever the items ask   *)
(* of hands, bodies and packs: the lists of an inventory and the pointers   *)
(* back agree (PlacesAgree), a hand holds one item (HandsHoldOne), no       *)
(* transfer loses an item but one into the pack the item is in              *)
(* (NothingStranded), nothing passes from one player to another unless it   *)
(* was offered or chosen (NobodyRobbed), and nothing but a new object, the  *)
(* copy storage keeps or a stale menu makes pieces (NothingMultiplies).     *)
(*                                                                          *)
(* Each operator that moves things is shown to keep an inventory Sound.     *)
(* What empties hands is shown to do nothing else (Less), so that the hand  *)
(* found before an item is taken from its place is still free afterwards.   *)
(* Owners are followed the same way: a player may rearrange what is his     *)
(* (Rearranged) and be given one item with what is in it (Given).           *)
(* Pieces are counted by sums over finite sets, whose laws come first.      *)
EXTENDS Inventory, FiniteSetTheorems, TLAPS

\* Nothing is anywhere that there is no object of.
Within(s, things) ==
  /\ \A i \in Item \ things : Free(s, i)
  /\ \A k \in Pack \ things : s.list[k] = {}

\* No pack is in a pack: what takes out a pack takes out its contents.
Flat(s) == \A k \in Pack : s.parent[k] = NoPack

\* An inventory in order, of some of the things.
Sound(s, things) ==
  s \in Inv /\ Agree(s) /\ OnePerHand(s) /\ Flat(s) /\ Within(s, things)

\* t is s after p has put away things from his hands.
Less(s, t, p) ==
  \A j \in Item :
    /\ t.at[j] \in Hands => s.at[j] = t.at[j] /\ s.owner[j] = t.owner[j]
    /\ t.owner[j] \in {s.owner[j], Nobody}
    /\ s.owner[j] # p \/ s.at[j] \notin Hands => t.parent[j] = s.parent[j]

\* Menus name what there is, and what they group are no packs; copies in
\* storage and offers are of items.
MenusSound ==
  /\ menu = [p \in Player |-> menu[p]]
  /\ \A p \in Player :
       menu[p] = NoMenu \/ (menu[p].item \in live /\ menu[p].group \subseteq Groupable)

StoredSound ==
  /\ stored = [p \in Player |-> stored[p]]
  /\ \A p \in Player : \A r \in stored[p] : r.item \in Item

OffersSound ==
  /\ offer = [p \in Player |-> offer[p]]
  /\ \A p \in Player :
       offer[p] \in Offered \cup {NoOffer}

IInv ==
  live \subseteq Item /\ Sound(inv, live) /\ MenusSound /\ StoredSound /\ OffersSound
-----------------------------------------------------------------------------
(* Single steps of a transfer *)

LEMMA MoreThings ==
  ASSUME NEW s, NEW things, NEW more, things \subseteq more, Sound(s, things)
  PROVE  Sound(s, more)
  BY DEF Sound, Within

LEMMA RemoveTyped ==
  ASSUME NEW s \in Inv, NEW i \in Item
  PROVE  RemoveFromOwner(s, i) \in Inv
  BY DEF RemoveFromOwner, Inv, Hands, NOWHERE

LEMMA RemoveSound ==
  ASSUME NEW s, NEW things, Sound(s, things), NEW i \in Item
  PROVE  /\ Sound(RemoveFromOwner(s, i), things)
         /\ Free(RemoveFromOwner(s, i), i)
         /\ \A j \in Item \ {i} :
              /\ RemoveFromOwner(s, i).owner[j] = s.owner[j]
              /\ RemoveFromOwner(s, i).parent[j] = s.parent[j]
              /\ RemoveFromOwner(s, i).at[j] = s.at[j]
<1> DEFINE t == RemoveFromOwner(s, i)
<1>1. s \in Inv /\ t \in Inv
  BY RemoveTyped DEF Sound
<1>2. /\ \A j \in Item \ {i} :
           t.owner[j] = s.owner[j] /\ t.parent[j] = s.parent[j] /\ t.at[j] = s.at[j]
      /\ t.owner[i] = Nobody /\ t.parent[i] = NoPack /\ t.at[i] = NOWHERE
  BY <1>1 DEF RemoveFromOwner, Inv
<1>3. /\ \A p \in Player : t.gear[p] = s.gear[p] \ {i}
      /\ \A k \in Pack : t.list[k] = s.list[k] \ {i}
  BY <1>1, ConstantsAssumption DEF RemoveFromOwner, Inv, Sound, Agree
<1>4. Agree(t)
  BY <1>1, <1>2, <1>3, ConstantsAssumption DEF Sound, Agree
<1>5. OnePerHand(t)
  BY <1>1, <1>2, <1>3 DEF Sound, OnePerHand, Holds, Inv, Hands, LEFT, RIGHT, NOWHERE
<1>6. Within(t, things) /\ Flat(t)
  BY <1>2, <1>3, ConstantsAssumption DEF Sound, Within, Free, Flat
<1> QED
  BY <1>1, <1>2, <1>4, <1>5, <1>6 DEF Sound, Free

LEMMA HandFound ==
  ASSUME NEW s, NEW p, NEW i
  PROVE  /\ NewItemHand(s, p, i) \in Hands \cup {NOWHERE}
         /\ NewItemHand(s, p, i) # NOWHERE =>
              /\ InHand(s, p, NewItemHand(s, p, i)) = {}
              /\ Pref[i] = "both" => \A j \in s.gear[p] : ~Holds(s, p, j)
              /\ \A j \in s.gear[p] : Holds(s, p, j) => Pref[j] # "both"
  BY DEF NewItemHand, Hands, LEFT, RIGHT, NOWHERE, Other, m_PrefHand, InHand, Holds

LEMMA AddSound ==
  ASSUME NEW s, NEW things, Sound(s, things), NEW p \in Player,
         NEW i \in Item, i \in things, Free(s, i), NewItemHand(s, p, i) # NOWHERE
  PROVE  Sound(AddToOwner(s, p, i, NewItemHand(s, p, i)), things)
<1> DEFINE h == NewItemHand(s, p, i)
           t == AddToOwner(s, p, i, h)
<1>0. h \in Hands /\ h # NOWHERE
  BY HandFound
<1>1. s \in Inv /\ t \in Inv
  BY <1>0 DEF Sound, Inv, AddToOwner
<1>2. /\ \A j \in Item \ {i} :
           t.owner[j] = s.owner[j] /\ t.parent[j] = s.parent[j] /\ t.at[j] = s.at[j]
      /\ t.owner[i] = p /\ t.parent[i] = NoPack /\ t.at[i] = h
      /\ \A q \in Player : t.gear[q] = IF q = p THEN s.gear[q] \cup {i} ELSE s.gear[q]
      /\ t.list = s.list
  BY <1>1 DEF AddToOwner, Inv, Free
<1>3. Agree(t)
  <2> HIDE DEF t, h
  <2>0. s.owner[i] = Nobody /\ s.parent[i] = NoPack /\ Nobody \notin Player
    BY ConstantsAssumption DEF Free
  <2>1. ASSUME NEW q \in Player, NEW j \in Item
        PROVE  j \in t.gear[q] <=> t.owner[j] = q
    <3>1. j \in s.gear[q] <=> s.owner[j] = q
      BY DEF Sound, Agree
    <3>2. CASE j = i
      BY <3>1, <3>2, <1>2, <2>0
    <3>3. CASE j # i
      BY <3>1, <3>3, <1>2
    <3> QED
      BY <3>2, <3>3
  <2>2. \A k \in Pack, j \in Item : j \in t.list[k] <=> t.parent[j] = k
    BY <1>2, <2>0 DEF Sound, Agree
  <2>3. \A j \in Item : t.parent[j] = NoPack \/ t.owner[j] = Nobody
    BY <1>2, <2>0 DEF Sound, Agree
  <2>4. \A j \in Item : t.at[j] = NOWHERE <=> t.owner[j] = Nobody
    BY <1>0, <1>2, <2>0 DEF Sound, Agree
  <2> QED
    BY <2>1, <2>2, <2>3, <2>4 DEF Agree
<1>4. OnePerHand(t)
  <2> SUFFICES ASSUME NEW q \in Player, NEW j \in t.gear[q], NEW l \in t.gear[q],
                      Holds(t, q, j), Holds(t, q, l), j # l
               PROVE  t.at[j] # t.at[l] /\ Pref[j] # "both"
    BY DEF OnePerHand
  <2>0. j \in Item /\ l \in Item
    BY <1>1 DEF Inv
  <2>1. CASE j = i
    <3>1. q = p /\ l \in s.gear[p] /\ t.at[l] = s.at[l] /\ Holds(s, p, l)
      BY <1>2, <1>3, <2>0, <2>1, ConstantsAssumption DEF Holds, Sound, Agree, Free
    <3>2. s.at[l] # h
      BY <3>1, <1>0, HandFound DEF InHand
    <3> QED
      BY <3>1, <3>2, <2>1, <1>2, HandFound
  <2>2. CASE l = i
    <3>1. q = p /\ j \in s.gear[p] /\ t.at[j] = s.at[j] /\ Holds(s, p, j)
      BY <1>2, <1>3, <2>0, <2>2, ConstantsAssumption DEF Holds, Sound, Agree, Free
    <3>2. s.at[j] # h
      BY <3>1, <1>0, HandFound DEF InHand
    <3> QED
      BY <3>1, <3>2, <2>2, <1>2, HandFound
  <2>3. CASE j # i /\ l # i
    <3>1. j \in s.gear[q] /\ l \in s.gear[q] /\ Holds(s, q, j) /\ Holds(s, q, l)
      BY <1>2, <2>0, <2>3 DEF Holds
    <3> QED
      BY <3>1, <1>2, <2>0, <2>3 DEF Sound, OnePerHand
  <2> QED
    BY <2>1, <2>2, <2>3
<1>5. Within(t, things) /\ Flat(t)
  BY <1>2, ConstantsAssumption DEF Sound, Within, Free, Flat
<1> QED
  BY <1>1, <1>3, <1>4, <1>5 DEF Sound

LEMMA ContainerSound ==
  ASSUME NEW s, NEW things, Sound(s, things), NEW k \in Pack, k \in things,
         NEW i \in Item \ Pack, i \in things, Free(s, i)
  PROVE  /\ Sound(Container_AddItem(s, k, i), things)
         /\ Container_AddItem(s, k, i).parent[i] = k
         /\ Container_AddItem(s, k, i).owner = s.owner
         /\ Container_AddItem(s, k, i).at = s.at
         /\ \A j \in Item \ {i} : Container_AddItem(s, k, i).parent[j] = s.parent[j]
<1> DEFINE t == Container_AddItem(s, k, i)
<1>1. s \in Inv /\ t \in Inv
  BY DEF Sound, Inv, Container_AddItem
<1>2. /\ t.owner = s.owner /\ t.at = s.at /\ t.gear = s.gear
      /\ t.parent[i] = k
      /\ \A j \in Item \ {i} : t.parent[j] = s.parent[j]
      /\ \A l \in Pack : t.list[l] = IF l = k THEN s.list[l] \cup {i} ELSE s.list[l]
  BY <1>1 DEF Container_AddItem, Inv
<1>3. Agree(t)
  <2> HIDE DEF t
  <2>0. s.owner[i] = Nobody /\ s.parent[i] = NoPack /\ NoPack \notin Pack
    BY ConstantsAssumption DEF Free
  <2>1. ASSUME NEW l \in Pack, NEW j \in Item
        PROVE  j \in t.list[l] <=> t.parent[j] = l
    <3>1. j \in s.list[l] <=> s.parent[j] = l
      BY DEF Sound, Agree
    <3>2. CASE j = i
      BY <3>1, <3>2, <1>2, <2>0
    <3>3. CASE j # i
      BY <3>1, <3>3, <1>2
    <3> QED
      BY <3>2, <3>3
  <2>2. \A j \in Item : t.parent[j] = NoPack \/ t.owner[j] = Nobody
    BY <1>2, <2>0 DEF Sound, Agree
  <2> QED
    BY <1>2, <2>1, <2>2 DEF Sound, Agree
<1>4. OnePerHand(t)
  BY <1>2 DEF Sound, OnePerHand, Holds
<1>5. Within(t, things) /\ Flat(t)
  BY <1>2, ConstantsAssumption DEF Sound, Within, Free, Flat
<1> QED
  BY <1>1, <1>2, <1>3, <1>4, <1>5 DEF Sound

LEMMA RemovalSound ==
  ASSUME NEW s, NEW things, Sound(s, things), NEW gone \in SUBSET Item,
         \A k \in gone \cap Pack : s.list[k] \subseteq gone
  PROVE  Sound(SUB_Remove(s, gone), things \ gone)
<1> DEFINE t == SUB_Remove(s, gone)
<1>1. s \in Inv /\ t \in Inv
  BY DEF Sound, Inv, SUB_Remove, NOWHERE
<1>2. /\ \A p \in Player : t.gear[p] = s.gear[p] \ gone
      /\ \A k \in Pack : t.list[k] = s.list[k] \ gone
      /\ \A j \in Item : j \notin gone =>
           t.owner[j] = s.owner[j] /\ t.parent[j] = s.parent[j] /\ t.at[j] = s.at[j]
      /\ \A j \in gone : t.owner[j] = Nobody /\ t.parent[j] = NoPack /\ t.at[j] = NOWHERE
  BY DEF SUB_Remove
<1>3. Agree(t)
  BY <1>1, <1>2, ConstantsAssumption DEF Sound, Agree
<1>4. OnePerHand(t)
  BY <1>1, <1>2 DEF Sound, OnePerHand, Holds, Inv
<1>5. Within(t, things \ gone) /\ Flat(t)
  BY <1>1, <1>2, ConstantsAssumption DEF Sound, Within, Free, SUB_Remove, Flat
<1> QED
  BY <1>1, <1>3, <1>4, <1>5 DEF Sound
-----------------------------------------------------------------------------
(* Into packs *)

LEMMA OwnedIsThere ==
  ASSUME NEW s, NEW things, Sound(s, things), NEW p \in Player, NEW i \in s.gear[p]
  PROVE  i \in Item /\ i \in things /\ s.owner[i] = p /\ s.parent[i] = NoPack
<1>1. i \in Item
  BY DEF Sound, Inv
<1>2. s.owner[i] = p
  BY <1>1 DEF Sound, Agree
<1> QED
  BY <1>1, <1>2, ConstantsAssumption DEF Sound, Agree, Within, Free

\* A thing that is put into a pack it is not in gets there: the pack that
\* took it before it was removed from its place takes it afterwards.
LEMMA PutInPackSound ==
  ASSUME NEW s, NEW things, Sound(s, things), NEW k \in Pack, k \in things,
         NEW i \in Item, i \in things
  PROVE  LET r == PutInPack(s, i, k)
         IN /\ Sound(r.inv, things)
            /\ r.lost \subseteq {i}
            /\ s.parent[i] # k => r.lost = {}
            /\ r.inv = s \/ r.inv.at[i] = NOWHERE
            /\ r.inv = s \/ r.inv.owner[i] = Nobody
            /\ \A j \in Item \ {i} :
                 /\ r.inv.owner[j] = s.owner[j]
                 /\ r.inv.parent[j] = s.parent[j]
                 /\ r.inv.at[j] = s.at[j]
<1> DEFINE t == RemoveFromOwner(s, i)
           u == Container_AddItem(t, k, i)
           r == PutInPack(s, i, k)
<1>1. /\ Sound(t, things) /\ Free(t, i)
      /\ \A j \in Item \ {i} :
           t.owner[j] = s.owner[j] /\ t.parent[j] = s.parent[j] /\ t.at[j] = s.at[j]
  BY RemoveSound
<1>2. t.owner[i] = Nobody /\ t.at[i] = NOWHERE
  BY <1>1 DEF Sound, Agree, Free
<1>3. i \notin Pack =>
        /\ Sound(u, things) /\ u.owner = t.owner /\ u.at = t.at
        /\ \A j \in Item \ {i} : u.parent[j] = t.parent[j]
  BY <1>1, ContainerSound
<1>4. s.parent[i] # k => t.list[k] = s.list[k]
  BY DEF RemoveFromOwner
<1>5. s.parent[i] # k /\ CanAccept(s, k, i) => CanAccept(t, k, i)
  BY <1>4 DEF CanAccept
<1>6. CASE ~CanAccept(s, k, i)
  BY <1>6 DEF PutInPack, Failed
<1>7. CASE CanAccept(s, k, i) /\ CanAccept(t, k, i)
  <2>0. i \notin Pack
    BY <1>7, ConstantsAssumption DEF CanAccept
  <2>1. r = Done(u)
    BY <1>7 DEF PutInPack
  <2> HIDE DEF r, u, t
  <2>2. r.inv = u /\ r.lost = {}
    BY <2>1 DEF Done
  <2> QED
    BY <2>0, <2>2, <1>1, <1>2, <1>3 DEF r
<1>8. CASE CanAccept(s, k, i) /\ ~CanAccept(t, k, i)
  <2>1. r = [Lost(t, i) EXCEPT !.ok = TRUE]
    BY <1>8 DEF PutInPack
  <2> HIDE DEF r, u, t
  <2>2. r.inv = t /\ r.lost = {i}
    BY <2>1 DEF Lost
  <2> QED
    BY <2>2, <1>1, <1>2, <1>5, <1>8 DEF r
<1> QED
  BY <1>6, <1>7, <1>8

LEMMA AnyPackSound ==
  ASSUME NEW s, NEW things, Sound(s, things), NEW p \in Player,
         NEW i \in Item, i \in things, OwnerOf(s, i) # p \/ s.parent[i] = NoPack,
         NEW r \in PutInAnyPack(s, p, i)
  PROVE  /\ Sound(r.inv, things)
         /\ r.lost = {}
         /\ r.inv = s \/ r.inv.at[i] = NOWHERE
         /\ r.inv = s \/ r.inv.owner[i] = Nobody
         /\ \A j \in Item \ {i} :
              /\ r.inv.owner[j] = s.owner[j]
              /\ r.inv.parent[j] = s.parent[j]
              /\ r.inv.at[j] = s.at[j]
<1>1. r = Failed(s) \/ \E k \in Packs(s, p) : r = PutInPack(s, i, k)
  BY DEF PutInAnyPack, FindPackForItem
<1>2. CASE r = Failed(s)
  BY <1>2 DEF Failed
<1>3. CASE \E k \in Packs(s, p) : r = PutInPack(s, i, k)
  <2>1. PICK k \in Packs(s, p) : r = PutInPack(s, i, k)
    BY <1>3
  <2>2. k \in Pack /\ k \in things /\ s.owner[k] = p
    BY OwnedIsThere DEF Packs
  <2>3. s.parent[i] # k
    BY <2>2, ConstantsAssumption DEF OwnerOf
  <2> QED
    BY <2>1, <2>2, <2>3, PutInPackSound
<1> QED
  BY <1>1, <1>2, <1>3
-----------------------------------------------------------------------------
(* Out of the hands *)

LEMMA LessTransitive ==
  ASSUME NEW s \in Inv, NEW t \in Inv, NEW u \in Inv, NEW p \in Player,
         Less(s, t, p), Less(t, u, p)
  PROVE  Less(s, u, p)
  BY DEF Less, Inv

LEMMA LessReflexive ==
  ASSUME NEW s, NEW p
  PROVE  Less(s, s, p)
  BY DEF Less

LEMMA LessInHand ==
  ASSUME NEW s, NEW t, NEW things, Sound(s, things), Sound(t, things),
         NEW p \in Player, Less(s, t, p), NEW h \in Hands
  PROVE  InHand(t, p, h) \subseteq InHand(s, p, h)
  BY OwnedIsThere DEF Less, InHand, Sound, Agree

LEMMA UseItemSound ==
  ASSUME NEW s, NEW things, Sound(s, things), NEW p \in Player,
         NEW i \in Item, Holds(s, p, i), NEW r \in UseItem(s, p, i)
  PROVE  /\ Sound(r.inv, things)
         /\ r.lost = {}
         /\ Less(s, r.inv, p)
         /\ r.inv.parent[i] # NoPack \/ r.inv.at[i] = BODY => r.inv.at[i] \notin Hands
<1>0. /\ i \in things /\ s.owner[i] = p /\ s.parent[i] = NoPack /\ s.at[i] \in Hands
      /\ BODY \notin Hands /\ NOWHERE \notin Hands /\ p # Nobody
  BY OwnedIsThere, ConstantsAssumption DEF Holds, Hands, LEFT, RIGHT, BODY, NOWHERE
<1>1. CASE r = Failed(s)
  BY <1>0, <1>1, LessReflexive DEF Failed
<1>2. CASE r = Done([s EXCEPT !.at[i] = BODY])
  <2> DEFINE t == [s EXCEPT !.at[i] = BODY]
  <2>1. s \in Inv /\ t \in Inv
    BY DEF Sound, Inv
  <2>2. /\ t.gear = s.gear /\ t.list = s.list /\ t.owner = s.owner /\ t.parent = s.parent
        /\ t.at[i] = BODY /\ \A j \in Item \ {i} : t.at[j] = s.at[j]
    BY <2>1 DEF Inv
  <2>3. r.inv = t /\ r.lost = {}
    BY <1>2 DEF Done
  <2> HIDE DEF t
  <2>4. Agree(t)
    BY <1>0, <2>2 DEF Sound, Agree, BODY, NOWHERE
  <2>5. OnePerHand(t)
    BY <1>0, <2>1, <2>2 DEF Sound, OnePerHand, Holds, Inv
  <2>6. Within(t, things) /\ Flat(t)
    BY <2>2 DEF Sound, Within, Free, Flat
  <2>7. Less(s, t, p)
    BY <1>0, <2>2 DEF Less
  <2> QED
    BY <1>0, <2>1, <2>2, <2>3, <2>4, <2>5, <2>6, <2>7 DEF Sound
<1>3. CASE r \in PutInAnyPack(s, p, i)
  <2>1. /\ Sound(r.inv, things) /\ r.lost = {}
        /\ r.inv = s \/ r.inv.at[i] = NOWHERE
        /\ r.inv = s \/ r.inv.owner[i] = Nobody
        /\ \A j \in Item \ {i} :
             /\ r.inv.owner[j] = s.owner[j]
             /\ r.inv.parent[j] = s.parent[j]
             /\ r.inv.at[j] = s.at[j]
    BY <1>0, <1>3, AnyPackSound
  <2>2. Less(s, r.inv, p)
    BY <1>0, <2>1 DEF Less
  <2> QED
    BY <1>0, <2>1, <2>2
<1> QED
  BY <1>1, <1>2, <1>3 DEF UseItem

LEMMA PutAwaySound ==
  ASSUME NEW s, NEW things, Sound(s, things), NEW p \in Player,
         NEW i \in Item, Holds(s, p, i), NEW r \in PutAway(s, p, i)
  PROVE  /\ Sound(r.inv, things)
         /\ r.lost = {}
         /\ Less(s, r.inv, p)
         /\ r.ok => r.inv.at[i] \notin Hands
<1>1. PICK x \in UseItem(s, p, i) :
        r = [x EXCEPT !.ok = x.inv.parent[i] # NoPack \/ x.inv.at[i] = BODY]
  BY DEF PutAway
<1>2. x \in {Failed(s), Done([s EXCEPT !.at[i] = BODY])} \cup PutInAnyPack(s, p, i)
  BY DEF UseItem
<1>3. \/ \E y : x = [inv |-> y, ok |-> TRUE, lost |-> {}]
      \/ \E y : x = [inv |-> y, ok |-> FALSE, lost |-> {}]
      \/ \E k \in Packs(s, p) : x = PutInPack(s, i, k)
  BY <1>2 DEF Failed, Done, PutInAnyPack, FindPackForItem
<1>4. \E y, ok, l : x = [inv |-> y, ok |-> ok, lost |-> l]
  BY <1>3 DEF PutInPack, Failed, Done, Lost
<1>5. r.inv = x.inv /\ r.lost = x.lost
      /\ r.ok = (x.inv.parent[i] # NoPack \/ x.inv.at[i] = BODY)
  BY <1>1, <1>4
<1> QED
  BY <1>5, UseItemSound

\* Nothing in one hand is nothing; otherwise one thing goes.
LEMMA PutAllAwaySound ==
  ASSUME NEW s, NEW things, Sound(s, things), NEW p \in Player, NEW h \in Hands,
         NEW items \in SUBSET InHand(s, p, h), NEW r \in PutAllAway(s, p, items)
  PROVE  /\ Sound(r.inv, things)
         /\ r.lost = {}
         /\ Less(s, r.inv, p)
         /\ r.ok => \A j \in items : r.inv.at[j] \notin Hands
<1>1. CASE items = {}
  BY <1>1, LessReflexive DEF PutAllAway, Done
<1>2. CASE items # {}
  <2>1. PICK j \in items : r \in PutAway(s, p, j)
    BY <1>2 DEF PutAllAway
  <2>2. \A l \in items : l \in s.gear[p] /\ s.at[l] = h /\ l \in Item /\ Holds(s, p, l)
    BY OwnedIsThere DEF InHand, Holds
  <2>3. \A l \in items : l = j
    BY <2>2 DEF Sound, OnePerHand
  <2> QED
    BY <2>1, <2>2, <2>3, PutAwaySound
<1> QED
  BY <1>1, <1>2

\* What an outcome of PutAllAway looks like: Then can be put after it.
LEMMA OutcomeOfPutAllAway ==
  ASSUME NEW s, NEW p, NEW items, NEW r \in PutAllAway(s, p, items)
  PROVE  r = [inv |-> r.inv, ok |-> r.ok, lost |-> r.lost]
<1>1. CASE r = Done(s)
  BY <1>1 DEF Done
<1>2. CASE \E j \in items : r \in PutAway(s, p, j)
  <2>1. PICK j \in items : r \in PutAway(s, p, j)
    BY <1>2
  <2>2. PICK x \in UseItem(s, p, j) :
          r = [x EXCEPT !.ok = x.inv.parent[j] # NoPack \/ x.inv.at[j] = BODY]
    BY <2>1 DEF PutAway
  <2>3. \E y, ok, l : x = [inv |-> y, ok |-> ok, lost |-> l]
    BY <2>2 DEF UseItem, Failed, Done, Lost, PutInAnyPack, FindPackForItem, PutInPack
  <2> QED
    BY <2>2, <2>3
<1> QED
  BY <1>1, <1>2 DEF PutAllAway

LEMMA FreeHandsSound ==
  ASSUME NEW s, NEW things, Sound(s, things), NEW p \in Player,
         NEW i \in Item, NEW r \in FreeHands(s, p, i)
  PROVE  /\ Sound(r.inv, things)
         /\ r.lost = {}
         /\ Less(s, r.inv, p)
         /\ r.ok => NewItemHand(r.inv, p, i) # NOWHERE
<1> DEFINE first == IF Pref[i] = "both" THEN LEFT
                    ELSE IF Pref[i] = "any" THEN m_PrefHand ELSE Pref[i]
           next(t) == {j \in InHand(t, p, Other(first)) : "both" \in {Pref[i], Pref[j]}}
<1>0. first \in Hands /\ Other(first) \in Hands /\ Hands = {first, Other(first)}
  BY ConstantsAssumption DEF Hands, LEFT, RIGHT, Other, m_PrefHand
<1>1. PICK x \in PutAllAway(s, p, InHand(s, p, first)) :
        IF x.ok THEN \E y \in PutAllAway(x.inv, p, next(x.inv)) : r = Then(x, y)
        ELSE r = x
  BY DEF FreeHands
<1>2. /\ Sound(x.inv, things) /\ x.lost = {} /\ Less(s, x.inv, p)
      /\ x.ok => \A j \in InHand(s, p, first) : x.inv.at[j] \notin Hands
  BY <1>0, PutAllAwaySound
<1>3. CASE ~x.ok
  BY <1>1, <1>2, <1>3
<1>4. CASE x.ok
  <2>1. PICK y \in PutAllAway(x.inv, p, next(x.inv)) : r = Then(x, y)
    BY <1>1, <1>4
  <2>2. r.inv = y.inv /\ r.ok = y.ok /\ r.lost = y.lost
    BY <2>1, <1>2, OutcomeOfPutAllAway DEF Then
  <2>3. next(x.inv) \in SUBSET InHand(x.inv, p, Other(first))
    OBVIOUS
  <2>4. /\ Sound(y.inv, things) /\ y.lost = {} /\ Less(x.inv, y.inv, p)
        /\ y.ok => \A j \in next(x.inv) : y.inv.at[j] \notin Hands
    BY <2>3, <1>0, <1>2, PutAllAwaySound
  <2>5. Less(s, y.inv, p)
    BY <2>4, <1>2, LessTransitive DEF Sound
  <2>6. ASSUME y.ok PROVE NewItemHand(y.inv, p, i) # NOWHERE
    <3>1. \A h \in Hands : InHand(y.inv, p, h) \subseteq InHand(x.inv, p, h)
      BY <1>2, <2>4, LessInHand
    <3>2. InHand(x.inv, p, first) \subseteq InHand(s, p, first)
      BY <1>0, <1>2, LessInHand
    <3>3. InHand(x.inv, p, first) = {}
      BY <1>0, <1>2, <1>4, <3>2 DEF InHand
    <3>4. InHand(y.inv, p, first) = {}
      BY <1>0, <3>1, <3>3
    <3>5. \A j \in InHand(y.inv, p, Other(first)) : Pref[i] # "both" /\ Pref[j] # "both"
      BY <1>0, <2>4, <2>6, <3>1 DEF InHand
    <3>6. \A j \in y.inv.gear[p] : Holds(y.inv, p, j) =>
            j \in InHand(y.inv, p, Other(first)) /\ Pref[j] # "both"
      BY <1>0, <3>4, <3>5 DEF Holds, InHand
    <3>7. Pref[i] = "both" => InHand(y.inv, p, Other(first)) = {}
      BY <3>5
    <3> HIDE DEF next
    <3> QED
      BY <3>4, <3>6, <3>7, ConstantsAssumption
      DEF NewItemHand, Hands, LEFT, RIGHT, NOWHERE, Other, m_PrefHand
  <2> QED
    BY <2>2, <2>4, <2>5, <2>6
<1> QED
  BY <1>3, <1>4
-----------------------------------------------------------------------------
(* Into a hand *)

\* A hand that was found stays free as things leave the hands.
LEMMA HandStaysFree ==
  ASSUME NEW s, NEW t, NEW p \in Player, NEW i \in Item,
         \A h \in Hands : InHand(t, p, h) \subseteq InHand(s, p, h),
         NewItemHand(s, p, i) # NOWHERE
  PROVE  NewItemHand(t, p, i) # NOWHERE
<1>1. \A j \in t.gear[p] : Holds(t, p, j) => j \in s.gear[p] /\ Holds(s, p, j)
  BY DEF Holds, InHand
<1> QED
  BY <1>1, ConstantsAssumption DEF NewItemHand, Hands, LEFT, RIGHT, NOWHERE, Other, m_PrefHand

\* An item in a hand finds its hand again, or the other one.
LEMMA OwnHandFound ==
  ASSUME NEW s, NEW things, Sound(s, things), NEW p \in Player,
         NEW i \in Item, Holds(s, p, i)
  PROVE  NewItemHand(RemoveFromOwner(s, i), p, i) # NOWHERE
<1> DEFINE t == RemoveFromOwner(s, i)
<1>1. \A j \in t.gear[p] : j # i /\ j \in s.gear[p] /\ t.at[j] = s.at[j]
  <2>1. Sound(t, things) /\ t.owner[i] = Nobody
    BY RemoveSound DEF Free
  <2> SUFFICES ASSUME NEW j \in t.gear[p]
               PROVE  j # i /\ j \in s.gear[p] /\ t.at[j] = s.at[j]
    OBVIOUS
  <2>2. j \in Item /\ t.owner[j] = p
    BY <2>1, OwnedIsThere
  <2>3. j # i
    BY <2>1, <2>2, ConstantsAssumption
  <2>4. s.owner[j] = p /\ t.at[j] = s.at[j]
    BY <2>2, <2>3, RemoveSound
  <2> QED
    BY <2>2, <2>3, <2>4 DEF Sound, Agree
<1>2. \A j \in t.gear[p] : Holds(t, p, j) =>
        s.at[j] # s.at[i] /\ Pref[j] # "both" /\ Pref[i] # "both"
  BY <1>1 DEF Holds, Sound, OnePerHand
<1>3. s.at[i] \in Hands /\ InHand(t, p, s.at[i]) = {}
  BY <1>1, <1>2 DEF InHand, Holds
<1>4. Pref[i] = "both" => \A h \in Hands : InHand(t, p, h) = {}
  BY <1>2 DEF InHand, Holds
<1> HIDE DEF t
<1> QED
  BY <1>2, <1>3, <1>4, ConstantsAssumption
  DEF t, NewItemHand, Hands, LEFT, RIGHT, NOWHERE, Other, m_PrefHand

\* A hand that was found is still free once the item has been taken.
LEMMA StillFreeWhenTaken ==
  ASSUME NEW s, NEW things, Sound(s, things), NEW p \in Player, NEW i \in Item,
         NewItemHand(s, p, i) # NOWHERE
  PROVE  NewItemHand(RemoveFromOwner(s, i), p, i) # NOWHERE
<1>1. \A h \in Hands : InHand(RemoveFromOwner(s, i), p, h) \subseteq InHand(s, p, h)
  <2> SUFFICES ASSUME NEW h \in Hands, NEW j \in InHand(RemoveFromOwner(s, i), p, h)
               PROVE  j \in InHand(s, p, h)
    OBVIOUS
  <2>1. j # i /\ j \in Item /\ RemoveFromOwner(s, i).owner[j] = p
    BY OwnedIsThere, RemoveSound, ConstantsAssumption DEF InHand, Free
  <2>2. s.owner[j] = p /\ s.at[j] = h
    BY <2>1, RemoveSound DEF InHand
  <2> QED
    BY <2>1, <2>2 DEF InHand, Sound, Agree
<1> QED
  BY <1>1, HandStaysFree

LEMMA ToHandSound ==
  ASSUME NEW s, NEW things, Sound(s, things), NEW p \in Player,
         NEW i \in Item, i \in things,
         NewItemHand(RemoveFromOwner(s, i), p, i) # NOWHERE
  PROVE  Sound(ToHand(s, p, i).inv, things) /\ ToHand(s, p, i).lost = {}
<1> DEFINE t == RemoveFromOwner(s, i)
<1>1. Sound(t, things) /\ Free(t, i)
  BY RemoveSound
<1>2. \A q \in Player : ~Holds(t, q, i)
  BY <1>1, OwnedIsThere, ConstantsAssumption DEF Holds, Free
<1>3. ToHand(s, p, i) = Done(AddToOwner(t, p, i, NewItemHand(t, p, i)))
  BY <1>2 DEF ToHand, AddItem
<1> QED
  BY <1>1, <1>3, AddSound DEF Done

\* GiveTo: whatever it does, no item is lost, and the inventory is sound.
LEMMA GiveToSound ==
  ASSUME NEW s, NEW things, Sound(s, things), NEW p \in Player, NEW away,
         NEW i \in Item, i \in things, NEW r \in GiveTo(s, p, i, away)
  PROVE  Sound(r.inv, things) /\ r.lost = {}
<1> DEFINE mine == OwnerOf(s, i) = p
<1>1. \/ r = Failed(s)
      \/ (Holds(s, p, i) \/ NewItemHand(s, p, i) # NOWHERE) /\ r = ToHand(s, p, i)
      \/ ~Holds(s, p, i) /\ \E x \in FreeHands(s, p, i) :
           IF x.ok THEN r = Then(x, ToHand(x.inv, p, i))
           ELSE IF mine THEN r = x
           ELSE \E y \in PutInAnyPack(x.inv, p, i) : r = Then(x, y)
      \/ ~mine /\ r \in PutInAnyPack(s, p, i)
  BY DEF GiveTo
<1>2. CASE r = Failed(s)
  BY <1>2 DEF Failed
<1>3. CASE (Holds(s, p, i) \/ NewItemHand(s, p, i) # NOWHERE) /\ r = ToHand(s, p, i)
  <2>2. NewItemHand(RemoveFromOwner(s, i), p, i) # NOWHERE
    BY <1>3, OwnHandFound, StillFreeWhenTaken
  <2> QED
    BY <1>3, <2>2, ToHandSound
<1>4. CASE ~mine /\ r \in PutInAnyPack(s, p, i)
  BY <1>4, AnyPackSound
<1>5. ASSUME ~Holds(s, p, i), NEW x \in FreeHands(s, p, i),
             IF x.ok THEN r = Then(x, ToHand(x.inv, p, i))
             ELSE IF mine THEN r = x
             ELSE \E y \in PutInAnyPack(x.inv, p, i) : r = Then(x, y)
      PROVE  Sound(r.inv, things) /\ r.lost = {}
  <2>1. /\ Sound(x.inv, things) /\ x.lost = {} /\ Less(s, x.inv, p)
        /\ x.ok => NewItemHand(x.inv, p, i) # NOWHERE
    BY <1>5, FreeHandsSound
  <2>2. CASE x.ok
    <3>1. Sound(ToHand(x.inv, p, i).inv, things) /\ ToHand(x.inv, p, i).lost = {}
      BY <2>1, <2>2, StillFreeWhenTaken, ToHandSound
    <3>2. \E y, ok, l : ToHand(x.inv, p, i) = [inv |-> y, ok |-> ok, lost |-> l]
      BY DEF ToHand, AddItem, Lost, Done
    <3> QED
      BY <1>5, <2>1, <2>2, <3>1, <3>2 DEF Then
  <2>3. CASE ~x.ok /\ mine
    BY <1>5, <2>1, <2>3
  <2>4. CASE ~x.ok /\ ~mine
    <3>1. PICK y \in PutInAnyPack(x.inv, p, i) : r = Then(x, y)
      BY <1>5, <2>4
    <3>2. x.inv.parent[i] = s.parent[i]
      <4>1. s.owner[i] # p \/ s.at[i] \notin Hands
        BY <1>5 DEF Holds, Sound, Agree
      <4> QED
        BY <4>1, <2>1 DEF Less
    <3>3. s.parent[i] = NoPack \/ s.parent[i] \in Pack
      BY DEF Sound, Inv
    <3>4. OwnerOf(x.inv, i) # p \/ x.inv.parent[i] = NoPack
      BY <2>1, <2>4, <3>2, <3>3, ConstantsAssumption DEF OwnerOf, Less
    <3>5. Sound(y.inv, things) /\ y.lost = {}
      BY <2>1, <3>1, <3>4, AnyPackSound
    <3>6. \E z, ok, l : y = [inv |-> z, ok |-> ok, lost |-> l]
      BY <3>1 DEF PutInAnyPack, FindPackForItem, PutInPack, Failed, Done, Lost
    <3> QED
      BY <2>1, <3>1, <3>5, <3>6 DEF Then
  <2> QED
    BY <2>2, <2>3, <2>4
<1> QED
  BY <1>1, <1>2, <1>3, <1>4, <1>5
-----------------------------------------------------------------------------
(* The steps *)

\* What NothingStranded says of one step.
NoneStranded ==
  \A i \in stranded' \ stranded : \E p \in Player, k \in Pack :
    inv.parent[i] = k /\ Transfer(p, i, k)

Kept == IInv' /\ NoneStranded

LEMMA Start == Init => IInv
<1> SUFFICES ASSUME Init PROVE IInv
  OBVIOUS
<1>1. inv \in Inv
  BY DEF Init, Inv, NOWHERE
<1>2. Agree(inv) /\ OnePerHand(inv) /\ Within(inv, live) /\ Flat(inv)
  BY ConstantsAssumption DEF Init, Agree, OnePerHand, Within, Free, Flat
<1>3. live \subseteq Item /\ MenusSound
  BY DEF Init, MenusSound
<1>4. StoredSound /\ OffersSound
  BY DEF Init, StoredSound, OffersSound
<1> QED
  BY <1>1, <1>2, <1>3, <1>4 DEF IInv, Sound

\* A thing somebody has, or may name in a menu or an offer, is there.
LEMMA OwnedIsLive ==
  ASSUME IInv, NEW p \in Player, NEW i \in Item, OwnerOf(inv, i) = p
  PROVE  i \in live /\ (inv.parent[i] # NoPack => inv.parent[i] \in live)
<1>1. i \in live
  BY ConstantsAssumption DEF IInv, Sound, Within, Free, OwnerOf
<1>2. ASSUME inv.parent[i] # NoPack PROVE inv.parent[i] \in live
  <2>1. inv.parent[i] \in Pack /\ inv.owner[inv.parent[i]] = p
    BY <1>2 DEF OwnerOf, IInv, Sound, Inv
  <2> QED
    BY <2>1, ConstantsAssumption DEF IInv, Sound, Within, Free
<1> QED
  BY <1>1, <1>2

\* Steps that only move things.
LEMMA MovesKeep ==
  ASSUME IInv, NEW r, Sound(r.inv, live), r.lost = {}, Moved(r),
         UNCHANGED <<live, stored, menu>>, OffersSound'
  PROVE  Kept
  BY DEF Kept, IInv, NoneStranded, Moved, MenusSound, StoredSound

\* Things go: no menu and no offer names them afterwards.
LEMMA MenuForgets ==
  ASSUME IInv, NEW gone, NEW p \in Player
  PROVE  LET m == MenusWithout(gone)[p]
         IN m = NoMenu \/ (m.item \in live \ gone /\ m.group \subseteq Groupable)
<1>1. menu[p] = NoMenu \/ (menu[p].item \in live /\ menu[p].group \subseteq Groupable)
  BY DEF IInv, MenusSound
<1>2. CASE menu[p].item \in gone
  BY <1>2 DEF MenusWithout
<1>3. CASE menu[p].item \notin gone
  <2>1. MenusWithout(gone)[p] = [item  |-> menu[p].item, group |-> menu[p].group \ gone,
                                 total |-> menu[p].total]
    BY <1>3 DEF MenusWithout
  <2>2. CASE menu[p] = NoMenu
    BY <2>1, <2>2 DEF NoMenu
  <2>3. CASE menu[p].item \in live /\ menu[p].group \subseteq Groupable
    BY <2>1, <2>3, <1>3
  <2> QED
    BY <1>1, <2>2, <2>3
<1> QED
  BY <1>2, <1>3

LEMMA MenusForget ==
  ASSUME IInv, NEW gone, live' = live \ gone,
         \/ menu' = MenusWithout(gone)
         \/ \E p \in Player : menu' = [MenusWithout(gone) EXCEPT ![p] = NoMenu]
  PROVE  MenusSound'
<1>1. menu' = [p \in Player |-> menu'[p]]
  BY DEF MenusWithout
<1>2. \A p \in Player : menu'[p] = NoMenu \/ menu'[p] = MenusWithout(gone)[p]
  BY DEF MenusWithout
<1> QED
  BY <1>1, <1>2, MenuForgets DEF MenusSound

LEMMA OffersForget ==
  ASSUME IInv, NEW gone,
         offer' = [p \in Player |-> IF offer[p].item \in gone THEN NoOffer ELSE offer[p]]
  PROVE  OffersSound'
<1>1. \A p \in Player : offer'[p] = NoOffer \/ offer'[p] = offer[p]
  OBVIOUS
<1>2. offer' = [p \in Player |-> offer'[p]]
  OBVIOUS
<1> QED
  BY <1>1, <1>2 DEF IInv, OffersSound

LEMMA RemovalKeeps ==
  ASSUME IInv, NEW gone \in SUBSET Item, \A k \in gone \cap Pack : inv.list[k] \subseteq gone,
         inv' = SUB_Remove(inv, gone), Remove(gone), StoredSound', UNCHANGED stranded
  PROVE  Kept
<1>1. Sound(inv', live') /\ live' \subseteq Item
  BY RemovalSound DEF IInv, Remove, Forget
<1>2. MenusSound' /\ OffersSound'
  BY MenusForget, OffersForget DEF Remove, Forget
<1> QED
  BY <1>1, <1>2 DEF Kept, IInv, NoneStranded

LEMMA ContentsGoToo ==
  ASSUME IInv, NEW i \in Item
  PROVE  /\ WithContents(inv, i) \in SUBSET Item
         /\ \A k \in WithContents(inv, i) \cap Pack : inv.list[k] \subseteq WithContents(inv, i)
<1>1. inv \in Inv /\ \A k, l \in Pack : k \notin inv.list[l]
  BY ConstantsAssumption DEF IInv, Sound, Flat, Agree
<1> QED
  BY <1>1, ConstantsAssumption DEF WithContents, Inv

LEMMA CarriedGoToo ==
  ASSUME IInv, NEW p \in Player
  PROVE  /\ Carried(inv, p) \in SUBSET Item
         /\ \A k \in Carried(inv, p) \cap Pack : inv.list[k] \subseteq Carried(inv, p)
<1>1. inv \in Inv /\ \A k, l \in Pack : k \notin inv.list[l]
  BY ConstantsAssumption DEF IInv, Sound, Flat, Agree
<1> QED
  BY <1>1, ConstantsAssumption DEF Carried, Packs, Inv
-----------------------------------------------------------------------------
LEMMA WorldKeeps ==
  ASSUME IInv, NEW i \in Item, Spawn(i) \/ Expire(i) \/ Think(i)
  PROVE  Kept
<1>1. CASE Spawn(i)
  <2>1. live \subseteq live' /\ live' \subseteq Item
    BY <1>1 DEF Spawn, IInv
  <2>2. Sound(inv', live')
    BY <1>1, <2>1, MoreThings DEF Spawn, IInv
  <2>3. MenusSound' /\ StoredSound' /\ OffersSound'
    BY <1>1, <2>1 DEF Spawn, IInv, MenusSound, StoredSound, OffersSound
  <2> QED
    BY <1>1, <2>1, <2>2, <2>3 DEF Spawn, Kept, IInv, NoneStranded
<1>2. CASE Expire(i)
  BY <1>2 DEF Expire, Kept, IInv, NoneStranded, MenusSound, StoredSound, OffersSound
<1>3. CASE Think(i)
  BY <1>3, ContentsGoToo, RemovalKeeps DEF Think, IInv, StoredSound
<1> QED
  BY <1>1, <1>2, <1>3

LEMMA PickUpKeeps ==
  ASSUME IInv, NEW p \in Player, PickUp(p)
  PROVE  Kept
<1>1. ASSUME NEW i \in Item, GetAnyItems(p, i)
      PROVE  Kept
  <2>1. PICK r \in GiveTo(inv, p, i, FALSE) : Moved(r)
    BY <1>1 DEF GetAnyItems
  <2>2. i \in live /\ UNCHANGED <<live, stored, menu>> /\ OffersSound'
    BY <1>1 DEF GetAnyItems, IInv, OffersSound
  <2> QED
    BY <2>1, <2>2, GiveToSound, MovesKeep DEF IInv
<1>2. ASSUME NEW i \in Groupable, NEW group \in SUBSET Groupable, ShowMenu(p, i, group)
      PROVE  Kept
  <2>1. i \in live /\ UNCHANGED <<inv, live, stored, offer, stranded>>
    BY <1>2 DEF ShowMenu
  <2>2. MenusSound'
    BY <1>2, <2>1 DEF ShowMenu, IInv, MenusSound
  <2> QED
    BY <2>1, <2>2 DEF Kept, IInv, NoneStranded, StoredSound, OffersSound
<1>3. ASSUME ChooseItem(p)
      PROVE  Kept
  <2>1. menu[p].item \in live /\ menu[p].item \in Item /\ menu[p].group \subseteq Groupable
    BY <1>3 DEF ChooseItem, IInv, MenusSound
  <2>2. PICK r \in GiveTo(inv, p, menu[p].item, FALSE) :
          LET grouped == Grouped(p, r.ok)
          IN /\ inv' = SUB_Remove(r.inv, grouped)
             /\ stranded' = stranded \cup r.lost
             /\ live' = live \ grouped
             /\ menu' = [MenusWithout(grouped) EXCEPT ![p] = NoMenu]
             /\ offer' = [q \in Player |->
                           IF offer[q].item \in grouped THEN NoOffer ELSE offer[q]]
    BY <1>3 DEF ChooseItem
  <2> DEFINE grouped == Grouped(p, r.ok)
  <2>3. grouped \in SUBSET Item /\ grouped \cap Pack = {}
    BY <2>1, ConstantsAssumption DEF Grouped
  <2>4. Sound(r.inv, live) /\ r.lost = {}
    BY <2>1, GiveToSound DEF IInv
  <2>5. Sound(inv', live') /\ live' \subseteq Item
    BY <2>2, <2>3, <2>4, RemovalSound DEF IInv
  <2>6. MenusSound'
    BY <2>2, MenusForget
  <2>7. OffersSound'
    BY <2>2, OffersForget
  <2>8. StoredSound' /\ stranded' = stranded
    BY <1>3, <2>2, <2>4 DEF ChooseItem, IInv, StoredSound
  <2> QED
    BY <2>5, <2>6, <2>7, <2>8 DEF Kept, IInv, NoneStranded
<1>4. ASSUME CloseMenu(p)
      PROVE  Kept
  <2>1. UNCHANGED <<inv, live, stored, offer, stranded>>
    BY <1>4 DEF CloseMenu
  <2>2. MenusSound'
    BY <1>4, <2>1 DEF CloseMenu, IInv, MenusSound
  <2> QED
    BY <2>1, <2>2 DEF Kept, IInv, NoneStranded, StoredSound, OffersSound
<1> QED
  BY <1>1, <1>2, <1>3, <1>4 DEF PickUp

LEMMA CarryKeeps ==
  ASSUME IInv, NEW p \in Player, Carry(p)
  PROVE  Kept
<1>1. ASSUME NEW i \in Item, NEW away \in BOOLEAN, TakeInHand(p, i, away)
      PROVE  Kept
  <2>1. PICK r \in GiveTo(inv, p, i, away) : Moved(r)
    BY <1>1 DEF TakeInHand
  <2>2. i \in live /\ UNCHANGED <<live, stored, menu>> /\ OffersSound'
    BY <1>1 DEF TakeInHand, IInv, OffersSound
  <2> QED
    BY <2>1, <2>2, GiveToSound, MovesKeep DEF IInv
<1>2. ASSUME NEW i \in Item, NEW k \in Pack, Transfer(p, i, k)
      PROVE  Kept
  <2>1. i \in live /\ k \in Packs(inv, p) /\ Moved(PutInPack(inv, i, k))
        /\ UNCHANGED <<live, stored, menu, offer>>
    BY <1>2 DEF Transfer
  <2>2. k \in live
    BY <2>1, OwnedIsThere DEF IInv, Packs
  <2>3. Sound(inv', live) /\ stranded' \subseteq stranded \cup {i}
        /\ (inv.parent[i] # k => stranded' = stranded)
    BY <2>1, <2>2, PutInPackSound DEF Moved, IInv
  <2>4. NoneStranded
    BY <1>2, <2>3 DEF NoneStranded
  <2> QED
    BY <2>1, <2>3, <2>4 DEF Kept, IInv, MenusSound, StoredSound, OffersSound
<1>3. ASSUME NEW i \in Item, Use(p, i)
      PROVE  Kept
  <2>1. PICK r \in UseItem(inv, p, i) : Moved(r)
    BY <1>3 DEF Use
  <2>2. Holds(inv, p, i) /\ UNCHANGED <<live, stored, menu>> /\ OffersSound'
    BY <1>3 DEF Use, IInv, OffersSound
  <2> QED
    BY <2>1, <2>2, UseItemSound, MovesKeep DEF IInv
<1>4. ASSUME NEW i \in Item, Drop(p, i)
      PROVE  Kept
  <2>1. Sound(inv', live) /\ UNCHANGED <<live, stored, menu, offer, stranded>>
    BY <1>4, RemoveSound DEF Drop, IInv
  <2> QED
    BY <2>1 DEF Kept, IInv, NoneStranded, MenusSound, StoredSound, OffersSound
<1>5. ASSUME NEW absorbed \in SUBSET Groupable, NEW into \in [absorbed -> Groupable],
             OpenPacks(p, into)
      PROVE  Kept
  <2>1. inv' = SUB_Remove(inv, absorbed) /\ UNCHANGED <<live, stored, menu, offer, stranded>>
    BY <1>5 DEF OpenPacks
  <2>2. absorbed \in SUBSET Item /\ absorbed \cap Pack = {}
    BY ConstantsAssumption
  <2>3. Sound(inv', live \ absorbed)
    BY <2>1, <2>2, RemovalSound DEF IInv
  <2>4. Sound(inv', live)
    BY <2>3, MoreThings
  <2> QED
    BY <2>1, <2>4 DEF Kept, IInv, NoneStranded, MenusSound, StoredSound, OffersSound
<1>6. ASSUME RemoveAllItems(p)
      PROVE  Kept
  <2> DEFINE gone == Carried(inv, p)
  <2>1. /\ inv' = SUB_Remove(inv, gone) /\ live' = live \ gone
        /\ offer' = [q \in Player |-> IF offer[q].item \in gone THEN NoOffer ELSE offer[q]]
        /\ menu' = [MenusWithout(gone) EXCEPT ![p] = NoMenu]
        /\ UNCHANGED <<stored, stranded>>
    BY <1>6 DEF RemoveAllItems, Forget
  <2>2. Sound(inv', live') /\ live' \subseteq Item
    BY <2>1, CarriedGoToo, RemovalSound DEF IInv
  <2>3. OffersSound' /\ StoredSound'
    BY <2>1, OffersForget DEF IInv, StoredSound
  <2>4. MenusSound'
    BY <2>1, MenusForget
  <2> QED
    BY <2>1, <2>2, <2>3, <2>4 DEF Kept, IInv, NoneStranded
<1>7. \/ \E i \in Item, away \in BOOLEAN : TakeInHand(p, i, away)
      \/ \E i \in Item, k \in Pack : Transfer(p, i, k)
      \/ \E i \in Item : Use(p, i) \/ Drop(p, i)
      \/ \E absorbed \in SUBSET Groupable : \E into \in [absorbed -> Groupable] :
           OpenPacks(p, into)
      \/ RemoveAllItems(p)
  BY DEF Carry
<1> QED
  BY <1>1, <1>2, <1>3, <1>4, <1>5, <1>6, <1>7

\* A new object, of a bought thing or of a copy in storage.
LEMMA NewThingKeeps ==
  ASSUME IInv, NEW i \in Item, NEW r, Sound(r.inv, live \cup {i}), r.lost = {}, Moved(r),
         live' = live \cup {i}, UNCHANGED <<menu, offer>>, StoredSound'
  PROVE  Kept
<1>1. MenusSound' /\ OffersSound'
  BY DEF IInv, MenusSound, OffersSound
<1> QED
  BY <1>1 DEF Kept, IInv, NoneStranded, Moved

LEMMA DealKeeps ==
  ASSUME IInv, NEW p \in Player, Deal(p)
  PROVE  Kept
<1>1. ASSUME NEW i \in Item, StorageAdd(p, i)
      PROVE  Kept
  <2>1. i \in Item \ Pack /\ inv' = SUB_Remove(inv, {i}) /\ Remove({i})
        /\ UNCHANGED stranded
    BY <1>1 DEF StorageAdd
  <2>2. StoredSound'
    <3>1. stored' = [stored EXCEPT ![p] = @ \cup {[item |-> i, qty |-> qty[i]]}]
      BY <1>1 DEF StorageAdd
    <3>2. \A q \in Player : \A r \in stored'[q] : r \in stored[q] \/ r.item = i
      BY <3>1 DEF IInv, StoredSound
    <3> QED
      BY <3>1, <3>2 DEF IInv, StoredSound
  <2> QED
    BY <2>1, <2>2, RemovalKeeps
<1>2. ASSUME NEW i \in Item, Buy(p, i)
      PROVE  Kept
  <2>1. PICK r \in GiveTo(inv, p, i, FALSE) : Moved(r)
    BY <1>2 DEF Buy
  <2>2. live' = live \cup {i} /\ UNCHANGED <<menu, offer>> /\ StoredSound'
    BY <1>2 DEF Buy, IInv, StoredSound
  <2> DEFINE things == live \cup {i}
  <2>3. Sound(inv, things) /\ i \in things
    BY MoreThings DEF IInv
  <2>4. Sound(r.inv, things) /\ r.lost = {}
    <3> HIDE DEF things
    <3> QED
      BY <2>1, <2>3, GiveToSound
  <2> QED
    BY <2>1, <2>2, <2>4, NewThingKeeps
<1>3. ASSUME NEW i \in Item, Sell(p, i)
      PROVE  Kept
  BY <1>3, ContentsGoToo, RemovalKeeps DEF Sell, IInv, StoredSound
<1>4. ASSUME NEW c \in stored[p], StorageRemove(p, c)
      PROVE  Kept
  <2> DEFINE i == c.item
             things == live \cup {i}
  <2>1. i \in Item
    BY DEF IInv, StoredSound
  <2>2. PICK x \in GiveTo(inv, p, i, FALSE) \cup
              {PutInPack(inv, i, k) : k \in {k \in live \cap Pack : OwnerOf(inv, k) = p}} :
          Moved(x)
    BY <1>4 DEF StorageRemove
  <2>3. live' = live \cup {i} /\ UNCHANGED <<menu, offer>> /\ i \notin live
    BY <1>4 DEF StorageRemove
  <2>4. StoredSound'
    BY <1>4 DEF StorageRemove, IInv, StoredSound
  <2>5. Sound(inv, things) /\ i \in things /\ live \subseteq things
    BY MoreThings DEF IInv
  <2>6. Sound(x.inv, things) /\ x.lost = {}
    <3>1. CASE x \in GiveTo(inv, p, i, FALSE)
      <4> HIDE DEF i, things
      <4> QED
        BY <2>1, <2>5, <3>1, GiveToSound
    <3>2. CASE \E k \in live \cap Pack : x = PutInPack(inv, i, k)
      <4>1. PICK k \in live \cap Pack : x = PutInPack(inv, i, k)
        BY <3>2
      <4>2. inv.parent[i] # k
        BY <2>1, <2>3, ConstantsAssumption DEF IInv, Sound, Within, Free
      <4> HIDE DEF i, things
      <4> QED
        BY <2>1, <2>5, <4>1, <4>2, PutInPackSound
    <3> QED
      BY <2>2, <3>1, <3>2
  <2> QED
    BY <2>1, <2>2, <2>3, <2>4, <2>6, NewThingKeeps
<1>5. ASSUME NEW c \in stored[p], StorageRefuses(p, c)
      PROVE  Kept
  <2>1. c.item \in Item /\ live' = live \cup {c.item}
        /\ UNCHANGED <<inv, menu, offer, stored, stranded>>
    BY <1>5 DEF StorageRefuses, IInv, StoredSound
  <2>2. Sound(inv', live')
    BY <2>1, MoreThings DEF IInv
  <2>3. MenusSound' /\ OffersSound' /\ StoredSound'
    BY <2>1 DEF IInv, MenusSound, OffersSound, StoredSound
  <2> QED
    BY <2>1, <2>2, <2>3 DEF Kept, IInv, NoneStranded
<1>6. ASSUME NEW q \in Player, NEW i \in Item, OfferItem(p, q, i)
      PROVE  Kept
  <2>1. UNCHANGED <<inv, live, stored, menu, stranded>>
        /\ offer' = [offer EXCEPT ![q] = [src |-> p, item |-> i]]
    BY <1>6 DEF OfferItem
  <2>2. OffersSound'
    BY <2>1 DEF IInv, OffersSound, Offered
  <2> QED
    BY <2>1, <2>2 DEF Kept, IInv, NoneStranded, MenusSound, StoredSound
<1>7. ASSUME AcceptOffer(p)
      PROVE  Kept
  <2> DEFINE i == offer[p].item
  <2>1. i \in Item /\ offer[p].src \in Player
    BY <1>7 DEF AcceptOffer, IInv, OffersSound, Offered
  <2>2. UNCHANGED <<live, stored, menu>> /\ offer' = [offer EXCEPT ![p] = NoOffer]
    BY <1>7 DEF AcceptOffer
  <2>3. OffersSound'
    BY <2>2 DEF IInv, OffersSound
  <2>4. CASE StillOffered(p)
    <3>1. PICK r \in GiveTo(inv, p, i, FALSE) : Moved(r)
      BY <1>7, <2>4 DEF AcceptOffer
    <3>2. i \in live
      BY <2>1, <2>4, ConstantsAssumption DEF StillOffered, IInv, Sound, Within, Free
    <3> QED
      BY <2>1, <2>2, <2>3, <3>1, <3>2, GiveToSound, MovesKeep DEF IInv
  <2>5. CASE ~StillOffered(p)
    <3>1. UNCHANGED <<inv, stranded>>
      BY <1>7, <2>5 DEF AcceptOffer
    <3> QED
      BY <2>2, <2>3, <3>1 DEF Kept, IInv, NoneStranded, MenusSound, StoredSound
  <2> QED
    BY <2>4, <2>5
<1> QED
  BY <1>1, <1>2, <1>3, <1>4, <1>5, <1>6, <1>7 DEF Deal

LEMMA NextKeeps == IInv /\ Next => Kept
  BY WorldKeeps, PickUpKeeps, CarryKeeps, DealKeeps DEF Next, World

LEMMA Inductive == IInv /\ [Next]_vars => IInv'
<1>1. IInv /\ Next => IInv'
  BY NextKeeps DEF Kept
<1>2. IInv /\ UNCHANGED vars => IInv'
  BY DEF IInv, vars, MenusSound, StoredSound, OffersSound
<1> QED
  BY <1>1, <1>2

LEMMA Invariant == Spec => []IInv
  BY Start, Inductive, PTL DEF Spec
-----------------------------------------------------------------------------
(* The lists agree, the hands hold one, nothing is stranded *)

\* Gear and item lists on the one hand, m_pOwner, m_pParentContainer and
\* m_Location on the other, always agree (RemoveFromOwner, AddToOwner,
\* Container_AddItem and SUB_Remove, in whatever order players cause them).
THEOREM PlacesAlwaysAgree == Spec => []PlacesAgree
<1>1. IInv => PlacesAgree
  BY DEF IInv, Sound, Within, PlacesAgree
<1> QED
  BY <1>1, Invariant, PTL

\* No hand ever holds two items, and no item for both hands shares them, by
\* whatever way GiveTo, NewItemHand and AddItem have brought it there.
THEOREM HandsNeverShared == Spec => []HandsHoldOne
<1>1. IInv => HandsHoldOne
  BY DEF IInv, Sound, HandsHoldOne
<1> QED
  BY <1>1, Invariant, PTL

\* What GiveTo and PutInPack take from its place they put somewhere, with the
\* one exception NothingStranded names.
THEOREM NoItemLost == Spec => NothingStranded
<1> DEFINE Step == \A i \in stranded' \ stranded : \E p \in Player, k \in Pack :
                     inv.parent[i] = k /\ Transfer(p, i, k)
<1>1. IInv /\ [Next]_vars => [Step]_vars
  BY NextKeeps DEF Kept, NoneStranded
<1> QED
  BY <1>1, Invariant, PTL DEF Spec, NothingStranded
-----------------------------------------------------------------------------
(* Who owns what after a transfer *)

\* t is s after some things have been taken, and none given.
Taken(s, t) == \A j \in Item : OwnerOf(t, j) \in {OwnerOf(s, j), Nobody}

\* t is s after p has rearranged what is his.
Rearranged(s, t, p) ==
  \A j \in Item :
    IF OwnerOf(s, j) = p THEN OwnerOf(t, j) \in {p, Nobody}
    ELSE OwnerOf(t, j) = OwnerOf(s, j) /\ t.parent[j] = s.parent[j]

\* t is s after p may have been given i, with what is in it.
Given(s, t, p, i) ==
  \A j \in Item :
    \/ OwnerOf(t, j) \in {OwnerOf(s, j), Nobody}
    \/ /\ OwnerOf(t, j) = p
       /\ \/ j = i /\ (s.parent[i] = NoPack \/ t.parent[i] # s.parent[i])
          \/ i \in Pack /\ s.parent[j] = i /\ t.parent[j] = i

LEMMA RearrangedTwice ==
  ASSUME NEW s, NEW t, NEW u, NEW p \in Player, Rearranged(s, t, p), Rearranged(t, u, p)
  PROVE  Rearranged(s, u, p)
<1>1. p # Nobody
  BY ConstantsAssumption
<1> QED
  BY <1>1 DEF Rearranged

LEMMA RearrangedSame ==
  ASSUME NEW s, NEW p
  PROVE  Rearranged(s, s, p)
  BY DEF Rearranged

LEMMA RearrangedTaken ==
  ASSUME NEW s, NEW t, NEW p, Rearranged(s, t, p)
  PROVE  Taken(s, t)
  BY DEF Rearranged, Taken

LEMMA RearrangedGiven ==
  ASSUME NEW s, NEW t, NEW u, NEW p \in Player, NEW i \in Item,
         Rearranged(s, t, p), Given(t, u, p, i)
  PROVE  Given(s, u, p, i)
<1> SUFFICES ASSUME NEW j \in Item
             PROVE  \/ OwnerOf(u, j) \in {OwnerOf(s, j), Nobody}
                    \/ /\ OwnerOf(u, j) = p
                       /\ \/ j = i /\ (s.parent[i] = NoPack \/ u.parent[i] # s.parent[i])
                          \/ i \in Pack /\ s.parent[j] = i /\ u.parent[j] = i
  BY DEF Given
<1>1. CASE OwnerOf(s, j) = p
  <2>1. OwnerOf(t, j) \in {p, Nobody}
    BY <1>1 DEF Rearranged
  <2> QED
    BY <1>1, <2>1 DEF Given
<1>2. CASE OwnerOf(s, j) # p
  <2>1. OwnerOf(t, j) = OwnerOf(s, j) /\ t.parent[j] = s.parent[j]
    BY <1>2 DEF Rearranged
  <2> QED
    BY <2>1 DEF Given
<1> QED
  BY <1>1, <1>2

LEMMA PutInPackOwners ==
  ASSUME NEW s, NEW things, Sound(s, things), NEW k \in Pack, k \in things,
         NEW i \in Item, i \in things
  PROVE  LET t == PutInPack(s, i, k).inv
         IN \/ t = s
            \/ /\ \A j \in Item \ {i} : OwnerOf(t, j) = OwnerOf(s, j) /\ t.parent[j] = s.parent[j]
               /\ \/ OwnerOf(t, i) = Nobody
                  \/ OwnerOf(t, i) = OwnerOf(s, k) /\ t.parent[i] = k
<1> DEFINE u == RemoveFromOwner(s, i)
           v == Container_AddItem(u, k, i)
           t == PutInPack(s, i, k).inv
<1>1. CASE ~CanAccept(s, k, i)
  BY <1>1 DEF PutInPack, Failed
<1>2. CASE CanAccept(s, k, i)
  <2>1. i \notin Pack /\ i # k /\ k \in Item
    BY <1>2, ConstantsAssumption DEF CanAccept
  <2>2. s \in Inv /\ s.parent[k] = NoPack
    BY DEF Sound, Flat
  <2>3. \A j \in Item : s.parent[j] # NoPack => s.parent[j] \in Item \ {i}
    BY <2>1, <2>2, ConstantsAssumption DEF Inv
  <2>4. /\ \A j \in Item \ {i} : u.owner[j] = s.owner[j] /\ u.parent[j] = s.parent[j]
        /\ u.owner[i] = Nobody /\ u.parent[i] = NoPack
    BY RemoveSound DEF Free
  <2>5. u \in Inv
    BY <2>2, RemoveTyped
  <2>6. /\ v.owner = u.owner /\ v.parent[i] = k
        /\ \A j \in Item \ {i} : v.parent[j] = u.parent[j]
    BY <2>5 DEF Container_AddItem, Inv
  <2>7. t = u \/ t = v
    BY <1>2 DEF PutInPack, Done, Lost
  <2> HIDE DEF t, u, v
  <2>8. ASSUME NEW j \in Item \ {i}
        PROVE  OwnerOf(t, j) = OwnerOf(s, j) /\ t.parent[j] = s.parent[j]
    <3>1. t.parent[j] = s.parent[j] /\ t.owner[j] = s.owner[j]
      BY <2>4, <2>6, <2>7
    <3>3. s.parent[j] # NoPack => t.owner[s.parent[j]] = s.owner[s.parent[j]]
      BY <2>3, <2>4, <2>6, <2>7
    <3> QED
      BY <3>1, <3>3 DEF OwnerOf
  <2>9. OwnerOf(t, i) = Nobody \/ (OwnerOf(t, i) = OwnerOf(s, k) /\ t.parent[i] = k)
    <3>1. CASE t = u
      BY <2>4, <3>1 DEF OwnerOf
    <3>2. CASE t = v
      <4>1. t.parent[i] = k /\ k # NoPack /\ t.owner[k] = s.owner[k]
        BY <2>1, <2>4, <2>6, <3>2, ConstantsAssumption
      <4> QED
        BY <2>2, <4>1 DEF OwnerOf
    <3> QED
      BY <2>7, <3>1, <3>2
  <2> QED
    BY <2>8, <2>9 DEF t
<1> QED
  BY <1>1, <1>2

LEMMA PutInPackGiven ==
  ASSUME NEW s, NEW things, Sound(s, things), NEW k \in Pack, k \in things,
         NEW i \in Item, i \in things, NEW p \in Player, OwnerOf(s, k) = p
  PROVE  /\ Given(s, PutInPack(s, i, k).inv, p, i)
         /\ OwnerOf(s, i) = p => Rearranged(s, PutInPack(s, i, k).inv, p)
<1> DEFINE t == PutInPack(s, i, k).inv
<1>1. \/ t = s
      \/ /\ \A j \in Item \ {i} : OwnerOf(t, j) = OwnerOf(s, j) /\ t.parent[j] = s.parent[j]
         /\ \/ OwnerOf(t, i) = Nobody
            \/ OwnerOf(t, i) = p /\ t.parent[i] = k
  BY PutInPackOwners
<1> HIDE DEF t
<1>2. s.parent[i] = k => OwnerOf(s, i) = p
  <2>1. s.parent[k] = NoPack /\ k # NoPack
    BY ConstantsAssumption DEF Sound, Flat
  <2> QED
    BY <2>1 DEF OwnerOf
<1>3. Given(s, t, p, i)
  BY <1>1, <1>2 DEF Given
<1>4. OwnerOf(s, i) = p => Rearranged(s, t, p)
  BY <1>1 DEF Rearranged
<1> QED
  BY <1>3, <1>4 DEF t

LEMMA AnyPackGiven ==
  ASSUME NEW s, NEW things, Sound(s, things), NEW p \in Player,
         NEW i \in Item, i \in things, NEW r \in PutInAnyPack(s, p, i)
  PROVE  /\ Given(s, r.inv, p, i)
         /\ OwnerOf(s, i) = p => Rearranged(s, r.inv, p)
<1>1. r = Failed(s) \/ \E k \in Packs(s, p) : r = PutInPack(s, i, k)
  BY DEF PutInAnyPack, FindPackForItem
<1>2. CASE r = Failed(s)
  BY <1>2 DEF Failed, Given, Rearranged
<1>3. CASE \E k \in Packs(s, p) : r = PutInPack(s, i, k)
  <2>1. PICK k \in Packs(s, p) : r = PutInPack(s, i, k)
    BY <1>3
  <2>2. k \in Pack /\ k \in things /\ s.owner[k] = p /\ s.parent[k] = NoPack
    BY OwnedIsThere DEF Packs
  <2>3. OwnerOf(s, k) = p
    BY <2>2 DEF OwnerOf
  <2> QED
    BY <2>1, <2>2, <2>3, PutInPackGiven
<1> QED
  BY <1>1, <1>2, <1>3

LEMMA UseItemRearranges ==
  ASSUME NEW s, NEW things, Sound(s, things), NEW p \in Player,
         NEW i \in Item, Holds(s, p, i), NEW r \in UseItem(s, p, i)
  PROVE  Rearranged(s, r.inv, p)
<1>1. i \in things /\ s.owner[i] = p /\ s.parent[i] = NoPack
  BY OwnedIsThere DEF Holds
<1>2. OwnerOf(s, i) = p
  BY <1>1 DEF OwnerOf
<1>3. CASE r = Failed(s)
  BY <1>3, RearrangedSame DEF Failed
<1>4. CASE r = Done([s EXCEPT !.at[i] = BODY])
  <2> DEFINE t == [s EXCEPT !.at[i] = BODY]
  <2>1. s \in Inv
    BY DEF Sound
  <2>2. t.owner = s.owner /\ t.parent = s.parent
    BY <2>1 DEF Inv
  <2>3. r.inv = t
    BY <1>4 DEF Done
  <2> HIDE DEF t
  <2>4. \A j \in Item : OwnerOf(t, j) = OwnerOf(s, j)
    BY <2>2 DEF OwnerOf
  <2> QED
    BY <2>2, <2>3, <2>4 DEF Rearranged
<1>5. CASE r \in PutInAnyPack(s, p, i)
  BY <1>1, <1>2, <1>5, AnyPackGiven
<1> QED
  BY <1>3, <1>4, <1>5 DEF UseItem

LEMMA PutAwayRearranges ==
  ASSUME NEW s, NEW things, Sound(s, things), NEW p \in Player,
         NEW i \in Item, Holds(s, p, i), NEW r \in PutAway(s, p, i)
  PROVE  Rearranged(s, r.inv, p)
<1>1. PICK x \in UseItem(s, p, i) :
        r = [x EXCEPT !.ok = x.inv.parent[i] # NoPack \/ x.inv.at[i] = BODY]
  BY DEF PutAway
<1>2. \E y, ok, l : x = [inv |-> y, ok |-> ok, lost |-> l]
  BY DEF UseItem, Failed, Done, Lost, PutInAnyPack, FindPackForItem, PutInPack
<1>3. r.inv = x.inv
  BY <1>1, <1>2
<1> QED
  BY <1>3, UseItemRearranges

LEMMA PutAllAwayRearranges ==
  ASSUME NEW s, NEW things, Sound(s, things), NEW p \in Player, NEW h \in Hands,
         NEW items \in SUBSET InHand(s, p, h), NEW r \in PutAllAway(s, p, items)
  PROVE  Rearranged(s, r.inv, p)
<1>1. CASE items = {}
  BY <1>1, RearrangedSame DEF PutAllAway, Done
<1>2. CASE items # {}
  <2>1. PICK j \in items : r \in PutAway(s, p, j)
    BY <1>2 DEF PutAllAway
  <2>2. j \in Item /\ Holds(s, p, j)
    BY OwnedIsThere DEF InHand, Holds
  <2> QED
    BY <2>1, <2>2, PutAwayRearranges
<1> QED
  BY <1>1, <1>2

LEMMA FreeHandsRearranges ==
  ASSUME NEW s, NEW things, Sound(s, things), NEW p \in Player,
         NEW i \in Item, NEW r \in FreeHands(s, p, i)
  PROVE  Rearranged(s, r.inv, p)
<1> DEFINE first == IF Pref[i] = "both" THEN LEFT
                    ELSE IF Pref[i] = "any" THEN m_PrefHand ELSE Pref[i]
           next(t) == {j \in InHand(t, p, Other(first)) : "both" \in {Pref[i], Pref[j]}}
<1>0. first \in Hands /\ Other(first) \in Hands
  BY ConstantsAssumption DEF Hands, LEFT, RIGHT, Other, m_PrefHand
<1>1. PICK x \in PutAllAway(s, p, InHand(s, p, first)) :
        IF x.ok THEN \E y \in PutAllAway(x.inv, p, next(x.inv)) : r = Then(x, y)
        ELSE r = x
  BY DEF FreeHands
<1>2. Sound(x.inv, things) /\ Rearranged(s, x.inv, p)
  BY <1>0, PutAllAwaySound, PutAllAwayRearranges
<1>3. CASE ~x.ok
  BY <1>1, <1>2, <1>3
<1>4. CASE x.ok
  <2>1. PICK y \in PutAllAway(x.inv, p, next(x.inv)) : r = Then(x, y)
    BY <1>1, <1>4
  <2>2. r.inv = y.inv
    BY <2>1, OutcomeOfPutAllAway DEF Then
  <2>3. next(x.inv) \in SUBSET InHand(x.inv, p, Other(first))
    OBVIOUS
  <2>4. Rearranged(x.inv, y.inv, p)
    BY <1>0, <1>2, <2>1, <2>3, PutAllAwayRearranges
  <2> QED
    BY <1>2, <2>2, <2>4, RearrangedTwice
<1> QED
  BY <1>3, <1>4

LEMMA RemoveTakes ==
  ASSUME NEW s, NEW things, Sound(s, things), NEW i \in Item
  PROVE  \A j \in Item \ {i} :
           /\ RemoveFromOwner(s, i).parent[j] = s.parent[j]
           /\ i \notin Pack \/ s.parent[j] # i =>
                OwnerOf(RemoveFromOwner(s, i), j) = OwnerOf(s, j)
           /\ i \in Pack /\ s.parent[j] = i => OwnerOf(RemoveFromOwner(s, i), j) = Nobody
<1> DEFINE t == RemoveFromOwner(s, i)
<1>1. /\ \A j \in Item \ {i} : t.owner[j] = s.owner[j] /\ t.parent[j] = s.parent[j]
      /\ t.owner[i] = Nobody
  BY RemoveSound DEF Free
<1>2. \A j \in Item : s.parent[j] = NoPack \/ (s.parent[j] \in Pack /\ s.parent[j] # NoPack)
  BY ConstantsAssumption DEF Sound, Inv
<1> HIDE DEF t
<1>3. ASSUME NEW j \in Item \ {i}
      PROVE  /\ t.parent[j] = s.parent[j]
             /\ i \notin Pack \/ s.parent[j] # i => OwnerOf(t, j) = OwnerOf(s, j)
             /\ i \in Pack /\ s.parent[j] = i => OwnerOf(t, j) = Nobody
  <2>1. CASE s.parent[j] = NoPack
    BY <1>1, <2>1, ConstantsAssumption DEF OwnerOf
  <2>2. CASE s.parent[j] # NoPack /\ s.parent[j] # i
    <3>1. s.parent[j] \in Item \ {i}
      BY <1>2, <2>2, ConstantsAssumption
    <3> QED
      BY <1>1, <2>2, <3>1 DEF OwnerOf
  <2>3. CASE s.parent[j] # NoPack /\ s.parent[j] = i
    BY <1>1, <1>2, <2>3 DEF OwnerOf
  <2> QED
    BY <2>1, <2>2, <2>3
<1> QED
  BY <1>3 DEF t

LEMMA ToHandGiven ==
  ASSUME NEW s, NEW things, Sound(s, things), NEW p \in Player,
         NEW i \in Item, i \in things
  PROVE  Given(s, ToHand(s, p, i).inv, p, i)
<1> DEFINE t == RemoveFromOwner(s, i)
           h == NewItemHand(t, p, i)
           u == AddToOwner(t, p, i, h)
           x == ToHand(s, p, i).inv
<1>1. x = t \/ x = u
  BY DEF ToHand, AddItem, Lost, Done
<1>2. t \in Inv /\ t.owner[i] = Nobody /\ t.parent[i] = NoPack
  BY RemoveSound, RemoveTyped DEF Sound, Free
<1>3. /\ u.parent = t.parent /\ u.owner[i] = p
      /\ \A j \in Item \ {i} : u.owner[j] = t.owner[j]
  BY <1>2 DEF AddToOwner, Inv
<1>4. \A j \in Item \ {i} :
        /\ t.parent[j] = s.parent[j]
        /\ i \notin Pack \/ s.parent[j] # i => OwnerOf(t, j) = OwnerOf(s, j)
        /\ i \in Pack /\ s.parent[j] = i => OwnerOf(t, j) = Nobody
  BY RemoveTakes
<1>5. \A j \in Item : s.parent[j] = NoPack \/ (s.parent[j] \in Pack /\ s.parent[j] # NoPack)
  BY ConstantsAssumption DEF Sound, Inv
<1> HIDE DEF t, h, u, x
<1>6. ASSUME NEW j \in Item \ {i}
      PROVE  /\ u.parent[j] = s.parent[j]
             /\ i \notin Pack \/ s.parent[j] # i => OwnerOf(u, j) = OwnerOf(s, j)
             /\ i \in Pack /\ s.parent[j] = i => OwnerOf(u, j) = p
  <2>1. t.parent[j] = s.parent[j] /\ u.parent[j] = s.parent[j] /\ u.owner[j] = t.owner[j]
    BY <1>3, <1>4
  <2>2. CASE s.parent[j] = NoPack
    <3>2. OwnerOf(u, j) = OwnerOf(t, j)
      BY <2>1, <2>2 DEF OwnerOf
    <3>3. i \notin Pack \/ s.parent[j] # i
      BY <2>2, ConstantsAssumption
    <3> QED
      BY <1>4, <2>1, <3>2, <3>3
  <2>3. CASE s.parent[j] # NoPack /\ s.parent[j] # i
    <3>1. s.parent[j] \in Item \ {i}
      BY <1>5, <2>3, ConstantsAssumption
    <3>2. OwnerOf(u, j) = OwnerOf(t, j)
      BY <1>3, <2>1, <2>3, <3>1 DEF OwnerOf
    <3> QED
      BY <1>4, <2>1, <2>3, <3>2
  <2>4. CASE s.parent[j] # NoPack /\ s.parent[j] = i
    <3>1. OwnerOf(u, j) = p /\ i \in Pack
      BY <1>3, <1>5, <2>1, <2>4 DEF OwnerOf
    <3> QED
      BY <2>1, <2>4, <3>1
  <2> QED
    BY <2>2, <2>3, <2>4
<1>7. u.parent[i] = NoPack
  BY <1>2, <1>3
<1>8. OwnerOf(t, i) = Nobody /\ OwnerOf(u, i) = p
  BY <1>2, <1>3, <1>7 DEF OwnerOf
<1>9. Given(s, t, p, i)
  BY <1>2, <1>4, <1>8 DEF Given
<1>10. Given(s, u, p, i)
  BY <1>6, <1>7, <1>8 DEF Given
<1> QED
  BY <1>1, <1>9, <1>10 DEF x

\* GiveTo gives its player that item and what is in it, and nothing else.
LEMMA GiveToGiven ==
  ASSUME NEW s, NEW things, Sound(s, things), NEW p \in Player, NEW away,
         NEW i \in Item, i \in things, NEW r \in GiveTo(s, p, i, away)
  PROVE  Given(s, r.inv, p, i)
<1> DEFINE mine == OwnerOf(s, i) = p
<1>1. \/ r = Failed(s)
      \/ r = ToHand(s, p, i)
      \/ \E x \in FreeHands(s, p, i) :
           \/ r = Then(x, ToHand(x.inv, p, i))
           \/ r = x
           \/ \E y \in PutInAnyPack(x.inv, p, i) : r = Then(x, y)
      \/ r \in PutInAnyPack(s, p, i)
  BY DEF GiveTo
<1>2. CASE r = Failed(s)
  BY <1>2 DEF Failed, Given
<1>3. CASE r = ToHand(s, p, i)
  BY <1>3, ToHandGiven
<1>4. CASE r \in PutInAnyPack(s, p, i)
  BY <1>4, AnyPackGiven
<1>5. ASSUME NEW x \in FreeHands(s, p, i),
             \/ r = Then(x, ToHand(x.inv, p, i))
             \/ r = x
             \/ \E y \in PutInAnyPack(x.inv, p, i) : r = Then(x, y)
      PROVE  Given(s, r.inv, p, i)
  <2>1. Sound(x.inv, things) /\ Rearranged(s, x.inv, p)
    BY FreeHandsSound, FreeHandsRearranges
  <2>2. CASE r = Then(x, ToHand(x.inv, p, i))
    <3>1. \E y, ok, l : ToHand(x.inv, p, i) = [inv |-> y, ok |-> ok, lost |-> l]
      BY DEF ToHand, AddItem, Lost, Done
    <3>2. r.inv = ToHand(x.inv, p, i).inv
      BY <2>2, <3>1 DEF Then
    <3>3. Given(x.inv, ToHand(x.inv, p, i).inv, p, i)
      BY <2>1, ToHandGiven
    <3> QED
      BY <2>1, <3>2, <3>3, RearrangedGiven
  <2>3. CASE r = x
    <3>1. Given(x.inv, x.inv, p, i)
      BY DEF Given
    <3> QED
      BY <2>1, <2>3, <3>1, RearrangedGiven
  <2>4. CASE \E y \in PutInAnyPack(x.inv, p, i) : r = Then(x, y)
    <3>1. PICK y \in PutInAnyPack(x.inv, p, i) : r = Then(x, y)
      BY <2>4
    <3>2. \E z, ok, l : y = [inv |-> z, ok |-> ok, lost |-> l]
      BY <3>1 DEF PutInAnyPack, FindPackForItem, PutInPack, Failed, Done, Lost
    <3>3. r.inv = y.inv
      BY <3>1, <3>2 DEF Then
    <3>4. Given(x.inv, y.inv, p, i)
      BY <2>1, <3>1, AnyPackGiven
    <3> QED
      BY <2>1, <3>3, <3>4, RearrangedGiven
  <2> QED
    BY <1>5, <2>2, <2>3, <2>4
<1> QED
  BY <1>1, <1>2, <1>3, <1>4, <1>5

LEMMA RemovalOwners ==
  ASSUME NEW s \in Inv, NEW gone \in SUBSET Item
  PROVE  \A j \in Item :
           \/ OwnerOf(SUB_Remove(s, gone), j) = Nobody
           \/ /\ OwnerOf(SUB_Remove(s, gone), j) = OwnerOf(s, j)
              /\ SUB_Remove(s, gone).parent[j] = s.parent[j]
<1> DEFINE t == SUB_Remove(s, gone)
<1>1. \A j \in Item : /\ t.owner[j] = IF j \in gone THEN Nobody ELSE s.owner[j]
                     /\ t.parent[j] = IF j \in gone THEN NoPack ELSE s.parent[j]
  BY DEF SUB_Remove
<1>2. \A j \in Item : s.parent[j] # NoPack => s.parent[j] \in Item
  BY ConstantsAssumption DEF Inv
<1> HIDE DEF t
<1>3. ASSUME NEW j \in Item
      PROVE  \/ OwnerOf(t, j) = Nobody
             \/ OwnerOf(t, j) = OwnerOf(s, j) /\ t.parent[j] = s.parent[j]
  <2>1. CASE j \in gone
    BY <1>1, <2>1 DEF OwnerOf
  <2>2. CASE j \notin gone
    <3>1. t.parent[j] = s.parent[j] /\ t.owner[j] = s.owner[j]
      BY <1>1, <2>2
    <3>2. s.parent[j] # NoPack => t.owner[s.parent[j]] \in {Nobody, s.owner[s.parent[j]]}
      BY <1>1, <1>2
    <3> QED
      BY <3>1, <3>2 DEF OwnerOf
  <2> QED
    BY <2>1, <2>2
<1> QED
  BY <1>3 DEF t

LEMMA GivenRemoved ==
  ASSUME NEW s, NEW t \in Inv, NEW p, NEW i \in Item, NEW gone \in SUBSET Item, Given(s, t, p, i)
  PROVE  Given(s, SUB_Remove(t, gone), p, i)
<1> DEFINE u == SUB_Remove(t, gone)
<1>1. \A j \in Item : \/ OwnerOf(u, j) = Nobody
                     \/ /\ OwnerOf(u, j) = OwnerOf(t, j)
                        /\ u.parent[j] = t.parent[j]
  BY RemovalOwners, Zenon
<1> HIDE DEF u
<1>2. Given(s, u, p, i)
  BY <1>1 DEF Given
<1> QED
  BY <1>2 DEF u
-----------------------------------------------------------------------------
(* No step robs anybody *)

\* What NobodyRobbed says of one step.
NotRobbed ==
  \A p, q \in Player, i \in live :
    LET moved == IF inv.parent[i] # NoPack /\ inv'.parent[i] = inv.parent[i]
                 THEN inv.parent[i] ELSE i
    IN p # q /\ OwnerOf(inv, i) = p /\ OwnerOf(inv', i) = q =>
         \/ offer[q] = [src |-> p, item |-> moved] /\ inv.owner[moved] = p
         \/ menu[q].item = moved /\ menu'[q] = NoMenu

LEMMA TakenFair ==
  ASSUME live \subseteq Item, Taken(inv, inv')
  PROVE  NotRobbed
<1> SUFFICES ASSUME NEW p \in Player, NEW q \in Player, NEW i \in live,
                    p # q, OwnerOf(inv, i) = p, OwnerOf(inv', i) = q
             PROVE  FALSE
  BY DEF NotRobbed
<1> QED
  BY ConstantsAssumption DEF Taken

LEMMA RearrangedFair ==
  ASSUME IInv, NEW p \in Player, Rearranged(inv, inv', p)
  PROVE  NotRobbed
  BY TakenFair, RearrangedTaken DEF IInv

LEMMA RemovedFair ==
  ASSUME IInv, NEW gone \in SUBSET Item, inv' = SUB_Remove(inv, gone)
  PROVE  NotRobbed
<1>1. Taken(inv, inv')
  BY RemovalOwners DEF Taken, IInv, Sound
<1> QED
  BY <1>1, TakenFair DEF IInv

LEMMA UnmovedFair ==
  ASSUME IInv, UNCHANGED inv
  PROVE  NotRobbed
  BY TakenFair DEF Taken, IInv

\* q may be given x when whoever had it has offered it to him, or he chooses
\* it from his menu.
LEMMA GivenFair ==
  ASSUME IInv, NEW q \in Player, NEW x \in Item, Given(inv, inv', q, x),
         \A p \in Player \ {q} : OwnerOf(inv, x) = p =>
           \/ offer[q] = [src |-> p, item |-> x] /\ inv.owner[x] = p
           \/ menu[q].item = x /\ menu'[q] = NoMenu
  PROVE  NotRobbed
<1> SUFFICES ASSUME NEW p \in Player, NEW r \in Player, NEW i \in live,
                    p # r, OwnerOf(inv, i) = p, OwnerOf(inv', i) = r
             PROVE  LET moved == IF inv.parent[i] # NoPack /\ inv'.parent[i] = inv.parent[i]
                                 THEN inv.parent[i] ELSE i
                    IN \/ offer[r] = [src |-> p, item |-> moved] /\ inv.owner[moved] = p
                       \/ menu[r].item = moved /\ menu'[r] = NoMenu
  BY DEF NotRobbed
<1>1. i \in Item
  BY DEF IInv
<1>2. /\ r = q
      /\ \/ i = x /\ (inv.parent[x] = NoPack \/ inv'.parent[x] # inv.parent[x])
         \/ x \in Pack /\ inv.parent[i] = x /\ inv'.parent[i] = x
  BY <1>1, ConstantsAssumption DEF Given
<1>3. CASE i = x /\ (inv.parent[x] = NoPack \/ inv'.parent[x] # inv.parent[x])
  BY <1>2, <1>3
<1>4. CASE x \in Pack /\ inv.parent[i] = x /\ inv'.parent[i] = x
  <2>1. x # NoPack /\ inv.parent[x] = NoPack
    BY <1>4, ConstantsAssumption DEF IInv, Sound, Flat
  <2>2. OwnerOf(inv, x) = p
    BY <1>4, <2>1 DEF OwnerOf
  <2> QED
    BY <1>2, <1>4, <2>1, <2>2
<1> QED
  BY <1>2, <1>3, <1>4

LEMMA WorldFair ==
  ASSUME IInv, NEW i \in Item, Spawn(i) \/ Expire(i) \/ Think(i)
  PROVE  NotRobbed
<1>1. CASE Spawn(i) \/ Expire(i)
  BY <1>1, UnmovedFair DEF Spawn, Expire
<1>2. CASE Think(i)
  BY <1>2, ContentsGoToo, RemovedFair DEF Think
<1> QED
  BY <1>1, <1>2

LEMMA PickUpFair ==
  ASSUME IInv, NEW p \in Player, PickUp(p)
  PROVE  NotRobbed
<1>1. ASSUME NEW i \in Item, GetAnyItems(p, i)
      PROVE  NotRobbed
  <2>1. PICK r \in GiveTo(inv, p, i, FALSE) : Moved(r)
    BY <1>1 DEF GetAnyItems
  <2>2. i \in live /\ OwnerOf(inv, i) = Nobody
    BY <1>1 DEF GetAnyItems, Free, OwnerOf
  <2>3. Given(inv, inv', p, i)
    BY <2>1, <2>2, GiveToGiven DEF Moved, IInv
  <2> QED
    BY <2>2, <2>3, GivenFair, ConstantsAssumption
<1>2. ASSUME NEW i \in Groupable, NEW group \in SUBSET Groupable, ShowMenu(p, i, group)
      PROVE  NotRobbed
  BY <1>2, UnmovedFair DEF ShowMenu
<1>3. ASSUME ChooseItem(p)
      PROVE  NotRobbed
  <2>1. menu[p].item \in live /\ menu[p].item \in Item /\ menu[p].group \subseteq Groupable
    BY <1>3 DEF ChooseItem, IInv, MenusSound
  <2>2. PICK r \in GiveTo(inv, p, menu[p].item, FALSE) :
          LET grouped == Grouped(p, r.ok)
          IN /\ inv' = SUB_Remove(r.inv, grouped)
             /\ menu' = [MenusWithout(grouped) EXCEPT ![p] = NoMenu]
    BY <1>3 DEF ChooseItem
  <2> DEFINE grouped == Grouped(p, r.ok)
  <2>3. grouped \in SUBSET Item
    BY <2>1, ConstantsAssumption DEF Grouped
  <2>4. r.inv \in Inv /\ Given(inv, r.inv, p, menu[p].item)
    BY <2>1, GiveToSound, GiveToGiven DEF IInv, Sound
  <2>5. Given(inv, inv', p, menu[p].item)
    BY <2>1, <2>2, <2>3, <2>4, GivenRemoved
  <2>6. menu'[p] = NoMenu
    BY <2>2 DEF MenusWithout
  <2> QED
    BY <2>1, <2>5, <2>6, GivenFair
<1>4. ASSUME CloseMenu(p)
      PROVE  NotRobbed
  BY <1>4, UnmovedFair DEF CloseMenu
<1> QED
  BY <1>1, <1>2, <1>3, <1>4 DEF PickUp

LEMMA CarryFair ==
  ASSUME IInv, NEW p \in Player, Carry(p)
  PROVE  NotRobbed
<1>1. ASSUME NEW i \in Item, NEW away \in BOOLEAN, TakeInHand(p, i, away)
      PROVE  NotRobbed
  <2>1. PICK r \in GiveTo(inv, p, i, away) : Moved(r)
    BY <1>1 DEF TakeInHand
  <2>2. i \in live /\ OwnerOf(inv, i) = p
    BY <1>1 DEF TakeInHand
  <2>3. Given(inv, inv', p, i)
    BY <2>1, <2>2, GiveToGiven DEF Moved, IInv
  <2> QED
    BY <2>2, <2>3, GivenFair
<1>2. ASSUME NEW i \in Item, NEW k \in Pack, Transfer(p, i, k)
      PROVE  NotRobbed
  <2>1. i \in live /\ OwnerOf(inv, i) = p /\ inv' = PutInPack(inv, i, k).inv
    BY <1>2 DEF Transfer, Moved
  <2>2. k \in live /\ OwnerOf(inv, k) = p
    BY <1>2, OwnedIsThere DEF Transfer, IInv, Packs, OwnerOf
  <2>3. Rearranged(inv, inv', p)
    BY <2>1, <2>2, PutInPackGiven DEF IInv
  <2> QED
    BY <2>3, RearrangedFair
<1>3. ASSUME NEW i \in Item, Use(p, i)
      PROVE  NotRobbed
  <2>1. Holds(inv, p, i) /\ \E r \in UseItem(inv, p, i) : inv' = r.inv
    BY <1>3 DEF Use, Moved
  <2>2. Rearranged(inv, inv', p)
    BY <2>1, UseItemRearranges DEF IInv
  <2> QED
    BY <2>2, RearrangedFair
<1>4. ASSUME NEW i \in Item, Drop(p, i)
      PROVE  NotRobbed
  <2>1. inv' = RemoveFromOwner(inv, i)
    BY <1>4 DEF Drop
  <2>2. OwnerOf(inv', i) = Nobody
    BY <2>1, RemoveSound DEF IInv, Free, OwnerOf
  <2>3. Taken(inv, inv')
    BY <2>1, <2>2, RemoveTakes DEF Taken, IInv
  <2> QED
    BY <2>3, TakenFair DEF IInv
<1>5. ASSUME NEW absorbed \in SUBSET Groupable, NEW into \in [absorbed -> Groupable],
             OpenPacks(p, into)
      PROVE  NotRobbed
  <2>1. inv' = SUB_Remove(inv, absorbed) /\ absorbed \in SUBSET Item
    BY <1>5, ConstantsAssumption DEF OpenPacks
  <2> QED
    BY <2>1, RemovedFair
<1>6. ASSUME RemoveAllItems(p)
      PROVE  NotRobbed
  BY <1>6, CarriedGoToo, RemovedFair DEF RemoveAllItems
<1>7. \/ \E i \in Item, away \in BOOLEAN : TakeInHand(p, i, away)
      \/ \E i \in Item, k \in Pack : Transfer(p, i, k)
      \/ \E i \in Item : Use(p, i) \/ Drop(p, i)
      \/ \E absorbed \in SUBSET Groupable : \E into \in [absorbed -> Groupable] :
           OpenPacks(p, into)
      \/ RemoveAllItems(p)
  BY DEF Carry
<1> QED
  BY <1>1, <1>2, <1>3, <1>4, <1>5, <1>6, <1>7

LEMMA DealFair ==
  ASSUME IInv, NEW p \in Player, Deal(p)
  PROVE  NotRobbed
<1>0. ASSUME NEW i \in Item \ live PROVE OwnerOf(inv, i) = Nobody
  BY DEF IInv, Sound, Within, Free, OwnerOf
<1>1. ASSUME NEW i \in Item, StorageAdd(p, i)
      PROVE  NotRobbed
  <2>1. inv' = SUB_Remove(inv, {i})
    BY <1>1 DEF StorageAdd
  <2> QED
    BY <2>1, RemovedFair
<1>2. ASSUME NEW i \in Item, Buy(p, i)
      PROVE  NotRobbed
  <2>1. PICK r \in GiveTo(inv, p, i, FALSE) : Moved(r)
    BY <1>2 DEF Buy
  <2>2. i \notin live
    BY <1>2 DEF Buy, New
  <2> DEFINE things == live \cup {i}
  <2>3. Sound(inv, things) /\ i \in things
    BY MoreThings DEF IInv
  <2> HIDE DEF things
  <2>4. Given(inv, inv', p, i)
    BY <2>1, <2>3, GiveToGiven DEF Moved
  <2>5. OwnerOf(inv, i) = Nobody
    BY <1>0, <2>2
  <2> QED
    BY <2>4, <2>5, GivenFair, ConstantsAssumption
<1>3. ASSUME NEW i \in Item, Sell(p, i)
      PROVE  NotRobbed
  BY <1>3, ContentsGoToo, RemovedFair DEF Sell
<1>4. ASSUME NEW c \in stored[p], StorageRemove(p, c)
      PROVE  NotRobbed
  <2> DEFINE i == c.item
             things == live \cup {i}
  <2>1. i \in Item \ live
    BY <1>4 DEF IInv, StoredSound, StorageRemove
  <2>2. PICK x \in GiveTo(inv, p, i, FALSE) \cup
              {PutInPack(inv, i, k) : k \in {k \in live \cap Pack : OwnerOf(inv, k) = p}} :
          Moved(x)
    BY <1>4 DEF StorageRemove
  <2>3. Sound(inv, things) /\ i \in things /\ live \subseteq things
    BY MoreThings DEF IInv
  <2>4. Given(inv, inv', p, i)
    <3> HIDE DEF i, things
    <3>1. CASE x \in GiveTo(inv, p, i, FALSE)
      BY <2>1, <2>2, <2>3, <3>1, GiveToGiven DEF Moved
    <3>2. CASE \E k \in live \cap Pack : OwnerOf(inv, k) = p /\ x = PutInPack(inv, i, k)
      <4>1. PICK k \in live \cap Pack : OwnerOf(inv, k) = p /\ x = PutInPack(inv, i, k)
        BY <3>2
      <4> QED
        BY <2>1, <2>2, <2>3, <4>1, PutInPackGiven DEF Moved
    <3> QED
      BY <2>2, <3>1, <3>2
  <2>5. OwnerOf(inv, i) = Nobody
    BY <1>0, <2>1
  <2> QED
    BY <2>1, <2>4, <2>5, GivenFair, ConstantsAssumption
<1>5. ASSUME NEW c \in stored[p], StorageRefuses(p, c)
      PROVE  NotRobbed
  BY <1>5, UnmovedFair DEF StorageRefuses
<1>6. ASSUME NEW q \in Player, NEW i \in Item, OfferItem(p, q, i)
      PROVE  NotRobbed
  BY <1>6, UnmovedFair DEF OfferItem
<1>7. ASSUME AcceptOffer(p)
      PROVE  NotRobbed
  <2>1. CASE StillOffered(p)
    <3> DEFINE i == offer[p].item
               src == offer[p].src
    <3>1. offer[p] = [src |-> src, item |-> i] /\ i \in Item /\ src \in Player
          /\ inv.owner[i] = src
      BY <1>7, <2>1 DEF AcceptOffer, StillOffered, IInv, OffersSound, Offered
    <3>2. i \in live /\ OwnerOf(inv, i) = src
      BY <3>1, ConstantsAssumption DEF IInv, Sound, Within, Free, Agree, OwnerOf
    <3>3. PICK r \in GiveTo(inv, p, i, FALSE) : Moved(r)
      BY <1>7, <2>1 DEF AcceptOffer
    <3>4. Given(inv, inv', p, i)
      BY <3>1, <3>2, <3>3, GiveToGiven DEF Moved, IInv
    <3> HIDE DEF i, src
    <3> QED
      BY <3>1, <3>2, <3>4, GivenFair
  <2>2. CASE ~StillOffered(p)
    BY <1>7, <2>2, UnmovedFair DEF AcceptOffer
  <2> QED
    BY <2>1, <2>2
<1> QED
  BY <1>0, <1>1, <1>2, <1>3, <1>4, <1>5, <1>6, <1>7 DEF Deal

\* No step hands the goods of one player to another who was not offered them
\* and did not choose them: not GiveTo, which may rearrange what its player
\* has, nor the removal of a pile, nor a pack that takes its contents along.
THEOREM NobodyIsRobbed == Spec => NobodyRobbed
<1> DEFINE Step == \A p, q \in Player, i \in live :
       LET moved == IF inv.parent[i] # NoPack /\ inv'.parent[i] = inv.parent[i]
                    THEN inv.parent[i] ELSE i
       IN p # q /\ OwnerOf(inv, i) = p /\ OwnerOf(inv', i) = q =>
            \/ offer[q] = [src |-> p, item |-> moved] /\ inv.owner[moved] = p
            \/ menu[q].item = moved /\ menu'[q] = NoMenu
<1>1. IInv /\ Next => NotRobbed
  BY WorldFair, PickUpFair, CarryFair, DealFair DEF Next, World
<1>2. IInv /\ [Next]_vars => [Step]_vars
  BY <1>1 DEF NotRobbed
<1> QED
  BY <1>2, Invariant, PTL DEF Spec, NobodyRobbed
-----------------------------------------------------------------------------
(* Sums over finite sets.  MapThenSumSet takes some element away at each    *)
(* step; what holds of every sum is shown of the least set it might fail    *)
(* for.                                                                     *)

\* A family of subsets of a finite set has a minimal member.
LEMMA SetLeast ==
  ASSUME NEW S, IsFiniteSet(S), NEW T \in SUBSET (SUBSET S), T # {}
  PROVE  \E m \in T : \A k \in T : k \subseteq m => k = m
<1>1. T \subseteq FiniteSubsetsOf(S)
  BY FS_FiniteSubsetsOfFinite
<1>2. IsWellFoundedOn(StrictSubsetOrdering(S), FiniteSubsetsOf(S))
  BY FS_StrictSubsetOrderingWellFounded
<1>3. PICK m \in T : \A k \in T : ~(<<k, m>> \in StrictSubsetOrdering(S))
  BY <1>1, <1>2, WFMin
<1> QED
  BY <1>3 DEF StrictSubsetOrdering

Total(f, S) == MapThenSumSet(LAMBDA x : f[x], S)

Some(s) == CHOOSE x \in s : TRUE

\* h is what the sum of f over S is computed with.
Sums(h, f, S) ==
  h = [s \in SUBSET S |-> IF s = {} THEN 0 ELSE f[Some(s)] + h[s \ {Some(s)}]]

LEMMA SomeIn == ASSUME NEW s, s # {} PROVE Some(s) \in s
  BY DEF Some

LEMMA TotalIs ==
  ASSUME NEW f, NEW S
  PROVE  Total(f, S) = (CHOOSE h : Sums(h, f, S))[S]
  BY DEF Total, MapThenSumSet, MapThenFoldSet, Sums, Some

LEMMA SumsAre ==
  ASSUME NEW h, NEW f, NEW S
  PROVE  Sums(h, f, S) <=>
           /\ h = [s \in SUBSET S |-> h[s]]
           /\ h[{}] = 0
           /\ \A s \in SUBSET S : s # {} => h[s] = f[Some(s)] + h[s \ {Some(s)}]
  BY DEF Sums

LEMMA SumsUnique ==
  ASSUME NEW h, NEW g, NEW f, NEW S, NEW U, Sums(h, f, S), Sums(g, f, U), IsFiniteSet(S),
         NEW s \in SUBSET S, s \in SUBSET U
  PROVE  h[s] = g[s]
<1> DEFINE T == {t \in SUBSET S : t \in SUBSET U /\ h[t] # g[t]}
<1> SUFFICES ASSUME T # {} PROVE FALSE
  OBVIOUS
<1>0. T \in SUBSET (SUBSET S)
  OBVIOUS
<1>1. PICK t \in T : \A k \in T : k \subseteq t => k = t
  <2> HIDE DEF T
  <2> QED
    BY <1>0, SetLeast
<1>2. CASE t = {}
  BY <1>1, <1>2, SumsAre
<1>3. CASE t # {}
  <2> DEFINE k == t \ {Some(t)}
  <2>1. k \notin T
    BY <1>1, <1>3, SomeIn
  <2>2. h[k] = g[k]
    BY <1>1, <2>1
  <2>3. h[t] = f[Some(t)] + h[k] /\ g[t] = f[Some(t)] + g[k]
    BY <1>1, <1>3, SumsAre
  <2> QED
    BY <1>1, <2>2, <2>3
<1> QED
  BY <1>2, <1>3

LEMMA SumsExist ==
  ASSUME NEW f, NEW S, IsFiniteSet(S)
  PROVE  \E h : Sums(h, f, S)
<1> DEFINE T == {t \in SUBSET S : ~\E h : Sums(h, f, t)}
<1> SUFFICES ASSUME T # {} PROVE FALSE
  OBVIOUS
<1>0. T \in SUBSET (SUBSET S)
  OBVIOUS
<1>1. PICK t \in T : \A k \in T : k \subseteq t => k = t
  <2> HIDE DEF T
  <2> QED
    BY <1>0, SetLeast
<1>2. \A k \in SUBSET t : k # t => \E h : Sums(h, f, k)
  BY <1>1
<1> DEFINE F(k) == CHOOSE h : Sums(h, f, k)
           rest == t \ {Some(t)}
<1>3. \A k \in SUBSET t : k # t => Sums(F(k), f, k)
  BY <1>2
<1> HIDE DEF F
<1> DEFINE g == [k \in SUBSET t |->
                   IF k = t /\ k # {} THEN f[Some(t)] + F(rest)[rest]
                   ELSE IF k = {} THEN 0 ELSE F(k)[k]]
<1>4. g = [k \in SUBSET t |-> g[k]] /\ g[{}] = 0
  OBVIOUS
<1>5. \A k \in SUBSET t : k # t => g[k] = F(k)[k]
  <2>1. \A k \in SUBSET t : k # t /\ k # {} => g[k] = F(k)[k]
    OBVIOUS
  <2>2. {} # t => F({})[{}] = 0
    BY <1>3, SumsAre
  <2> QED
    BY <1>4, <2>1, <2>2
<1>6. t # {} => g[t] = f[Some(t)] + F(rest)[rest]
  OBVIOUS
<1> HIDE DEF g
<1>7. ASSUME NEW k \in SUBSET t, k # {}
      PROVE  g[k] = f[Some(k)] + g[k \ {Some(k)}]
  <2> DEFINE j == k \ {Some(k)}
  <2>0. j \in SUBSET t /\ j # t /\ j \in SUBSET k /\ j # k
    BY <1>7, SomeIn
  <2>1. g[j] = F(j)[j]
    BY <1>5, <2>0
  <2>2. CASE k = t
    BY <1>6, <1>7, <2>1, <2>2
  <2>3. CASE k # t
    <3>1. Sums(F(k), f, k) /\ Sums(F(j), f, j)
      BY <1>3, <2>0, <2>3
    <3>2. F(k)[k] = f[Some(k)] + F(k)[j]
      BY <1>7, <3>1, SumsAre
    <3>3. IsFiniteSet(k)
      BY <1>1, FS_Subset
    <3>4. F(k)[j] = F(j)[j]
      BY <2>0, <3>1, <3>3, SumsUnique
    <3>5. g[k] = F(k)[k]
      BY <1>5, <2>3
    <3> QED
      BY <2>1, <3>2, <3>4, <3>5
  <2> QED
    BY <2>2, <2>3
<1>8. Sums(g, f, t)
  BY <1>4, <1>7, SumsAre
<1> QED
  BY <1>1, <1>8

LEMMA TotalStep ==
  ASSUME NEW f, NEW S, IsFiniteSet(S)
  PROVE  /\ Total(f, {}) = 0
         /\ S # {} => Total(f, S) = f[Some(S)] + Total(f, S \ {Some(S)})
<1> DEFINE F(k) == CHOOSE h : Sums(h, f, k)
<1>1. \A k : IsFiniteSet(k) => Sums(F(k), f, k)
  BY SumsExist
<1>2. \A k : Total(f, k) = F(k)[k]
  BY TotalIs
<1> HIDE DEF F
<1>3. Total(f, {}) = 0
  BY <1>1, <1>2, FS_EmptySet, SumsAre
<1>4. ASSUME S # {}
      PROVE  Total(f, S) = f[Some(S)] + Total(f, S \ {Some(S)})
  <2> DEFINE j == S \ {Some(S)}
  <2>1. IsFiniteSet(j) /\ j \in SUBSET S
    BY FS_RemoveElement
  <2>2. F(S)[S] = f[Some(S)] + F(S)[j]
    BY <1>1, <1>4, SumsAre
  <2>3. F(S)[j] = F(j)[j]
    BY <1>1, <2>1, SumsUnique
  <2> QED
    BY <1>2, <2>2, <2>3
<1> QED
  BY <1>3, <1>4

\* Sums of functions, in terms of single elements.

LEMMA TotalEmpty ==
  ASSUME NEW f
  PROVE  Total(f, {}) = 0
  BY FS_EmptySet, TotalStep

LEMMA TotalSame ==
  ASSUME NEW f, NEW g, NEW S, IsFiniteSet(S), \A x \in S : f[x] = g[x]
  PROVE  Total(f, S) = Total(g, S)
<1> DEFINE T == {t \in SUBSET S : Total(f, t) # Total(g, t)}
<1> SUFFICES ASSUME T # {} PROVE FALSE
  OBVIOUS
<1>0. T \in SUBSET (SUBSET S)
  OBVIOUS
<1>1. PICK t \in T : \A k \in T : k \subseteq t => k = t
  <2> HIDE DEF T
  <2> QED
    BY <1>0, SetLeast
<1>2. IsFiniteSet(t)
  BY FS_Subset
<1>3. t # {}
  BY <1>1, <1>2, TotalStep
<1> DEFINE k == t \ {Some(t)}
<1>4. Total(f, k) = Total(g, k)
  BY <1>1, <1>3, SomeIn
<1>5. Total(f, t) = f[Some(t)] + Total(f, k) /\ Total(g, t) = g[Some(t)] + Total(g, k)
  BY <1>2, <1>3, TotalStep
<1>6. f[Some(t)] = g[Some(t)]
  BY <1>1, <1>3, SomeIn
<1> QED
  BY <1>1, <1>4, <1>5, <1>6

LEMMA TotalZero ==
  ASSUME NEW f, NEW S, IsFiniteSet(S), \A x \in S : f[x] = 0
  PROVE  Total(f, S) = 0
<1> DEFINE T == {t \in SUBSET S : Total(f, t) # 0}
<1> SUFFICES ASSUME T # {} PROVE FALSE
  OBVIOUS
<1>0. T \in SUBSET (SUBSET S)
  OBVIOUS
<1>1. PICK t \in T : \A k \in T : k \subseteq t => k = t
  <2> HIDE DEF T
  <2> QED
    BY <1>0, SetLeast
<1>2. IsFiniteSet(t) /\ Total(f, t) # 0
  BY <1>1, FS_Subset
<1>3. t # {}
  BY <1>2, TotalEmpty
<1> DEFINE k == t \ {Some(t)}
<1>4. Total(f, k) = 0
  BY <1>1, <1>3, SomeIn
<1>5. Total(f, t) = f[Some(t)] + Total(f, k)
  BY <1>2, <1>3, TotalStep
<1>6. f[Some(t)] = 0
  BY <1>1, <1>3, SomeIn
<1> QED
  BY <1>2, <1>4, <1>5, <1>6

LEMMA TotalType ==
  ASSUME NEW f, NEW S, IsFiniteSet(S), \A x \in S : f[x] \in Nat
  PROVE  Total(f, S) \in Nat
<1> DEFINE T == {t \in SUBSET S : Total(f, t) \notin Nat}
<1> SUFFICES ASSUME T # {} PROVE FALSE
  OBVIOUS
<1>0. T \in SUBSET (SUBSET S)
  OBVIOUS
<1>1. PICK t \in T : \A k \in T : k \subseteq t => k = t
  <2> HIDE DEF T
  <2> QED
    BY <1>0, SetLeast
<1>2. IsFiniteSet(t) /\ Total(f, t) \notin Nat
  BY <1>1, FS_Subset
<1>3. t # {}
  <2>1. Total(f, {}) = 0 /\ 0 \in Nat
    BY TotalEmpty
  <2> HIDE DEF T
  <2> QED
    BY <1>2, <2>1
<1> DEFINE k == t \ {Some(t)}
<1>4. Total(f, k) \in Nat
  BY <1>1, <1>3, SomeIn
<1>5. Total(f, t) = f[Some(t)] + Total(f, k)
  BY <1>2, <1>3, TotalStep
<1>6. f[Some(t)] \in Nat
  BY <1>1, <1>3, SomeIn
<1> QED
  BY <1>1, <1>4, <1>5, <1>6

\* Whichever element is taken first.
LEMMA TotalTake ==
  ASSUME NEW f, NEW S, IsFiniteSet(S), \A x \in S : f[x] \in Nat, NEW x \in S
  PROVE  Total(f, S) = f[x] + Total(f, S \ {x})
<1> DEFINE T == {t \in SUBSET S : \E y \in t : Total(f, t) # f[y] + Total(f, t \ {y})}
<1> SUFFICES ASSUME T # {} PROVE FALSE
  OBVIOUS
<1>0. T \in SUBSET (SUBSET S)
  OBVIOUS
<1>1. PICK t \in T : \A k \in T : k \subseteq t => k = t
  <2> HIDE DEF T
  <2> QED
    BY <1>0, SetLeast
<1>2. PICK y \in t : Total(f, t) # f[y] + Total(f, t \ {y})
  BY <1>1
<1>3. t \in SUBSET S /\ IsFiniteSet(t) /\ t # {}
  BY <1>2, FS_Subset
<1> DEFINE c == Some(t)
           r == (t \ {c}) \ {y}
<1>4. c \in t /\ Total(f, t) = f[c] + Total(f, t \ {c})
  BY <1>3, SomeIn, TotalStep
<1>5. c # y
  BY <1>2, <1>4
<1>6. Total(f, t \ {c}) = f[y] + Total(f, r)
  <2>1. t \ {c} \notin T /\ t \ {c} \in SUBSET S /\ y \in t \ {c}
    BY <1>1, <1>4, <1>5
  <2> QED
    BY <2>1
<1>7. Total(f, t \ {y}) = f[c] + Total(f, r)
  <2>1. t \ {y} \notin T /\ t \ {y} \in SUBSET S /\ c \in t \ {y}
    BY <1>1, <1>2, <1>4, <1>5
  <2>2. Total(f, t \ {y}) = f[c] + Total(f, (t \ {y}) \ {c})
    BY <2>1
  <2>3. (t \ {y}) \ {c} = r
    OBVIOUS
  <2> QED
    BY <2>2, <2>3
<1>8. f[c] \in Nat /\ f[y] \in Nat /\ Total(f, r) \in Nat
  <2>1. r \in SUBSET S /\ IsFiniteSet(r)
    BY <1>3, FS_Subset
  <2> QED
    BY <1>2, <1>3, <1>4, <2>1, TotalType
<1> HIDE DEF c, r
<1> QED
  BY <1>2, <1>4, <1>6, <1>7, <1>8

LEMMA TotalPlus ==
  ASSUME NEW f, NEW S, NEW U, IsFiniteSet(S), IsFiniteSet(U), S \cap U = {},
         \A x \in S \cup U : f[x] \in Nat
  PROVE  Total(f, S \cup U) = Total(f, S) + Total(f, U)
<1> DEFINE T == {t \in SUBSET U : Total(f, S \cup t) # Total(f, S) + Total(f, t)}
<1> SUFFICES ASSUME T # {} PROVE FALSE
  OBVIOUS
<1>0. T \in SUBSET (SUBSET U)
  OBVIOUS
<1>1. PICK t \in T : \A k \in T : k \subseteq t => k = t
  <2> HIDE DEF T
  <2> QED
    BY <1>0, SetLeast
<1>2. t \in SUBSET U /\ IsFiniteSet(t) /\ Total(f, S) \in Nat
  BY FS_Subset, TotalType
<1>3. CASE t = {}
  <2>1. S \cup t = S
    BY <1>3
  <2> QED
    BY <1>1, <1>2, <1>3, <2>1, TotalEmpty
<1>4. CASE t # {}
  <2> DEFINE y == Some(t)
             k == t \ {y}
  <2>1. y \in t /\ k \in SUBSET U /\ k \notin T /\ IsFiniteSet(k)
    BY <1>1, <1>2, <1>4, SomeIn, FS_Subset
  <2>2. Total(f, S \cup k) = Total(f, S) + Total(f, k)
    BY <2>1
  <2>3. Total(f, t) = f[y] + Total(f, k)
    BY <1>2, <2>1, TotalTake
  <2>4. Total(f, S \cup t) = f[y] + Total(f, S \cup k)
    <3>1. IsFiniteSet(S \cup t) /\ (S \cup t) \ {y} = S \cup k
      BY <1>2, <2>1, FS_Union
    <3>2. Total(f, S \cup t) = f[y] + Total(f, (S \cup t) \ {y})
      BY <1>2, <2>1, <3>1, TotalTake
    <3> QED
      BY <3>1, <3>2
  <2>5. f[y] \in Nat /\ Total(f, k) \in Nat
    BY <1>2, <2>1, TotalType
  <2> HIDE DEF k, y
  <2> QED
    BY <1>1, <1>2, <2>2, <2>3, <2>4, <2>5
<1> QED
  BY <1>3, <1>4

LEMMA TotalWithin ==
  ASSUME NEW f, NEW S, IsFiniteSet(S), NEW U \in SUBSET S, \A x \in S : f[x] \in Nat
  PROVE  /\ Total(f, U) <= Total(f, S)
         /\ Total(f, S) = Total(f, U) + Total(f, S \ U)
<1>1. IsFiniteSet(U) /\ IsFiniteSet(S \ U)
  BY FS_Subset
<1>2. U \cap (S \ U) = {} /\ U \cup (S \ U) = S
  OBVIOUS
<1>3. Total(f, S) = Total(f, U) + Total(f, S \ U)
  BY <1>1, <1>2, TotalPlus
<1>4. Total(f, U) \in Nat /\ Total(f, S \ U) \in Nat
  BY <1>1, TotalType
<1> QED
  BY <1>3, <1>4

LEMMA TotalLess ==
  ASSUME NEW e, NEW f, NEW g, NEW S, IsFiniteSet(S),
         \A x \in S : e[x] \in Nat /\ f[x] \in Nat /\ g[x] \in Nat /\ e[x] <= f[x] + g[x]
  PROVE  Total(e, S) <= Total(f, S) + Total(g, S)
<1> DEFINE T == {t \in SUBSET S : ~(Total(e, t) <= Total(f, t) + Total(g, t))}
<1> SUFFICES ASSUME T # {} PROVE FALSE
  OBVIOUS
<1>0. T \in SUBSET (SUBSET S)
  OBVIOUS
<1>1. PICK t \in T : \A k \in T : k \subseteq t => k = t
  <2> HIDE DEF T
  <2> QED
    BY <1>0, SetLeast
<1>2. t \in SUBSET S /\ IsFiniteSet(t)
  BY FS_Subset
<1>3. CASE t = {}
  BY <1>1, <1>3, TotalEmpty
<1>4. CASE t # {}
  <2> DEFINE y == Some(t)
             k == t \ {y}
  <2>1. y \in t /\ y \in S /\ k \in SUBSET S /\ k \notin T /\ IsFiniteSet(k)
    BY <1>1, <1>2, <1>4, SomeIn, FS_Subset
  <2>2. Total(e, k) <= Total(f, k) + Total(g, k)
    BY <2>1
  <2>3. /\ Total(e, t) = e[y] + Total(e, k)
        /\ Total(f, t) = f[y] + Total(f, k)
        /\ Total(g, t) = g[y] + Total(g, k)
    BY <1>2, <1>4, TotalStep
  <2>4. Total(e, k) \in Nat /\ Total(f, k) \in Nat /\ Total(g, k) \in Nat
    BY <2>1, TotalType
  <2>5. e[y] \in Nat /\ f[y] \in Nat /\ g[y] \in Nat /\ e[y] <= f[y] + g[y]
    BY <2>1
  <2>6. ~(Total(e, t) <= Total(f, t) + Total(g, t))
    BY <1>1
  <2> HIDE DEF k, y
  <2> QED
    BY <2>2, <2>3, <2>4, <2>5, <2>6
<1> QED
  BY <1>3, <1>4

\* What is summed by where it goes to is summed once.
LEMMA TotalByTarget ==
  ASSUME NEW f, NEW S, NEW U, IsFiniteSet(S), IsFiniteSet(U), \A x \in U : f[x] \in Nat,
         NEW into, \A x \in U : into[x] \in S
  PROVE  Total([y \in S |-> Total(f, {x \in U : into[x] = y})], S) = Total(f, U)
<1> DEFINE To(t, y) == {x \in t : into[x] = y}
           G(t) == [y \in S |-> Total(f, To(t, y))]
           T == {t \in SUBSET U : Total(G(t), S) # Total(f, t)}
<1> SUFFICES T = {}
  <2>1. U \notin T => Total(G(U), S) = Total(f, U)
    OBVIOUS
  <2> QED
    BY <2>1
<1> SUFFICES ASSUME T # {} PROVE FALSE
  OBVIOUS
<1>0. T \in SUBSET (SUBSET U)
  OBVIOUS
<1>1. PICK t \in T : \A k \in T : k \subseteq t => k = t
  <2> HIDE DEF T
  <2> QED
    BY <1>0, SetLeast
<1>2. /\ t \in SUBSET U /\ IsFiniteSet(t) /\ Total(G(t), S) # Total(f, t)
      /\ \A x \in t : f[x] \in Nat
  BY <1>1, FS_Subset
<1>3. ASSUME NEW u \in SUBSET U, NEW y \in S
      PROVE  G(u)[y] = Total(f, To(u, y)) /\ G(u)[y] \in Nat /\ IsFiniteSet(To(u, y))
  <2>1. IsFiniteSet(To(u, y)) /\ To(u, y) \in SUBSET U
    BY FS_Subset
  <2>2. \A x \in To(u, y) : f[x] \in Nat
    BY <2>1
  <2>3. Total(f, To(u, y)) \in Nat
    BY <2>1, <2>2, TotalType
  <2> QED
    BY <2>1, <2>3
<1> DEFINE g == G(t)
<1>4. CASE t = {}
  <2>1. \A y \in S : To(t, y) = {}
    BY <1>4
  <2>2. \A y \in S : g[y] = 0
    BY <2>1, TotalEmpty
  <2> HIDE DEF g
  <2>3. Total(g, S) = 0
    BY <2>2, TotalZero
  <2> QED
    BY <1>2, <1>4, <2>3, TotalEmpty DEF g
<1>5. CASE t # {}
  <2> DEFINE x == Some(t)
             k == t \ {x}
             h == G(k)
             z == into[x]
  <2>1. x \in t /\ k \in SUBSET U /\ k \notin T /\ z \in S
    BY <1>1, <1>2, <1>5, SomeIn
  <2>2. Total(h, S) = Total(f, k)
    BY <2>1
  <2>3. Total(f, t) = f[x] + Total(f, k)
    BY <1>2, <2>1, TotalTake
  <2>4. \A y \in S : g[y] \in Nat /\ h[y] \in Nat
    BY <1>2, <1>3, <2>1
  <2>5. \A y \in S \ {z} : g[y] = h[y]
    <3>1. \A y \in S \ {z} : To(t, y) = To(k, y)
      OBVIOUS
    <3> QED
      BY <1>2, <1>3, <2>1, <3>1
  <2>6. g[z] = f[x] + h[z]
    <3>1. x \in To(t, z) /\ To(t, z) \ {x} = To(k, z)
      BY <2>1
    <3>2. IsFiniteSet(To(t, z)) /\ (\A y \in To(t, z) : f[y] \in Nat)
      BY <1>2, <1>3, <2>1
    <3>3. Total(f, To(t, z)) = f[x] + Total(f, To(t, z) \ {x})
      <4> HIDE DEF To, x
      <4> QED
        BY <3>1, <3>2, TotalTake
    <3> QED
      BY <1>2, <1>3, <2>1, <3>1, <3>3
  <2> HIDE DEF g, h
  <2>7. Total(g, S) = g[z] + Total(g, S \ {z}) /\ Total(h, S) = h[z] + Total(h, S \ {z})
    BY <2>1, <2>4, TotalTake
  <2>8. Total(g, S \ {z}) = Total(h, S \ {z})
    BY <2>5, FS_RemoveElement, TotalSame
  <2>9. Total(h, S \ {z}) \in Nat /\ h[z] \in Nat /\ f[x] \in Nat
    <3>1. IsFiniteSet(S \ {z}) /\ (\A y \in S \ {z} : h[y] \in Nat)
      BY <2>4, FS_RemoveElement
    <3> QED
      BY <1>2, <2>1, <2>4, <3>1, TotalType
  <2>10. Total(g, S) = f[x] + Total(h, S)
    BY <2>6, <2>7, <2>8, <2>9
  <2> QED
    BY <1>2, <2>2, <2>3, <2>10 DEF g
<1> QED
  BY <1>4, <1>5
-----------------------------------------------------------------------------
(* The pieces of a kind, as sums *)

OfKind(items, k) == {i \in items : Kind[i] = k}
StoredOf(k) == {r \in UNION {stored[p] : p \in Player} : Kind[r.item] = k}

\* The pieces the records of a set stand for.
Recorded(R) == MapThenSumSet(LAMBDA r : r.qty, R)

PiecesAre == \A k : Pieces(k) = Total(qty, OfKind(live, k)) + Recorded(StoredOf(k))

LEMMA PiecesNow == PiecesAre
  BY DEF PiecesAre, Pieces, Quantity, Total, Recorded, OfKind, StoredOf

LEMMA PiecesNext == PiecesAre'
  BY PiecesNow, PTL

LEMMA PiecesBoth ==
  ASSUME NEW k
  PROVE  /\ Pieces(k) = Total(qty, OfKind(live, k)) + Recorded(StoredOf(k))
         /\ Pieces(k)' = Total(qty', OfKind(live', k)) + Recorded(StoredOf(k)')
<1>1. Pieces(k)' = Total(qty', OfKind(live', k)) + Recorded(StoredOf(k)')
  BY PiecesNext DEF PiecesAre
<1> QED
  BY <1>1, PiecesNow DEF PiecesAre

LEMMA RecordedIs ==
  ASSUME NEW R, IsFiniteSet(R)
  PROVE  Recorded(R) = Total([r \in R |-> r.qty], R)
<1> DEFINE f == [r \in R |-> r.qty]
           H(h) == h = [s \in SUBSET R |-> IF s = {} THEN 0 ELSE Some(s).qty + h[s \ {Some(s)}]]
           g == CHOOSE h : H(h)
<1>1. Recorded(R) = g[R]
  BY DEF Recorded, MapThenSumSet, MapThenFoldSet, Some
<1>2. \A s \in SUBSET R : s # {} => f[Some(s)] = Some(s).qty
  BY SomeIn
<1>3. ASSUME NEW h PROVE H(h) <=> Sums(h, f, R)
  BY <1>2 DEF Sums
<1>4. H(g)
  <2>1. \E h : H(h)
    BY <1>3, SumsExist
  <2> HIDE DEF H
  <2> QED
    BY <2>1
<1> HIDE DEF g, f
<1>5. Sums(g, f, R)
  BY <1>3, <1>4
<1>6. \E h : Sums(h, f, R)
  BY <1>5
<1>7. Sums(CHOOSE h : Sums(h, f, R), f, R)
  BY <1>6
<1>8. Total(f, R) = (CHOOSE h : Sums(h, f, R))[R]
  BY TotalIs
<1>9. g[R] = (CHOOSE h : Sums(h, f, R))[R]
  BY <1>5, <1>7, SumsUnique
<1> QED
  BY <1>1, <1>8, <1>9 DEF f

LEMMA RecordedTake ==
  ASSUME NEW R, IsFiniteSet(R), \A r \in R : r.qty \in Nat
  PROVE  /\ Recorded(R) \in Nat
         /\ \A r \in R : Recorded(R) = r.qty + Recorded(R \ {r})
<1> DEFINE f == [r \in R |-> r.qty]
<1>1. \A r \in R : f[r] = r.qty /\ f[r] \in Nat
  OBVIOUS
<1>2. Recorded(R) = Total(f, R)
  BY RecordedIs
<1> HIDE DEF f
<1>3. Total(f, R) \in Nat
  BY <1>1, TotalType
<1>4. ASSUME NEW r \in R PROVE Recorded(R) = r.qty + Recorded(R \ {r})
  <2> DEFINE Q == R \ {r}
             g == [x \in Q |-> x.qty]
  <2>1. IsFiniteSet(Q) /\ Q \subseteq R
    BY FS_RemoveElement
  <2>2. Recorded(Q) = Total(g, Q)
    BY <2>1, RecordedIs
  <2>3. \A x \in Q : g[x] = f[x]
    BY <1>1
  <2> HIDE DEF Q, g
  <2>4. Total(g, Q) = Total(f, Q)
    BY <2>1, <2>3, TotalSame
  <2>5. Total(f, R) = f[r] + Total(f, R \ {r})
    BY <1>1, TotalTake
  <2> QED
    BY <1>1, <1>2, <2>2, <2>4, <2>5 DEF Q
<1> QED
  BY <1>2, <1>3, <1>4
-----------------------------------------------------------------------------
(* What is counted *)

\* A thing is in storage once.
StoredOnce ==
  \A p, q \in Player : \A r \in stored[p], c \in stored[q] : r.item = c.item => p = q /\ r = c

\* The pile of a menu is of things that are there, of one kind.
PilesSound ==
  \A p \in Player : menu[p] # NoMenu =>
    /\ menu[p].item \notin menu[p].group /\ menu[p].group \subseteq live
    /\ \A j \in menu[p].group : Kind[j] = Kind[menu[p].item]

CountInv == TypeOK /\ StoredOnce /\ PilesSound

\* What NothingMultiplies says of one step.
NoneMade ==
  \A k \in {Kind[i] : i \in Item} : Pieces(k)' > Pieces(k) =>
    Made(k) \/ \E p \in Player : menu[p] # NoMenu /\ menu'[p] = NoMenu /\ StaleMenu(p)

LEMMA CountStart == Init => CountInv
<1> SUFFICES ASSUME Init PROVE CountInv
  OBVIOUS
<1>1. inv \in Inv
  BY Start DEF IInv, Sound
<1>2. /\ live = {} /\ dying = {} /\ stranded = {} /\ qty \in [Item -> Nat]
      /\ stored = [p \in Player |-> {}] /\ menu = [p \in Player |-> NoMenu]
      /\ offer = [p \in Player |-> NoOffer]
  BY DEF Init
<1>3. TypeOK
  BY <1>1, <1>2 DEF TypeOK
<1> QED
  BY <1>2, <1>3 DEF CountInv, StoredOnce, PilesSound

\* Whatever is counted is finite and has a number of pieces.
LEMMA Countable ==
  ASSUME CountInv, NEW k
  PROVE  /\ IsFiniteSet(OfKind(live, k)) /\ OfKind(live, k) \subseteq Item
         /\ \A i \in Item : qty[i] \in Nat
         /\ IsFiniteSet(StoredOf(k)) /\ \A r \in StoredOf(k) : r.qty \in Nat
         /\ Total(qty, OfKind(live, k)) \in Nat /\ Recorded(StoredOf(k)) \in Nat
<1>1. \A S \in SUBSET Item : IsFiniteSet(S)
  BY ConstantsAssumption, FS_Subset
<1>2. OfKind(live, k) \in SUBSET Item /\ \A i \in Item : qty[i] \in Nat
  BY DEF CountInv, TypeOK, OfKind
<1>3. \A r \in StoredOf(k) : r.qty \in Nat /\ r.item \in Item
  BY DEF CountInv, TypeOK, StoredOf
<1>4. \A r, c \in StoredOf(k) : r.item = c.item => r = c
  BY DEF CountInv, StoredOnce, StoredOf
<1>5. IsFiniteSet(StoredOf(k))
  <2> DEFINE R == StoredOf(k)
             f == [r \in R |-> r.item]
  <2>1. f \in Injection(R, Item)
    BY <1>3, <1>4 DEF Injection, IsInjective
  <2> HIDE DEF f
  <2> QED
    BY <2>1, ConstantsAssumption, FS_Injection
<1>6. Total(qty, OfKind(live, k)) \in Nat
  BY <1>1, <1>2, TotalType
<1>7. Recorded(StoredOf(k)) \in Nat
  BY <1>3, <1>5, RecordedTake
<1> QED
  BY <1>1, <1>2, <1>3, <1>5, <1>6, <1>7

\* Things have gone, or have fewer pieces.
LEMMA FewerPieces ==
  ASSUME CountInv, UNCHANGED stored, NEW k,
         OfKind(live', k) \subseteq OfKind(live, k),
         \A i \in OfKind(live', k) : qty'[i] \in Nat /\ qty'[i] <= qty[i]
  PROVE  ~(Pieces(k)' > Pieces(k))
<1> DEFINE S == OfKind(live', k)
           Z == [i \in S |-> 0]
<1>1. /\ IsFiniteSet(OfKind(live, k)) /\ OfKind(live, k) \subseteq Item
      /\ \A i \in Item : qty[i] \in Nat
      /\ Total(qty, OfKind(live, k)) \in Nat /\ Recorded(StoredOf(k)) \in Nat
  BY Countable
<1>2. IsFiniteSet(S)
  BY <1>1, FS_Subset
<1>3. \A i \in S : Z[i] = 0
  OBVIOUS
<1> HIDE DEF Z
<1>4. Total(Z, S) = 0
  BY <1>2, <1>3, TotalZero
<1>5. Total(qty', S) <= Total(qty, S) + Total(Z, S)
  <2>1. \A i \in S : qty'[i] \in Nat /\ qty[i] \in Nat /\ Z[i] \in Nat /\ qty'[i] <= qty[i] + Z[i]
    BY <1>1, <1>3
  <2> HIDE DEF S
  <2> QED
    BY <1>2, <2>1, TotalLess
<1>6. Total(qty', S) \in Nat /\ Total(qty, S) \in Nat
  <2>1. \A i \in S : qty'[i] \in Nat /\ qty[i] \in Nat
    BY <1>1
  <2> QED
    BY <1>2, <2>1, TotalType
<1>7. Total(qty, S) <= Total(qty, OfKind(live, k))
  BY <1>1, TotalWithin
<1>8. StoredOf(k)' = StoredOf(k)
  BY DEF StoredOf
<1> HIDE DEF S
<1>9. Total(qty', S) <= Total(qty, OfKind(live, k))
  BY <1>1, <1>4, <1>5, <1>6, <1>7
<1>10. Pieces(k) = Total(qty, OfKind(live, k)) + Recorded(StoredOf(k))
       /\ Pieces(k)' = Total(qty', S) + Recorded(StoredOf(k))
  BY <1>8, PiecesBoth DEF S
<1> QED
  BY <1>1, <1>6, <1>9, <1>10

LEMMA FewerMade ==
  ASSUME CountInv, UNCHANGED stored, live' \subseteq live,
         \A i \in live' : qty'[i] \in Nat /\ qty'[i] <= qty[i]
  PROVE  NoneMade
<1>1. \A k : ~(Pieces(k)' > Pieces(k))
  BY FewerPieces DEF OfKind
<1> QED
  BY <1>1 DEF NoneMade
-----------------------------------------------------------------------------
(* The steps, and what they do to the pieces *)

CountKept == CountInv' /\ NoneMade

LEMMA TypedNext ==
  ASSUME CountInv, Kept, dying' \subseteq live', qty' \in [Item -> Nat],
         stored' \in [Player -> SUBSET [item : Item \ Pack, qty : Nat]],
         menu' \in [Player -> Menu \cup {NoMenu}]
  PROVE  TypeOK'
<1>1. inv' \in Inv /\ live' \subseteq Item
  BY DEF Kept, IInv, Sound
<1>2. offer' \in [Player -> Offered \cup {NoOffer}]
  BY DEF Kept, IInv, OffersSound
<1>3. stranded' \subseteq Item
  <2>1. stranded \subseteq Item /\ live \subseteq Item
    BY DEF CountInv, TypeOK
  <2>2. \A i \in stranded' \ stranded : i \in live
    BY DEF Kept, NoneStranded, Transfer
  <2> QED
    BY <2>1, <2>2
<1> QED
  BY <1>1, <1>2, <1>3 DEF TypeOK

LEMMA QuietStep ==
  ASSUME CountInv, Kept, UNCHANGED <<live, qty, stored, menu>>, dying' \subseteq live
  PROVE  CountKept
<1>1. TypeOK'
  BY TypedNext DEF CountInv, TypeOK
<1>2. StoredOnce' /\ PilesSound'
  BY DEF CountInv, StoredOnce, PilesSound
<1>3. \A i \in live' : qty'[i] \in Nat /\ qty'[i] <= qty[i]
  BY DEF CountInv, TypeOK
<1>4. NoneMade
  BY <1>3, FewerMade
<1> QED
  BY <1>1, <1>2, <1>4 DEF CountKept, CountInv

LEMMA MenusTrimmed ==
  ASSUME CountInv, NEW gone, live' = live \ gone,
         \/ menu' = MenusWithout(gone)
         \/ \E p \in Player : menu' = [MenusWithout(gone) EXCEPT ![p] = NoMenu]
  PROVE  menu' \in [Player -> Menu \cup {NoMenu}] /\ PilesSound'
<1> DEFINE m == MenusWithout(gone)
<1>1. \A p \in Player : m[p] = NoMenu \/ m[p] = [item  |-> menu[p].item,
                                                group |-> menu[p].group \ gone,
                                                total |-> menu[p].total]
  BY DEF MenusWithout
<1>2. ASSUME NEW p \in Player, m[p] # NoMenu
      PROVE  /\ m[p] \in Menu /\ m[p].item \notin m[p].group /\ m[p].group \subseteq live \ gone
             /\ \A j \in m[p].group : Kind[j] = Kind[m[p].item]
  <2>1. m[p] = [item |-> menu[p].item, group |-> menu[p].group \ gone, total |-> menu[p].total]
    BY <1>1, <1>2
  <2>2. menu[p] # NoMenu
    BY <1>2, <2>1 DEF NoMenu
  <2> HIDE DEF m
  <2>3. menu[p] \in Menu
    BY <2>2 DEF CountInv, TypeOK
  <2>4. m[p] \in Menu
    BY <2>1, <2>3 DEF Menu
  <2> QED
    BY <2>1, <2>2, <2>4 DEF CountInv, PilesSound
<1>3. m = [p \in Player |-> m[p]]
  BY DEF MenusWithout
<1>4. menu' = [p \in Player |-> menu'[p]] /\ \A p \in Player : menu'[p] \in {NoMenu, m[p]}
  BY <1>3
<1> HIDE DEF m
<1> QED
  BY <1>2, <1>4 DEF PilesSound

LEMMA RemovalStep ==
  ASSUME CountInv, Kept, NEW gone, Forget(gone), UNCHANGED stored,
         \/ menu' = MenusWithout(gone)
         \/ \E p \in Player : menu' = [MenusWithout(gone) EXCEPT ![p] = NoMenu]
  PROVE  CountKept
<1>1. /\ live' = live \ gone /\ dying' = dying \ gone
      /\ qty' = [i \in Item |-> IF i \in gone THEN 1 ELSE qty[i]]
  BY DEF Forget
<1>2. /\ live \subseteq Item /\ dying \subseteq live /\ qty \in [Item -> Nat]
      /\ stored \in [Player -> SUBSET [item : Item \ Pack, qty : Nat]]
  BY DEF CountInv, TypeOK
<1>3. menu' \in [Player -> Menu \cup {NoMenu}] /\ PilesSound'
  BY <1>1, MenusTrimmed
<1>4. qty' \in [Item -> Nat]
  BY <1>1, <1>2
<1>5. TypeOK'
  BY <1>1, <1>2, <1>3, <1>4, TypedNext
<1>6. StoredOnce'
  BY DEF CountInv, StoredOnce
<1>7. \A i \in live' : qty'[i] \in Nat /\ qty'[i] <= qty[i]
  BY <1>1, <1>2
<1>8. NoneMade
  BY <1>1, <1>7, FewerMade
<1> QED
  BY <1>3, <1>5, <1>6, <1>8 DEF CountKept, CountInv

\* i becomes an object, of n pieces.
Added(i, n) ==
  /\ live' = live \cup {i} /\ qty' = [qty EXCEPT ![i] = n]
  /\ UNCHANGED <<dying, menu>>

LEMMA AddedTypes ==
  ASSUME CountInv, Kept, NEW i \in Item, NEW n \in Nat, Added(i, n), StoredOnce',
         stored' \in [Player -> SUBSET [item : Item \ Pack, qty : Nat]]
  PROVE  CountInv'
<1>1. /\ live \subseteq live' /\ dying' \subseteq live' /\ qty' \in [Item -> Nat]
      /\ menu' \in [Player -> Menu \cup {NoMenu}]
  BY DEF CountInv, TypeOK, Added
<1>2. TypeOK'
  BY <1>1, TypedNext
<1>3. PilesSound'
  BY <1>1 DEF CountInv, PilesSound, Added
<1> QED
  BY <1>2, <1>3 DEF CountInv

LEMMA AddedPieces ==
  ASSUME CountInv, NEW i \in Item \ live, NEW n \in Nat, Added(i, n), NEW k
  PROVE  Total(qty', OfKind(live', k)) =
           IF Kind[i] = k THEN n + Total(qty, OfKind(live, k)) ELSE Total(qty, OfKind(live, k))
<1> DEFINE S == OfKind(live, k)
<1>1. /\ IsFiniteSet(S) /\ S \subseteq Item /\ \A j \in Item : qty[j] \in Nat
  BY Countable
<1>2. i \notin S /\ OfKind(live', k) = IF Kind[i] = k THEN S \cup {i} ELSE S
  BY DEF OfKind, Added
<1>3. qty'[i] = n /\ \A j \in S : qty'[j] = qty[j]
  BY <1>1, <1>2 DEF CountInv, TypeOK, Added
<1> HIDE DEF S
<1>4. Total(qty', S) = Total(qty, S)
  BY <1>1, <1>3, TotalSame
<1>5. CASE Kind[i] = k
  <2>1. IsFiniteSet(S \cup {i}) /\ (S \cup {i}) \ {i} = S /\ i \in S \cup {i}
    BY <1>1, <1>2, FS_AddElement
  <2>2. \A j \in S \cup {i} : qty'[j] \in Nat
    BY <1>1, <1>3
  <2>3. Total(qty', S \cup {i}) = qty'[i] + Total(qty', (S \cup {i}) \ {i})
    BY <2>1, <2>2, TotalTake
  <2> QED
    BY <1>2, <1>3, <1>4, <1>5, <2>1, <2>3 DEF S
<1>6. CASE Kind[i] # k
  BY <1>2, <1>4, <1>6 DEF S
<1> QED
  BY <1>5, <1>6

LEMMA AddedStep ==
  ASSUME CountInv, Kept, NEW i \in Item \ live, NEW n \in Nat, Added(i, n), UNCHANGED stored,
         i \notin StoredThings \/ Free(inv, i)'
  PROVE  CountKept
<1>1. CountInv'
  BY AddedTypes DEF CountInv, TypeOK, StoredOnce
<1>2. ASSUME NEW k, Kind[i] # k PROVE Pieces(k)' = Pieces(k)
  <2>1. StoredOf(k)' = StoredOf(k)
    BY DEF StoredOf
  <2> QED
    BY <1>2, <2>1, AddedPieces, PiecesBoth
<1>3. ASSUME NEW k, Kind[i] = k PROVE Made(k)
  BY <1>3 DEF Made, Added
<1>4. ASSUME NEW k PROVE Pieces(k) \in Nat
  BY Countable, PiecesBoth
<1>5. NoneMade
  BY <1>2, <1>3, <1>4 DEF NoneMade
<1> QED
  BY <1>1, <1>5 DEF CountKept

\* What storage hands out goes, record and all, into the new object.
LEMMA StorageRemoveStep ==
  ASSUME CountInv, Kept, NEW p \in Player, NEW c \in stored[p], c.item \notin live,
         Added(c.item, c.qty), stored' = [stored EXCEPT ![p] = @ \ {c}]
  PROVE  CountKept
<1> DEFINE i == c.item
<1>1. /\ i \in Item \ live /\ c.qty \in Nat
      /\ stored' \in [Player -> SUBSET [item : Item \ Pack, qty : Nat]]
  BY DEF CountInv, TypeOK
<1>2. \A q \in Player : stored'[q] = IF q = p THEN stored[q] \ {c} ELSE stored[q]
  BY DEF CountInv, TypeOK
<1>3. StoredOnce'
  BY <1>2 DEF CountInv, StoredOnce
<1>4. CountInv'
  BY <1>1, <1>3, AddedTypes
<1>5. \A q \in Player : q # p => c \notin stored[q]
  BY DEF CountInv, StoredOnce
<1>6. ASSUME NEW k PROVE StoredOf(k)' = StoredOf(k) \ {c}
  BY <1>2, <1>5 DEF StoredOf
<1>7. ASSUME NEW k PROVE ~(Pieces(k)' > Pieces(k))
  <2> DEFINE R == StoredOf(k)
             a == Total(qty, OfKind(live, k))
  <2>1. /\ IsFiniteSet(R) /\ (\A r \in R : r.qty \in Nat)
        /\ a \in Nat /\ Recorded(R) \in Nat
    BY Countable
  <2>2. c \in R <=> Kind[i] = k
    BY DEF StoredOf
  <2>3. Pieces(k) = a + Recorded(R)
        /\ Pieces(k)' = Total(qty', OfKind(live', k)) + Recorded(R \ {c})
    BY <1>6, PiecesBoth
  <2>4. Total(qty', OfKind(live', k)) = IF Kind[i] = k THEN c.qty + a ELSE a
    BY <1>1, AddedPieces
  <2> HIDE DEF R, a
  <2>5. CASE Kind[i] = k
    <3>1. Recorded(R) = c.qty + Recorded(R \ {c})
      BY <2>1, <2>2, <2>5, RecordedTake
    <3>2. Recorded(R \ {c}) \in Nat
      BY <2>1, FS_RemoveElement, RecordedTake
    <3> QED
      BY <1>1, <2>1, <2>3, <2>4, <2>5, <3>1, <3>2
  <2>6. CASE Kind[i] # k
    <3>1. R \ {c} = R
      BY <2>2, <2>6
    <3>2. Pieces(k)' = Pieces(k)
      BY <2>3, <2>4, <2>6, <3>1
    <3>3. Pieces(k) \in Nat
      BY <2>1, <2>3
    <3> QED
      BY <3>2, <3>3
  <2> QED
    BY <2>5, <2>6
<1>8. NoneMade
  BY <1>7 DEF NoneMade
<1> QED
  BY <1>4, <1>8 DEF CountKept

\* What goes into storage leaves a record of its pieces.
LEMMA StorageAddStep ==
  ASSUME CountInv, Kept, NEW p \in Player, NEW i \in live, i \notin Pack, i \notin StoredThings,
         stored' = [stored EXCEPT ![p] = @ \cup {[item |-> i, qty |-> qty[i]]}], Remove({i})
  PROVE  CountKept
<1> DEFINE c == [item |-> i, qty |-> qty[i]]
<1>1. /\ live' = live \ {i} /\ dying' = dying \ {i}
      /\ qty' = [j \in Item |-> IF j \in {i} THEN 1 ELSE qty[j]]
      /\ menu' = MenusWithout({i})
  BY DEF Remove, Forget
<1>2. /\ i \in Item \ Pack /\ dying \subseteq live /\ qty \in [Item -> Nat]
      /\ live \subseteq Item
      /\ stored \in [Player -> SUBSET [item : Item \ Pack, qty : Nat]]
  BY DEF CountInv, TypeOK
<1>3. menu' \in [Player -> Menu \cup {NoMenu}] /\ PilesSound'
  BY <1>1, MenusTrimmed
<1>4. /\ c.item = i /\ c.qty = qty[i] /\ qty[i] \in Nat
      /\ c \in [item : Item \ Pack, qty : Nat]
  BY <1>2
<1> HIDE DEF c
<1>5. stored' = [stored EXCEPT ![p] = @ \cup {c}]
  BY DEF c
<1>6. stored' \in [Player -> SUBSET [item : Item \ Pack, qty : Nat]]
  BY <1>2, <1>4, <1>5
<1>7. qty' \in [Item -> Nat]
  BY <1>1, <1>2
<1>8. TypeOK'
  BY <1>1, <1>2, <1>3, <1>6, <1>7, TypedNext
<1>9. \A q \in Player : stored'[q] = IF q = p THEN stored[q] \cup {c} ELSE stored[q]
  BY <1>2, <1>5
<1>10. \A q \in Player : \A r \in stored[q] : r.item # i
  BY DEF StoredThings
<1>11. StoredOnce'
  BY <1>4, <1>9, <1>10 DEF CountInv, StoredOnce
<1>12. ASSUME NEW k PROVE StoredOf(k)' = IF Kind[i] = k THEN StoredOf(k) \cup {c} ELSE StoredOf(k)
  BY <1>4, <1>9 DEF StoredOf
<1>13. ASSUME NEW k PROVE ~(Pieces(k)' > Pieces(k))
  <2> DEFINE R == StoredOf(k)
             S == OfKind(live, k)
  <2>1. /\ IsFiniteSet(R) /\ (\A r \in R : r.qty \in Nat) /\ Recorded(R) \in Nat
        /\ IsFiniteSet(S) /\ S \subseteq Item /\ (\A j \in Item : qty[j] \in Nat)
        /\ Total(qty, S) \in Nat
    BY Countable
  <2>2. c \notin R
    BY <1>4, <1>10 DEF StoredOf
  <2>3. OfKind(live', k) = S \ {i} /\ (i \in S <=> Kind[i] = k)
    BY <1>1 DEF OfKind
  <2>4. Pieces(k) = Total(qty, S) + Recorded(R)
        /\ Pieces(k)' = Total(qty', S \ {i}) + Recorded(IF Kind[i] = k THEN R \cup {c} ELSE R)
    BY <1>12, <2>3, PiecesBoth
  <2> HIDE DEF R, S
  <2>5. Total(qty', S \ {i}) = Total(qty, S \ {i})
    <3>1. \A j \in S \ {i} : qty'[j] = qty[j]
      BY <1>1, <2>1
    <3> QED
      BY <2>1, <3>1, FS_RemoveElement, TotalSame
  <2>6. CASE Kind[i] = k
    <3>1. Total(qty, S) = qty[i] + Total(qty, S \ {i})
      BY <2>1, <2>3, <2>6, TotalTake
    <3>2. IsFiniteSet(R \cup {c}) /\ (\A r \in R \cup {c} : r.qty \in Nat)
          /\ c \in R \cup {c} /\ (R \cup {c}) \ {c} = R
      BY <1>4, <2>1, <2>2, FS_AddElement
    <3>3. Recorded(R \cup {c}) = c.qty + Recorded((R \cup {c}) \ {c})
      BY <3>2, RecordedTake
    <3>4. Total(qty, S \ {i}) \in Nat
      BY <2>1, FS_RemoveElement, TotalType
    <3>5. Pieces(k)' = Total(qty, S \ {i}) + Recorded(R \cup {c})
      BY <2>4, <2>5, <2>6
    <3>6. Recorded(R \cup {c}) = qty[i] + Recorded(R)
      BY <1>4, <3>2, <3>3
    <3>7. Pieces(k)' = Total(qty, S \ {i}) + (qty[i] + Recorded(R))
      BY <3>5, <3>6
    <3>8. Pieces(k) = (qty[i] + Total(qty, S \ {i})) + Recorded(R)
      BY <2>4, <3>1
    <3> QED
      BY <1>4, <2>1, <3>4, <3>7, <3>8
  <2>7. CASE Kind[i] # k
    <3>1. S \ {i} = S
      BY <2>3, <2>7
    <3>2. Pieces(k)' = Pieces(k)
      BY <2>4, <2>5, <2>7, <3>1
    <3>3. Pieces(k) \in Nat
      BY <2>1, <2>4
    <3> QED
      BY <3>2, <3>3
  <2> QED
    BY <2>6, <2>7
<1>14. NoneMade
  BY <1>13 DEF NoneMade
<1> QED
  BY <1>3, <1>8, <1>11, <1>14 DEF CountKept, CountInv

\* A pile that is chosen while it is what the menu counted becomes one.
LEMMA ChooseStep ==
  ASSUME CountInv, Kept, NEW p \in Player, menu[p] # NoMenu, menu[p].item \in live, NEW ok,
         LET grouped == Grouped(p, ok)
         IN /\ live' = live \ grouped
            /\ dying' = dying \ (IF ok THEN grouped \cup {menu[p].item} ELSE {})
            /\ menu' = [MenusWithout(grouped) EXCEPT ![p] = NoMenu]
            /\ qty' = [i \in Item |-> IF i \in grouped THEN 1
                                      ELSE IF ok /\ i = menu[p].item THEN menu[p].total
                                      ELSE qty[i]],
         UNCHANGED stored
  PROVE  CountKept
<1> DEFINE grouped == Grouped(p, ok)
           i == menu[p].item
           group == menu[p].group
           total == menu[p].total
<1>1. /\ live' = live \ grouped
      /\ dying' = dying \ (IF ok THEN grouped \cup {i} ELSE {})
      /\ menu' = [MenusWithout(grouped) EXCEPT ![p] = NoMenu]
      /\ qty' = [j \in Item |-> IF j \in grouped THEN 1 ELSE IF ok /\ j = i THEN total ELSE qty[j]]
  OBVIOUS
<1>2. /\ dying \subseteq live /\ live \subseteq Item /\ qty \in [Item -> Nat]
      /\ stored \in [Player -> SUBSET [item : Item \ Pack, qty : Nat]]
  BY DEF CountInv, TypeOK
<1>3. /\ i \in Item /\ total \in Nat /\ i \notin group /\ group \subseteq live
      /\ \A j \in group : Kind[j] = Kind[i]
  BY DEF CountInv, TypeOK, PilesSound, Menu
<1>4. grouped \in {group, {}} /\ (ok => grouped = group) /\ (~ok => grouped = {})
  BY DEF Grouped
<1>5. menu' \in [Player -> Menu \cup {NoMenu}] /\ PilesSound'
  BY <1>1, MenusTrimmed
<1>6. menu'[p] = NoMenu
  BY <1>1 DEF MenusWithout
<1> HIDE DEF grouped, i, group, total
<1>7. dying' \subseteq live' /\ qty' \in [Item -> Nat]
  BY <1>1, <1>2, <1>3, <1>4
<1>8. TypeOK'
  BY <1>2, <1>5, <1>7, TypedNext
<1>9. StoredOnce'
  BY DEF CountInv, StoredOnce
<1>10. NoneMade
  <2>1. CASE ~ok
    <3>1. live' \subseteq live /\ \A j \in live' : qty'[j] \in Nat /\ qty'[j] <= qty[j]
      BY <1>1, <1>2, <1>4, <2>1
    <3> QED
      BY <3>1, FewerMade
  <2>2. CASE StaleMenu(p)
    BY <1>6, <2>2 DEF NoneMade
  <2>3. CASE ok /\ ~StaleMenu(p)
    <3>1. total = Total(qty, {i} \cup group)
      BY <2>3 DEF StaleMenu, Quantity, Total, total, i, group
    <3>2. i \in live
      BY DEF i
    <3>3. ASSUME NEW k PROVE ~(Pieces(k)' > Pieces(k))
      <4> DEFINE S == OfKind(live, k)
                 P == {i} \cup group
      <4>1. /\ IsFiniteSet(S) /\ S \subseteq Item /\ (\A j \in Item : qty[j] \in Nat)
            /\ Total(qty, S) \in Nat /\ Recorded(StoredOf(k)) \in Nat
        BY Countable
      <4>2. OfKind(live', k) = S \ group
        BY <1>1, <1>4, <2>3 DEF OfKind
      <4>3. CASE Kind[i] # k
        <5>1. \A j \in OfKind(live', k) : j \in S /\ qty'[j] = qty[j]
          BY <1>1, <1>2, <1>3, <1>4, <2>3, <4>1, <4>2, <4>3 DEF OfKind
        <5>2. \A j \in OfKind(live', k) : qty'[j] \in Nat /\ qty'[j] <= qty[j]
          BY <4>1, <5>1
        <5> QED
          BY <5>1, <5>2, FewerPieces
      <4>4. CASE Kind[i] = k
        <5>1. P \subseteq S /\ i \in S \ group /\ (S \ group) \ {i} = S \ P
          BY <1>3, <3>2, <4>4 DEF OfKind
        <5>2. qty'[i] = total /\ \A j \in S \ group : qty'[j] = IF j = i THEN total ELSE qty[j]
          BY <1>1, <1>3, <1>4, <2>3, <4>1
        <5> HIDE DEF P, S
        <5>3. IsFiniteSet(S \ group) /\ IsFiniteSet(S \ P)
          BY <4>1, FS_Subset
        <5>4. Total(qty', S \ group) = total + Total(qty', S \ P)
          <6>1. \A j \in S \ group : qty'[j] \in Nat
            BY <1>3, <4>1, <5>2
          <6>2. Total(qty', S \ group) = qty'[i] + Total(qty', (S \ group) \ {i})
            BY <5>1, <5>3, <6>1, TotalTake
          <6> QED
            BY <5>1, <5>2, <6>2
        <5>5. Total(qty', S \ P) = Total(qty, S \ P)
          <6>1. \A j \in S \ P : qty'[j] = qty[j]
            BY <5>2 DEF P
          <6> QED
            BY <5>3, <6>1, TotalSame
        <5>6. Total(qty, S) = Total(qty, P) + Total(qty, S \ P)
          BY <4>1, <5>1, TotalWithin
        <5>7. Total(qty', OfKind(live', k)) = Total(qty, S)
          BY <3>1, <4>2, <5>4, <5>5, <5>6 DEF P
        <5>8. StoredOf(k)' = StoredOf(k)
          BY DEF StoredOf
        <5>9. Pieces(k)' = Pieces(k) /\ Pieces(k) \in Nat
          BY <4>1, <5>7, <5>8, PiecesBoth DEF S
        <5> QED
          BY <5>9
      <4> QED
        BY <4>3, <4>4
    <3> QED
      BY <3>3 DEF NoneMade
  <2> QED
    BY <2>1, <2>2, <2>3
<1> QED
  BY <1>5, <1>8, <1>9, <1>10 DEF CountKept, CountInv

\* The piles of a pack that are absorbed end up in others of their kind.
LEMMA StackStep ==
  ASSUME IInv, CountInv, Kept, NEW p \in Player, NEW absorbed \in SUBSET Groupable,
         NEW into \in [absorbed -> Groupable], OpenPacks(p, into)
  PROVE  CountKept
<1> DEFINE To(i) == {j \in absorbed : into[j] = i}
<1>1. /\ DOMAIN into = absorbed
      /\ UNCHANGED <<live, stored, menu>> /\ dying' = dying \cup absorbed
      /\ qty' = [i \in Item |->
                  LET merged == Quantity({i} \cup To(i))
                  IN IF i \in absorbed THEN 0
                     ELSE IF \E j \in absorbed : into[j] = i
                       THEN IF merged > StackCap THEN StackCap ELSE merged
                     ELSE qty[i]]
  BY DEF OpenPacks
<1>2. ASSUME NEW i \in absorbed
      PROVE  i \in live /\ into[i] \in live \ absorbed /\ Kind[into[i]] = Kind[i]
  <2>1. inv.parent[i] \in Packs(inv, p) /\ into[i] \in inv.list[inv.parent[i]] \ absorbed
        /\ Kind[into[i]] = Kind[i]
    BY <1>1 DEF OpenPacks
  <2>2. i \in Item /\ into[i] \in Item /\ inv.parent[i] \in Pack
    BY <2>1, ConstantsAssumption DEF Packs
  <2>3. inv.parent[into[i]] = inv.parent[i]
    BY <2>1, <2>2 DEF IInv, Sound, Agree
  <2> QED
    BY <2>1, <2>2, <2>3, ConstantsAssumption DEF IInv, Sound, Within, Free
<1>3. /\ \A S \in SUBSET Item : IsFiniteSet(S)
      /\ \A i \in Item : qty[i] \in Nat
      /\ dying \subseteq live /\ live \subseteq Item /\ absorbed \subseteq Item
      /\ stored \in [Player -> SUBSET [item : Item \ Pack, qty : Nat]]
      /\ menu \in [Player -> Menu \cup {NoMenu}]
  BY ConstantsAssumption, FS_Subset DEF CountInv, TypeOK
<1>4. ASSUME NEW i \in Item
      PROVE  /\ qty'[i] \in Nat /\ Total(qty, To(i)) \in Nat
             /\ i \in absorbed => qty'[i] = 0
             /\ i \notin absorbed => qty'[i] <= qty[i] + Total(qty, To(i))
  <2> DEFINE P == {i} \cup To(i)
  <2>1. To(i) \subseteq Item /\ P \subseteq Item /\ IsFiniteSet(To(i)) /\ IsFiniteSet(P)
    BY <1>3
  <2>2. Total(qty, To(i)) \in Nat /\ Total(qty, P) \in Nat
    <3> HIDE DEF P, To
    <3> QED
      BY <1>3, <2>1, TotalType
  <2>3. ASSUME i \notin absorbed PROVE Total(qty, P) = qty[i] + Total(qty, To(i))
    <3>1. i \in P /\ P \ {i} = To(i)
      BY <2>3
    <3> HIDE DEF P, To
    <3> QED
      BY <1>3, <2>1, <3>1, TotalTake
  <2>4. Quantity(P) = Total(qty, P)
    BY DEF Quantity, Total
  <2>5. qty'[i] = IF i \in absorbed THEN 0
                  ELSE IF \E j \in absorbed : into[j] = i
                    THEN IF Total(qty, P) > StackCap THEN StackCap ELSE Total(qty, P)
                  ELSE qty[i]
    BY <1>1, <2>4
  <2> HIDE DEF P, To
  <2> QED
    BY <1>3, <2>2, <2>3, <2>5, ConstantsAssumption
<1>5. dying' \subseteq live' /\ qty' \in [Item -> Nat]
  BY <1>1, <1>2, <1>3, <1>4
<1>6. TypeOK'
  BY <1>1, <1>3, <1>5, TypedNext
<1>7. StoredOnce' /\ PilesSound'
  BY <1>1 DEF CountInv, StoredOnce, PilesSound
<1>8. ASSUME NEW k PROVE ~(Pieces(k)' > Pieces(k))
  <2> DEFINE S == OfKind(live, k)
             A == S \cap absorbed
             B == S \ A
             G == [y \in B |-> Total(qty, {j \in A : into[j] = y})]
  <2>1. /\ IsFiniteSet(S) /\ S \subseteq Item
        /\ Total(qty, S) \in Nat /\ Recorded(StoredOf(k)) \in Nat
    BY Countable
  <2>2. IsFiniteSet(A) /\ IsFiniteSet(B) /\ A \subseteq Item /\ B \subseteq Item
    BY <1>3, <2>1
  <2>3. \A j \in A : into[j] \in B
    BY <1>2 DEF OfKind
  <2>4. \A y \in B : {j \in A : into[j] = y} = To(y)
    BY <1>2 DEF OfKind
  <2>5. \A y \in B : G[y] = Total(qty, To(y))
    BY <2>4
  <2>6. \A y \in B : y \notin absorbed
    OBVIOUS
  <2>7. Total(G, B) = Total(qty, A)
    <3> HIDE DEF A, B
    <3>1. \A j \in A : qty[j] \in Nat
      BY <1>3, <2>2
    <3> QED
      BY <2>2, <2>3, <3>1, TotalByTarget
  <2>8. \A j \in A : j \in absorbed
    OBVIOUS
  <2>9. A \in SUBSET S
    OBVIOUS
  <2>10. B = S \ A
    OBVIOUS
  <2> HIDE DEF S, A, B, G, To
  <2>11. Total(qty', B) <= Total(qty, B) + Total(G, B)
    <3>1. \A y \in B : qty'[y] \in Nat /\ qty[y] \in Nat /\ G[y] \in Nat /\ qty'[y] <= qty[y] + G[y]
      BY <1>3, <1>4, <2>2, <2>5, <2>6
    <3> QED
      BY <2>2, <3>1, TotalLess
  <2>12. Total(qty', A) = 0
    <3>1. \A j \in A : qty'[j] = 0
      BY <1>4, <2>2, <2>8
    <3> QED
      BY <2>2, <3>1, TotalZero
  <2>13. Total(qty, S) = Total(qty, A) + Total(qty, B)
    <3>1. \A j \in S : qty[j] \in Nat
      BY <1>3, <2>1
    <3> QED
      BY <2>1, <2>9, <2>10, <3>1, TotalWithin
  <2>14. Total(qty', S) = Total(qty', A) + Total(qty', B)
    <3>1. \A j \in S : qty'[j] \in Nat
      BY <1>4, <2>1
    <3> QED
      BY <2>1, <2>9, <2>10, <3>1, TotalWithin
  <2>15. Total(qty', B) \in Nat /\ Total(qty, B) \in Nat /\ Total(qty, A) \in Nat
    <3>1. \A j \in A \cup B : qty[j] \in Nat /\ qty'[j] \in Nat
      BY <1>3, <1>4, <2>2
    <3> QED
      BY <2>2, <3>1, TotalType
  <2>16. Total(qty', S) \in Nat /\ Total(qty', S) <= Total(qty, S)
    BY <2>7, <2>11, <2>12, <2>13, <2>14, <2>15
  <2>17. StoredOf(k)' = StoredOf(k) /\ OfKind(live', k) = S
    BY <1>1 DEF StoredOf, S
  <2>18. Pieces(k)' = Total(qty', S) + Recorded(StoredOf(k))
         /\ Pieces(k) = Total(qty, S) + Recorded(StoredOf(k))
    BY <2>17, PiecesBoth DEF S
  <2> QED
    BY <2>1, <2>16, <2>18
<1>9. NoneMade
  BY <1>8 DEF NoneMade
<1> QED
  BY <1>6, <1>7, <1>9 DEF CountKept, CountInv

\* A menu counts the pile it offers.
LEMMA ShowStep ==
  ASSUME CountInv, Kept, NEW p \in Player, NEW i \in Groupable, NEW group \in SUBSET Groupable,
         ShowMenu(p, i, group)
  PROVE  CountKept
<1> DEFINE total == Quantity({i} \cup group)
<1>1. /\ UNCHANGED <<live, dying, qty, stored>>
      /\ menu' = [menu EXCEPT ![p] = [item |-> i, group |-> group, total |-> total]]
      /\ i \notin group /\ \A j \in {i} \cup group : j \in live /\ Kind[j] = Kind[i]
  BY DEF ShowMenu
<1>2. i \in Item /\ group \in SUBSET Item /\ {i} \cup group \in SUBSET Item
  BY ConstantsAssumption
<1>3. /\ dying \subseteq live /\ qty \in [Item -> Nat]
      /\ stored \in [Player -> SUBSET [item : Item \ Pack, qty : Nat]]
      /\ menu \in [Player -> Menu \cup {NoMenu}]
  BY DEF CountInv, TypeOK
<1>4. total \in Nat
  <2>1. IsFiniteSet({i} \cup group) /\ \A j \in {i} \cup group : qty[j] \in Nat
    BY <1>2, <1>3, ConstantsAssumption, FS_Subset
  <2>2. total = Total(qty, {i} \cup group)
    BY DEF Quantity, Total
  <2> QED
    BY <2>1, <2>2, TotalType
<1> HIDE DEF total
<1>5. menu' \in [Player -> Menu \cup {NoMenu}]
  BY <1>1, <1>2, <1>3, <1>4 DEF Menu
<1>6. TypeOK'
  BY <1>1, <1>3, <1>5, TypedNext
<1>7. StoredOnce'
  BY <1>1 DEF CountInv, StoredOnce
<1>8. PilesSound'
  BY <1>1, <1>3 DEF CountInv, PilesSound
<1>9. NoneMade
  BY <1>1, <1>3, FewerMade DEF CountInv, TypeOK
<1> QED
  BY <1>6, <1>7, <1>8, <1>9 DEF CountKept, CountInv

LEMMA CloseStep ==
  ASSUME CountInv, Kept, NEW p \in Player, CloseMenu(p)
  PROVE  CountKept
<1>1. UNCHANGED <<live, dying, qty, stored>> /\ menu' = [menu EXCEPT ![p] = NoMenu]
  BY DEF CloseMenu
<1>2. /\ dying \subseteq live /\ qty \in [Item -> Nat]
      /\ stored \in [Player -> SUBSET [item : Item \ Pack, qty : Nat]]
      /\ menu \in [Player -> Menu \cup {NoMenu}]
  BY DEF CountInv, TypeOK
<1>3. TypeOK'
  BY <1>1, <1>2, TypedNext
<1>4. StoredOnce' /\ PilesSound'
  BY <1>1, <1>2 DEF CountInv, StoredOnce, PilesSound
<1>5. NoneMade
  BY <1>1, <1>2, FewerMade DEF CountInv, TypeOK
<1> QED
  BY <1>3, <1>4, <1>5 DEF CountKept, CountInv
-----------------------------------------------------------------------------
LEMMA WorldCounts ==
  ASSUME IInv, CountInv, Kept, NEW i \in Item, Spawn(i) \/ Expire(i) \/ Think(i)
  PROVE  CountKept
<1>1. CASE Spawn(i)
  <2>1. i \in Item \ live /\ i \notin StoredThings /\ Added(i, 1) /\ UNCHANGED stored
    BY <1>1 DEF Spawn, New, Added
  <2> QED
    BY <2>1, AddedStep
<1>2. CASE Expire(i)
  <2>1. UNCHANGED <<live, qty, stored, menu>> /\ dying' \subseteq live
    BY <1>2 DEF Expire, CountInv, TypeOK
  <2> QED
    BY <2>1, QuietStep
<1>3. CASE Think(i)
  BY <1>3, RemovalStep DEF Think, Remove
<1> QED
  BY <1>1, <1>2, <1>3

LEMMA PickUpCounts ==
  ASSUME IInv, CountInv, Kept, NEW p \in Player, PickUp(p)
  PROVE  CountKept
<1>1. ASSUME NEW i \in Item, GetAnyItems(p, i)
      PROVE  CountKept
  <2>1. UNCHANGED <<live, qty, stored, menu>> /\ dying' \subseteq live
    BY <1>1 DEF GetAnyItems, CountInv, TypeOK
  <2> QED
    BY <2>1, QuietStep
<1>2. ASSUME NEW i \in Groupable, NEW group \in SUBSET Groupable, ShowMenu(p, i, group)
      PROVE  CountKept
  BY <1>2, ShowStep
<1>3. ASSUME ChooseItem(p)
      PROVE  CountKept
  <2>1. menu[p] # NoMenu /\ menu[p].item \in live /\ UNCHANGED stored
    BY <1>3 DEF ChooseItem, IInv, MenusSound
  <2>2. PICK r \in GiveTo(inv, p, menu[p].item, FALSE) :
          LET grouped == Grouped(p, r.ok)
          IN /\ live' = live \ grouped
             /\ dying' = dying \ (IF r.ok THEN grouped \cup {menu[p].item} ELSE {})
             /\ menu' = [MenusWithout(grouped) EXCEPT ![p] = NoMenu]
             /\ qty' = [i \in Item |-> IF i \in grouped THEN 1
                                       ELSE IF r.ok /\ i = menu[p].item THEN menu[p].total
                                       ELSE qty[i]]
    BY <1>3 DEF ChooseItem
  <2> QED
    BY <2>1, <2>2, ChooseStep
<1>4. ASSUME CloseMenu(p)
      PROVE  CountKept
  BY <1>4, CloseStep
<1> QED
  BY <1>1, <1>2, <1>3, <1>4 DEF PickUp

LEMMA CarryCounts ==
  ASSUME IInv, CountInv, Kept, NEW p \in Player, Carry(p)
  PROVE  CountKept
<1>1. ASSUME UNCHANGED <<live, dying, qty, stored, menu>>
      PROVE  CountKept
  BY <1>1, QuietStep DEF CountInv, TypeOK
<1>2. ASSUME NEW i \in Item, NEW away \in BOOLEAN, TakeInHand(p, i, away)
      PROVE  CountKept
  BY <1>1, <1>2 DEF TakeInHand
<1>3. ASSUME NEW i \in Item, NEW k \in Pack, Transfer(p, i, k)
      PROVE  CountKept
  BY <1>1, <1>3 DEF Transfer
<1>4. ASSUME NEW i \in Item, Use(p, i) \/ Drop(p, i)
      PROVE  CountKept
  BY <1>1, <1>4 DEF Use, Drop
<1>5. ASSUME NEW absorbed \in SUBSET Groupable, NEW into \in [absorbed -> Groupable],
             OpenPacks(p, into)
      PROVE  CountKept
  BY <1>5, StackStep
<1>6. ASSUME RemoveAllItems(p)
      PROVE  CountKept
  BY <1>6, RemovalStep DEF RemoveAllItems
<1>7. \/ \E i \in Item, away \in BOOLEAN : TakeInHand(p, i, away)
      \/ \E i \in Item, k \in Pack : Transfer(p, i, k)
      \/ \E i \in Item : Use(p, i) \/ Drop(p, i)
      \/ \E absorbed \in SUBSET Groupable : \E into \in [absorbed -> Groupable] :
           OpenPacks(p, into)
      \/ RemoveAllItems(p)
  BY DEF Carry
<1> QED
  BY <1>2, <1>3, <1>4, <1>5, <1>6, <1>7

LEMMA DealCounts ==
  ASSUME IInv, CountInv, Kept, NEW p \in Player, Deal(p)
  PROVE  CountKept
<1>1. ASSUME NEW i \in Item, StorageAdd(p, i)
      PROVE  CountKept
  BY <1>1, StorageAddStep DEF StorageAdd
<1>2. ASSUME NEW i \in Item, Buy(p, i)
      PROVE  CountKept
  <2>1. i \in Item \ live /\ i \notin StoredThings /\ Added(i, 1) /\ UNCHANGED stored
    BY <1>2 DEF Buy, New, Added
  <2> QED
    BY <2>1, AddedStep
<1>3. ASSUME NEW i \in Item, Sell(p, i)
      PROVE  CountKept
  BY <1>3, RemovalStep DEF Sell, Remove
<1>4. ASSUME NEW c \in stored[p], StorageRemove(p, c)
      PROVE  CountKept
  BY <1>4, StorageRemoveStep DEF StorageRemove, Added
<1>5. ASSUME NEW c \in stored[p], StorageRefuses(p, c)
      PROVE  CountKept
  <2>1. c.item \in Item \ live /\ c.qty \in Nat
    BY <1>5 DEF StorageRefuses, CountInv, TypeOK
  <2>2. Added(c.item, c.qty) /\ UNCHANGED <<inv, stored>>
    BY <1>5 DEF StorageRefuses, Added
  <2>3. Free(inv, c.item)'
    BY <2>1, <2>2 DEF IInv, Sound, Within, Free
  <2> QED
    BY <2>1, <2>2, <2>3, AddedStep
<1>6. ASSUME NEW q \in Player, NEW i \in Item, OfferItem(p, q, i)
      PROVE  CountKept
  BY <1>6, QuietStep DEF OfferItem, CountInv, TypeOK
<1>7. ASSUME AcceptOffer(p)
      PROVE  CountKept
  BY <1>7, QuietStep DEF AcceptOffer, CountInv, TypeOK
<1> QED
  BY <1>1, <1>2, <1>3, <1>4, <1>5, <1>6, <1>7 DEF Deal

LEMMA NextCounts == IInv /\ CountInv /\ Next => CountKept
  BY NextKeeps, WorldCounts, PickUpCounts, CarryCounts, DealCounts DEF Next, World

LEMMA CountInvariant == Spec => []CountInv
<1>1. IInv /\ CountInv /\ UNCHANGED vars => CountInv'
  BY DEF vars, CountInv, TypeOK, StoredOnce, PilesSound
<1>2. IInv /\ CountInv /\ [Next]_vars => CountInv'
  BY <1>1, NextCounts DEF CountKept
<1> QED
  BY <1>2, CountStart, Invariant, PTL DEF Spec

\* Every variable keeps its type: in particular no pile that is stacked,
\* chosen from a menu, stored or handed out has anything but a number of
\* pieces, and no pack is ever in storage.
THEOREM TypeCorrect == Spec => []TypeOK
<1>1. CountInv => TypeOK
  BY DEF CountInv
<1> QED
  BY <1>1, CountInvariant, PTL

\* However many items, packs, players and piles there are, the pieces of a
\* kind become more only when a new object is made, when storage keeps the
\* copy of what it lets fall, or by the choice from a menu that has gone
\* stale; a pile taken at what the menu counted, stacking and the ways into
\* and out of storage make none.
THEOREM NothingIsMultiplied == Spec => NothingMultiplies
<1> DEFINE Step == \A k \in {Kind[i] : i \in Item} : Pieces(k)' > Pieces(k) =>
       Made(k) \/ \E p \in Player : menu[p] # NoMenu /\ menu'[p] = NoMenu /\ StaleMenu(p)
<1>1. IInv /\ CountInv /\ [Next]_vars => [Step]_vars
  BY NextCounts DEF CountKept, NoneMade
<1> QED
  BY <1>1, CountInvariant, Invariant, PTL DEF Spec, NothingMultiplies
=============================================================================
