----------------------------- MODULE Inventory -----------------------------
(***************************************************************************)
(* What players carry: the items in their hands, worn on the body and in   *)
(* packs, and how items move (CGenericItem::GiveTo, PutInPack, WearItem,   *)
(* Drop, CBasePlayer::NewItemHand and the commands that call them).        *)
(*                                                                         *)
(* Where an item is, is kept twice: its owner's Gear or its pack's item    *)
(* list names it, and its own m_pOwner, m_pParentContainer and m_Location  *)
(* point back.  A transfer first looks for a hand, possibly by putting     *)
(* other things away, then takes the item from where it is, and then looks *)
(* for a hand again.                                                       *)
(*                                                                         *)
(* There is one object at a time for each thing; its number of pieces      *)
(* (iQuantity) is followed, weight and fees are left to chance.            *)
(***************************************************************************)
EXTENDS Naturals, FiniteSets, FiniteSetsExt

CONSTANTS
  Player, Nobody,
  Item, Pack, NoPack,
  Pref,         \* the hand an item asks for: m_PrefHand of each item
  WornOn,       \* the place on the body a wearable takes; "" if it is none
  Kind,         \* the script name: what stacks with what
  Groupable,    \* items with ITEM_GROUPABLE
  Accepts,      \* what the item types of each pack let in
  PackLimit,    \* PackData->MaxItems of each pack, 0 for none
  MaxItems,     \* NUM_MAX_ITEMS
  MaxGroupable, \* the largest pile a menu collects
  StackCap,     \* the largest pile stacking makes
  MaxPending    \* bound: menus, offers and stored things waiting at once

LEFT == "left"
RIGHT == "right"
Hands == {LEFT, RIGHT}
BODY == "body"
NOWHERE == "nowhere"
Other(h) == IF h = LEFT THEN RIGHT ELSE LEFT

\* Players are right-handed: "unsettable for now".
m_PrefHand == RIGHT

\* What walks packs (NumItems, FindItem, the saved items) looks one level
\* deep: no pack is meant to go into a pack.
ASSUME ConstantsAssumption ==
  /\ Nobody \notin Player
  /\ IsFiniteSet(Item)
  /\ Pack \subseteq Item /\ NoPack \notin Pack
  /\ Pref \in [Item -> Hands \cup {"any", "both"}]
  /\ WornOn \in [Item -> STRING]
  /\ Groupable \subseteq Item \ Pack
  /\ Accepts \in [Pack -> SUBSET (Item \ Pack)]
  /\ PackLimit \in [Pack -> Nat]
  /\ MaxItems \in Nat
  /\ MaxGroupable \in Nat /\ StackCap \in Nat
  /\ MaxPending \in Nat

VARIABLES
  inv,      \* the lists and pointers: see Inv
  live,     \* the items there is an object of
  dying,    \* those DelayedRemove has marked
  qty,      \* iQuantity
  stored,   \* what each player has in storage: copies of items
  menu,     \* the pick-up menu each player has open
  offer,    \* m_OfferInfo of each player
  stranded  \* history: items a transfer took and could put nowhere

vars == <<inv, live, dying, qty, stored, menu, offer, stranded>>

Inv == [gear   : [Player -> SUBSET Item],          \* Gear
        list   : [Pack -> SUBSET Item],            \* PackData->ItemList
        owner  : [Item -> Player \cup {Nobody}],   \* m_pOwner
        parent : [Item -> Pack \cup {NoPack}],     \* m_pParentContainer
        at     : [Item -> Hands \cup {BODY, NOWHERE}]] \* m_Location, m_Hand

Menu == [item : Item, group : SUBSET Item, total : Nat]
NoMenu == [item |-> Nobody, group |-> {}, total |-> 0]
Offered == [src : Player, item : Item]
NoOffer == [src |-> Nobody, item |-> Nobody]

TypeOK ==
  /\ inv \in Inv
  /\ live \subseteq Item /\ dying \subseteq live
  /\ qty \in [Item -> Nat]
  /\ stored \in [Player -> SUBSET [item : Item \ Pack, qty : Nat]]
  /\ menu \in [Player -> Menu \cup {NoMenu}]
  /\ offer \in [Player -> Offered \cup {NoOffer}]
  /\ stranded \subseteq Item

Init ==
  /\ inv = [gear   |-> [p \in Player |-> {}],
            list   |-> [k \in Pack |-> {}],
            owner  |-> [i \in Item |-> Nobody],
            parent |-> [i \in Item |-> NoPack],
            at     |-> [i \in Item |-> NOWHERE]]
  /\ live = {} /\ dying = {}
  /\ qty = [i \in Item |-> 1]
  /\ stored = [p \in Player |-> {}]
  /\ menu = [p \in Player |-> NoMenu]
  /\ offer = [p \in Player |-> NoOffer]
  /\ stranded = {}
-----------------------------------------------------------------------------
(* Looking at an inventory s *)

InHand(s, p, h) == {i \in s.gear[p] : s.at[i] = h}
Holds(s, p, i) == i \in s.gear[p] /\ s.at[i] \in Hands

\* CGenericItem::Owner: the owner of the pack an item is in.
OwnerOf(s, i) ==
  IF s.parent[i] # NoPack THEN s.owner[s.parent[i]] ELSE s.owner[i]

Free(s, i) == s.owner[i] = Nobody /\ s.parent[i] = NoPack
Packs(s, p) == s.gear[p] \cap Pack

\* The items NumItems counts; the player's bare hands are left out.
Carried(s, p) == s.gear[p] \cup UNION {s.list[k] : k \in Packs(s, p)}
CanHold(s, p) == Cardinality(Carried(s, p)) < MaxItems

\* Mutant: what is in the other hand may need both.
NewItemHand_Bug(s, p, i) ==
  IF InHand(s, p, RIGHT) = {} THEN RIGHT
  ELSE IF InHand(s, p, LEFT) = {} /\ Pref[i] # "both" THEN LEFT ELSE NOWHERE

\* NewItemHand without weight and without putting things away: the hand an
\* item not in the hands can go to, or NOWHERE.
NewItemHand(s, p, i) ==
  LET free(h) == InHand(s, p, h) = {}
      first == IF Pref[i] \in Hands THEN Pref[i] ELSE LEFT
  IN IF \E j \in s.gear[p] : Holds(s, p, j) /\ Pref[j] = "both"
       THEN NOWHERE
     ELSE IF Pref[i] = "both"
       THEN IF free(LEFT) /\ free(RIGHT) THEN m_PrefHand ELSE NOWHERE
     ELSE IF free(first) THEN first
     ELSE IF free(Other(first)) THEN Other(first)
     ELSE NOWHERE

\* Container_CanAcceptItem: a full pack takes a groupable item that would
\* stack, whatever its types say; any other pack looks at the types only.
CanAccept(s, k, i) ==
  /\ i # k
  /\ IF PackLimit[k] # 0 /\ Cardinality(s.list[k]) + 1 > PackLimit[k]
       THEN i \in Groupable /\ \E j \in s.list[k] \cap Groupable : Kind[j] = Kind[i]
       ELSE i \in Accepts[k] /\ i \notin s.list[k]

CanWear(s, p, i) ==
  /\ WornOn[i] # ""
  /\ \A j \in s.gear[p] \ {i} : s.at[j] = BODY => WornOn[j] # WornOn[i]
-----------------------------------------------------------------------------
(* Moving things: each operator gives the outcomes it can have.  ok is what *)
(* the code returns; lost are items it took away and put nowhere.           *)

Outcome == [inv : Inv, ok : BOOLEAN, lost : SUBSET Item]
Done(s) == [inv |-> s, ok |-> TRUE, lost |-> {}]
Failed(s) == [inv |-> s, ok |-> FALSE, lost |-> {}]
Lost(s, i) == [inv |-> s, ok |-> FALSE, lost |-> {i}]

\* What is left of the outcome r once the outcome x has followed it.
Then(r, x) == [x EXCEPT !.lost = @ \cup r.lost]

\* Mutant: the item stays in the list of the pack it is taken from.
RemoveFromOwner_Bug(s, i) ==
  [s EXCEPT !.gear = [p \in Player |-> s.gear[p] \ {i}],
            !.owner[i] = Nobody, !.parent[i] = NoPack, !.at[i] = NOWHERE]

RemoveFromOwner(s, i) ==
  [gear   |-> [p \in Player |->
                IF p = s.owner[i] THEN s.gear[p] \ {i} ELSE s.gear[p]],
   list   |-> [k \in Pack |->
                IF k = s.parent[i] THEN s.list[k] \ {i} ELSE s.list[k]],
   owner  |-> [s.owner EXCEPT ![i] = Nobody],
   parent |-> [s.parent EXCEPT ![i] = NoPack],
   at     |-> [s.at EXCEPT ![i] = NOWHERE]]

AddToOwner(s, p, i, h) ==
  [s EXCEPT !.gear[p] = @ \cup {i}, !.owner[i] = p, !.at[i] = h]

Container_AddItem(s, k, i) ==
  [s EXCEPT !.list[k] = @ \cup {i}, !.parent[i] = k]

\* The pack is asked again once the item has left its place.
PutInPack(s, i, k) ==
  IF ~CanAccept(s, k, i) THEN Failed(s)
  ELSE LET t == RemoveFromOwner(s, i)
       IN IF CanAccept(t, k, i) THEN Done(Container_AddItem(t, k, i))
          ELSE [Lost(t, i) EXCEPT !.ok = TRUE]

\* Any pack that takes the item; the code takes the one meant for it, or
\* the first in Gear.
FindPackForItem(s, p, i) == {k \in Packs(s, p) : CanAccept(s, k, i)}

PutInAnyPack(s, p, i) ==
  LET onBody == {k \in Packs(s, p) : s.at[k] \notin Hands}
      packs == IF Cardinality(onBody) = 1 THEN onBody ELSE FindPackForItem(s, p, i)
  IN IF packs = {} THEN {Failed(s)} ELSE {PutInPack(s, i, k) : k \in packs}

\* An item in the middle of an attack stays where it is.
UseItem(s, p, i) ==
  {Failed(s)} \cup IF CanWear(s, p, i) THEN {Done([s EXCEPT !.at[i] = BODY])}
                   ELSE PutInAnyPack(s, p, i)

PutAway(s, p, i) ==
  {[r EXCEPT !.ok = r.inv.parent[i] # NoPack \/ r.inv.at[i] = BODY] :
     r \in UseItem(s, p, i)}

PutAllAway(s, p, items) ==
  IF items = {} THEN {Done(s)} ELSE UNION {PutAway(s, p, j) : j \in items}

\* Mutant: what is in the other hand needs both and stays there.
FreeHands_Bug(s, p, i) ==
  PutAllAway(s, p, InHand(s, p, IF Pref[i] \in Hands THEN Pref[i] ELSE m_PrefHand))

\* NewItemHand with FreeHands: empty the hand the item wants, then the other
\* one if the item needs both or if what is there does.
FreeHands(s, p, i) ==
  LET first == IF Pref[i] = "both" THEN LEFT
               ELSE IF Pref[i] = "any" THEN m_PrefHand ELSE Pref[i]
      next(t) == {j \in InHand(t, p, Other(first)) : "both" \in {Pref[i], Pref[j]}}
  IN UNION {IF r.ok THEN {Then(r, x) : x \in PutAllAway(r.inv, p, next(r.inv))}
            ELSE {r} : r \in PutAllAway(s, p, InHand(s, p, first))}

\* AddItem to a hand, without the weight; nothing is taken from the hands of
\* a player, and an item no hand is found for stays where it is.
AddItem(s, p, i) ==
  LET h == NewItemHand(s, p, i)
  IN IF (\E q \in Player : Holds(s, q, i)) \/ h = NOWHERE THEN Lost(s, i)
     ELSE Done(AddToOwner(s, p, i, h))

ToHand(s, p, i) == AddItem(RemoveFromOwner(s, i), p, i)

\* What is not his own may be too heavy, or too much.
GiveTo(s, p, i, putItemsAway) ==
  LET mine == OwnerOf(s, i) = p
      outcomes ==
        IF ~Holds(s, p, i) /\ ~mine /\ ~CanHold(s, p) THEN {}
        ELSE IF Holds(s, p, i) \/ NewItemHand(s, p, i) # NOWHERE THEN {ToHand(s, p, i)}
        ELSE IF putItemsAway
          THEN UNION {IF r.ok THEN {Then(r, ToHand(r.inv, p, i))}
                      ELSE IF mine THEN {r}
                      ELSE {Then(r, x) : x \in PutInAnyPack(r.inv, p, i)} :
                      r \in FreeHands(s, p, i)}
        ELSE IF mine THEN {Failed(s)} ELSE PutInAnyPack(s, p, i)
  IN outcomes \cup IF mine THEN {} ELSE {Failed(s)}
-----------------------------------------------------------------------------
(* SUB_Remove: an item goes, and a pack with everything in it *)

WithContents(s, i) == {i} \cup IF i \in Pack THEN s.list[i] ELSE {}

SUB_Remove(s, gone) ==
  [gear   |-> [p \in Player |-> s.gear[p] \ gone],
   list   |-> [k \in Pack |-> IF k \in gone THEN {} ELSE s.list[k] \ gone],
   owner  |-> [i \in Item |-> IF i \in gone THEN Nobody ELSE s.owner[i]],
   parent |-> [i \in Item |-> IF i \in gone THEN NoPack ELSE s.parent[i]],
   at     |-> [i \in Item |-> IF i \in gone THEN NOWHERE ELSE s.at[i]]]

\* A menu or an offer that names an object finds out that it has gone; the
\* total a menu has counted stays.
MenusWithout(gone) ==
  [p \in Player |-> IF menu[p].item \in gone THEN NoMenu
                    ELSE [item  |-> menu[p].item,
                          group |-> menu[p].group \ gone,
                          total |-> menu[p].total]]

Forget(gone) ==
  /\ live' = live \ gone
  /\ dying' = dying \ gone
  /\ qty' = [i \in Item |-> IF i \in gone THEN 1 ELSE qty[i]]
  /\ offer' = [p \in Player |-> IF offer[p].item \in gone THEN NoOffer ELSE offer[p]]

Remove(gone) == Forget(gone) /\ menu' = MenusWithout(gone)

Pending ==
  Cardinality({p \in Player : menu[p] # NoMenu})
    + Cardinality({p \in Player : offer[p] # NoOffer})
    + MapThenSumSet(LAMBDA p : Cardinality(stored[p]), Player)

Moved(r) ==
  /\ inv' = r.inv
  /\ stranded' = stranded \cup r.lost

Quantity(items) == MapThenSumSet(LAMBDA i : qty[i], items)
StoredThings == {r.item : r \in UNION {stored[p] : p \in Player}}

New(i) == i \notin live \cup StoredThings
-----------------------------------------------------------------------------
(* Things come into the world, lie there and go *)

\* A monster drops something, or a map or a script makes it.
Spawn(i) ==
  /\ New(i)
  /\ live' = live \cup {i}
  /\ qty' = [qty EXCEPT ![i] = 1]
  /\ UNCHANGED <<inv, dying, stored, menu, offer, stranded>>

\* Nobody has picked it up in time: DelayedRemove.
Expire(i) ==
  /\ i \in live \ dying /\ Free(inv, i)
  /\ dying' = dying \cup {i}
  /\ UNCHANGED <<inv, live, qty, stored, menu, offer, stranded>>

\* The think function DelayedRemove has set.
Think(i) ==
  /\ i \in dying
  /\ LET gone == WithContents(inv, i)
     IN inv' = SUB_Remove(inv, gone) /\ Remove(gone)
  /\ UNCHANGED <<stored, stranded>>
-----------------------------------------------------------------------------
(* Picking up: what lies in front of the player, whoever made it lie there,  *)
(* is taken at once, or a pile of one kind is offered in a menu.  Taking a   *)
(* thing resets its think function.                                          *)

GetAnyItems(p, i) ==
  /\ i \in live /\ Free(inv, i)
  /\ \E r \in GiveTo(inv, p, i, FALSE) :
       /\ Moved(r)
       /\ dying' = IF r.ok THEN dying \ {i} ELSE dying
  /\ UNCHANGED <<live, qty, stored, menu, offer>>

ShowMenu(p, i, group) ==
  /\ group # {} /\ i \notin group
  /\ \A j \in {i} \cup group :
       j \in live \cap Groupable /\ Free(inv, j) /\ Kind[j] = Kind[i]
  /\ Quantity({i} \cup group) < MaxGroupable
  /\ Pending < MaxPending
  /\ menu' = [menu EXCEPT ![p] = [item |-> i, group |-> group,
                                  total |-> Quantity({i} \cup group)]]
  /\ UNCHANGED <<inv, live, dying, qty, stored, offer, stranded>>

\* Mutant: the rest of the pile stays on the ground.
Grouped_Bug(p, ok) == {}

\* The rest of the pile goes into the one that is taken.
Grouped(p, ok) == IF ok THEN menu[p].group ELSE {}

\* TransactionCallback for TRANS_GETGROUND: the objects must still exist, and
\* the first one be near.
ChooseItem(p) ==
  /\ menu[p] # NoMenu
  /\ \E r \in GiveTo(inv, p, menu[p].item, FALSE) :
       LET grouped == Grouped(p, r.ok)
       IN /\ inv' = SUB_Remove(r.inv, grouped)
          /\ stranded' = stranded \cup r.lost
          /\ live' = live \ grouped
          /\ dying' = dying \ (IF r.ok THEN grouped \cup {menu[p].item} ELSE {})
          /\ menu' = [MenusWithout(grouped) EXCEPT ![p] = NoMenu]
          /\ offer' = [q \in Player |->
                        IF offer[q].item \in grouped THEN NoOffer ELSE offer[q]]
          /\ qty' = [i \in Item |-> IF i \in grouped THEN 1
                                    ELSE IF r.ok /\ i = menu[p].item THEN menu[p].total
                                    ELSE qty[i]]
  /\ UNCHANGED stored

\* Cancelled, or too far away by now.
CloseMenu(p) ==
  /\ menu[p] # NoMenu
  /\ menu' = [menu EXCEPT ![p] = NoMenu]
  /\ UNCHANGED <<inv, live, dying, qty, stored, offer, stranded>>
-----------------------------------------------------------------------------
(* What a player does with what he carries *)

\* "remove", "inv get" and "inv transfer" to a hand; only the last puts other
\* things away.
TakeInHand(p, i, putItemsAway) ==
  /\ i \in live /\ OwnerOf(inv, i) = p
  /\ \E r \in GiveTo(inv, p, i, putItemsAway) : Moved(r)
  /\ UNCHANGED <<live, dying, qty, stored, menu, offer>>

\* "inv transfer" to a pack.
Transfer(p, i, k) ==
  /\ i \in live /\ OwnerOf(inv, i) = p
  /\ k \in Packs(inv, p)
  /\ Moved(PutInPack(inv, i, k))
  /\ UNCHANGED <<live, dying, qty, stored, menu, offer>>

\* "use": wear what is in the hand or put it into a pack.
Use(p, i) ==
  /\ i \in live /\ Holds(inv, p, i)
  /\ CanWear(inv, p, i) \/ FindPackForItem(inv, p, i) # {}
  /\ \E r \in UseItem(inv, p, i) : Moved(r)
  /\ UNCHANGED <<live, dying, qty, stored, menu, offer>>

\* "drop": from a hand, the body or a pack.
Drop(p, i) ==
  /\ i \in live /\ OwnerOf(inv, i) = p
  /\ inv' = RemoveFromOwner(inv, i)
  /\ UNCHANGED <<live, dying, qty, stored, menu, offer, stranded>>

\* "inv open": Container_StackItems on every pack.  The loop skips entries as
\* it erases, so which of a kind are absorbed, and by which, is left open.
OpenPacks(p, into) ==
  LET absorbed == DOMAIN into
  IN /\ \A i \in absorbed :
          /\ inv.parent[i] \in Packs(inv, p)
          /\ into[i] \in (inv.list[inv.parent[i]] \cap Groupable) \ absorbed
          /\ i \in Groupable /\ Kind[into[i]] = Kind[i]
     /\ inv' = SUB_Remove(inv, absorbed)
     /\ dying' = dying \cup absorbed
     /\ qty' = [i \in Item |->
                 LET merged == Quantity({i} \cup {j \in absorbed : into[j] = i})
                 IN IF i \in absorbed THEN 0
                    ELSE IF \E j \in absorbed : into[j] = i
                      THEN IF merged > StackCap THEN StackCap ELSE merged
                    ELSE qty[i]]
     /\ UNCHANGED <<live, stored, menu, offer, stranded>>

\* RemoveAllItems: the player leaves or loads a character.
RemoveAllItems(p) ==
  /\ inv.gear[p] # {}
  /\ inv' = SUB_Remove(inv, Carried(inv, p))
  /\ Forget(Carried(inv, p))
  /\ menu' = [MenusWithout(Carried(inv, p)) EXCEPT ![p] = NoMenu]
  /\ UNCHANGED <<stored, stranded>>
-----------------------------------------------------------------------------
(* Storage, the stores and offers *)

\* Packs, which are stored with what is in them, are left out.
StorageAdd(p, i) ==
  /\ i \in live \ Pack /\ OwnerOf(inv, i) = p
  /\ i \notin StoredThings /\ Pending < MaxPending
  /\ stored' = [stored EXCEPT ![p] = @ \cup {[item |-> i, qty |-> qty[i]]}]
  /\ inv' = SUB_Remove(inv, {i})
  /\ Remove({i})
  /\ UNCHANGED stranded

\* The copy is made into an object, which is given to the player or put into
\* a pack of his; if that fails it is removed again.
StorageRemove(p, r) ==
  /\ r \in stored[p] /\ r.item \notin live
  /\ \E x \in GiveTo(inv, p, r.item, FALSE) \cup
              {PutInPack(inv, r.item, k) : k \in {k \in live \cap Pack : OwnerOf(inv, k) = p}} :
       /\ x.ok
       /\ Moved(x)
  /\ live' = live \cup {r.item}
  /\ qty' = [qty EXCEPT ![r.item] = r.qty]
  /\ stored' = [stored EXCEPT ![p] = @ \ {r}]
  /\ UNCHANGED <<dying, menu, offer>>

\* The fee is more than he has: the object is left to fall to the ground.
StorageRefuses(p, r) ==
  /\ r \in stored[p] /\ r.item \notin live
  /\ live' = live \cup {r.item}
  /\ qty' = [qty EXCEPT ![r.item] = r.qty]
  /\ UNCHANGED <<inv, dying, stored, menu, offer, stranded>>

\* TradeItem: what GiveTo answers is not looked at; an item it does not hand
\* over falls to the ground.  Goods come in bundles of one.
Buy(p, i) ==
  /\ New(i)
  /\ \/ CanHold(inv, p) /\ NewItemHand(inv, p, i) # NOWHERE
     \/ FindPackForItem(inv, p, i) # {}
  /\ \E r \in GiveTo(inv, p, i, FALSE) : Moved(r)
  /\ live' = live \cup {i}
  /\ qty' = [qty EXCEPT ![i] = 1]
  /\ UNCHANGED <<dying, stored, menu, offer>>

Sell(p, i) ==
  /\ i \in live /\ OwnerOf(inv, i) = p
  /\ LET gone == WithContents(inv, i)
     IN inv' = SUB_Remove(inv, gone) /\ Remove(gone)
  /\ UNCHANGED <<stored, stranded>>

\* An offer to a player is noted before it is refused.
OfferItem(p, q, i) ==
  /\ i \in live /\ Holds(inv, p, i)
  /\ Pending < MaxPending
  /\ offer' = [offer EXCEPT ![q] = [src |-> p, item |-> i]]
  /\ UNCHANGED <<inv, live, dying, qty, stored, menu, stranded>>

\* Mutant: nobody looks whether the offered item has changed hands since.
StillOffered_Bug(q) == TRUE

StillOffered(q) == inv.owner[offer[q].item] = offer[q].src

AcceptOffer(q) ==
  /\ offer[q] # NoOffer
  /\ IF StillOffered(q)
       THEN \E r \in GiveTo(inv, q, offer[q].item, FALSE) : Moved(r)
       ELSE UNCHANGED <<inv, stranded>>
  /\ offer' = [offer EXCEPT ![q] = NoOffer]
  /\ UNCHANGED <<live, dying, qty, stored, menu>>
-----------------------------------------------------------------------------
World == \E i \in Item : Spawn(i) \/ Expire(i) \/ Think(i)

PickUp(p) ==
  \/ \E i \in Item : GetAnyItems(p, i)
  \/ \E i \in Groupable : \E group \in SUBSET {j \in Groupable : Free(inv, j)} :
       ShowMenu(p, i, group)
  \/ ChooseItem(p) \/ CloseMenu(p)

Carry(p) ==
  \/ \E i \in Item, away \in BOOLEAN : TakeInHand(p, i, away)
  \/ \E i \in Item, k \in Pack : Transfer(p, i, k)
  \/ \E i \in Item : Use(p, i) \/ Drop(p, i)
  \/ \E absorbed \in SUBSET {i \in Groupable : inv.parent[i] \in Packs(inv, p)} \ {{}} :
       \E into \in [absorbed -> Groupable] : OpenPacks(p, into)
  \/ RemoveAllItems(p)

Deal(p) ==
  \/ \E i \in Item : StorageAdd(p, i) \/ Buy(p, i) \/ Sell(p, i)
  \/ \E r \in stored[p] : StorageRemove(p, r) \/ StorageRefuses(p, r)
  \/ \E q \in Player, i \in Item : OfferItem(p, q, i)
  \/ AcceptOffer(p)

Next == World \/ \E p \in Player : PickUp(p) \/ Carry(p) \/ Deal(p)

Spec == Init /\ [][Next]_vars
-----------------------------------------------------------------------------
(* Correctness *)

\* The lists and the pointers back of s tell the same story: an item is in
\* the Gear of its m_pOwner and in no other, in the list of its parent
\* container and in no other, and never in both.
Agree(s) ==
  /\ \A p \in Player, i \in Item : i \in s.gear[p] <=> s.owner[i] = p
  /\ \A k \in Pack, i \in Item : i \in s.list[k] <=> s.parent[i] = k
  /\ \A i \in Item :
       /\ s.parent[i] = NoPack \/ s.owner[i] = Nobody
       /\ s.at[i] = NOWHERE <=> s.owner[i] = Nobody

\* They name no object that is gone, and a pack that goes takes along what is
\* in it.
PlacesAgree ==
  /\ Agree(inv)
  /\ \A i \in Item \ live : Free(inv, i)
  /\ \A k \in Pack \ live : inv.list[k] = {}

\* A hand holds one item, and an item that needs both hands is the only one.
OnePerHand(s) ==
  \A p \in Player : \A i, j \in s.gear[p] :
    Holds(s, p, i) /\ Holds(s, p, j) /\ i # j
      => s.at[i] # s.at[j] /\ Pref[i] # "both"

\* It stays so whatever was put away, handed over or taken anew in between.
HandsHoldOne == OnePerHand(inv)

\* GiveTo and PutInPack look for a hand or a pack before they take an item
\* from its place and again afterwards: the second search fails only for an
\* item moved into the pack it is in already (when that pack holds more than
\* it should).  Nothing else is ever left with nobody, nor does AddItem copy
\* its message to a null pointer.
NothingStranded ==
  [][\A i \in stranded' \ stranded : \E p \in Player, k \in Pack :
       inv.parent[i] = k /\ Transfer(p, i, k)]_vars

\* The pieces of a kind, in the world and in storage, become more only when a
\* new object is made, when storage keeps the copy of what it hands out
\* because the fee was not paid, or when a player chooses from a pick-up menu
\* that has gone stale: its pile is no longer what it had counted.
StaleMenu(p) == menu[p].total # Quantity({menu[p].item} \cup menu[p].group)
Made(k) ==
  \E i \in live' \ live : Kind[i] = k /\ (i \notin StoredThings \/ Free(inv, i)')
Pieces(k) ==
  Quantity({i \in live : Kind[i] = k})
    + MapThenSumSet(LAMBDA r : r.qty, {r \in UNION {stored[p] : p \in Player} : Kind[r.item] = k})
NothingMultiplies ==
  [][\A k \in {Kind[i] : i \in Item} : Pieces(k)' > Pieces(k) =>
       Made(k) \/ \E p \in Player : menu[p] # NoMenu /\ menu'[p] = NoMenu /\ StaleMenu(p)]_vars

\* An item, or the pack it is in, passes from one player straight to another
\* only when the first has offered just that and still has it with him (not
\* in a pack), or when the other chooses it from a menu shown while it lay
\* there.
NobodyRobbed ==
  [][\A p, q \in Player, i \in live :
       LET moved == IF inv.parent[i] # NoPack /\ inv'.parent[i] = inv.parent[i]
                    THEN inv.parent[i] ELSE i
       IN p # q /\ OwnerOf(inv, i) = p /\ OwnerOf(inv', i) = q =>
            \/ offer[q] = [src |-> p, item |-> moved] /\ inv.owner[moved] = p
            \/ menu[q].item = moved /\ menu'[q] = NoMenu]_vars
=============================================================================
