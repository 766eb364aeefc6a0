--------------------------- MODULE PalItemsProofs ---------------------------
(***************************************************************************)
(* Proofs about PalItems, for any items, roles, parts, flags and prices,   *)
(* and any size of the inventory.                                          *)
(*                                                                         *)
(* The invariant IInv is the types, of which the bounds of the amounts are *)
(* the part that matters, and that the effects accounted for are those of  *)
(* the items worn.  On top of it, Apart(inv): an entry that counts comes   *)
(* before no empty one and after none of its kind; what compressing moves  *)
(* keeps its rank, by the least-number principle.  On top of both,         *)
(* HandThere: while the menu that equips is open, the item in hand is in   *)
(* the inventory, so a swap takes one of it and gives one of the other.    *)
(***************************************************************************)
EXTENDS PalItems, FiniteSetTheorems, WellFoundedInduction, TLAPS

IInv == TypeOK /\ EffectsFollow

-----------------------------------------------------------------------------
(* The inventory keeps its type.                                           *)

\* Adding keeps an amount between 0 and the cap, wherever the search ends.
LEMMA AddTyped ==
  ASSUME NEW v \in [Slots -> Entry], NEW it \in Items, NEW n \in Nat
  PROVE  AddItem(v, it, n) \in [Slots -> Entry]
<1> DEFINE s == Search(v, it)
           new(e) == [item |-> it, inUse |-> e.inUse,
                      amount |-> Capped(IF Found(v, it) THEN e.amount + n ELSE n)]
<1>1. \A e \in Entry : new(e) \in Entry
  <2> TAKE e \in Entry
  <2>1. e.amount \in Nat /\ e.inUse \in {-1, 0} BY PalItemsAssumption DEF Entry
  <2>2. \A k \in Nat : Capped(k) \in 0..MaxAmount BY PalItemsAssumption DEF Capped
  <2> QED BY <2>1, <2>2 DEF Entry, Things
<1>2. CASE s \in Slots
  <2>1. v[s] \in Entry BY <1>2
  <2>2. AddItem(v, it, n) \in {v, [v EXCEPT ![s] = new(v[s])]} BY DEF AddItem
  <2> QED BY <1>1, <1>2, <2>1, <2>2
<1>3. CASE s \notin Slots
  <2>1. [v EXCEPT ![s] = new(v[s])] = v BY <1>3
  <2>2. AddItem(v, it, n) \in {v, [v EXCEPT ![s] = new(v[s])]} BY DEF AddItem
  <2> QED BY <2>1, <2>2
<1> QED BY <1>2, <1>3

\* Taking never leaves a negative amount.
LEMMA TakeTyped ==
  ASSUME NEW v \in [Slots -> Entry], NEW it \in Items, NEW n \in Nat
  PROVE  TakeItem(v, it, n) \in [Slots -> Entry]
<1> DEFINE s == Search(v, it)
           left(a) == IF a < n THEN 0 ELSE a - n
<1>1. CASE Found(v, it)
  <2>1. s \in Slots BY <1>1 DEF Found
  <2>2. v[s] \in Entry BY <2>1
  <2>3. [v[s] EXCEPT !.amount = left(v[s].amount)] \in Entry
    <3>1. v[s].amount \in 0..MaxAmount BY <2>2 DEF Entry
    <3>2. left(v[s].amount) \in 0..MaxAmount BY <3>1, PalItemsAssumption
    <3> QED BY <2>2, <3>2 DEF Entry
  <2>4. TakeItem(v, it, n) = [v EXCEPT ![s] = [v[s] EXCEPT !.amount = left(v[s].amount)]]
    BY <1>1 DEF TakeItem
  <2> QED BY <2>1, <2>3, <2>4
<1>2. CASE ~Found(v, it) BY <1>2 DEF TakeItem
<1> QED BY <1>1, <1>2

LEMMA EmptyTyped == Empty \in Entry
BY PalItemsAssumption DEF Empty, Entry, Things

\* Entries that are moved together are entries.
LEMMA PackedTyped ==
  ASSUME NEW D, NEW v \in [D -> Entry], NEW S \in SUBSET D
  PROVE  Packed(v, S) \in [Slots -> Entry]
<1> SUFFICES ASSUME NEW j \in Slots
             PROVE  Packed(v, S)[j] \in Entry
  BY DEF Packed
<1> DEFINE At == {i \in S : Cardinality({k \in S : k < i}) = j - 1}
<1>1. Packed(v, S)[j] = IF At = {} THEN Empty ELSE v[CHOOSE i \in At : TRUE] BY DEF Packed
<1>2. CASE At = {} BY <1>1, <1>2, EmptyTyped
<1>3. CASE At # {}
  <2>1. (CHOOSE i \in At : TRUE) \in At BY <1>3
  <2> HIDE DEF At
  <2>2. At \subseteq D BY DEF At
  <2> QED BY <1>1, <1>3, <2>1, <2>2
<1> QED BY <1>2, <1>3

LEMMA CompressedTyped ==
  ASSUME NEW v \in [Slots -> Entry]
  PROVE  Compressed(v) \in [Slots -> Entry]
BY PackedTyped DEF Compressed

\* The place of a piece of equipment in the list of what is worn.
LEMMA WornPlace ==
  ASSUME NEW k \in 1..NRoles * NParts
  PROVE  /\ (k - 1) \div NParts + 1 \in Roles
         /\ ((k - 1) % NParts) + 1 \in Parts
<1> DEFINE q == (k - 1) \div NParts
           m == (k - 1) % NParts
<1>1. NRoles \in Nat \ {0} /\ NParts \in Nat \ {0} BY PalItemsAssumption
<1>2. k - 1 \in Nat BY <1>1
<1>3. q \in Nat /\ m \in 0..NParts - 1 /\ k - 1 = q * NParts + m BY <1>1, <1>2
<1> HIDE DEF q, m
<1>4. k <= NRoles * NParts BY <1>1
<1>5. q < NRoles
  <2>1. SUFFICES ASSUME q >= NRoles PROVE FALSE BY <1>1, <1>3
  <2>2. q * NParts >= NRoles * NParts BY <1>1, <1>3, <2>1
  <2> QED BY <1>1, <1>3, <1>4, <2>2
<1> QED BY <1>1, <1>3, <1>5 DEF q, m, Roles, Parts

LEMMA WithWornTyped ==
  ASSUME TypeOK, NEW v \in [Slots -> Entry]
  PROVE  WithWorn(v) \in [Slots -> Entry]
<1> DEFINE D == 1..MaxInventory + NRoles * NParts
           all == [k \in D |->
                     IF k \in Slots THEN v[k]
                     ELSE [item |-> Worn[k - MaxInventory], amount |-> 0, inUse |-> -1]]
<1>0. NRoles * NParts \in Nat /\ MaxInventory \in Nat \ {0} /\ MaxAmount \in Nat
  BY PalItemsAssumption
<1>1. ASSUME NEW k \in D, k \notin Slots
      PROVE  Worn[k - MaxInventory] \in Things
  <2>1. k - MaxInventory \in 1..NRoles * NParts BY <1>0, <1>1 DEF Slots
  <2> QED BY <2>1, WornPlace DEF Worn, TypeOK
<1>2. all \in [D -> Entry]
  <2> SUFFICES ASSUME NEW k \in D PROVE all[k] \in Entry OBVIOUS
  <2>1. CASE k \in Slots BY <2>1
  <2>2. CASE k \notin Slots
    <3>1. [item |-> Worn[k - MaxInventory], amount |-> 0, inUse |-> -1] \in Entry
      BY <1>0, <1>1, <2>2 DEF Entry
    <3> QED BY <2>2, <3>1
  <2> QED BY <2>1, <2>2
<1> DEFINE S == {k \in DOMAIN all : /\ all[k].item # NoItem
                                    /\ k \notin Slots => all[k].item \in Usable}
<1>3. WithWorn(v) = Packed(all, S) BY DEF WithWorn
<1>4. S \in SUBSET D OBVIOUS
<1> HIDE DEF S, all, D
<1> QED BY <1>2, <1>3, <1>4, PackedTyped

LEMMA ShownTyped ==
  ASSUME TypeOK, NEW m
  PROVE  Shown(m) \in [Slots -> Entry]
BY CompressedTyped, WithWornTyped DEF Shown, TypeOK

\* Entries the menu offers name items.
LEMMA SelectableItem ==
  ASSUME NEW i, NEW F \in SUBSET Items, Selectable(i, F)
  PROVE  inv[i].item \in Items
BY DEF Selectable

LEMMA FlaggedItems == Flagged \subseteq Items
BY PalItemsAssumption DEF Flagged

-----------------------------------------------------------------------------
(* Nothing is hidden.                                                      *)

\* A search for the item of the entry i ends there.
Clear(v, i) ==
  /\ v[i].item # NoItem
  /\ \A k \in 1..i - 1 : v[k].item \notin {v[i].item, NoItem}

\* NothingHidden without the search.
Apart(v) == \A i \in Slots : v[i].amount > 0 => Clear(v, i)

\* Every set of natural numbers has a least one.
LEMMA Least ==
  ASSUME NEW T, T \subseteq Nat, T # {}
  PROVE  \E x \in T : \A y \in T : x <= y
<1> DEFINE R == OpToRel(<, Nat)
<1>1. IsWellFoundedOn(R, Nat) BY NatLessThanWellFounded
<1> HIDE DEF R
<1>2. PICK x \in T : \A y \in T : ~(<<y, x>> \in R) BY <1>1, WFMin
<1>3. \A a, b \in Nat : a < b => <<a, b>> \in R BY DEF R, OpToRel
<1>4. ASSUME NEW y \in T PROVE x <= y
  <2>1. x \in Nat /\ y \in Nat OBVIOUS
  <2>2. ~(y < x) BY <1>2, <1>3, <2>1
  <2> QED BY <2>1, <2>2
<1> QED BY <1>4

\* A search ends at the first entry that stops it, or behind the last one.
LEMMA SearchOK ==
  ASSUME NEW v, NEW it
  PROVE  \/ Search(v, it) = MaxInventory + 1 /\ Stops(v, it) = {}
         \/ /\ Search(v, it) \in Slots
            /\ v[Search(v, it)].item \in {it, NoItem}
            /\ \A k \in 1..Search(v, it) - 1 : v[k].item \notin {it, NoItem}
<1>1. CASE Stops(v, it) = {} BY <1>1 DEF Search
<1>2. CASE Stops(v, it) # {}
  <2> DEFINE s == CHOOSE i \in Stops(v, it) : \A k \in Stops(v, it) : i <= k
  <2>1. Stops(v, it) \subseteq Nat BY DEF Stops, Slots
  <2>2. \E i \in Stops(v, it) : \A k \in Stops(v, it) : i <= k BY <1>2, <2>1, Least
  <2>3. s \in Stops(v, it) /\ \A k \in Stops(v, it) : s <= k BY <2>2
  <2>4. Search(v, it) = s BY <1>2 DEF Search
  <2> HIDE DEF s
  <2>5. s \in Slots /\ v[s].item \in {it, NoItem} BY <2>3 DEF Stops
  <2>6. ASSUME NEW k \in 1..s - 1 PROVE v[k].item \notin {it, NoItem}
    <3>1. k \in Slots /\ ~(s <= k) BY <2>5, PalItemsAssumption DEF Slots
    <3> QED BY <2>3, <3>1 DEF Stops
  <2> QED BY <2>4, <2>5, <2>6
<1> QED BY <1>1, <1>2

LEMMA SearchIs ==
  ASSUME NEW v, NEW i \in Slots
  PROVE  Clear(v, i) <=> v[i].item # NoItem /\ Search(v, v[i].item) = i
<1>1. ASSUME Clear(v, i) PROVE Search(v, v[i].item) = i
  <2> DEFINE s == Search(v, v[i].item)
  <2>1. i \in Stops(v, v[i].item) BY DEF Stops
  <2>2. /\ s \in Slots /\ v[s].item \in {v[i].item, NoItem}
        /\ \A k \in 1..s - 1 : v[k].item \notin {v[i].item, NoItem}
    BY <2>1, SearchOK
  <2> HIDE DEF s
  <2>3. s \in 1..MaxInventory /\ i \in 1..MaxInventory /\ MaxInventory \in Nat
    BY <2>2, PalItemsAssumption DEF Slots
  <2>4. ~(i < s) BY <2>2, <2>3
  <2>5. ~(s < i) BY <1>1, <2>2, <2>3 DEF Clear
  <2>6. s = i BY <2>3, <2>4, <2>5
  <2> QED BY <2>6 DEF s
<1>2. ASSUME v[i].item # NoItem, Search(v, v[i].item) = i PROVE Clear(v, i)
  <2>1. i # MaxInventory + 1 BY PalItemsAssumption DEF Slots
  <2> QED BY <1>2, <2>1, SearchOK DEF Clear
<1> QED BY <1>1, <1>2 DEF Clear

LEMMA HiddenIsApart == NothingHidden <=> Apart(inv)
BY SearchIs DEF NothingHidden, Apart

\* What adding does to the entries.
LEMMA AddEntries ==
  ASSUME NEW v \in [Slots -> Entry], NEW it \in Items, NEW n \in Nat
  PROVE  \/ AddItem(v, it, n) = v /\ Stops(v, it) = {}
         \/ \E s \in Slots :
              /\ s = Search(v, it)
              /\ v[s].item \in {it, NoItem}
              /\ \A k \in 1..s - 1 : v[k].item \notin {it, NoItem}
              /\ AddItem(v, it, n)[s].item = it
              /\ AddItem(v, it, n)[s].amount =
                   Capped(IF v[s].item = it THEN v[s].amount + n ELSE n)
              /\ \A k \in Slots \ {s} : AddItem(v, it, n)[k] = v[k]
<1> DEFINE s == Search(v, it)
<1>1. CASE s = MaxInventory + 1 /\ Stops(v, it) = {}
  <2>1. s > MaxInventory BY <1>1, PalItemsAssumption
  <2> QED BY <1>1, <2>1 DEF AddItem
<1>2. CASE /\ s \in Slots /\ v[s].item \in {it, NoItem}
           /\ \A k \in 1..s - 1 : v[k].item \notin {it, NoItem}
  <2>1. ~(s > MaxInventory) BY <1>2, PalItemsAssumption DEF Slots
  <2>2. Found(v, it) <=> v[s].item = it BY <1>2 DEF Found
  <2>3. AddItem(v, it, n) = [v EXCEPT ![s] =
           [item |-> it, inUse |-> v[s].inUse,
            amount |-> Capped(IF v[s].item = it THEN v[s].amount + n ELSE n)]]
    BY <2>1, <2>2 DEF AddItem
  <2> HIDE DEF s
  <2>4. /\ AddItem(v, it, n)[s].item = it
        /\ AddItem(v, it, n)[s].amount = Capped(IF v[s].item = it THEN v[s].amount + n ELSE n)
        /\ \A k \in Slots \ {s} : AddItem(v, it, n)[k] = v[k]
    BY <1>2, <2>3
  <2>5. s = Search(v, it) BY DEF s
  <2> QED BY <1>2, <2>4, <2>5
<1> QED BY <1>1, <1>2, SearchOK

\* Adding leaves what is clear, and its own entry is.
LEMMA AddClear ==
  ASSUME NEW v \in [Slots -> Entry], NEW it \in Items, NEW n \in Nat, NEW i \in Slots,
         Clear(v, i) \/ AddItem(v, it, n)[i] # v[i]
  PROVE  Clear(AddItem(v, it, n), i)
<1> DEFINE w == AddItem(v, it, n)
<1>1. Clear(v, i) \/ w[i] # v[i] OBVIOUS
<1> HIDE DEF w
<1>2. ASSUME NEW s \in Slots,
             v[s].item \in {it, NoItem},
             \A k \in 1..s - 1 : v[k].item \notin {it, NoItem},
             w[s].item = it,
             \A k \in Slots \ {s} : w[k] = v[k]
      PROVE  Clear(w, i)
  <2>1. it # NoItem BY PalItemsAssumption
  <2>2. \A k \in 1..i - 1 : k \in Slots /\ k # i BY PalItemsAssumption DEF Slots
  <2>3. CASE i = s BY <1>2, <2>1, <2>2, <2>3 DEF Clear
  <2>4. CASE i # s
    <3>1. w[i] = v[i] /\ Clear(v, i) BY <1>1, <1>2, <2>4
    <3>2. ASSUME NEW k \in 1..i - 1 PROVE w[k].item = v[k].item
      <4>1. CASE k # s BY <1>2, <2>2, <4>1
      <4>2. CASE k = s BY <1>2, <3>1, <4>2 DEF Clear
      <4> QED BY <4>1, <4>2
    <3> QED BY <3>1, <3>2 DEF Clear
  <2> QED BY <2>3, <2>4
<1>3. \/ w = v
      \/ \E s \in Slots :
           /\ v[s].item \in {it, NoItem}
           /\ \A k \in 1..s - 1 : v[k].item \notin {it, NoItem}
           /\ w[s].item = it
           /\ \A k \in Slots \ {s} : w[k] = v[k]
  BY AddEntries DEF w
<1>4. Clear(w, i)
  <2>1. CASE w = v BY <1>1, <2>1
  <2>2. CASE w # v
    <3>1. PICK s \in Slots : /\ v[s].item \in {it, NoItem}
                             /\ \A k \in 1..s - 1 : v[k].item \notin {it, NoItem}
                             /\ w[s].item = it
                             /\ \A k \in Slots \ {s} : w[k] = v[k]
      BY <1>3, <2>2
    <3>2. \A k \in 1..s - 1 : v[k].item \notin {it, NoItem} BY <3>1
    <3> QED BY <1>2, <3>1, <3>2
  <2> QED BY <2>1, <2>2
<1> QED BY <1>4 DEF w

LEMMA AddApart ==
  ASSUME NEW v \in [Slots -> Entry], NEW it \in Items, NEW n \in Nat, Apart(v)
  PROVE  Apart(AddItem(v, it, n))
BY AddClear DEF Apart

\* Taking leaves the items where they are, and no more of any.
LEMMA TakeEntries ==
  ASSUME NEW v \in [Slots -> Entry], NEW it \in Items, NEW n \in Nat
  PROVE  \A k \in Slots : /\ TakeItem(v, it, n)[k].item = v[k].item
                          /\ TakeItem(v, it, n)[k].amount <= v[k].amount
                          /\ v[k].item # it => TakeItem(v, it, n)[k] = v[k]
<1> SUFFICES ASSUME NEW k \in Slots
             PROVE  /\ TakeItem(v, it, n)[k].item = v[k].item
                    /\ TakeItem(v, it, n)[k].amount <= v[k].amount
                    /\ v[k].item # it => TakeItem(v, it, n)[k] = v[k]
  OBVIOUS
<1>1. v[k] \in Entry /\ v[k].amount \in 0..MaxAmount /\ MaxAmount \in Nat
  BY PalItemsAssumption DEF Entry
<1>2. CASE Found(v, it)
  <2> DEFINE s == Search(v, it)
             left(a) == IF a < n THEN 0 ELSE a - n
  <2>1. s \in Slots /\ v[s].item = it BY <1>2 DEF Found
  <2>2. TakeItem(v, it, n) = [v EXCEPT ![s] = [v[s] EXCEPT !.amount = left(v[s].amount)]]
    BY <1>2 DEF TakeItem
  <2> HIDE DEF s
  <2>3. CASE k = s
    <3>1. TakeItem(v, it, n)[k] = [v[k] EXCEPT !.amount = left(v[k].amount)] BY <2>1, <2>2, <2>3
    <3>2. left(v[k].amount) <= v[k].amount BY <1>1
    <3> QED BY <1>1, <2>1, <2>3, <3>1, <3>2 DEF Entry
  <2>4. CASE k # s BY <1>1, <2>2, <2>4
  <2> QED BY <2>3, <2>4
<1>3. CASE ~Found(v, it) BY <1>1, <1>3 DEF TakeItem
<1> QED BY <1>2, <1>3

LEMMA TakeApart ==
  ASSUME NEW v \in [Slots -> Entry], NEW it \in Items, NEW n \in Nat, Apart(v)
  PROVE  Apart(TakeItem(v, it, n))
<1> DEFINE w == TakeItem(v, it, n)
<1>1. \A k \in Slots : w[k].item = v[k].item /\ w[k].amount <= v[k].amount BY TakeEntries
<1>2. w \in [Slots -> Entry] BY TakeTyped
<1> HIDE DEF w
<1>3. ASSUME NEW i \in Slots, w[i].amount > 0 PROVE Clear(w, i)
  <2>1. v[i].amount > 0
    <3>1. v[i].amount \in 0..MaxAmount /\ w[i].amount \in 0..MaxAmount BY <1>2 DEF Entry
    <3>2. MaxAmount \in Nat BY PalItemsAssumption
    <3> QED BY <1>1, <1>3, <3>1, <3>2
  <2>2. \A k \in 1..i - 1 : k \in Slots BY PalItemsAssumption DEF Slots
  <2> QED BY <1>1, <2>1, <2>2 DEF Apart, Clear
<1> QED BY <1>3 DEF Apart, w

\* The number of positions of S before i.
Rank(S, i) == Cardinality({k \in S : k < i})

LEMMA RankOK ==
  ASSUME NEW d \in Nat, NEW S \in SUBSET (1..d)
  PROVE  /\ \A i \in S : Rank(S, i) \in Nat
         /\ \A i, k \in S : i <= k => Rank(S, i) <= Rank(S, k)
<1>1. IsFiniteSet(1..d) BY FS_Interval
<1>2. ASSUME NEW i \in S PROVE IsFiniteSet({k \in S : k < i})
  BY <1>1, FS_Subset
<1>3. ASSUME NEW i \in S PROVE Rank(S, i) \in Nat
  BY <1>2, FS_CardinalityType DEF Rank
<1>4. ASSUME NEW i \in S, NEW k \in S, i <= k PROVE Rank(S, i) <= Rank(S, k)
  <2>1. ASSUME NEW m \in S, m < i PROVE m < k
    <3>1. m \in 1..d /\ i \in 1..d /\ k \in 1..d OBVIOUS
    <3> QED BY <1>4, <2>1, <3>1
  <2>2. {m \in S : m < i} \subseteq {m \in S : m < k} BY <2>1
  <2> QED BY <1>2, <2>2, FS_Subset DEF Rank
<1> QED BY <1>3, <1>4

\* If there is a position of a rank, there is one of every lower rank.
LEMMA RanksBelow ==
  ASSUME NEW d \in Nat, NEW S \in SUBSET (1..d), NEW i \in S, NEW m \in Nat, m <= Rank(S, i)
  PROVE  \E k \in S : Rank(S, k) = m
<1> DEFINE T == {k \in S : Rank(S, k) >= m}
<1>0. \A k \in S : k \in 1..d /\ k \in Nat OBVIOUS
<1>1. T \subseteq Nat /\ i \in T
  <2>1. Rank(S, i) >= m
    <3>1. Rank(S, i) \in Nat BY RankOK
    <3> QED BY <3>1
  <2> QED BY <1>0, <2>1
<1>2. PICK x \in T : \A y \in T : x <= y
  <2> HIDE DEF T
  <2> QED BY <1>1, Least
<1>3. x \in S /\ Rank(S, x) \in Nat /\ Rank(S, x) >= m BY RankOK
<1>4. SUFFICES ASSUME Rank(S, x) # m PROVE FALSE BY <1>3
<1>5. Rank(S, x) > m BY <1>3, <1>4
<1> DEFINE B == {k \in S : k < x}
<1>6. IsFiniteSet(B)
  <2>1. IsFiniteSet(1..d) BY FS_Interval
  <2> QED BY <2>1, FS_Subset
<1>7. B # {} BY <1>5, <1>6, FS_EmptySet DEF Rank
<1>8. PICK y \in B : \A k \in B : k <= y
  <2> DEFINE U == {d - k : k \in B}
  <2>1. \A k \in B : d - k \in Nat
    <3>1. \A k \in 1..d : d - k \in Nat OBVIOUS
    <3> QED BY <1>0, <3>1
  <2>2. U \subseteq Nat BY <2>1
  <2>3. U # {} BY <1>7
  <2> HIDE DEF U
  <2>4. PICK u \in U : \A z \in U : u <= z BY <2>2, <2>3, Least
  <2>5. PICK y \in B : u = d - y BY DEF U
  <2>6. ASSUME NEW k \in B PROVE k <= y
    <3>1. d - k \in U BY DEF U
    <3>2. d - y <= d - k BY <2>4, <2>5, <3>1
    <3>3. k \in 1..d /\ y \in 1..d BY <1>0
    <3> QED BY <3>2, <3>3
  <2> QED BY <2>6
<1>9. {k \in S : k < y} = B \ {y}
  <2>1. ASSUME NEW k \in B \ {y} PROVE k < y BY <1>8
  <2>2. ASSUME NEW k \in S, k < y PROVE k \in B \ {y} BY <2>2
  <2> QED BY <2>1, <2>2
<1>10. Rank(S, y) = Rank(S, x) - 1
  <2>1. Cardinality(B \ {y}) = Cardinality(B) - 1 BY <1>6, FS_RemoveElement
  <2> QED BY <1>9, <2>1 DEF Rank
<1>11. y \in T /\ y < x BY <1>3, <1>5, <1>10
<1> QED BY <1>2, <1>11

\* What position j of the packed array holds.
FromRank(v, S, j) ==
  \/ Packed(v, S)[j] = Empty /\ \A i \in S : Rank(S, i) # j - 1
  \/ \E i \in S : Rank(S, i) = j - 1 /\ Packed(v, S)[j] = v[i]

LEMMA PackedFrom ==
  ASSUME NEW v, NEW S, NEW j \in Slots
  PROVE  FromRank(v, S, j)
<1> DEFINE At == {i \in S : Cardinality({k \in S : k < i}) = j - 1}
<1>1. Packed(v, S)[j] = IF At = {} THEN Empty ELSE v[CHOOSE i \in At : TRUE] BY DEF Packed
<1>2. \A i : i \in At <=> i \in S /\ Rank(S, i) = j - 1 BY DEF Rank
<1> HIDE DEF At
<1>3. CASE At = {} BY <1>1, <1>2, <1>3 DEF FromRank
<1>4. CASE At # {}
  <2>1. (CHOOSE i \in At : TRUE) \in At BY <1>4
  <2> QED BY <1>1, <1>2, <1>4, <2>1 DEF FromRank
<1> QED BY <1>3, <1>4

\* What is moved together keeps its order, and stays clear.
LEMMA PackedClear ==
  ASSUME NEW d \in Nat, NEW v, NEW S \in SUBSET (1..d), \A i \in S : v[i].item # NoItem,
         NEW i \in S, NEW j \in Slots, Rank(S, i) = j - 1, Packed(v, S)[j] = v[i], Clear(v, i)
  PROVE  Clear(Packed(v, S), j)
<1>1. j \in Nat /\ \A k \in 1..j - 1 : k \in Slots /\ k - 1 \in Nat /\ k - 1 < j - 1
  BY PalItemsAssumption DEF Slots
<1>2. ASSUME NEW k \in 1..j - 1
      PROVE  Packed(v, S)[k].item \notin {v[i].item, NoItem}
  <2>1. PICK n \in S : Rank(S, n) = k - 1
    <3>1. k - 1 \in Nat /\ k - 1 <= Rank(S, i) BY <1>1
    <3> QED BY <3>1, RanksBelow
  <2>2. PICK m \in S : Rank(S, m) = k - 1 /\ Packed(v, S)[k] = v[m]
    <3>1. k \in Slots BY <1>1
    <3>2. \/ \A m \in S : Rank(S, m) # k - 1
          \/ \E m \in S : Rank(S, m) = k - 1 /\ Packed(v, S)[k] = v[m]
      <4>1. FromRank(v, S, k) BY <3>1, PackedFrom
      <4> QED BY <4>1 DEF FromRank
    <3> QED BY <2>1, <3>2
  <2>3. ~(i <= m)
    <3>1. i <= m => Rank(S, i) <= Rank(S, m) BY RankOK
    <3> QED BY <1>1, <2>2, <3>1
  <2>4. m \in 1..i - 1
    <3>1. m \in 1..d /\ i \in 1..d OBVIOUS
    <3> QED BY <2>3, <3>1
  <2> QED BY <2>2, <2>4 DEF Clear
<1> QED BY <1>2 DEF Clear

LEMMA PackedApart ==
  ASSUME NEW d \in Nat, NEW v, NEW S \in SUBSET (1..d),
         \A i \in S : v[i].item # NoItem /\ (v[i].amount > 0 => Clear(v, i))
  PROVE  Apart(Packed(v, S))
<1> SUFFICES ASSUME NEW j \in Slots, Packed(v, S)[j].amount > 0
             PROVE  Clear(Packed(v, S), j)
  BY DEF Apart
<1>1. Packed(v, S)[j] # Empty BY DEF Empty
<1>2. PICK i \in S : Rank(S, i) = j - 1 /\ Packed(v, S)[j] = v[i]
  <2>1. \/ Packed(v, S)[j] = Empty
        \/ \E i \in S : Rank(S, i) = j - 1 /\ Packed(v, S)[j] = v[i]
    <3>1. FromRank(v, S, j) BY PackedFrom
    <3> QED BY <3>1 DEF FromRank
  <2> QED BY <1>1, <2>1
<1>3. \A k \in S : v[k].item # NoItem OBVIOUS
<1> QED BY <1>2, <1>3, PackedClear

\* Compressing keeps what is there, and all of it is some.
LEMMA CompressedApart ==
  ASSUME NEW v \in [Slots -> Entry], Apart(v)
  PROVE  /\ Apart(Compressed(v))
         /\ \A j \in Slots : Compressed(v)[j].item # NoItem => Compressed(v)[j].amount > 0
<1> DEFINE S == {i \in Slots : /\ v[i].amount > 0
                               /\ \A k \in 1..i : v[k].item # NoItem}
<1>1. Compressed(v) = Packed(v, S) BY DEF Compressed
<1>2. MaxInventory \in Nat /\ S \in SUBSET (1..MaxInventory) BY PalItemsAssumption DEF Slots
<1>3. \A i \in S : v[i].amount > 0 /\ Clear(v, i) /\ v[i].item # NoItem BY DEF Apart, Clear
<1> HIDE DEF S
<1>4. Apart(Packed(v, S)) BY <1>2, <1>3, PackedApart
<1>5. ASSUME NEW j \in Slots, Packed(v, S)[j].item # NoItem
      PROVE  Packed(v, S)[j].amount > 0
  <2>1. Packed(v, S)[j] # Empty BY <1>5 DEF Empty
  <2>2. \/ Packed(v, S)[j] = Empty
        \/ \E i \in S : Rank(S, i) = j - 1 /\ Packed(v, S)[j] = v[i]
    <3>1. FromRank(v, S, j) BY PackedFrom
    <3> QED BY <3>1 DEF FromRank
  <2> QED BY <1>3, <2>1, <2>2
<1> QED BY <1>1, <1>4, <1>5

\* Appending what is worn hides nothing either: it counts for no amount.
LEMMA WithWornApart ==
  ASSUME NEW v \in [Slots -> Entry], Apart(v)
  PROVE  Apart(WithWorn(v))
<1> DEFINE D == 1..MaxInventory + NRoles * NParts
           all == [k \in D |->
                     IF k \in Slots THEN v[k]
                     ELSE [item |-> Worn[k - MaxInventory], amount |-> 0, inUse |-> -1]]
           S == {k \in DOMAIN all : /\ all[k].item # NoItem
                                    /\ k \notin Slots => all[k].item \in Usable}
<1>1. WithWorn(v) = Packed(all, S) BY DEF WithWorn
<1>2. MaxInventory \in Nat /\ NRoles * NParts \in Nat BY PalItemsAssumption
<1>3. MaxInventory + NRoles * NParts \in Nat /\ S \in SUBSET D BY <1>2
<1>4. ASSUME NEW i \in S
      PROVE  all[i].item # NoItem /\ (all[i].amount > 0 => Clear(all, i))
  <2>1. i \in D /\ all[i].item # NoItem BY <1>3
  <2>2. CASE i \in Slots
    <3>1. i \in 1..MaxInventory BY <2>2 DEF Slots
    <3>2. all[i] = v[i] /\ \A k \in 1..i - 1 : all[k] = v[k]
      <4>1. \A k \in 1..i - 1 : k \in D /\ k \in Slots BY <1>2, <3>1 DEF Slots
      <4> QED BY <2>1, <2>2, <4>1
    <3> HIDE DEF all
    <3> QED BY <2>1, <2>2, <3>2 DEF Apart, Clear
  <2>3. CASE i \notin Slots BY <2>1, <2>3
  <2> QED BY <2>1, <2>2, <2>3
<1> HIDE DEF S, all
<1> QED BY <1>1, <1>3, <1>4, PackedApart

LEMMA ShownApart ==
  ASSUME TypeOK, Apart(inv), NEW m
  PROVE  /\ Apart(Shown(m))
         /\ m # "select" => \A j \in Slots : Shown(m)[j].item # NoItem => Shown(m)[j].amount > 0
BY CompressedTyped, CompressedApart, WithWornApart DEF Shown, TypeOK

-----------------------------------------------------------------------------
(* Equipment and its effects.                                              *)

\* Taking off keeps the types, and the effects with what is worn.
LEMMA TakeOffInductive ==
  ASSUME IInv, NEW taken, TakeOff(taken)
  PROVE  /\ equip' \in [Roles -> [Parts -> Things]]
         /\ effect' = equip'
BY DEF IInv, TypeOK, EffectsFollow, TakeOff, EquipLeft, EffectsLeft, Things

\* So does putting on.
LEMMA WearInductive ==
  ASSUME IInv, NEW r \in Roles, NEW it \in Items, Wear(r, it)
  PROVE  /\ inv' \in [Slots -> Entry]
         /\ equip' \in [Roles -> [Parts -> Things]]
         /\ effect' = equip'
         /\ hand' \in Things
<1>1. PartOf[it] \in Parts BY PalItemsAssumption
<1>2. CASE equip[r][PartOf[it]] = it
  <2>1. UNCHANGED <<inv, equip, hand>> /\ effect' = [equip EXCEPT ![r][PartOf[it]] = it]
    BY <1>2 DEF Wear, IInv, EffectsFollow
  <2>2. [equip EXCEPT ![r][PartOf[it]] = it] = equip BY <1>1, <1>2 DEF IInv, TypeOK
  <2> QED BY <2>1, <2>2 DEF IInv, TypeOK
<1>3. CASE equip[r][PartOf[it]] # it
  <2>1. ComesOff(r, it) \in Things BY <1>1 DEF ComesOff, IInv, TypeOK
  <2>2. Swapped(inv, it, ComesOff(r, it)) \in [Slots -> Entry]
    BY <2>1, TakeTyped, AddTyped DEF Swapped, IInv, TypeOK, Things
  <2>3. /\ equip' = [equip EXCEPT ![r][PartOf[it]] = it]
        /\ effect' = equip'
        /\ inv' = Swapped(inv, it, ComesOff(r, it))
        /\ hand' = ComesOff(r, it)
    BY <1>3 DEF Wear, IInv, EffectsFollow
  <2>4. [equip EXCEPT ![r][PartOf[it]] = it] \in [Roles -> [Parts -> Things]]
    BY <1>1 DEF IInv, TypeOK, Things
  <2> QED BY <2>1, <2>2, <2>3, <2>4
<1> QED BY <1>2, <1>3

-----------------------------------------------------------------------------
(* Initially, and from step to step.                                       *)

LEMMA Initially == Init => IInv
BY PalItemsAssumption, EmptyTyped DEF Init, IInv, TypeOK, EffectsFollow, Nothing, Things

LEMMA Inductive == IInv /\ [Next]_vars => IInv'
<1> SUFFICES ASSUME IInv, [Next]_vars PROVE IInv' OBVIOUS
<1> USE DEF IInv, EffectsFollow
<1> USE PalItemsAssumption
<1>1. ASSUME NEW it \in Items, NEW n \in -MaxGiven..MaxGiven, ScriptAdd(it, n) PROVE IInv'
  <2>1. CASE n >= 0 BY <1>1, <2>1, AddTyped DEF ScriptAdd, Quiet, TypeOK
  <2>2. CASE ~(n >= 0)
    <3>1. -n \in Nat BY <2>2
    <3> QED BY <1>1, <2>2, <3>1, TakeTyped DEF ScriptAdd, Quiet, TypeOK
  <2> QED BY <2>1, <2>2
<1>2. ASSUME NEW it \in Items, NEW n \in 1..MaxGiven, ScriptRemove(it, n) PROVE IInv'
  <2>1. inv' \in [Slots -> Entry] BY <1>2, TakeTyped DEF ScriptRemove, TypeOK
  <2>2. equip' \in [Roles -> [Parts -> Things]] /\ effect' = equip'
    BY <1>2, TakeOffInductive DEF ScriptRemove, TypeOK
  <2> QED BY <1>2, <2>1, <2>2 DEF ScriptRemove, Quiet, TypeOK
<1>3. ASSUME NEW r \in Roles, NEW p \in Parts, ScriptUnequip(r, p) PROVE IInv'
  <2>1. equip[r][p] \in Items BY <1>3 DEF ScriptUnequip, TypeOK, Things
  <2>2. inv' \in [Slots -> Entry] BY <1>3, <2>1, AddTyped DEF ScriptUnequip, TypeOK
  <2>3. equip' \in [Roles -> [Parts -> Things]] /\ effect' = equip'
    BY <1>3, TakeOffInductive DEF ScriptUnequip
  <2> QED BY <1>3, <2>2, <2>3 DEF ScriptUnequip, Quiet, TypeOK
<1>4. ASSUME NEW n \in 1..MaxCash, ScriptCash(n) PROVE IInv'
  BY <1>4 DEF ScriptCash, Quiet, TypeOK
<1>5. ASSUME NEW it \in Items, Buy(it) PROVE IInv'
  <2>1. inv' \in [Slots -> Entry] BY <1>5, AddTyped DEF Buy, TypeOK
  <2>2. cash' \in 0..MaxCash
    <3>1. Price[it] \in Nat OBVIOUS
    <3> QED BY <1>5, <3>1 DEF Buy, TypeOK
  <2> QED BY <1>5, <2>1, <2>2 DEF Buy, Quiet, TypeOK
<1>6. ASSUME SaveAndLoad PROVE IInv'
  BY <1>6, CompressedTyped DEF SaveAndLoad, UpdateEquipments, Quiet, TypeOK
<1>7. ASSUME NEW m \in {"select", "wear", "sell"}, Open(m) PROVE IInv'
  BY <1>7, ShownTyped DEF Open, TypeOK, Things
<1>8. ASSUME Cancel PROVE IInv'
  BY <1>8 DEF Cancel, TypeOK, Things
<1>9. ASSUME NEW i \in Slots, NEW ok \in BOOLEAN, UseOnAll(i, ok) PROVE IInv'
  <2>1. inv[i].item \in Items BY <1>9, SelectableItem DEF UseOnAll
  <2>2. inv' \in [Slots -> Entry] BY <1>9, <2>1, TakeTyped DEF UseOnAll, UsedUp, TypeOK
  <2> QED BY <1>9, <2>2 DEF UseOnAll, TypeOK
<1>10. ASSUME NEW i \in Slots, ChooseItem(i) PROVE IInv'
  <2>1. inv[i].item \in Items BY <1>10, SelectableItem, FlaggedItems DEF ChooseItem
  <2> QED BY <1>10, <2>1 DEF ChooseItem, TypeOK, Things
<1>11. ASSUME NEW ok \in BOOLEAN, UseOn(ok) PROVE IInv'
  <2>1. hand \in Items \/ inv' = inv
    BY <1>11 DEF UseOn, UsedUp, TypeOK, Things
  <2>2. inv' \in [Slots -> Entry] BY <1>11, <2>1, TakeTyped DEF UseOn, UsedUp, TypeOK
  <2> QED BY <1>11, <2>2 DEF UseOn, TypeOK
<1>12. ASSUME NEW r \in Roles, EquipOn(r) PROVE IInv'
  <2>1. hand \in Items BY <1>12 DEF EquipOn, TypeOK, Things
  <2> QED BY <1>12, <2>1, WearInductive DEF EquipOn, TypeOK
<1>13. ASSUME Back PROVE IInv'
  BY <1>13, ShownTyped DEF Back, TypeOK, Things
<1>14. ASSUME NEW i \in Slots, Sell(i) PROVE IInv'
  <2>1. inv[i].item \in Items BY <1>14, SelectableItem DEF Sell
  <2>2. TakeItem(inv, inv[i].item, 1) \in [Slots -> Entry] BY <2>1, TakeTyped DEF TypeOK
  <2>3. inv' \in [Slots -> Entry] BY <1>14, <2>2, CompressedTyped DEF Sell
  <2>4. cash' \in 0..MaxCash
    <3>1. Price[inv[i].item] \in Nat BY <2>1
    <3>2. Price[inv[i].item] \div 2 \in Nat BY <3>1
    <3> QED BY <1>14, <3>2 DEF Sell, TypeOK
  <2> QED BY <1>14, <2>3, <2>4 DEF Sell, TypeOK
<1>15. CASE UNCHANGED vars BY <1>15 DEF vars, TypeOK
<1> QED BY <1>1, <1>2, <1>3, <1>4, <1>5, <1>6, <1>7, <1>8, <1>9, <1>10, <1>11, <1>12, <1>13,
           <1>14, <1>15 DEF Next

-----------------------------------------------------------------------------
(* No step hides anything.                                                 *)

LEMMA SwappedApart ==
  ASSUME NEW v \in [Slots -> Entry], NEW it \in Items, NEW off \in Things, Apart(v)
  PROVE  Apart(Swapped(v, it, off))
BY TakeTyped, TakeApart, AddApart DEF Swapped, Things

LEMMA StaysApart == IInv /\ Apart(inv) /\ [Next]_vars => Apart(inv')
<1> SUFFICES ASSUME IInv, Apart(inv), [Next]_vars PROVE Apart(inv') OBVIOUS
<1>0. inv \in [Slots -> Entry] /\ TypeOK BY DEF IInv, TypeOK
<1>1. ASSUME NEW it \in Items, NEW n \in -MaxGiven..MaxGiven, ScriptAdd(it, n)
      PROVE  Apart(inv')
  <2>1. CASE n >= 0
    <3>1. (IF n = 0 THEN 1 ELSE n) \in Nat BY <2>1
    <3> QED BY <1>0, <1>1, <2>1, <3>1, AddApart DEF ScriptAdd
  <2>2. CASE ~(n >= 0)
    <3>1. -n \in Nat BY <2>2
    <3> QED BY <1>0, <1>1, <2>2, <3>1, TakeApart DEF ScriptAdd
  <2> QED BY <2>1, <2>2
<1>2. ASSUME NEW it \in Items, NEW n \in 1..MaxGiven, ScriptRemove(it, n) PROVE Apart(inv')
  BY <1>0, <1>2, TakeApart DEF ScriptRemove
<1>3. ASSUME NEW r \in Roles, NEW p \in Parts, ScriptUnequip(r, p) PROVE Apart(inv')
  <2>1. equip[r][p] \in Items BY <1>0, <1>3 DEF ScriptUnequip, TypeOK, Things
  <2> QED BY <1>0, <1>3, <2>1, AddApart DEF ScriptUnequip
<1>4. ASSUME NEW n \in 1..MaxCash, ScriptCash(n) PROVE Apart(inv')
  BY <1>4 DEF ScriptCash
<1>5. ASSUME NEW it \in Items, Buy(it) PROVE Apart(inv')
  BY <1>0, <1>5, AddApart DEF Buy
<1>6. ASSUME SaveAndLoad PROVE Apart(inv')
  BY <1>0, <1>6, CompressedApart DEF SaveAndLoad
<1>7. ASSUME NEW m \in {"select", "wear", "sell"}, Open(m) PROVE Apart(inv')
  BY <1>0, <1>7, ShownApart DEF Open
<1>8. ASSUME Cancel PROVE Apart(inv') BY <1>8 DEF Cancel
<1>9. ASSUME NEW i \in Slots, NEW ok \in BOOLEAN, UseOnAll(i, ok) PROVE Apart(inv')
  <2>1. inv[i].item \in Items BY <1>9, SelectableItem, PalItemsAssumption DEF UseOnAll
  <2> QED BY <1>0, <1>9, <2>1, TakeApart DEF UseOnAll, UsedUp
<1>10. ASSUME NEW i \in Slots, ChooseItem(i) PROVE Apart(inv') BY <1>10 DEF ChooseItem
<1>11. ASSUME NEW ok \in BOOLEAN, UseOn(ok) PROVE Apart(inv')
  <2>1. hand \in Items \/ inv' = inv
    BY <1>0, <1>11, PalItemsAssumption DEF UseOn, UsedUp, TypeOK, Things
  <2> QED BY <1>0, <1>11, <2>1, TakeApart DEF UseOn, UsedUp
<1>12. ASSUME NEW r \in Roles, EquipOn(r) PROVE Apart(inv')
  <2>1. hand \in Items /\ Wear(r, hand) BY <1>0, <1>12 DEF EquipOn, TypeOK, Things
  <2>2. PartOf[hand] \in Parts BY <2>1, PalItemsAssumption
  <2>3. ComesOff(r, hand) \in Things BY <1>0, <2>2 DEF ComesOff, TypeOK
  <2> QED BY <1>0, <2>1, <2>3, SwappedApart DEF Wear
<1>13. ASSUME Back PROVE Apart(inv') BY <1>0, <1>13, ShownApart DEF Back
<1>14. ASSUME NEW i \in Slots, Sell(i) PROVE Apart(inv')
  <2>1. inv[i].item \in Items BY <1>14, SelectableItem, PalItemsAssumption DEF Sell
  <2>2. TakeItem(inv, inv[i].item, 1) \in [Slots -> Entry] BY <1>0, <2>1, TakeTyped
  <2>3. Apart(TakeItem(inv, inv[i].item, 1)) BY <1>0, <2>1, TakeApart
  <2> QED BY <1>14, <2>2, <2>3, CompressedApart DEF Sell
<1>15. CASE UNCHANGED vars BY <1>15 DEF vars
<1> QED BY <1>1, <1>2, <1>3, <1>4, <1>5, <1>6, <1>7, <1>8, <1>9, <1>10, <1>11, <1>12, <1>13,
           <1>14, <1>15 DEF Next

-----------------------------------------------------------------------------
(* What the menu that equips keeps.                                        *)

\* Every item of the array counts for itself alone.
Listed(v) == \A i \in Slots : v[i].item # NoItem => Clear(v, i)

LEMMA AmountIs ==
  ASSUME NEW v \in [Slots -> Entry], NEW i \in Slots, Clear(v, i)
  PROVE  ItemAmount(v, v[i].item) = v[i].amount
<1>1. Search(v, v[i].item) = i BY SearchIs
<1> QED BY <1>1 DEF ItemAmount, Found

LEMMA AmountNone ==
  ASSUME NEW v, NEW x, \A i \in Slots : v[i].item # x
  PROVE  ItemAmount(v, x) = 0
BY DEF ItemAmount, Found

\* An array as long as the list of items always has a place for an item.
LEMMA RoomForAll ==
  ASSUME Cardinality(Items) <= MaxInventory,
         NEW v \in [Slots -> Entry], Listed(v), NEW it \in Items
  PROVE  Stops(v, it) # {}
<1> SUFFICES ASSUME \A i \in Slots : v[i].item \notin {it, NoItem} PROVE FALSE
  BY DEF Stops
<1> DEFINE f == [i \in Slots |-> v[i].item]
<1>1. f \in [Slots -> Items \ {it}] BY DEF Entry, Things
<1>2. ASSUME NEW i \in Slots, NEW k \in Slots, f[i] = f[k] PROVE i = k
  <2>1. Clear(v, i) /\ Clear(v, k) BY DEF Listed
  <2>2. i \in 1..MaxInventory /\ k \in 1..MaxInventory /\ MaxInventory \in Nat
    BY PalItemsAssumption DEF Slots
  <2>3. ~(i < k) BY <1>2, <2>1, <2>2 DEF Clear
  <2>4. ~(k < i) BY <1>2, <2>1, <2>2 DEF Clear
  <2> QED BY <2>2, <2>3, <2>4
<1> HIDE DEF f
<1>3. f \in Injection(Slots, Items \ {it})
  BY <1>1, <1>2 DEF Injection, IsInjective
<1>4. IsFiniteSet(Items) BY PalItemsAssumption
<1>5. /\ IsFiniteSet(Items \ {it})
      /\ Cardinality(Items \ {it}) = Cardinality(Items) - 1
  BY <1>4, FS_RemoveElement
<1>6. Cardinality(Slots) <= Cardinality(Items \ {it}) BY <1>3, <1>5, FS_Injection
<1>7. Cardinality(Slots) = MaxInventory
  <2>1. MaxInventory \in Nat /\ MaxInventory >= 1 BY PalItemsAssumption
  <2> QED BY <2>1, FS_Interval DEF Slots
<1>8. Cardinality(Items) \in Nat BY <1>4, FS_CardinalityType
<1> QED BY <1>5, <1>6, <1>7, <1>8, PalItemsAssumption

\* Taking one takes it from its item alone.
LEMMA TakeOne ==
  ASSUME NEW v \in [Slots -> Entry], Listed(v), NEW it \in Items, ItemAmount(v, it) > 0
  PROVE  /\ Listed(TakeItem(v, it, 1))
         /\ ItemAmount(TakeItem(v, it, 1), it) = ItemAmount(v, it) - 1
         /\ \A x \in Items \ {it} : ItemAmount(TakeItem(v, it, 1), x) = ItemAmount(v, x)
<1> DEFINE w == TakeItem(v, it, 1)
<1>1. \A k \in Slots : w[k].item = v[k].item /\ (v[k].item # it => w[k] = v[k])
  BY TakeEntries
<1>2. w \in [Slots -> Entry] BY TakeTyped
<1>3. PICK s \in Slots : s = Search(v, it) /\ v[s].item = it
  BY DEF ItemAmount, Found
<1>4. w[s].amount = v[s].amount - 1 /\ ItemAmount(v, it) = v[s].amount
  <2>1. Found(v, it) /\ ItemAmount(v, it) = v[s].amount BY <1>3 DEF Found, ItemAmount
  <2>2. v[s] \in Entry /\ v[s].amount \in 0..MaxAmount BY <1>3 DEF Entry
  <2>3. w[s].amount = IF v[s].amount < 1 THEN 0 ELSE v[s].amount - 1
    BY <1>3, <2>1, <2>2 DEF TakeItem, Entry
  <2> QED BY <2>1, <2>2, <2>3, PalItemsAssumption
<1> HIDE DEF w
<1>5. \A i \in Slots : Clear(v, i) => Clear(w, i)
  <2>1. \A i \in Slots : \A k \in 1..i - 1 : k \in Slots BY PalItemsAssumption DEF Slots
  <2> QED BY <1>1, <2>1 DEF Clear
<1>6. Listed(w) BY <1>1, <1>5 DEF Listed
<1>7. ItemAmount(w, it) = w[s].amount
  <2>1. Clear(w, s) /\ w[s].item = it BY <1>1, <1>3, <1>6, PalItemsAssumption DEF Listed
  <2> QED BY <1>2, <2>1, AmountIs
<1>8. ASSUME NEW x \in Items \ {it} PROVE ItemAmount(w, x) = ItemAmount(v, x)
  <2>1. CASE \A i \in Slots : v[i].item # x
    <3>1. \A i \in Slots : w[i].item # x BY <1>1, <2>1
    <3> QED BY <2>1, <3>1, AmountNone
  <2>2. CASE \E i \in Slots : v[i].item = x
    <3>1. PICK i \in Slots : v[i].item = x BY <2>2
    <3>2. Clear(v, i) /\ Clear(w, i) /\ w[i] = v[i]
      BY <1>1, <1>5, <1>8, <3>1, PalItemsAssumption DEF Listed
    <3>3. ItemAmount(w, x) = w[i].amount BY <1>2, <3>1, <3>2, AmountIs
    <3>4. ItemAmount(v, x) = v[i].amount BY <3>1, <3>2, AmountIs
    <3> QED BY <3>2, <3>3, <3>4
  <2> QED BY <2>1, <2>2
<1> QED BY <1>4, <1>6, <1>7, <1>8 DEF w

\* Adding one adds it to its item alone.
LEMMA AddOne ==
  ASSUME Cardinality(Items) <= MaxInventory,
         NEW v \in [Slots -> Entry], Listed(v), NEW it \in Items
  PROVE  /\ Listed(AddItem(v, it, 1))
         /\ ItemAmount(AddItem(v, it, 1), it) = Capped(ItemAmount(v, it) + 1)
         /\ \A x \in Items \ {it} : ItemAmount(AddItem(v, it, 1), x) = ItemAmount(v, x)
<1> DEFINE w == AddItem(v, it, 1)
<1>0. it # NoItem /\ 1 \in Nat BY PalItemsAssumption
<1>1. PICK s \in Slots :
        /\ s = Search(v, it)
        /\ v[s].item \in {it, NoItem}
        /\ w[s].item = it
        /\ w[s].amount = Capped(IF v[s].item = it THEN v[s].amount + 1 ELSE 1)
        /\ \A k \in Slots \ {s} : w[k] = v[k]
  BY <1>0, AddEntries, RoomForAll
<1>2. w \in [Slots -> Entry] BY <1>0, AddTyped
<1>3. \A i \in Slots : Clear(v, i) \/ w[i] # v[i] => Clear(w, i) BY <1>0, AddClear
<1> HIDE DEF w
<1>4. Listed(w)
  <2> SUFFICES ASSUME NEW i \in Slots, w[i].item # NoItem PROVE Clear(w, i) BY DEF Listed
  <2>1. CASE w[i] = v[i] BY <1>3, <2>1 DEF Listed
  <2>2. CASE w[i] # v[i] BY <1>3, <2>2
  <2> QED BY <2>1, <2>2
<1>5. ItemAmount(w, it) = w[s].amount
  <2>1. Clear(w, s) BY <1>0, <1>1, <1>4 DEF Listed
  <2> QED BY <1>1, <1>2, <2>1, AmountIs
<1>6. ItemAmount(v, it) = IF v[s].item = it THEN v[s].amount ELSE 0
  BY <1>1 DEF ItemAmount, Found
<1>7. w[s].amount = Capped(ItemAmount(v, it) + 1)
  <2>1. CASE v[s].item = it BY <1>1, <1>6, <2>1
  <2>2. CASE v[s].item # it
    <3>1. ItemAmount(v, it) + 1 = 1 BY <1>6, <2>2
    <3> QED BY <1>1, <2>2, <3>1
  <2> QED BY <2>1, <2>2
<1>8. ASSUME NEW x \in Items \ {it} PROVE ItemAmount(w, x) = ItemAmount(v, x)
  <2>0. x # NoItem BY PalItemsAssumption
  <2>1. CASE \A i \in Slots : v[i].item # x
    <3>1. \A i \in Slots : w[i].item # x BY <1>1, <1>8, <2>1
    <3> QED BY <2>1, <3>1, AmountNone
  <2>2. CASE \E i \in Slots : v[i].item = x
    <3>1. PICK i \in Slots : v[i].item = x BY <2>2
    <3>2. i # s BY <1>1, <1>8, <2>0, <3>1
    <3>3. Clear(v, i) /\ Clear(w, i) /\ w[i] = v[i]
      BY <1>1, <1>3, <2>0, <3>1, <3>2 DEF Listed
    <3>4. ItemAmount(w, x) = w[i].amount BY <1>2, <3>1, <3>3, AmountIs
    <3>5. ItemAmount(v, x) = v[i].amount BY <3>1, <3>3, AmountIs
    <3> QED BY <3>3, <3>4, <3>5
  <2> QED BY <2>1, <2>2
<1> QED BY <1>4, <1>5, <1>7, <1>8 DEF w

\* How many roles and parts wear x.
On(e, x) == {rp \in Roles \X Parts : e[rp[1]][rp[2]] = x}

LEMMA OnFinite ==
  ASSUME NEW e, NEW x
  PROVE  IsFiniteSet(On(e, x)) /\ Cardinality(On(e, x)) \in Nat
<1>1. NRoles \in Nat /\ NParts \in Nat BY PalItemsAssumption
<1>2. IsFiniteSet(Roles) /\ IsFiniteSet(Parts) BY <1>1, FS_Interval DEF Roles, Parts
<1>3. IsFiniteSet(Roles \X Parts) BY <1>2, FS_Product
<1>4. IsFiniteSet(On(e, x)) BY <1>3, FS_Subset DEF On
<1> QED BY <1>4, FS_CardinalityType

\* What the menu that equips starts from: the list it is opened from has no
\* entry with nothing left, and the item in hand is in the inventory.
HandThere ==
  /\ menu = "wear" => \A j \in Slots : inv[j].item # NoItem => inv[j].amount > 0
  /\ menu = "equip" => /\ Listed(inv)
                       /\ hand # NoItem => ItemAmount(inv, hand) > 0

LEMMA EquipSwaps ==
  ASSUME Cardinality(Items) <= MaxInventory, IInv, HandThere,
         NEW r \in Roles, EquipOn(r)
  PROVE  /\ Listed(inv')
         /\ hand' # NoItem => ItemAmount(inv', hand') > 0
         /\ \A it \in Items :
              \/ Owned(it)' = Owned(it)
              \/ it = hand' /\ ItemAmount(inv, it) = MaxAmount
<1> DEFINE p == PartOf[hand]
           off == ComesOff(r, hand)
           taken == TakeItem(inv, hand, 1)
<1>1. /\ inv \in [Slots -> Entry] /\ equip \in [Roles -> [Parts -> Things]]
      /\ hand \in Items /\ p \in Parts /\ Wear(r, hand)
  BY PalItemsAssumption DEF IInv, TypeOK, EquipOn, Things
<1>2. Listed(inv) /\ ItemAmount(inv, hand) > 0 BY <1>1, PalItemsAssumption DEF HandThere, EquipOn
<1>3. off = equip[r][p] /\ off \in Things BY <1>1 DEF ComesOff
<1>4. CASE off = hand
  <2>1. UNCHANGED <<inv, equip, hand>> BY <1>1, <1>3, <1>4 DEF Wear
  <2> QED BY <1>2, <2>1 DEF Owned
<1>5. CASE off # hand
  <2>1. /\ equip' = [equip EXCEPT ![r][p] = hand]
        /\ inv' = Swapped(inv, hand, off)
        /\ hand' = off
    BY <1>1, <1>3, <1>5 DEF Wear
  <2>2. taken \in [Slots -> Entry] BY <1>1, TakeTyped
  <2>3. /\ Listed(taken)
        /\ ItemAmount(taken, hand) = ItemAmount(inv, hand) - 1
        /\ \A x \in Items \ {hand} : ItemAmount(taken, x) = ItemAmount(inv, x)
    BY <1>1, <1>2, TakeOne
  <2>4. inv' = IF off = NoItem THEN taken ELSE AddItem(taken, off, 1) BY <2>1 DEF Swapped
  <2> HIDE DEF taken, off, p
  <2>5. \A x \in Items : ItemAmount(inv, x) \in 0..MaxAmount
    BY <1>1, PalItemsAssumption DEF ItemAmount, Found, Entry
  <2>6. /\ Listed(inv')
        /\ off # NoItem => ItemAmount(inv', off) = Capped(ItemAmount(inv, off) + 1)
        /\ \A x \in Items \ {off} : ItemAmount(inv', x) = ItemAmount(taken, x)
    <3>1. CASE off = NoItem BY <2>3, <2>4, <3>1
    <3>2. CASE off # NoItem
      <4>1. off \in Items BY <1>3, <3>2 DEF Things
      <4>2. /\ Listed(inv')
            /\ ItemAmount(inv', off) = Capped(ItemAmount(taken, off) + 1)
            /\ \A x \in Items \ {off} : ItemAmount(inv', x) = ItemAmount(taken, x)
        BY <2>2, <2>3, <2>4, <3>2, <4>1, AddOne
      <4>3. ItemAmount(taken, off) = ItemAmount(inv, off) BY <1>5, <2>3, <4>1
      <4> QED BY <4>2, <4>3
    <3> QED BY <3>1, <3>2
  <2>7. hand' # NoItem => ItemAmount(inv', hand') > 0
    <3> SUFFICES ASSUME off # NoItem PROVE ItemAmount(inv', off) > 0 BY <2>1
    <3>1. off \in Items BY <1>3 DEF Things
    <3>2. ItemAmount(inv, off) \in 0..MaxAmount BY <2>5, <3>1
    <3>3. MaxAmount \in Nat /\ MaxAmount >= 1 BY PalItemsAssumption
    <3>4. Capped(ItemAmount(inv, off) + 1) > 0 BY <3>2, <3>3 DEF Capped
    <3> QED BY <2>6, <3>4
  <2>8. \A x : Cardinality(On(equip, x)) \in Nat /\ IsFiniteSet(On(equip, x)) BY OnFinite
  <2>9. \A x \in Items :
          Cardinality(On(equip', x)) =
            Cardinality(On(equip, x)) + (IF x = hand THEN 1 ELSE IF x = off THEN -1 ELSE 0)
    <3> TAKE x \in Items
    <3>1. <<r, p>> \in Roles \X Parts BY <1>1
    <3>2. \A q \in Roles \X Parts :
            equip'[q[1]][q[2]] = IF q = <<r, p>> THEN hand ELSE equip[q[1]][q[2]]
      BY <1>1, <2>1
    <3>3. CASE x = hand
      <4>1. On(equip', x) = On(equip, x) \cup {<<r, p>>} BY <3>1, <3>2, <3>3 DEF On
      <4>2. <<r, p>> \notin On(equip, x) BY <1>3, <1>5, <3>3 DEF On
      <4> QED BY <2>8, <3>3, <4>1, <4>2, FS_AddElement
    <3>4. CASE x # hand /\ x = off
      <4>1. On(equip', x) = On(equip, x) \ {<<r, p>>} BY <3>1, <3>2, <3>4 DEF On
      <4>2. <<r, p>> \in On(equip, x) BY <1>3, <3>1, <3>4 DEF On
      <4> QED BY <2>8, <3>4, <4>1, <4>2, FS_RemoveElement
    <3>5. CASE x # hand /\ x # off
      <4>1. On(equip', x) = On(equip, x) BY <1>3, <3>1, <3>2, <3>5 DEF On
      <4> QED BY <2>8, <3>5, <4>1
    <3> QED BY <3>3, <3>4, <3>5
  <2>10. ASSUME NEW it \in Items
         PROVE  \/ Owned(it)' = Owned(it)
                \/ it = hand' /\ ItemAmount(inv, it) = MaxAmount
    <3>1. /\ Owned(it) = ItemAmount(inv, it) + Cardinality(On(equip, it))
          /\ Owned(it)' = ItemAmount(inv', it) + Cardinality(On(equip', it))
      BY DEF Owned, On
    <3>2. ItemAmount(inv, it) \in 0..MaxAmount /\ MaxAmount \in Nat BY <2>5, PalItemsAssumption
    <3>3. CASE it = hand
      <4>1. ItemAmount(inv', it) = ItemAmount(inv, it) - 1 BY <1>1, <1>5, <2>3, <2>6, <3>3
      <4>2. Cardinality(On(equip', it)) = Cardinality(On(equip, it)) + 1 BY <2>9, <3>3
      <4>3. Cardinality(On(equip, it)) \in Nat BY <2>8
      <4> QED BY <3>1, <3>2, <4>1, <4>2, <4>3
    <3>4. CASE it # hand /\ it = off
      <4>1. ItemAmount(inv', it) = Capped(ItemAmount(inv, it) + 1)
        BY <2>6, <3>4, PalItemsAssumption
      <4>2. Cardinality(On(equip', it)) = Cardinality(On(equip, it)) - 1 BY <2>9, <3>4
      <4>3. Cardinality(On(equip, it)) \in Nat BY <2>8
      <4>4. ItemAmount(inv, it) = MaxAmount \/ ItemAmount(inv', it) = ItemAmount(inv, it) + 1
        BY <3>2, <4>1 DEF Capped
      <4> QED BY <2>1, <3>1, <3>2, <3>4, <4>2, <4>3, <4>4
    <3>5. CASE it # hand /\ it # off
      <4>1. ItemAmount(inv', it) = ItemAmount(inv, it) BY <2>3, <2>6, <3>5
      <4>2. Cardinality(On(equip', it)) = Cardinality(On(equip, it)) BY <2>8, <2>9, <3>5
      <4> QED BY <3>1, <4>1, <4>2
    <3> QED BY <3>3, <3>4, <3>5
  <2> QED BY <2>6, <2>7, <2>10
<1> QED BY <1>4, <1>5

LEMMA StaysThere ==
  ASSUME Cardinality(Items) <= MaxInventory, IInv, Apart(inv), HandThere, [Next]_vars
  PROVE  HandThere'
<1>0. inv \in [Slots -> Entry] /\ TypeOK BY DEF IInv, TypeOK
<1>1. ASSUME menu' = menu, inv' = inv, hand' = hand PROVE HandThere'
  BY <1>1 DEF HandThere, Listed, Clear
<1>2. ASSUME menu' \notin {"wear", "equip"} PROVE HandThere' BY <1>2 DEF HandThere
<1>3. ASSUME NEW m, menu' = m, m \in {"select", "wear", "sell"}, inv' = Shown(m)
      PROVE  HandThere'
  BY <1>0, <1>3, ShownApart DEF HandThere
<1>4. ASSUME NEW it \in Items, NEW n \in -MaxGiven..MaxGiven, ScriptAdd(it, n) PROVE HandThere'
  BY <1>2, <1>4 DEF ScriptAdd, Quiet
<1>5. ASSUME NEW it \in Items, NEW n \in 1..MaxGiven, ScriptRemove(it, n) PROVE HandThere'
  BY <1>2, <1>5 DEF ScriptRemove, Quiet
<1>6. ASSUME NEW r \in Roles, NEW p \in Parts, ScriptUnequip(r, p) PROVE HandThere'
  BY <1>2, <1>6 DEF ScriptUnequip, Quiet
<1>7. ASSUME NEW n \in 1..MaxCash, ScriptCash(n) PROVE HandThere'
  BY <1>2, <1>7 DEF ScriptCash, Quiet
<1>8. ASSUME NEW it \in Items, Buy(it) PROVE HandThere' BY <1>2, <1>8 DEF Buy, Quiet
<1>9. ASSUME SaveAndLoad PROVE HandThere' BY <1>2, <1>9 DEF SaveAndLoad, Quiet
<1>10. ASSUME NEW m \in {"select", "wear", "sell"}, Open(m) PROVE HandThere'
  BY <1>3, <1>10 DEF Open
<1>11. ASSUME Cancel PROVE HandThere' BY <1>2, <1>11 DEF Cancel
<1>12. ASSUME NEW i \in Slots, NEW ok \in BOOLEAN, UseOnAll(i, ok) PROVE HandThere'
  BY <1>2, <1>12 DEF UseOnAll
<1>13. ASSUME NEW i \in Slots, ChooseItem(i) PROVE HandThere'
  <2>1. CASE menu = "select"
    <3>1. menu' = "use" BY <1>13, <2>1 DEF ChooseItem
    <3> QED BY <1>2, <3>1
  <2>2. CASE menu = "wear"
    <3>1. menu' = "equip" /\ inv' = inv /\ hand' = inv[i].item
      BY <1>13, <2>2 DEF ChooseItem
    <3>2. Listed(inv) BY <2>2 DEF HandThere, Listed, Apart
    <3>3. inv[i].item \in Items
      BY <1>13, SelectableItem, FlaggedItems, PalItemsAssumption DEF ChooseItem
    <3>4. ItemAmount(inv, inv[i].item) = inv[i].amount
      BY <1>0, <3>2, <3>3, AmountIs, PalItemsAssumption DEF Listed
    <3>5. inv[i].amount > 0 BY <2>2, <3>3, PalItemsAssumption DEF HandThere
    <3> QED BY <3>1, <3>2, <3>4, <3>5 DEF HandThere
  <2> QED BY <1>13, <2>1, <2>2 DEF ChooseItem
<1>14. ASSUME NEW ok \in BOOLEAN, UseOn(ok) PROVE HandThere' BY <1>2, <1>14 DEF UseOn
<1>15. ASSUME NEW r \in Roles, EquipOn(r) PROVE HandThere'
  <2>1. menu = "equip" /\ menu' = menu BY <1>15 DEF EquipOn
  <2>2. Listed(inv') /\ (hand' # NoItem => ItemAmount(inv', hand') > 0) BY <1>15, EquipSwaps
  <2> QED BY <2>1, <2>2 DEF HandThere
<1>16. ASSUME Back PROVE HandThere' BY <1>3, <1>16 DEF Back
<1>17. ASSUME NEW i \in Slots, Sell(i) PROVE HandThere' BY <1>2, <1>17 DEF Sell
<1>18. CASE UNCHANGED vars BY <1>1, <1>18 DEF vars
<1> QED BY <1>4, <1>5, <1>6, <1>7, <1>8, <1>9, <1>10, <1>11, <1>12, <1>13, <1>14, <1>15,
           <1>16, <1>17, <1>18 DEF Next

-----------------------------------------------------------------------------
(* Theorems.                                                               *)

\* Types and effects hold in every reachable state.
THEOREM Invariance == Spec => []IInv
<1>1. Init => IInv BY Initially
<1>2. IInv /\ [Next]_vars => IInv' BY Inductive
<1> QED BY <1>1, <1>2, PTL DEF Spec

\* The variables keep their types: no amount ever leaves 0..MaxAmount, no
\* cash is negative, whatever the scripts give and the player sells
\* (PAL_AddItemToInventory).
THEOREM Typing == Spec => []TypeOK
<1>1. IInv => TypeOK BY DEF IInv
<1> QED BY <1>1, Invariance, PTL

\* The effects accounted for are those of the items worn, whichever way an
\* item came on or off (PAL_RemoveEquipmentEffect, PAL_UpdateEquipments).
THEOREM Effects == Spec => []EffectsFollow
<1>1. IInv => EffectsFollow BY DEF IInv
<1> QED BY <1>1, Invariance, PTL

\* Every entry that counts is the one a search for its item ends at, whatever
\* was added, taken, worn, used, sold, compressed or appended to a menu
\* (PAL_AddItemToInventory, PAL_CompressInventory, PAL_ItemSelectMenuInit).
THEOREM Visible == Spec => []NothingHidden
<1>1. Init => Apart(inv) BY DEF Init, Apart, Empty
<1>2. IInv /\ Apart(inv) /\ [Next]_vars => Apart(inv)' BY StaysApart
<1>3. Apart(inv) => NothingHidden BY HiddenIsApart
<1> QED BY <1>1, <1>2, <1>3, Invariance, PTL DEF Spec

\* The menu that equips makes no item and loses none, over any number of
\* swaps between the roles, when the inventory has a place for every kind of
\* item there is (PAL_EquipItemMenu, instruction 0x18).
THEOREM Conserves ==
  ASSUME Cardinality(Items) <= MaxInventory
  PROVE  Spec => EquipConserves
<1> DEFINE J == IInv /\ Apart(inv) /\ HandThere
           A == \A r \in Roles :
                  EquipOn(r) => \A it \in Items :
                    \/ Owned(it)' = Owned(it)
                    \/ it = hand' /\ ItemAmount(inv, it) = MaxAmount
<1>1. Init => J
  BY Initially DEF Init, Apart, Empty, HandThere
<1>2. J /\ [Next]_vars => J' BY Inductive, StaysApart, StaysThere
<1>3. J /\ [Next]_vars => [A]_vars BY EquipSwaps
<1>4. EquipConserves <=> [][A]_vars BY DEF EquipConserves
<1> QED BY <1>1, <1>2, <1>3, <1>4, PTL DEF Spec
=============================================================================
