------------------------------ MODULE PalItems ------------------------------
(***************************************************************************)
(* The belongings of the party in the port of Sword and Fairy:             *)
(*   - the inventory, an array whose entries end at the first empty one    *)
(*     (game/src/nemu-pal/global/global.c);                                *)
(*   - what each role wears and the effects that are accounted for it;     *)
(*   - the menus that use, equip, buy and sell (game/play.c, ui/uigame.c,  *)
(*     ui/itemmenu.c) and the script instructions that give, take and      *)
(*     strip (game/script.c).                                              *)
(* A script runs to its end before the game goes on, so an instruction is  *)
(* an action; a menu waits for keys, so each of its answers is one.        *)
(***************************************************************************)
EXTENDS Integers, FiniteSets

CONSTANTS Items, NoItem,
          NRoles, NParts,     \* roles of the party, body parts (6 in the game)
          PartOf, WornBy,     \* the part an item is worn on, the roles it fits
          Usable, ToAll, Consuming, Sellable,     \* its flags
          Price,
          MaxInventory,       \* 256 in the game
          MaxAmount,          \* 99 in the game
          MaxGiven,           \* bound: items of one script instruction
          MaxCash             \* bound: cash

Slots == 1..MaxInventory
Roles == 1..NRoles
Parts == 1..NParts

ASSUME PalItemsAssumption ==
  /\ NoItem \notin Items /\ IsFiniteSet(Items)
  /\ NRoles \in Nat \ {0} /\ NParts \in Nat \ {0}
  /\ PartOf \in [Items -> Parts] /\ WornBy \in [Items -> SUBSET Roles]
  /\ Usable \subseteq Items /\ ToAll \subseteq Items
  /\ Consuming \subseteq Items /\ Sellable \subseteq Items
  /\ Price \in [Items -> Nat]
  /\ MaxInventory \in Nat \ {0} /\ MaxAmount \in Nat \ {0}
  /\ MaxGiven \in Nat /\ MaxCash \in Nat
  \* the data of the game: what is worn is not used up
  /\ \A it \in Consuming : WornBy[it] = {}

Things == Items \cup {NoItem}

VARIABLES inv,        \* gpGlobals->rgInventory
          equip,      \* PlayerRoles.rgwEquipment, by role and part
          effect,     \* the item whose effects rgEquipmentEffect holds
          cash,       \* gpGlobals->dwCash
          menu,       \* the menu that waits for a key
          hand        \* the item the menu is about, wLastUnequippedItem

vars == <<inv, equip, effect, cash, menu, hand>>

Entry == [item : Things, amount : 0..MaxAmount, inUse : {-1, 0}]
Empty == [item |-> NoItem, amount |-> 0, inUse |-> 0]

-----------------------------------------------------------------------------
(* global.c: the inventory                                                 *)

\* Where a search for an item ends: at its entry or at the first empty one.
Stops(v, it) == {i \in Slots : v[i].item \in {it, NoItem}}
Search(v, it) ==
  IF Stops(v, it) = {} THEN MaxInventory + 1
  ELSE CHOOSE i \in Stops(v, it) : \A k \in Stops(v, it) : i <= k
Found(v, it) == \E i \in Slots : i = Search(v, it) /\ v[i].item = it

\* PAL_GetItemAmount
ItemAmount(v, it) == IF Found(v, it) THEN v[Search(v, it)].amount ELSE 0

Capped(n) == IF n > MaxAmount THEN MaxAmount ELSE n

\* PAL_AddItemToInventory with a positive number.  A full inventory refuses,
\* and no caller looks at the answer.
AddItem(v, it, n) ==
  IF Search(v, it) > MaxInventory THEN v
  ELSE [v EXCEPT ![Search(v, it)] = [item |-> it, inUse |-> @.inUse,
          amount |-> Capped(IF Found(v, it) THEN @.amount + n ELSE n)]]

\* PAL_AddItemToInventory with a negative number: FALSE when there are fewer,
\* and those are gone all the same.
CanTake(v, it, n) == ItemAmount(v, it) >= n /\ Found(v, it)
TakeItem(v, it, n) ==
  IF Found(v, it)
  THEN [v EXCEPT ![Search(v, it)].amount = IF @ < n THEN 0 ELSE @ - n]
  ELSE v

\* The entries of the positions S of v, moved together.
Packed(v, S) ==
  [j \in Slots |->
     LET At == {i \in S : Cardinality({k \in S : k < i}) = j - 1}
     IN  IF At = {} THEN Empty ELSE v[CHOOSE i \in At : TRUE]]

\* Bug: an entry with nothing left is cleared where it stands.
ClearedInPlace(v) == [i \in Slots |-> IF v[i].amount > 0 THEN v[i] ELSE Empty]

\* PAL_CompressInventory
Compressed(v) ==
  Packed(v, {i \in Slots : /\ v[i].amount > 0
                           /\ \A k \in 1..i : v[k].item # NoItem})

\* PAL_ItemSelectMenuInit for things to use: worn ones follow the inventory,
\* as entries with an amount of 0 of which -1 are in use.
Worn == [k \in 1..NRoles * NParts |->
           equip[(k - 1) \div NParts + 1][((k - 1) % NParts) + 1]]
WithWorn(v) ==
  LET all == [k \in 1..MaxInventory + NRoles * NParts |->
                IF k \in Slots THEN v[k]
                ELSE [item |-> Worn[k - MaxInventory], amount |-> 0, inUse |-> -1]]
  IN  Packed(all, {k \in DOMAIN all : /\ all[k].item # NoItem
                                      /\ k \notin Slots => all[k].item \in Usable})

\* ui/itemmenu.c: an entry the menu lets the player choose.
Selectable(i, flagged) ==
  inv[i].item \in flagged /\ inv[i].amount > inv[i].inUse

-----------------------------------------------------------------------------
(* What roles wear.  The script of an item (instruction 0x18 and those that *)
(* follow it) removes the effects of the part, swaps the items unless the   *)
(* role wears this one already, and sets the effects anew.                  *)

\* Bug: what was worn is read after it was overwritten.
WornAfter(r, it) == it

\* The item that comes off.
ComesOff(r, it) == equip[r][PartOf[it]]

Swapped(v, it, off) ==
  LET taken == TakeItem(v, it, 1)
  IN  IF off = NoItem THEN taken ELSE AddItem(taken, off, 1)

Wear(r, it) ==
  /\ effect' = [effect EXCEPT ![r][PartOf[it]] = it]
  /\ IF equip[r][PartOf[it]] = it
     THEN UNCHANGED <<inv, equip, hand>>
     ELSE /\ equip' = [equip EXCEPT ![r][PartOf[it]] = it]
          /\ inv' = Swapped(inv, it, ComesOff(r, it))
          /\ hand' = ComesOff(r, it)

\* Bug: an item is taken off and its effects stay.
EffectsKept(taken) == effect

\* PAL_RemoveEquipmentEffect of the parts taken off.
EffectsLeft(taken) ==
  [r \in Roles |-> [p \in Parts |-> IF <<r, p>> \in taken THEN NoItem ELSE effect[r][p]]]
EquipLeft(taken) ==
  [r \in Roles |-> [p \in Parts |-> IF <<r, p>> \in taken THEN NoItem ELSE equip[r][p]]]

TakeOff(taken) == equip' = EquipLeft(taken) /\ effect' = EffectsLeft(taken)

-----------------------------------------------------------------------------
(* Script instructions, run while no menu is open.                         *)

Quiet == menu = "none" /\ UNCHANGED <<menu, hand>>

\* 0x1F; the number is signed, and 0 stands for 1.
ScriptAdd(it, n) ==
  /\ Quiet
  /\ inv' = IF n >= 0 THEN AddItem(inv, it, IF n = 0 THEN 1 ELSE n)
            ELSE TakeItem(inv, it, -n)
  /\ UNCHANGED <<equip, effect, cash>>

\* 0x20: what the inventory cannot give is taken off the roles, in order.
ScriptRemove(it, n) ==
  /\ Quiet
  /\ inv' = TakeItem(inv, it, n)
  /\ IF CanTake(inv, it, n)
     THEN UNCHANGED <<equip, effect>>
     ELSE LET on == {rp \in Roles \X Parts : equip[rp[1]][rp[2]] = it}
              earlier(rp) == {q \in on : \/ q[1] < rp[1]
                                         \/ q[1] = rp[1] /\ q[2] < rp[2]}
          IN  TakeOff({rp \in on : Cardinality(earlier(rp)) < n})
  /\ UNCHANGED cash

\* 0x23 for one part of a role.
ScriptUnequip(r, p) ==
  /\ Quiet
  /\ equip[r][p] # NoItem
  /\ TakeOff({<<r, p>>})
  /\ inv' = AddItem(inv, equip[r][p], 1)
  /\ UNCHANGED cash

\* 0x1E with a positive amount.
ScriptCash(n) ==
  /\ Quiet
  /\ cash + n <= MaxCash
  /\ cash' = cash + n
  /\ UNCHANGED <<inv, equip, effect>>

\* 0x26: an item is paid for, whether or not there is room for it.
Buy(it) ==
  /\ Quiet
  /\ Price[it] <= cash
  /\ cash' = cash - Price[it]
  /\ inv' = AddItem(inv, it, 1)
  /\ UNCHANGED <<equip, effect>>

\* PAL_UpdateEquipments: the effects start from nothing and every item worn
\* runs its script again.
UpdateEquipments == effect' = equip

\* The game is saved, left and loaded.  A later load of the same slot ends in
\* the same state.
SaveAndLoad ==
  /\ Quiet
  /\ inv' = Compressed(inv)
  /\ UpdateEquipments
  /\ UNCHANGED <<equip, cash>>

-----------------------------------------------------------------------------
(* Menus.                                                                  *)

Flagged == CASE menu = "select" -> Usable
             [] menu = "wear"   -> {it \in Items : WornBy[it] # {}}
             [] menu = "sell"   -> Sellable
             [] OTHER           -> {}

\* PAL_ItemSelectMenu shows what it finds before it waits.
Shown(m) == IF m = "select" THEN WithWorn(Compressed(inv)) ELSE Compressed(inv)

Open(m) ==
  /\ menu = "none"
  /\ menu' = m /\ inv' = Shown(m) /\ hand' = NoItem
  /\ UNCHANGED <<equip, effect, cash>>

Cancel ==
  /\ menu \in {"select", "wear", "sell"}
  /\ menu' = "none" /\ hand' = NoItem
  /\ UNCHANGED <<inv, equip, effect, cash>>

\* The script of an item succeeded or not; a consuming one is then used up.
UsedUp(it, ok) == IF ok /\ it \in Consuming THEN TakeItem(inv, it, 1) ELSE inv

\* PAL_GameUseItem: an item for everyone is used at once.
UseOnAll(i, ok) ==
  /\ menu = "select"
  /\ Selectable(i, Usable \cap ToAll)
  /\ inv' = UsedUp(inv[i].item, ok)
  /\ menu' = "none"
  /\ UNCHANGED <<equip, effect, cash, hand>>

ChooseItem(i) ==
  /\ menu \in {"select", "wear"}
  /\ Selectable(i, IF menu = "select" THEN Usable \ ToAll ELSE Flagged)
  /\ menu' = IF menu = "select" THEN "use" ELSE "equip"
  /\ hand' = inv[i].item
  /\ UNCHANGED <<inv, equip, effect, cash>>

\* PAL_ItemUseMenu lets a role be chosen while there are items left.
UseOn(ok) ==
  /\ menu = "use"
  /\ ItemAmount(inv, hand) > 0
  /\ inv' = UsedUp(hand, ok)
  /\ UNCHANGED <<equip, effect, cash, menu, hand>>

\* PAL_EquipItemMenu: the item that comes off is offered next.
EquipOn(r) ==
  /\ menu = "equip" /\ hand # NoItem
  /\ r \in WornBy[hand]
  /\ Wear(r, hand)
  /\ UNCHANGED <<cash, menu>>

\* Back to the list, which is made anew.
Back ==
  /\ menu \in {"use", "equip"}
  /\ \E m \in {"select", "wear"} :
       /\ (m = "select") = (menu = "use")
       /\ menu' = m /\ inv' = Shown(m)
  /\ hand' = NoItem
  /\ UNCHANGED <<equip, effect, cash>>

Sell(i) ==
  /\ menu = "sell"
  /\ Selectable(i, Sellable)
  /\ LET it == inv[i].item
     IN  /\ inv' = Compressed(TakeItem(inv, it, 1))
         /\ cash' = IF CanTake(inv, it, 1) THEN cash + (Price[it] \div 2) ELSE cash
         /\ cash' <= MaxCash
  /\ UNCHANGED <<equip, effect, menu, hand>>

-----------------------------------------------------------------------------
Nothing == [r \in Roles |-> [p \in Parts |-> NoItem]]

Init ==
  /\ inv = [i \in Slots |-> Empty]
  /\ equip = Nothing /\ effect = Nothing
  /\ cash = 0 /\ menu = "none" /\ hand = NoItem

Next ==
  \/ \E it \in Items, n \in -MaxGiven..MaxGiven : ScriptAdd(it, n)
  \/ \E it \in Items, n \in 1..MaxGiven : ScriptRemove(it, n)
  \/ \E r \in Roles, p \in Parts : ScriptUnequip(r, p)
  \/ \E n \in 1..MaxCash : ScriptCash(n)
  \/ \E it \in Items : Buy(it)
  \/ SaveAndLoad
  \/ \E m \in {"select", "wear", "sell"} : Open(m)
  \/ Cancel
  \/ \E i \in Slots, ok \in BOOLEAN : UseOnAll(i, ok)
  \/ \E i \in Slots : ChooseItem(i)
  \/ \E ok \in BOOLEAN : UseOn(ok)
  \/ \E r \in Roles : EquipOn(r)
  \/ Back
  \/ \E i \in Slots : Sell(i)

Spec == Init /\ [][Next]_vars

-----------------------------------------------------------------------------
(* Properties.                                                             *)

\* Every variable has its type (the arrays of global.h).
TypeOK ==
  /\ inv \in [Slots -> Entry]
  /\ equip \in [Roles -> [Parts -> Things]]
  /\ effect \in [Roles -> [Parts -> Things]]
  /\ cash \in 0..MaxCash
  /\ menu \in {"none", "select", "use", "wear", "equip", "sell"}
  /\ hand \in Things

\* Every entry that counts is the one a search for its item ends at: the
\* entries have no gap that hides one, and what the menu appends for worn
\* items never splits an amount in two (PAL_AddItemToInventory,
\* PAL_GetItemAmount, PAL_ItemSelectMenuInit).
NothingHidden ==
  \A i \in Slots :
    inv[i].amount > 0 => inv[i].item # NoItem /\ Search(inv, inv[i].item) = i

\* The effects accounted for are those of the items worn, whichever way an
\* item came on or off (PAL_RemoveEquipmentEffect, PAL_UpdateEquipments).
EffectsFollow == effect = equip

Owned(it) ==
  ItemAmount(inv, it)
    + Cardinality({rp \in Roles \X Parts : equip[rp[1]][rp[2]] = it})

\* The menu that equips makes no item and loses none, except one that comes
\* off when the inventory holds all it can of its kind: instruction 0x18
\* trusts that the item in hand is in the inventory, over any number of
\* swaps between the roles.
EquipConserves ==
  [][\A r \in Roles :
       EquipOn(r) => \A it \in Items :
         \/ Owned(it)' = Owned(it)
         \/ it = hand' /\ ItemAmount(inv, it) = MaxAmount]_vars
=============================================================================
