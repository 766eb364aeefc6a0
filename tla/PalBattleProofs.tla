-------------------------- MODULE PalBattleProofs ---------------------------
(***************************************************************************)
(* The invariant of battles one after the other, for every number of       *)
(* players and slots and every set of battles, and what follows from it.   *)
(*                                                                         *)
(* It has four layers, each inductive given the ones before: the types,    *)
(* with bounds they leave open; who commands, which the steps of the menu  *)
(* decide; what the commands aim at; and the course of a frame, which says *)
(* what those who act in it may rely on.                                   *)
(***************************************************************************)
EXTENDS PalBattle, FiniteSetTheorems, WellFoundedInduction, TLAPS

\* The types of the records.
EnemyType == [body : {"up", "struck", "gone"}, state : {"wait", "com", "act"},
              meter : 0..MaxFull + 1, turn : BOOLEAN, dual : BOOLEAN, first : BOOLEAN]
CommandKinds == Kinds \cup {"attack", "defend", "pass", "mate"}
Targets == 0..NPlayers + NSlots
PlayerType == [state : {"wait", "com", "act"}, meter : 0..Cap, left : 0..1,
               kind : CommandKinds, target : Targets]
UIType == [state : {"wait", "move", "menu", "target"}, cur : 0..NPlayers,
           kind : Kinds \cup {"none"}, prev : Slots]

\* What the types do not say of the numbers: a meter that still fills, whose
\* turn it is, whose menu is shown, and whom an item is for.
Bounds ==
  /\ \A e \in Slots : enemy[e].state = "wait" => enemy[e].meter <= Full
  /\ pc \in {"enemies", "enemyActs", "enemyDone"} => at \in 1..battle.last
  /\ pc \in {"playerActs", "playerDone"} => at \in Players
  /\ ui.state # "wait" => ui.cur \in Players
  /\ ui.state = "target" => ui.kind \in Kinds
  /\ \A p \in Players : player[p].kind = "item" => player[p].target \in Players

Types == TypeOK /\ Bounds

\* Who commands has no command yet, and only a command has a place in the order.
Menus ==
  /\ ui.state # "wait" => player[ui.cur].state # "act"
  /\ \A p \in Players : order[p] # 0 => player[p].state = "act"

\* As long as a cooperative magic waits or is cast, nobody commands.
CoopWaits ==
  \A p \in Players : player[p].state = "act" /\ player[p].kind = "coop"
     => ui.state = "wait" /\ \A q \in Players : player[q].state # "com"

EnemyKinds == {"attack", "magic", "coop", "throw"}

\* A command names an enemy of this battle, until its validation names another
\* one; and the slot behind the last enemy was cleared.
Aim(r) == r.kind \in EnemyKinds => r.target \in 0..battle.last
Validating(p) == pc \in {"playerActs", "playerDone"} /\ at = p
Edge == battle.last + 1 \in Slots => enemy[battle.last + 1].body = "gone"
Aims == Edge /\ \A p \in Players : Validating(p) \/ Aim(player[p])

\* The fallen are removed before anything else happens.
Bodies == pc # "playerDone" => \A e \in Slots : enemy[e].body # "struck"

Begun == pc \in {"enemies", "ui", "players", "choose"}

\* What a frame in which nobody has acted yet may rely on, and what one in
\* which somebody acts has decided.
Course ==
  /\ Begun /\ ~moved => ~Cleared
  /\ pc \in {"enemyActs", "enemyDone"} => moved
  /\ Begun /\ result # "ongoing" => moved
  /\ pc = "enemies" /\ ~moved /\ ~puppets => \E p \in Players : alive[p]

\* Who acts has given a command before.
Commanded == pc \in {"playerActs", "playerDone"} => player[at].state = "act"

\* An item was still there when the turn of its user came.
Supplied == pc = "playerActs" /\ player[at].kind \in {"item", "throw"} => items > 0

Commands == Menus /\ OneCommander /\ CoopWaits
Commanders == Commands /\ Commanded /\ CoopAlone
Frames == Bodies /\ Course /\ Supplied /\ TargetIsThere /\ SomebodyToHit

\* The inductive invariant.
IInv == Types /\ Commanders /\ Aims /\ Frames

-----------------------------------------------------------------------------
(* Choices and orders.                                                     *)

\* Every set of natural numbers has a least one.
LEMMA Least ==
  ASSUME NEW T, T \subseteq Nat, T # {}
  PROVE  \E x \in T : \A y \in T : x <= y
<1> DEFINE R == OpToRel(<, Nat)
<1>1. IsWellFoundedOn(R, Nat) BY NatLessThanWellFounded
<1> HIDE DEF R
<1>2. PICK x \in T : \A y \in T : ~(<<y, x>> \in R) BY <1>1, WFMin
<1>3. \A a, b \in Nat : a < b => <<a, b>> \in R BY DEF R, OpToRel
<1>4. ASSUME NEW y \in T PROVE x <= y
  <2>1. x \in Nat /\ y \in Nat OBVIOUS
  <2>2. ~(y < x) BY <1>2, <1>3, <2>1
  <2> QED BY <2>1, <2>2
<1> QED BY <1>4

\* What is assumed of the constants but the battles.
LEMMA Numbers ==
  /\ NPlayers \in Nat \ {0} /\ NSlots \in Nat /\ NSlots >= NPlayers
  /\ MaxFull \in Nat \ {0} /\ Cap \in Nat /\ MaxItems \in Nat
  /\ Kinds \subseteq {"attack", "magic", "coop", "defend", "flee", "item", "throw"}
  /\ Troubles \subseteq {"sleep", "confused"}
BY PalBattleAssumption

\* The numbers of a battle, and of what is in it.
LEMMA BattleOK ==
  ASSUME NEW b \in Battles
  PROVE  /\ b.party \in 1..NPlayers /\ b.last \in 1..NSlots
         /\ b.full \in 1..MaxFull /\ b.cap \in 0..Cap /\ b.full <= b.cap
         /\ b.items \in 0..MaxItems /\ b.troubles \subseteq Troubles
         /\ b.team \subseteq 1..b.last
         /\ 1..b.party \subseteq Players /\ 1..b.last \subseteq Slots
<1>1. b \in [party : 1..NPlayers, last : 1..NSlots, team : SUBSET Slots,
             full : 1..MaxFull, cap : 0..Cap, kinds : SUBSET Kinds,
             troubles : SUBSET Troubles, items : 0..MaxItems] BY PalBattleAssumption
<1>2. b.team \subseteq 1..b.last /\ b.full <= b.cap BY PalBattleAssumption
<1>3. b.party \in 1..NPlayers /\ b.last \in 1..NSlots BY <1>1
<1>4. 1..b.party \subseteq Players /\ 1..b.last \subseteq Slots
  BY <1>3, Numbers DEF Players, Slots
<1> QED BY <1>1, <1>2, <1>3, <1>4

LEMMA HereOK ==
  ASSUME battle \in Battles
  PROVE  Here \subseteq 1..battle.last /\ Here \subseteq Slots /\ Party \subseteq Players
BY BattleOK, Numbers DEF Here, Party, Slots

\* The automatic target is an enemy who is up, if there is one.
LEMMA AutoTargetOK ==
  ASSUME battle \in Battles
  PROVE  /\ AutoTarget \in Targets /\ AutoTarget \in 0..battle.last
         /\ (\E e \in Here : enemy[e].body = "up") => AutoTarget \in Here /\ enemy[AutoTarget].body = "up"
<1> DEFINE up == {e \in Here : enemy[e].body = "up"}
<1>1. up \subseteq 1..battle.last /\ battle.last \in 1..NSlots BY HereOK, BattleOK
<1>2. 0..battle.last \subseteq Targets BY <1>1, Numbers DEF Targets
<1>3. CASE up = {} BY <1>1, <1>2, <1>3 DEF AutoTarget, NoTarget
<1>4. CASE up # {}
  <2>0. up \subseteq Nat BY <1>1
  <2>1. \E e \in up : \A f \in up : e <= f BY <1>4, <2>0, Least
  <2>2. AutoTarget \in up
    <3>1. CASE ui.prev \in up BY <1>4, <3>1 DEF AutoTarget
    <3>2. CASE ui.prev \notin up BY <1>4, <2>1, <3>2 DEF AutoTarget
    <3> QED BY <3>1, <3>2
  <2> QED BY <1>1, <1>2, <2>2
<1> QED BY <1>3, <1>4

\* Whoever has the turn is one of those who wait for it.
LEMMA FirstOK ==
  ASSUME order \in [Players -> Nat], Turn # {}
  PROVE  (CHOOSE f \in Turn : \A q \in Turn : order[f] <= order[q]) \in Turn
<1> DEFINE T == {order[q] : q \in Turn}
<1>1. Turn \subseteq Players BY DEF Turn, Queued
<1>2. T \subseteq Nat /\ T # {} BY <1>1
<1>3. PICK x \in T : \A y \in T : x <= y BY <1>2, Least
<1>4. PICK f \in Turn : order[f] = x BY <1>3
<1>5. \A q \in Turn : order[f] <= order[q] BY <1>3, <1>4
<1> QED BY <1>4, <1>5

\* Among those whose meters are full there is a first one with the fullest.
LEMMA FullestOK ==
  ASSUME NEW F, F \subseteq Players, F # {}, \A p \in Players : player[p].meter \in 0..Cap
  PROVE  (CHOOSE p \in F : \A q \in F : \/ player[q].meter < player[p].meter
                                        \/ player[q].meter = player[p].meter /\ p <= q) \in F
<1> USE Numbers
<1> DEFINE T == {Cap - player[q].meter : q \in F}
<1>1. T \subseteq Nat /\ T # {} OBVIOUS
<1>2. PICK x \in T : \A y \in T : x <= y BY <1>1, Least
<1> DEFINE G == {q \in F : Cap - player[q].meter = x}
<1>3. G # {} BY <1>2
<1>4. G \subseteq Nat
  <2>1. Players \subseteq Nat BY DEF Players
  <2> QED BY <2>1
<1>5. PICK p \in G : \A q \in G : p <= q BY <1>3, <1>4, Least
<1>6. ASSUME NEW q \in F
      PROVE  \/ player[q].meter < player[p].meter
             \/ player[q].meter = player[p].meter /\ p <= q
  <2> DEFINE a == player[q].meter  b == player[p].meter
  <2>1. a \in Int /\ b \in Int /\ Cap \in Int OBVIOUS
  <2>2. Cap - b <= Cap - a BY <1>2, <1>5
  <2>3. q \in G <=> Cap - a = Cap - b BY <1>5
  <2>4. q \in G => p <= q BY <1>5
  <2> HIDE DEF a, b, G
  <2>5. a < b \/ (a = b /\ p <= q) BY <2>1, <2>2, <2>3, <2>4
  <2> QED BY <2>5 DEF a, b
<1>7. \E f \in F : \A q \in F : \/ player[q].meter < player[f].meter
                                \/ player[q].meter = player[f].meter /\ f <= q
  <2>1. p \in F BY <1>5
  <2> HIDE DEF T, G
  <2> QED BY <1>6, <2>1
<1> HIDE DEF T, G
<1> QED BY <1>7

\* The places in the order: who keeps one, who gets one, who has none.
LEMMA LinedOK ==
  ASSUME NEW stay \in SUBSET Players, NEW new \in SUBSET Players, stay \cap new = {}
  PROVE  /\ Lined(stay, new) \in [Players -> 0..NPlayers]
         /\ \A p \in Players : Lined(stay, new)[p] # 0 => p \in stay \cup new
<1> USE Numbers
<1>1. IsFiniteSet(Players) /\ Cardinality(Players) = NPlayers BY FS_Interval DEF Players
<1>2. ASSUME NEW S \in SUBSET Players PROVE IsFiniteSet(S) /\ Cardinality(S) \in 0..NPlayers
  <2>1. IsFiniteSet(S) /\ Cardinality(S) <= Cardinality(Players) BY <1>1, FS_Subset
  <2>2. Cardinality(S) \in Nat BY <2>1, FS_CardinalityType
  <2> QED BY <1>1, <2>1, <2>2
<1>3. ASSUME NEW p \in Players PROVE Cardinality({q \in stay : order[q] <= order[p]}) \in 0..NPlayers
  BY <1>2
<1>4. ASSUME NEW p \in Players PROVE Cardinality(stay) + Cardinality({q \in new : q <= p}) \in 0..NPlayers
  <2> DEFINE N == {q \in new : q <= p}
  <2>1. IsFiniteSet(stay) /\ IsFiniteSet(N) BY <1>2
  <2>2. Cardinality(stay \cup N) = Cardinality(stay) + Cardinality(N) - Cardinality(stay \cap N)
    BY <2>1, FS_Union
  <2>3. stay \cap N = {} OBVIOUS
  <2>4. Cardinality(stay \cap N) = 0 BY <2>3, FS_EmptySet
  <2>5. Cardinality(stay \cup N) \in 0..NPlayers BY <1>2
  <2>6. Cardinality(stay) \in Nat /\ Cardinality(N) \in Nat BY <2>1, FS_CardinalityType
  <2> QED BY <2>2, <2>4, <2>5, <2>6
<1> QED BY <1>3, <1>4 DEF Lined

-----------------------------------------------------------------------------
(* What the menu can do: look around, commit, call a player, take turns.   *)

Looks ==
  /\ ui.state # "wait" /\ ui' \in UIType /\ ui'.state # "wait" /\ ui'.cur = ui.cur
  /\ ui'.state = "target" => ui'.kind \in Kinds
  /\ UNCHANGED <<player, order>>

Commits ==
  /\ ui.state # "wait"
  /\ \E kind \in CommandKinds, t \in Targets :
       /\ Commit(ui.cur, kind, t)
       /\ kind = "coop" => ~Cleared
       /\ kind = "item" => t \in Players
       /\ kind \in EnemyKinds => t \in 0..battle.last
  /\ ui' \in UIType /\ ui'.state = "wait"

\* The menu that is closed keeps what it showed last.
LEMMA ClosedOK ==
  ASSUME Types
  PROVE  Closed \in UIType /\ Closed.state = "wait" /\ ui \in UIType
<1>1. ui \in UIType BY DEF Types, TypeOK, UIType
<1>2. 0 \in 0..NPlayers BY Numbers
<1> QED BY <1>1, <1>2 DEF Closed, UIType

Calls ==
  /\ ui.state = "wait" /\ ~Cleared /\ Commanding = {}
  /\ \E p \in Players : /\ player[p].state = "wait"
                        /\ player' = [player EXCEPT ![p].state = "com"]
                        /\ ui' = [ui EXCEPT !.state = "move", !.cur = p]
  /\ UNCHANGED order

Yields ==
  /\ ui.state # "wait"
  /\ player' \in [Players -> PlayerType]
  /\ \A p \in Players : player'[p].kind = player[p].kind /\ player'[p].target = player[p].target
  /\ \A p \in Players \ {ui.cur} : player'[p].state = player[p].state
  /\ \/ ui' = ui /\ player'[ui.cur].state = player[ui.cur].state
     \/ ui' = Closed /\ player'[ui.cur].state = "wait"
  /\ UNCHANGED order

LEMMA ReadyCalls ==
  ASSUME Types, Ready
  PROVE  Calls \/ UNCHANGED <<player, order, ui>>
<1> USE DEF Types, TypeOK
<1> DEFINE full == {p \in Party : player[p].state = "wait" /\ player[p].meter >= Full}
           next == CHOOSE p \in full : \A q \in full : \/ player[q].meter < player[p].meter
                                                       \/ player[q].meter = player[p].meter /\ p <= q
<1>1. CASE Commanding = {} /\ full # {}
  <2>1. full \subseteq Players /\ \A p \in Players : player[p].meter \in 0..Cap BY HereOK
  <2>2. next \in full BY <1>1, <2>1, FullestOK
  <2>4. next \in Players /\ player[next].state = "wait" BY <2>1, <2>2
  <2>3. /\ player' = [player EXCEPT ![next].state = "com"]
        /\ ui' = [ui EXCEPT !.state = "move", !.cur = next]
        /\ UNCHANGED order /\ ui.state = "wait" /\ ~Cleared BY <1>1 DEF Ready
  <2> HIDE DEF next
  <2> QED BY <1>1, <2>3, <2>4 DEF Calls
<1>2. CASE ~(Commanding = {} /\ full # {}) BY <1>2 DEF Ready
<1> QED BY <1>1, <1>2

LEMMA ForcedCommits ==
  ASSUME Types, Forced
  PROVE  Commits
<1> USE Numbers DEF CommandKinds
<1>1. battle \in Battles BY DEF Types, TypeOK
<1>2. /\ NoTarget \in Targets /\ AutoTarget \in Targets
      /\ NoTarget \in 0..battle.last /\ AutoTarget \in 0..battle.last
  BY <1>1, AutoTargetOK, BattleOK DEF Targets, NoTarget
<1>3. PICK kind \in {"attack", "pass", "mate"}, t \in {NoTarget, AutoTarget} : CommitAction(kind, t)
  BY DEF Forced
<1>4. ui.state # "wait" BY DEF Forced
<1>5. Commit(ui.cur, kind, t) /\ ui' = Closed BY <1>3 DEF CommitAction
<1>6. ui' \in UIType /\ ui'.state = "wait" BY <1>5, ClosedOK
<1> QED BY <1>2, <1>4, <1>5, <1>6 DEF Commits

LEMMA SwitchYields ==
  ASSUME Types, Switch
  PROVE  Yields
<1> USE Numbers
<1> DEFINE others == {p \in Party \ {ui.cur} : player[p].state = "wait" /\ player[p].meter >= Full}
<1>0. /\ battle \in Battles /\ Full \in 1..MaxFull /\ battle.cap \in 0..Cap /\ others \subseteq Players
  BY BattleOK, HereOK DEF Types, TypeOK, Full
<1>1. ui.state # "wait" /\ ui.cur \in Players /\ UNCHANGED order BY DEF Switch, Free, Types, Bounds
<1>2. player \in [Players -> PlayerType] BY DEF Types, TypeOK, PlayerType, CommandKinds, Targets
<1>3. \A p \in Players : Raised(p) \in 0..Cap
  <2>1. ASSUME NEW p \in Players PROVE Raised(p) \in 0..Cap
    <3>1. player[p].meter \in 0..Cap BY <1>2 DEF PlayerType
    <3>2. Raised(p) <= battle.cap BY DEF Switch
    <3> QED BY <1>0, <3>1, <3>2 DEF Raised
  <2> QED BY <2>1
<1>4. ASSUME others = {} PROVE Yields
  <2>1. player' = [p \in Players |-> [player[p] EXCEPT !.meter = Raised(p)]] /\ ui' = ui
    BY <1>4 DEF Switch
  <2> QED BY <1>1, <1>2, <1>3, <2>1 DEF Yields, PlayerType
<1>5. ASSUME others # {} PROVE Yields
  <2>1. PICK q \in others : GiveWay(q) BY <1>5 DEF Switch
  <2>2. ui' = Closed BY <1>5 DEF Switch
  <2>3. Raised(q) - (Full - 1) \in 0..Cap
    <3>1. q \in Players /\ player[q].meter \in 0..Cap /\ player[q].meter >= Full
      BY <1>0, <1>2 DEF PlayerType
    <3>2. Raised(q) = player[q].meter + Full BY <3>1 DEF Raised
    <3> QED BY <1>0, <1>3, <3>1, <3>2
  <2>4. player' = [p \in Players |->
          IF p = ui.cur THEN [player[p] EXCEPT !.meter = Raised(q) - (Full - 1), !.state = "wait"]
          ELSE [player[p] EXCEPT !.meter = Raised(p)]] BY <2>1 DEF GiveWay
  <2>5. player' \in [Players -> PlayerType] BY <1>2, <1>3, <2>3, <2>4 DEF PlayerType
  <2>6. \A p \in Players : player'[p].kind = player[p].kind /\ player'[p].target = player[p].target
    BY <1>2, <2>4 DEF PlayerType
  <2>7. \A p \in Players \ {ui.cur} : player'[p].state = player[p].state BY <1>2, <2>4 DEF PlayerType
  <2>8. player'[ui.cur].state = "wait" BY <1>1, <1>2, <2>4 DEF PlayerType
  <2> QED BY <1>1, <2>2, <2>5, <2>6, <2>7, <2>8 DEF Yields
<1> QED BY <1>4, <1>5

LEMMA MenuCases ==
  ASSUME Types, Menu
  PROVE  Looks \/ Commits \/ Calls \/ Yields \/ UNCHANGED <<player, order, ui>>
<1> USE Numbers
<1>0. /\ ui \in UIType /\ battle \in Battles
      /\ ui.state = "target" => ui.kind \in Kinds
      /\ NoTarget \in Targets /\ AutoTarget \in Targets
      /\ NoTarget \in 0..battle.last /\ AutoTarget \in 0..battle.last
  BY AutoTargetOK, BattleOK DEF Types, TypeOK, Bounds, UIType, Targets, NoTarget
<1>1. CASE Ready BY <1>1, ReadyCalls
<1>2. CASE Forced BY <1>2, ForcedCommits
<1>3. CASE OpenMenu BY <1>0, <1>3 DEF OpenMenu, Free, Looks, UIType
<1>4. CASE Back BY <1>0, <1>4 DEF Back, Free, Looks, UIType
<1>5. CASE ForceAttack
  BY <1>0, <1>5, ClosedOK DEF ForceAttack, Free, Commits, CommitAction, CommandKinds
<1>6. CASE Switch BY <1>6, SwitchYields
<1>7. ASSUME NEW kind \in Kinds, Choose(kind) PROVE Looks
  BY <1>0, <1>7 DEF Choose, Free, Looks, UIType
<1>8. ASSUME NEW kind \in Kinds, AtOnce(kind) PROVE Commits
  BY <1>0, <1>8, ClosedOK DEF AtOnce, Free, Commits, CommitAction, CommandKinds
<1>9. ASSUME NEW t \in Players \cup Slots, Pick(t) PROVE Commits
  <2>1. t \in Targets BY DEF Targets, Players, Slots
  <2>2. ui.state # "wait" /\ ui.kind \in CommandKinds BY <1>0, <1>9 DEF Pick, Free, CommandKinds
  <2>3. ui.kind = "item" => t \in Players BY <1>0, <1>9, HereOK DEF Pick
  <2>4. ui.kind # "item" => t \in Here BY <1>9 DEF Pick
  <2>5. /\ ui.kind = "coop" => ~Cleared
        /\ ui.kind \in EnemyKinds => t \in 0..battle.last
    BY <1>0, <2>4, HereOK, BattleOK DEF Cleared, EnemyKinds
  <2>6. Commit(ui.cur, ui.kind, t) BY <1>9 DEF Pick
  <2>7. ui' \in UIType /\ ui'.state = "wait"
    <3>1. ui' = IF ui.kind = "item" THEN Closed ELSE [Closed EXCEPT !.prev = t] BY <1>9 DEF Pick
    <3>2. Closed \in UIType /\ Closed.state = "wait" BY ClosedOK
    <3>3. ui.kind # "item" => t \in Slots BY <1>0, <2>4, HereOK
    <3> QED BY <3>1, <3>2, <3>3 DEF UIType
  <2> QED BY <2>1, <2>2, <2>3, <2>5, <2>6, <2>7 DEF Commits
<1> QED BY <1>1, <1>2, <1>3, <1>4, <1>5, <1>6, <1>7, <1>8, <1>9 DEF Menu

-----------------------------------------------------------------------------
(* Types.                                                                  *)

\* The parts of Types that the menu can disturb.
MenuTyped ==
  /\ player \in [Players -> PlayerType]
  /\ order \in [Players -> 0..NPlayers]
  /\ ui \in UIType
  /\ ui.state # "wait" => ui.cur \in Players
  /\ ui.state = "target" => ui.kind \in Kinds
  /\ \A p \in Players : player[p].kind = "item" => player[p].target \in Players

LEMMA TypesMenu == Types => MenuTyped
BY DEF Types, TypeOK, Bounds, MenuTyped, PlayerType, CommandKinds, Targets, UIType

LEMMA CommitTyped ==
  ASSUME Types, Commits
  PROVE  MenuTyped'
<1> USE DEF MenuTyped
<1>1. MenuTyped BY TypesMenu
<1>2. PICK kind \in CommandKinds, t \in Targets :
        Commit(ui.cur, kind, t) /\ (kind = "item" => t \in Players) BY DEF Commits
<1>3. ui.cur \in Players BY <1>1 DEF Commits
<1> DEFINE left == IF kind = "magic" THEN 1 ELSE 0
<1>4. /\ player' = [player EXCEPT ![ui.cur].state = "act", ![ui.cur].kind = kind,
                                  ![ui.cur].target = t, ![ui.cur].left = left]
      /\ order' = Lined(Queued \ {ui.cur}, IF left = 0 THEN {ui.cur} ELSE {})
  BY <1>2 DEF Commit
<1>5. left \in 0..1 OBVIOUS
<1>6. order' \in [Players -> 0..NPlayers]
  <2> DEFINE stay == Queued \ {ui.cur}
             new == IF left = 0 THEN {ui.cur} ELSE {}
  <2>1. stay \in SUBSET Players /\ new \in SUBSET Players /\ stay \cap new = {} BY <1>3 DEF Queued
  <2>2. order' = Lined(stay, new) BY <1>4
  <2> HIDE DEF stay, new
  <2> QED BY <2>1, <2>2, LinedOK
<1> HIDE DEF left
<1>7. player' \in [Players -> PlayerType] BY <1>1, <1>3, <1>4, <1>5 DEF PlayerType
<1>8. \A p \in Players : player'[p].kind = "item" => player'[p].target \in Players
  BY <1>1, <1>2, <1>3, <1>4 DEF PlayerType
<1>9. ui' \in UIType /\ ui'.state = "wait" BY DEF Commits
<1> QED BY <1>6, <1>7, <1>8, <1>9

LEMMA MenuTypes ==
  ASSUME Types, Menu
  PROVE  MenuTyped'
<1> USE Numbers DEF MenuTyped
<1>1. MenuTyped BY TypesMenu
<1>2. CASE Looks BY <1>1, <1>2 DEF Looks
<1>3. CASE Commits BY <1>3, CommitTyped
<1>4. CASE Calls
  <2>1. PICK p \in Players : /\ player' = [player EXCEPT ![p].state = "com"]
                             /\ ui' = [ui EXCEPT !.state = "move", !.cur = p] BY <1>4 DEF Calls
  <2>2. player' \in [Players -> PlayerType] BY <1>1, <2>1 DEF PlayerType
  <2>3. \A q \in Players : player'[q].kind = player[q].kind /\ player'[q].target = player[q].target
    BY <1>1, <2>1 DEF PlayerType
  <2>4. ui' \in UIType /\ ui'.cur \in Players /\ ui'.state = "move"
    <3>1. p \in 0..NPlayers BY DEF Players
    <3> QED BY <1>1, <2>1, <3>1 DEF UIType
  <2> QED BY <1>1, <1>4, <2>2, <2>3, <2>4 DEF Calls
<1>5. CASE Yields
  <2>1. ui' \in UIType BY <1>1, <1>5, ClosedOK DEF Yields
  <2>2. /\ ui'.state # "wait" => ui'.cur \in Players
        /\ ui'.state = "target" => ui'.kind \in Kinds BY <1>1, <1>5, ClosedOK DEF Yields
  <2> QED BY <1>1, <1>5, <2>1, <2>2 DEF Yields
<1>6. CASE UNCHANGED <<player, order, ui>> BY <1>1, <1>6
<1> QED BY <1>2, <1>3, <1>4, <1>5, <1>6, MenuCases

\* The other parts of Types.
FrameTyped ==
  /\ battle \in Battles
  /\ pc \in {"frame", "enemies", "ui", "players", "choose"} \cup Acting
  /\ at \in 0..NPlayers + NSlots
  /\ moved \in BOOLEAN /\ puppets \in BOOLEAN
  /\ enemy \in [Slots -> EnemyType]
  /\ alive \in [Players -> BOOLEAN]
  /\ trouble \in [Players -> {"none", "sleep", "confused", "puppet"}]
  /\ items \in 0..MaxItems
  /\ result \in {"ongoing", "won", "lost", "ended"}
  /\ \A e \in Slots : enemy[e].state = "wait" => enemy[e].meter <= Full
  /\ pc \in {"enemies", "enemyActs", "enemyDone"} => at \in 1..battle.last
  /\ pc \in {"playerActs", "playerDone"} => at \in Players

LEMMA TypesSplit == (Types <=> FrameTyped /\ MenuTyped) /\ (Types' <=> FrameTyped' /\ MenuTyped')
BY DEF Types, TypeOK, Bounds, MenuTyped, FrameTyped, EnemyType, PlayerType, CommandKinds, Targets, UIType

LEMMA NextEnemyTyped ==
  ASSUME battle \in Battles, NEW e \in 1..battle.last, NextEnemy(e)
  PROVE  /\ pc' \in {"enemies", "ui"} /\ at' \in 0..NPlayers + NSlots
         /\ pc' = "enemies" => at' \in 1..battle.last
<1> USE Numbers
<1>0. battle.last \in 1..NSlots BY BattleOK
<1>1. CASE e = battle.last BY <1>0, <1>1 DEF NextEnemy
<1>2. CASE e # battle.last BY <1>0, <1>2 DEF NextEnemy
<1> QED BY <1>1, <1>2

LEMMA StartTyped ==
  ASSUME FrameTyped, StartFrame
  PROVE  FrameTyped'
<1> USE Numbers
<1>0. enemy \in [Slots -> EnemyType] /\ battle \in Battles /\ battle' = battle
  BY DEF FrameTyped, StartFrame
<1>1. CASE Cleared BY <1>1 DEF StartFrame, Acting, FrameTyped, Full
<1>2. CASE ~Cleared /\ \A p \in Players : ~InPlay(p) BY <1>2 DEF StartFrame, Acting, FrameTyped, Full
<1>3. CASE ~Cleared /\ ~(\A p \in Players : ~InPlay(p))
  <2> DEFINE turns == {e \in Here : enemy[e].turn}
  <2>1. /\ puppets' \in BOOLEAN /\ moved' \in BOOLEAN /\ result' \in {"ongoing", "ended"}
        /\ enemy' = [e \in Slots |-> IF e \in turns THEN [enemy[e] EXCEPT !.turn = FALSE] ELSE enemy[e]]
        /\ pc' = "enemies" /\ at' = 1
        /\ UNCHANGED <<alive, trouble, items>> BY <1>3 DEF StartFrame, Scripted
  <2>2. \A e \in Slots : /\ [enemy[e] EXCEPT !.turn = FALSE] \in EnemyType
                         /\ [enemy[e] EXCEPT !.turn = FALSE].state = enemy[e].state
                         /\ [enemy[e] EXCEPT !.turn = FALSE].meter = enemy[e].meter
    BY <1>0 DEF EnemyType
  <2> HIDE DEF turns
  <2>3. /\ enemy' \in [Slots -> EnemyType]
        /\ \A e \in Slots : enemy'[e].state = enemy[e].state /\ enemy'[e].meter = enemy[e].meter
    BY <1>0, <2>1, <2>2
  <2>4. at' \in 1..battle.last /\ at' \in 0..NPlayers + NSlots BY <1>0, <2>1, BattleOK
  <2> QED BY <1>0, <2>1, <2>3, <2>4 DEF FrameTyped, Full
<1> QED BY <1>1, <1>2, <1>3

LEMMA EnemyTyped ==
  ASSUME FrameTyped, EnemyTurn
  PROVE  FrameTyped'
<1> USE Numbers
<1>0. enemy \in [Slots -> EnemyType] BY DEF FrameTyped
<1>1. /\ pc = "enemies" /\ battle \in Battles /\ at \in 1..battle.last /\ at \in Slots
      /\ Full \in 1..MaxFull
  BY BattleOK DEF EnemyTurn, FrameTyped, Full
<1>2. UNCHANGED <<battle, puppets, alive, trouble, items>> /\ Full' = Full BY DEF EnemyTurn, Full
<1>3. CASE NextEnemy(at) /\ UNCHANGED <<moved, enemy, result>>
  BY <1>1, <1>2, <1>3, NextEnemyTyped DEF FrameTyped
<1>4. CASE Charging(at)
  <2> DEFINE m == enemy[at].meter + 1
  <2>1. NextEnemy(at) /\ UNCHANGED <<moved, result>> BY <1>4 DEF Charging
  <2>2. /\ m \in 0..MaxFull + 1
        /\ enemy[at].state = "wait" BY <1>1, <1>4 DEF Charging, EnemyType, FrameTyped
  <2>3. CASE Paused BY <1>1, <1>2, <1>4, <2>1, <2>3, NextEnemyTyped DEF Charging, FrameTyped
  <2>4. CASE ~Paused
    <3> DEFINE s == IF m > Full THEN "com" ELSE enemy[at].state
               r == [enemy[at] EXCEPT !.meter = m, !.state = s]
    <3>1. enemy' = [enemy EXCEPT ![at] = r] BY <1>0, <1>1, <1>4, <2>4 DEF Charging
    <3>2. s \in {"wait", "com"} /\ (s = "wait" => m <= Full) BY <1>1, <2>2
    <3> HIDE DEF m, s
    <3>3. r \in EnemyType /\ (r.state = "wait" => r.meter <= Full) BY <1>0, <1>1, <2>2, <3>2 DEF EnemyType
    <3> HIDE DEF r
    <3>4. enemy' \in [Slots -> EnemyType] BY <1>0, <3>1, <3>3
    <3>5. \A e \in Slots : enemy'[e].state = "wait" => enemy'[e].meter <= Full
      BY <1>0, <1>1, <3>1, <3>3 DEF FrameTyped
    <3> QED BY <1>1, <1>2, <2>1, <3>4, <3>5, NextEnemyTyped DEF FrameTyped
  <2> QED BY <2>3, <2>4
<1>5. CASE ReadyScript(at)
  <2>1. /\ NextEnemy(at) /\ moved' = TRUE /\ result' \in {result, "ended"}
        /\ enemy' = [enemy EXCEPT ![at].state = "act"] BY <1>5 DEF ReadyScript, Scripted
  <2>2. enemy' \in [Slots -> EnemyType] BY <1>0, <1>1, <2>1 DEF EnemyType
  <2>3. \A e \in Slots : enemy'[e].state = "wait" => enemy'[e].meter <= Full
    BY <1>0, <1>1, <2>1 DEF EnemyType, FrameTyped
  <2> QED BY <1>1, <1>2, <2>1, <2>2, <2>3, NextEnemyTyped DEF FrameTyped
<1>6. CASE Strike(at)
  <2>1. CASE MayAct(at)
    <3>1. /\ pc' = "enemyActs" /\ at' = at /\ moved' = TRUE /\ UNCHANGED result
          BY <1>6, <2>1 DEF Strike
    <3>2. PICK d \in BOOLEAN : enemy' = [enemy EXCEPT ![at].dual = d] BY <1>6, <2>1 DEF Strike
    <3>3. enemy' \in [Slots -> EnemyType] BY <1>0, <1>1, <3>2 DEF EnemyType
    <3>4. \A e \in Slots : enemy'[e].state = "wait" => enemy'[e].meter <= Full
      BY <1>0, <1>1, <3>2 DEF EnemyType, FrameTyped
    <3> QED BY <1>1, <1>2, <3>1, <3>3, <3>4 DEF Acting, FrameTyped
  <2>2. CASE ~MayAct(at)
    <3>1. NextEnemy(at) /\ UNCHANGED <<moved, enemy, result>> BY <1>6, <2>2 DEF Strike
    <3> QED BY <1>1, <1>2, <3>1, NextEnemyTyped DEF FrameTyped
  <2> QED BY <2>1, <2>2
<1> QED BY <1>3, <1>4, <1>5, <1>6 DEF EnemyTurn

LEMMA AbsentOK == Absent \in EnemyType /\ Absent.body = "gone" /\ Absent.meter = 0
BY Numbers DEF Absent, EnemyType

\* Who is struck is removed, and nobody comes back by it.
LEMMA BuriedOK ==
  ASSUME battle \in Battles, NEW es \in [Slots -> EnemyType],
         \A e \in Slots : es[e].state = "wait" => es[e].meter <= Full
  PROVE  /\ Buried(es) \in [Slots -> EnemyType]
         /\ \A e \in Slots : /\ Buried(es)[e].body # "struck"
                             /\ es[e].body = "gone" => Buried(es)[e].body = "gone"
                             /\ Buried(es)[e].state = "wait" => Buried(es)[e].meter <= Full
<1>1. Full \in 1..MaxFull BY BattleOK DEF Full
<1>2. Full \in Nat BY <1>1, Numbers
<1>3. ASSUME NEW e \in Slots
      PROVE  /\ Buried(es)[e] \in EnemyType
             /\ Buried(es)[e].body # "struck"
             /\ es[e].body = "gone" => Buried(es)[e].body = "gone"
             /\ Buried(es)[e].state = "wait" => Buried(es)[e].meter <= Full
  <2>1. CASE es[e].body = "struck"
    <3>1. Buried(es)[e] = Absent BY <2>1 DEF Buried
    <3> QED BY <1>2, <2>1, <3>1, AbsentOK
  <2>2. CASE es[e].body # "struck"
    <3>1. Buried(es)[e] = es[e] BY <2>2 DEF Buried
    <3> QED BY <2>2, <3>1
  <2> QED BY <2>1, <2>2
<1> QED BY <1>3 DEF Buried

LEMMA RearmedOK ==
  ASSUME battle \in Battles, NEW r \in EnemyType
  PROVE  /\ Rearmed(r) \in EnemyType /\ Rearmed(r).body = r.body
         /\ Rearmed(r).state = "wait" => Rearmed(r).meter <= Full
<1>1. Full \in 1..MaxFull BY BattleOK DEF Full
<1>2. Full \in 0..MaxFull + 1 /\ 0 \in 0..MaxFull + 1 /\ 0 <= Full /\ Full <= Full
  BY <1>1, Numbers
<1>3. CASE r.dual
  <2>1. Rearmed(r) = [r EXCEPT !.meter = Full, !.state = "com", !.first = TRUE] BY <1>3 DEF Rearmed
  <2> QED BY <1>2, <2>1 DEF EnemyType
<1>4. CASE ~r.dual
  <2>1. Rearmed(r) = [r EXCEPT !.meter = 0, !.state = "wait", !.first = FALSE, !.turn = TRUE]
    BY <1>4 DEF Rearmed
  <2> QED BY <1>2, <2>1 DEF EnemyType
<1> QED BY <1>3, <1>4

LEMMA MenuClosedLate ==
  ASSUME battle \in Battles, NEW es, enemy' = es, UNCHANGED battle
  PROVE  MenuAfter(es) = ui \/ (MenuAfter(es) = Closed /\ Cleared')
BY HereOK, BattleOK, Numbers DEF MenuAfter, Cleared, Here, Slots

LEMMA EndsTyped ==
  ASSUME FrameTyped, EnemyEnds
  PROVE  /\ FrameTyped'
         /\ \A e \in Slots : /\ enemy'[e].body # "struck"
                             /\ enemy[e].body = "gone" => enemy'[e].body = "gone"
         /\ ui' = ui \/ (ui' = Closed /\ Cleared')
<1> USE Numbers
<1>0. enemy \in [Slots -> EnemyType] /\ battle \in Battles BY DEF FrameTyped
<1>1. /\ at \in 1..battle.last /\ at \in Slots /\ NextEnemy(at)
      /\ UNCHANGED <<battle, moved, puppets, alive, trouble, items>> /\ Full' = Full
  BY BattleOK DEF EnemyEnds, FrameTyped, Full
<1>2. result' \in {result, "ongoing", "ended"} BY DEF EnemyEnds, Scripted
<1>3. PICK body \in {enemy[at].body, "struck"} :
        LET after == Buried([enemy EXCEPT ![at].body = body])
        IN  /\ enemy' = IF after[at].body = "gone" THEN after ELSE [after EXCEPT ![at] = Rearmed(after[at])]
            /\ ui' = MenuAfter(after)
  BY DEF EnemyEnds
<1> DEFINE before == [enemy EXCEPT ![at].body = body]
           after == Buried(before)
<1>4. /\ before \in [Slots -> EnemyType]
      /\ \A e \in Slots : /\ enemy[e].body = "gone" => before[e].body \in {"gone", "struck"}
                          /\ before[e].state = enemy[e].state
                          /\ before[e].meter = enemy[e].meter
  <2>1. body \in {"up", "struck", "gone"} BY <1>0, <1>1, <1>3 DEF EnemyType
  <2> QED BY <1>0, <1>1, <1>3, <2>1 DEF EnemyType
<1>5. \A e \in Slots : before[e].state = "wait" => before[e].meter <= Full BY <1>4 DEF FrameTyped
<1>6. \A e \in Slots : before[e].body \in {"gone", "struck"} => after[e].body = "gone"
  BY <1>4, AbsentOK DEF Buried
<1>7. /\ after \in [Slots -> EnemyType]
      /\ \A e \in Slots : /\ after[e].body # "struck"
                          /\ enemy[e].body = "gone" => after[e].body = "gone"
                          /\ after[e].state = "wait" => after[e].meter <= Full
  <2> HIDE DEF before
  <2>1. /\ after \in [Slots -> EnemyType]
        /\ \A e \in Slots : /\ after[e].body # "struck"
                            /\ after[e].state = "wait" => after[e].meter <= Full
    BY <1>0, <1>4, <1>5, BuriedOK
  <2>2. \A e \in Slots : enemy[e].body = "gone" => after[e].body = "gone" BY <1>4, <1>6
  <2> QED BY <2>1, <2>2
<1>8. /\ enemy' = IF after[at].body = "gone" THEN after ELSE [after EXCEPT ![at] = Rearmed(after[at])]
      /\ ui' = MenuAfter(after) BY <1>3
<1> HIDE DEF before, after
<1>9. /\ enemy' \in [Slots -> EnemyType]
      /\ \A e \in Slots : /\ enemy'[e].state = "wait" => enemy'[e].meter <= Full
                          /\ enemy'[e].body = after[e].body
  <2>1. CASE after[at].body = "gone" BY <1>7, <1>8, <2>1
  <2>2. CASE after[at].body # "gone"
    <3>1. enemy' = [after EXCEPT ![at] = Rearmed(after[at])] BY <1>8, <2>2
    <3>2. /\ Rearmed(after[at]) \in EnemyType /\ Rearmed(after[at]).body = after[at].body
          /\ Rearmed(after[at]).state = "wait" => Rearmed(after[at]).meter <= Full
      BY <1>0, <1>1, <1>7, RearmedOK
    <3> QED BY <1>1, <1>7, <3>1, <3>2
  <2> QED BY <2>1, <2>2
<1>10. FrameTyped' BY <1>0, <1>1, <1>2, <1>9, NextEnemyTyped DEF FrameTyped
<1>11. ui' = ui \/ (ui' = Closed /\ Cleared')
  <2>1. MenuAfter(after) = MenuAfter(enemy')
    <3>1. \A e \in 1..battle.last : (after[e].body = "gone") <=> (enemy'[e].body = "gone")
      BY <1>0, <1>9, BattleOK
    <3> QED BY <3>1 DEF MenuAfter
  <2> QED BY <1>0, <1>1, <1>8, <2>1, MenuClosedLate
<1> QED BY <1>7, <1>9, <1>10, <1>11

LEMMA PlayerActsTyped ==
  ASSUME FrameTyped, PlayerActs
  PROVE  FrameTyped' /\ \A e \in Slots : enemy[e].body = "gone" => enemy'[e].body = "gone"
<1> USE Numbers DEF FrameTyped
<1>1. pc' = "playerDone" /\ at \in Players /\ UNCHANGED <<battle, at, moved, puppets>> BY DEF PlayerActs
<1>2. /\ enemy' \in [Slots -> EnemyType]
      /\ \A e \in Slots : /\ enemy[e].body = "gone" => enemy'[e].body = "gone"
                          /\ enemy'[e].state = enemy[e].state
                          /\ enemy'[e].meter = enemy[e].meter
  <2>1. enemy' = enemy \/ \E hit \in SUBSET Slots : enemy' = Struck(hit) BY HereOK DEF PlayerActs
  <2>2. ASSUME NEW hit \in SUBSET Slots, enemy' = Struck(hit)
        PROVE  /\ enemy' \in [Slots -> EnemyType]
               /\ \A e \in Slots : /\ enemy[e].body = "gone" => enemy'[e].body = "gone"
                                   /\ enemy'[e].state = enemy[e].state
                                   /\ enemy'[e].meter = enemy[e].meter
    BY <2>2 DEF Struck, EnemyType
  <2> QED BY <2>1, <2>2
<1>3. items' \in 0..MaxItems BY DEF PlayerActs
<1>4. result' \in {result, "ended"} BY DEF PlayerActs, Scripted
<1>5. /\ alive' \in [Players -> BOOLEAN]
      /\ trouble' \in [Players -> {"none", "sleep", "confused", "puppet"}]
  <2> DEFINE kind == player[at].kind
  <2>1. CASE kind = "item"
    <3>1. ItemUsed(player[at].target) BY <2>1 DEF PlayerActs
    <3> QED BY <3>1 DEF ItemUsed
  <2>2. CASE kind = "mate"
    <3>1. /\ \E hit \in Mates(at), dies \in BOOLEAN : alive' = [alive EXCEPT ![hit] = ~dies]
          /\ UNCHANGED trouble BY <2>2 DEF PlayerActs
    <3> QED BY <3>1
  <2>3. CASE kind \notin {"item", "mate"} BY <2>3 DEF PlayerActs
  <2> QED BY <2>1, <2>2, <2>3
<1>6. \A e \in Slots : enemy'[e].state = "wait" => enemy'[e].meter <= Full' BY <1>1, <1>2 DEF Full
<1>7. FrameTyped' BY <1>1, <1>2, <1>3, <1>4, <1>5, <1>6 DEF Acting
<1> QED BY <1>2, <1>7

LEMMA PlayerEndsTyped ==
  ASSUME Types, PlayerEnds
  PROVE  Types'
<1> USE Numbers
<1>0. FrameTyped /\ MenuTyped BY TypesSplit
<1>1. /\ pc = "playerDone" /\ pc' = "frame" /\ at' = 0 /\ moved' = FALSE /\ puppets' = FALSE
      /\ enemy' = Buried(enemy) /\ UNCHANGED <<battle, items>> /\ result' \in {result, "ended"}
      /\ player' = [player EXCEPT ![at] = Rested] /\ order' = Lined(Queued \ {at}, {})
      /\ ui' \in {ui, Closed}
  BY DEF PlayerEnds, MenuAfter, Scripted
<1>2. alive' \in [Players -> BOOLEAN] BY <1>0 DEF FrameTyped, PlayerEnds
<1>3. trouble' \in [Players -> {"none", "sleep", "confused", "puppet"}] BY <1>0 DEF FrameTyped, PlayerEnds
<1>4. FrameTyped'
  <2>1. /\ battle \in Battles /\ enemy \in [Slots -> EnemyType]
        /\ \A e \in Slots : enemy[e].state = "wait" => enemy[e].meter <= Full BY <1>0 DEF FrameTyped
  <2>2. /\ enemy' \in [Slots -> EnemyType]
        /\ \A e \in Slots : enemy'[e].state = "wait" => enemy'[e].meter <= Full
    BY <1>1, <2>1, BuriedOK
  <2>3. at' \in 0..NPlayers + NSlots BY <1>1
  <2> QED BY <1>0, <1>1, <1>2, <1>3, <2>2, <2>3 DEF FrameTyped, Acting, Full
<1>5. order' \in [Players -> 0..NPlayers]
  <2> DEFINE stay == Queued \ {at}
  <2>1. stay \in SUBSET Players /\ {} \in SUBSET Players /\ stay \cap {} = {} BY DEF Queued
  <2>2. order' = Lined(stay, {}) BY <1>1
  <2> HIDE DEF stay
  <2> QED BY <2>1, <2>2, LinedOK
<1>6. Rested \in PlayerType /\ Rested.kind = "pass"
  BY DEF Rested, PlayerType, CommandKinds, Targets, NoTarget
<1>7. player' \in [Players -> PlayerType]
      /\ \A p \in Players : player'[p].kind = "item" => player'[p].target \in Players
  BY <1>0, <1>1, <1>6 DEF FrameTyped, MenuTyped
<1>8. ui' \in UIType /\ (ui'.state # "wait" => ui'.cur \in Players)
      /\ (ui'.state = "target" => ui'.kind \in Kinds)
  BY <1>0, <1>1, ClosedOK DEF MenuTyped
<1>9. MenuTyped' BY <1>5, <1>7, <1>8 DEF MenuTyped
<1> QED BY <1>4, <1>9, TypesSplit

LEMMA FreshTyped ==
  /\ Rested \in PlayerType /\ Rested.kind = "pass" /\ Rested.state = "wait"
  /\ Unasked \in UIType /\ Unasked.state = "wait"
<1> USE Numbers
<1>1. 1 \in Slots BY DEF Slots
<1> QED BY <1>1 DEF Rested, Unasked, PlayerType, UIType, CommandKinds, Targets, NoTarget

\* The slots at the start of a battle: nobody is struck, and the one behind the
\* last enemy is empty.
LEMMA ArrayedOK ==
  ASSUME NEW b \in Battles, NEW old
  PROVE  /\ Arrayed(b, old) \in [Slots -> EnemyType]
         /\ \A e \in Slots : Arrayed(b, old)[e].meter <= b.full /\ Arrayed(b, old)[e].body # "struck"
         /\ b.last + 1 \in Slots => Arrayed(b, old)[b.last + 1].body = "gone"
<1> USE Numbers
<1>1. b.full \in 1..MaxFull /\ b.last \in 1..NSlots /\ b.team \subseteq 1..b.last BY BattleOK
<1>2. Fresh(b) \in EnemyType /\ Fresh(b).meter <= b.full /\ Fresh(b).body = "up"
  <2>1. b.full \div 2 \in 0..b.full BY <1>1
  <2>2. b.full \div 2 \in 0..MaxFull + 1 /\ b.full \div 2 <= b.full BY <1>1, <2>1
  <2> QED BY <2>2 DEF Fresh, EnemyType
<1> DEFINE stale == [Absent EXCEPT !.body = "up"]
<1>3. stale \in EnemyType /\ stale.meter = 0 /\ stale.body = "up" BY AbsentOK DEF Absent, EnemyType
<1>4. \A e \in Slots : \/ Arrayed(b, old)[e] = Fresh(b)
                       \/ Arrayed(b, old)[e] = stale
                       \/ Arrayed(b, old)[e] = Absent
  BY DEF Arrayed
<1> HIDE DEF stale
<1>5. \A e \in Slots : /\ Arrayed(b, old)[e] \in EnemyType
                       /\ Arrayed(b, old)[e].meter <= b.full /\ Arrayed(b, old)[e].body # "struck"
  BY <1>1, <1>2, <1>3, <1>4, AbsentOK
<1>6. ASSUME b.last + 1 \in Slots PROVE Arrayed(b, old)[b.last + 1].body = "gone"
  <2>1. b.last + 1 \notin b.team /\ ~(b.last + 1 > b.last + 1) BY <1>1
  <2>2. Arrayed(b, old)[b.last + 1] = Absent BY <1>6, <2>1 DEF Arrayed
  <2> QED BY <2>2, AbsentOK
<1> QED BY <1>5, <1>6 DEF Arrayed

LEMMA InitTypes == Init => Types
<1> SUFFICES ASSUME Init PROVE Types OBVIOUS
<1> USE Numbers, FreshTyped
<1>1. FrameTyped
  <2>1. battle \in Battles /\ enemy = Arrayed(battle, [e \in Slots |-> Absent]) BY DEF Init
  <2>2. enemy \in [Slots -> EnemyType] /\ \A e \in Slots : enemy[e].meter <= Full
    BY <2>1, ArrayedOK DEF Full
  <2>3. pc = "frame" /\ at = 0 /\ moved = FALSE /\ puppets = FALSE /\ items \in 0..MaxItems
        /\ result = "ongoing" /\ alive \in [Players -> BOOLEAN]
        /\ trouble \in [Players -> {"none", "sleep", "confused", "puppet"}] BY BattleOK DEF Init
  <2>4. at \in 0..NPlayers + NSlots BY <2>3
  <2> QED BY <2>1, <2>2, <2>3, <2>4 DEF FrameTyped, Acting
<1>2. MenuTyped BY DEF Init, MenuTyped
<1> QED BY <1>1, <1>2, TypesSplit

LEMMA ChargedTyped ==
  ASSUME MenuTyped, FrameTyped, NEW p \in Players
  PROVE  /\ Charged(p) \in PlayerType
         /\ Charged(p).kind = "item" => Charged(p).target \in Players
         /\ \/ Charged(p).kind \in {"pass", "mate"}
            \/ Charged(p).kind = player[p].kind /\ Charged(p).target = player[p].target
         /\ Charged(p).state = IF InPlay(p) THEN player[p].state ELSE "wait"
<1> USE Numbers
<1>1. player[p] \in PlayerType /\ (player[p].kind = "item" => player[p].target \in Players)
  BY DEF MenuTyped
<1>2. CASE ~InPlay(p) BY <1>2, FreshTyped DEF Charged
<1>3. CASE InPlay(p) /\ player[p].state = "wait"
  <2> DEFINE m == IF Paused \/ player[p].meter >= battle.cap THEN player[p].meter ELSE player[p].meter + 1
  <2>1. Charged(p) = [player[p] EXCEPT !.meter = m] BY <1>1, <1>3 DEF Charged, PlayerType
  <2>2. battle.cap \in 0..Cap BY BattleOK DEF FrameTyped
  <2>3. m \in 0..Cap BY <1>1, <2>2 DEF PlayerType
  <2> HIDE DEF m
  <2> QED BY <1>1, <1>3, <2>1, <2>3 DEF PlayerType
<1>4. CASE InPlay(p) /\ player[p].state = "act"
  <2> DEFINE kind == CASE trouble[p] = "sleep" -> "pass" [] trouble[p] = "confused" -> "mate"
                       [] OTHER -> player[p].kind
             target == IF kind = "mate" THEN NoTarget ELSE player[p].target
             left == IF ~Paused \/ trouble[p] \in {"sleep", "confused"} THEN 0 ELSE player[p].left
  <2>1. Charged(p) = [player[p] EXCEPT !.kind = kind, !.target = target, !.left = left]
    BY <1>1, <1>4 DEF Charged, PlayerType
  <2>2. kind \in {player[p].kind, "pass", "mate"} OBVIOUS
  <2>3. left \in 0..1 BY <1>1 DEF PlayerType
  <2>4. target \in Targets /\ (kind \notin {"pass", "mate"} => target = player[p].target)
    BY <1>1 DEF PlayerType, Targets, NoTarget
  <2> HIDE DEF kind, target, left
  <2> QED BY <1>1, <1>4, <2>1, <2>2, <2>3, <2>4 DEF PlayerType, CommandKinds
<1>5. CASE InPlay(p) /\ player[p].state = "com" BY <1>1, <1>5 DEF Charged
<1> QED BY <1>1, <1>2, <1>3, <1>4, <1>5 DEF PlayerType

\* What a validated command names: an item its user or what was chosen, an
\* attack or a magic what was chosen, or what was left in the menu.
LEMMA ValidatedTyped ==
  ASSUME MenuTyped, FrameTyped, NEW p \in Players, NEW fit \in BOOLEAN,
         NEW number \in 0..battle.party \cup 0..battle.last,
         NEW v, v = Validated(p, fit, number)
  PROVE  /\ v \in PlayerType
         /\ v.kind = "item" => v.target \in Players
         /\ v.state = player[p].state
         /\ v.kind \in {"coop", "throw", "mate", "item"} =>
              v.kind = player[p].kind /\ StillPossible(p)
         /\ v.kind \in EnemyKinds =>
              \/ v.target = AutoTarget
              \/ /\ v.target # NoTarget /\ enemy[v.target].body # "gone"
                 /\ \/ player[p].kind \in EnemyKinds /\ v.target = player[p].target
                    \/ v.kind = "attack" /\ v.target = number
<1> USE Numbers
<1> DEFINE r == player[p]
           kind == CASE r.kind = "magic" /\ ~fit -> "attack"
                     [] r.kind = "item" /\ ~StillPossible(p) -> "defend"
                     [] r.kind \in {"coop", "throw", "mate"} /\ ~StillPossible(p) -> "attack"
                     [] OTHER -> r.kind
           named == IF r.kind = "mate" /\ kind = "attack" THEN number ELSE r.target
           target == Aimed(kind, named, p)
<1>1. r \in PlayerType /\ (r.kind = "item" => r.target \in Players) BY DEF MenuTyped
<1>2. v = [r EXCEPT !.kind = kind, !.target = target]
  BY <1>1 DEF Validated, PlayerType
<1>3. kind \in {r.kind, "attack", "defend"} OBVIOUS
<1>4. kind \in {"coop", "throw", "mate", "item"} => kind = r.kind /\ StillPossible(p) OBVIOUS
<1>5. kind \in EnemyKinds => r.kind \in EnemyKinds \/ (r.kind = "mate" /\ kind = "attack")
  BY DEF EnemyKinds
<1> HIDE DEF kind
<1>6. named \in Targets
  <2>1. battle.party \in 1..NPlayers /\ battle.last \in 1..NSlots BY BattleOK DEF FrameTyped
  <2>2. number \in Targets BY <2>1 DEF Targets
  <2> QED BY <1>1, <2>2 DEF PlayerType
<1>7. target \in Targets /\ (kind = "item" => target \in Players)
  <2>1. p \in Targets /\ AutoTarget \in Targets BY AutoTargetOK DEF Targets, Players, FrameTyped
  <2>2. target \in Targets BY <1>6, <2>1 DEF Aimed
  <2>3. kind = "item" => named \in Players BY <1>1, <1>4
  <2>4. kind = "item" => target \in Players BY <2>3 DEF Aimed
  <2> QED BY <2>2, <2>4
<1>8. kind \in EnemyKinds =>
        target = AutoTarget \/ (target = named /\ target # NoTarget /\ enemy[target].body # "gone")
  BY DEF Aimed, EnemyKinds
<1>9. kind \in EnemyKinds => \/ r.kind \in EnemyKinds /\ named = r.target
                             \/ kind = "attack" /\ named = number
  <2>1. CASE r.kind = "mate" /\ kind = "attack" BY <2>1
  <2>2. CASE ~(r.kind = "mate" /\ kind = "attack")
    <3>1. named = r.target BY <2>2
    <3> HIDE DEF named, r
    <3> QED BY <1>5, <2>2, <3>1
  <2> QED BY <2>1, <2>2
<1> HIDE DEF target, named
<1>10. v.kind = kind /\ v.target = target /\ v.state = r.state /\ v \in PlayerType
  BY <1>1, <1>2, <1>3, <1>7 DEF PlayerType, CommandKinds
<1> QED BY <1>4, <1>7, <1>8, <1>9, <1>10

\* What an action that is no menu does to the players, the order and the menu.
LEMMA ChargeTyped ==
  ASSUME Types, Charge
  PROVE  Types'
<1>1. FrameTyped /\ MenuTyped BY TypesSplit
<1>2. /\ pc' = "choose" /\ player' = [p \in Players |-> Charged(p)]
      /\ UNCHANGED <<battle, at, moved, puppets, enemy, alive, trouble, ui, items, result>> BY DEF Charge
<1>3. FrameTyped' BY <1>1, <1>2 DEF FrameTyped, Acting, Full
<1>4. order' \in [Players -> 0..NPlayers]
  <2> DEFINE stay == {p \in Queued : InPlay(p)}
             new == {p \in Players \ Queued : InPlay(p) /\ player[p].state = "act" /\ Charged(p).left = 0}
  <2>1. stay \in SUBSET Players /\ new \in SUBSET Players /\ stay \cap new = {} BY DEF Queued
  <2>2. order' = Lined(stay, new) BY DEF Charge
  <2> HIDE DEF stay, new
  <2> QED BY <2>1, <2>2, LinedOK
<1>5. /\ player' \in [Players -> PlayerType]
      /\ \A p \in Players : player'[p].kind = "item" => player'[p].target \in Players
  BY <1>1, <1>2, ChargedTyped
<1>6. MenuTyped' BY <1>1, <1>2, <1>4, <1>5 DEF MenuTyped
<1> QED BY <1>3, <1>6, TypesSplit

LEMMA ElectTyped ==
  ASSUME Types, Elect
  PROVE  Types'
<1> USE Numbers
<1>1. FrameTyped /\ MenuTyped BY TypesSplit
<1>2. UNCHANGED <<battle, enemy, alive, trouble, order, ui, items, result>> /\ Full' = Full
  BY DEF Elect, Full
<1>3. CASE moved \/ Turn = {}
  <2>1. pc' = "frame" /\ at' = 0 /\ moved' = FALSE /\ puppets' = FALSE /\ player' = player
    BY <1>3 DEF Elect
  <2>2. at' \in 0..NPlayers + NSlots BY <2>1
  <2>3. FrameTyped' BY <1>1, <1>2, <2>1, <2>2 DEF FrameTyped, Acting
  <2>4. MenuTyped' BY <1>1, <1>2, <2>1 DEF MenuTyped
  <2> QED BY <2>3, <2>4, TypesSplit
<1>4. CASE ~(moved \/ Turn = {})
  <2> DEFINE p == CHOOSE f \in Turn : \A q \in Turn : order[f] <= order[q]
  <2>1. p \in Turn BY <1>1, <1>4, FirstOK DEF MenuTyped
  <2>2. p \in Players BY <2>1 DEF Turn, Queued
  <2>3. /\ pc' = "playerActs" /\ at' = p /\ UNCHANGED <<moved, puppets>>
        /\ \E fit \in BOOLEAN, number \in 0..battle.party \cup 0..battle.last :
             player' = [player EXCEPT ![p] = Validated(p, fit, number)]
    BY <1>4 DEF Elect
  <2> HIDE DEF p
  <2>4. PICK fit \in BOOLEAN, number \in 0..battle.party \cup 0..battle.last :
          player' = [player EXCEPT ![p] = Validated(p, fit, number)] BY <2>3
  <2>5. /\ player' \in [Players -> PlayerType]
        /\ \A q \in Players : player'[q].kind = "item" => player'[q].target \in Players
    BY <1>1, <2>2, <2>4, ValidatedTyped DEF MenuTyped
  <2>6. MenuTyped' BY <1>1, <1>2, <2>5 DEF MenuTyped
  <2>7. p \in 0..NPlayers + NSlots BY <2>2 DEF Players
  <2>8. FrameTyped' BY <1>1, <1>2, <2>2, <2>3, <2>7 DEF FrameTyped, Acting
  <2> QED BY <2>6, <2>8, TypesSplit
<1> QED BY <1>3, <1>4

LEMMA BattleTyped ==
  ASSUME Types, StartBattle
  PROVE  Types'
<1> USE Numbers, FreshTyped
<1>1. FrameTyped /\ MenuTyped BY TypesSplit
<1>2. FrameTyped'
  <2>1. battle' \in Battles /\ enemy' = Arrayed(battle', enemy) BY DEF StartBattle
  <2>2. enemy' \in [Slots -> EnemyType] /\ \A e \in Slots : enemy'[e].meter <= battle'.full
    BY <2>1, ArrayedOK
  <2>3. /\ pc = "frame" /\ UNCHANGED <<pc, at, moved, puppets>> /\ items' \in 0..MaxItems
        /\ result' \in {"ongoing", "ended"} /\ alive' \in [Players -> BOOLEAN]
        /\ trouble' \in [Players -> {"none", "sleep", "confused", "puppet"}]
    BY <2>1, BattleOK DEF StartBattle, Over, Scripted
  <2> QED BY <1>1, <2>1, <2>2, <2>3 DEF FrameTyped, Full
<1>3. MenuTyped' BY DEF StartBattle, MenuTyped
<1> QED BY <1>2, <1>3, TypesSplit

LEMMA TypesNext == Types /\ [Next]_vars => Types'
<1> SUFFICES ASSUME Types, [Next]_vars PROVE Types' OBVIOUS
<1>0. FrameTyped /\ MenuTyped BY TypesSplit
<1>1. ASSUME StartFrame PROVE Types'
  <2>1. MenuTyped' BY <1>0, <1>1 DEF StartFrame, MenuTyped
  <2> QED BY <1>0, <1>1, <2>1, StartTyped, TypesSplit
<1>2. ASSUME EnemyTurn PROVE Types'
  <2>1. MenuTyped' BY <1>0, <1>2 DEF EnemyTurn, MenuTyped
  <2> QED BY <1>0, <1>2, <2>1, EnemyTyped, TypesSplit
<1>3. ASSUME EnemyBlow PROVE Types'
  <2>1. MenuTyped' BY <1>0, <1>3 DEF EnemyBlow, MenuTyped
  <2>2. /\ pc = "enemyActs" /\ pc' = "enemyDone"
        /\ UNCHANGED <<battle, at, moved, puppets, enemy, items>> /\ result' \in {result, "ended"}
    BY <1>3 DEF EnemyBlow, Scripted
  <2>3. /\ alive' \in [Players -> BOOLEAN]
        /\ trouble' \in [Players -> {"none", "sleep", "confused", "puppet"}]
    BY <1>0, <1>3, BattleOK, Numbers DEF EnemyBlow, FrameTyped
  <2>4. FrameTyped' BY <1>0, <2>2, <2>3 DEF FrameTyped, Acting, Full
  <2> QED BY <2>1, <2>4, TypesSplit
<1>4. ASSUME EnemyEnds PROVE Types'
  <2>1. ui' \in {ui, Closed} /\ UNCHANGED <<player, order>> BY <1>4 DEF EnemyEnds, MenuAfter
  <2>2. MenuTyped' BY <1>0, <2>1, ClosedOK DEF MenuTyped
  <2> QED BY <1>0, <1>4, <2>2, EndsTyped, TypesSplit
<1>5. ASSUME MenuOfFrame PROVE Types'
  <2>1. FrameTyped' BY <1>0, <1>5 DEF MenuOfFrame, FrameTyped, Acting, Full
  <2>2. MenuTyped' BY <1>5, MenuTypes DEF MenuOfFrame
  <2> QED BY <2>1, <2>2, TypesSplit
<1>6. ASSUME MenuInDelay PROVE Types'
  <2>1. FrameTyped' BY <1>0, <1>6 DEF MenuInDelay, FrameTyped, Full
  <2>2. MenuTyped' BY <1>6, MenuTypes DEF MenuInDelay
  <2> QED BY <2>1, <2>2, TypesSplit
<1>7. ASSUME Charge PROVE Types' BY <1>7, ChargeTyped
<1>8. ASSUME Elect PROVE Types' BY <1>8, ElectTyped
<1>9. ASSUME PlayerActs PROVE Types'
  <2>1. /\ player' \in {player, [q \in Players |-> [player[q] EXCEPT !.meter = 0]]}
        /\ UNCHANGED <<order, ui>> BY <1>9 DEF PlayerActs
  <2>2. \A q \in Players : /\ [player[q] EXCEPT !.meter = 0] \in PlayerType
                           /\ [player[q] EXCEPT !.meter = 0].kind = player[q].kind
                           /\ [player[q] EXCEPT !.meter = 0].target = player[q].target
    <3>1. ASSUME NEW r \in PlayerType, NEW m \in 0..Cap
          PROVE  /\ [r EXCEPT !.meter = m] \in PlayerType
                 /\ [r EXCEPT !.meter = m].kind = r.kind
                 /\ [r EXCEPT !.meter = m].target = r.target BY DEF PlayerType
    <3>2. 0 \in 0..Cap BY Numbers
    <3> QED BY <1>0, <3>1, <3>2 DEF MenuTyped
  <2>3. player' \in [Players -> PlayerType]
        /\ \A q \in Players : player'[q].kind = player[q].kind /\ player'[q].target = player[q].target
    BY <1>0, <2>1, <2>2 DEF MenuTyped
  <2>4. MenuTyped' BY <1>0, <2>1, <2>3 DEF MenuTyped
  <2> QED BY <1>0, <1>9, <2>4, PlayerActsTyped, TypesSplit
<1>10. ASSUME PlayerEnds PROVE Types' BY <1>10, PlayerEndsTyped
<1>11. ASSUME StartBattle PROVE Types' BY <1>11, BattleTyped
<1>12. ASSUME UNCHANGED vars PROVE Types'
  BY <1>12 DEF Types, TypeOK, Bounds, Full, vars
<1> QED BY <1>1, <1>2, <1>3, <1>4, <1>5, <1>6, <1>7, <1>8, <1>9, <1>10, <1>11, <1>12 DEF Next, Frame

\* The variables keep their types, however long the battle and whatever is
\* commanded.
THEOREM Typing == Spec => []TypeOK
<1>1. Types => TypeOK BY DEF Types
<1> QED BY InitTypes, TypesNext, <1>1, PTL DEF Spec

-----------------------------------------------------------------------------
(* Commands.                                                               *)

\* Slots that are gone stay gone.
GoneStays == \A e \in Slots : enemy[e].body = "gone" => enemy'[e].body = "gone"

BodiesStay == \A e \in Slots : enemy'[e].body = enemy[e].body

LEMMA ClearedStays ==
  ASSUME GoneStays, Cleared, UNCHANGED battle
  PROVE  Cleared'
BY DEF GoneStays, Cleared, Here

\* Nothing is commanded, and the menu is closed at most because nobody is left
\* to be fought.
LEMMA CommandsKept ==
  ASSUME Types, Commands, GoneStays, UNCHANGED <<battle, order>>,
         \A p \in Players : player'[p].state = player[p].state /\ player'[p].kind = player[p].kind,
         ui' = ui \/ (ui' = Closed /\ Cleared')
  PROVE  Commands'
<1>1. Cleared => Cleared' BY ClearedStays
<1>2. ui.state # "wait" => ui.cur \in Players BY DEF Types, Bounds
<1>3. ui' # ui => ui'.state = "wait" BY ClosedOK
<1>4. Menus' BY <1>2, <1>3 DEF Commands, Menus
<1>5. OneCommander' BY <1>1 DEF Commands, OneCommander
<1>6. CoopWaits' BY <1>3 DEF Commands, CoopWaits
<1> QED BY <1>4, <1>5, <1>6 DEF Commands

\* The menu leaves those alone who have a command, and while a cooperative
\* magic waits it does nothing.
LEMMA MenuCommands ==
  ASSUME Types, Commands, Menu, UNCHANGED <<battle, enemy>>
  PROVE  /\ Commands'
         /\ \A p \in Players : player[p].state = "act" =>
              /\ player'[p].state = "act" /\ player'[p].kind = player[p].kind
              /\ player'[p].target = player[p].target
         /\ \A p \in Players : player[p].state = "act" /\ player[p].kind = "coop" =>
              UNCHANGED <<player, order>>
<1>1. MenuTyped BY TypesMenu
<1>2. Cleared' <=> Cleared BY DEF Cleared, Here
<1>3. ASSUME Looks
      PROVE  /\ Commands' /\ UNCHANGED player
             /\ \A p \in Players : ~(player[p].state = "act" /\ player[p].kind = "coop")
  <2>1. Menus' BY <1>3 DEF Looks, Commands, Menus
  <2>2. OneCommander' BY <1>2, <1>3 DEF Looks, Commands, OneCommander
  <2>3. CoopWaits' BY <1>3 DEF Looks, Commands, CoopWaits
  <2>4. \A p \in Players : ~(player[p].state = "act" /\ player[p].kind = "coop")
    BY <1>3 DEF Looks, Commands, CoopWaits
  <2> QED BY <1>3, <2>1, <2>2, <2>3, <2>4 DEF Looks, Commands
<1>4. ASSUME Commits
      PROVE  /\ Commands'
             /\ \A p \in Players : player[p].state = "act" => player'[p] = player[p]
             /\ \A p \in Players : ~(player[p].state = "act" /\ player[p].kind = "coop")
  <2>1. PICK kind \in CommandKinds, t \in Targets :
          Commit(ui.cur, kind, t) /\ (kind = "coop" => ~Cleared) BY <1>4 DEF Commits
  <2>2. ui.state # "wait" /\ ui.cur \in Players /\ player[ui.cur].state # "act"
    BY <1>1, <1>4 DEF Commits, MenuTyped, Commands, Menus
  <2> DEFINE left == IF kind = "magic" THEN 1 ELSE 0
             stay == Queued \ {ui.cur}
             new == IF left = 0 THEN {ui.cur} ELSE {}
  <2>3. /\ player' = [player EXCEPT ![ui.cur].state = "act", ![ui.cur].kind = kind,
                                    ![ui.cur].target = t, ![ui.cur].left = left]
        /\ order' = Lined(stay, new) BY <2>1 DEF Commit
  <2>4. stay \in SUBSET Players /\ new \in SUBSET Players /\ stay \cap new = {} BY <2>2 DEF Queued
  <2>5. \A p \in stay \cup new : p = ui.cur \/ order[p] # 0 BY DEF Queued
  <2> HIDE DEF left, stay, new
  <2>6. \A p \in Players : order'[p] # 0 => p = ui.cur \/ order[p] # 0
    BY <2>3, <2>4, <2>5, LinedOK
  <2>7. /\ player'[ui.cur].state = "act" /\ player'[ui.cur].kind = kind
        /\ \A p \in Players \ {ui.cur} : player'[p] = player[p]
    BY <1>1, <2>2, <2>3 DEF MenuTyped, PlayerType
  <2>8. ui'.state = "wait" BY <1>4 DEF Commits
  <2>9. Menus' BY <2>6, <2>7, <2>8 DEF Commands, Menus
  <2>10. ~Cleared => \A p \in Players : player'[p].state # "com"
    BY <2>7 DEF Commands, OneCommander
  <2>11. OneCommander' BY <1>2, <2>10 DEF OneCommander
  <2>12. \A p \in Players : ~(player[p].state = "act" /\ player[p].kind = "coop")
    BY <2>2 DEF Commands, CoopWaits
  <2>13. CoopWaits' BY <2>1, <2>7, <2>8, <2>10, <2>12 DEF CoopWaits
  <2> QED BY <2>2, <2>7, <2>9, <2>11, <2>12, <2>13 DEF Commands
<1>5. ASSUME Calls
      PROVE  /\ Commands'
             /\ \A p \in Players : player[p].state = "act" => player'[p] = player[p]
             /\ \A p \in Players : ~(player[p].state = "act" /\ player[p].kind = "coop")
  <2>1. PICK c \in Players : /\ player[c].state = "wait"
                             /\ player' = [player EXCEPT ![c].state = "com"]
                             /\ ui' = [ui EXCEPT !.state = "move", !.cur = c] BY <1>5 DEF Calls
  <2>2. /\ player'[c].state = "com" /\ ui'.state = "move" /\ ui'.cur = c
        /\ \A p \in Players \ {c} : player'[p] = player[p]
    BY <1>1, <2>1 DEF MenuTyped, PlayerType, UIType
  <2>3. \A p \in Players : /\ player[p].state # "com"
                           /\ ~(player[p].state = "act" /\ player[p].kind = "coop")
    BY <1>5 DEF Calls, Commanding
  <2>4. Menus' BY <1>5, <2>1, <2>2 DEF Calls, Commands, Menus
  <2>5. OneCommander' BY <2>2, <2>3 DEF OneCommander
  <2>6. CoopWaits' BY <2>2, <2>3 DEF CoopWaits
  <2> QED BY <2>1, <2>2, <2>3, <2>4, <2>5, <2>6 DEF Commands
<1>6. ASSUME Yields
      PROVE  /\ Commands'
             /\ \A p \in Players : player[p].state = "act" =>
                  /\ player'[p].state = "act" /\ player'[p].kind = player[p].kind
                  /\ player'[p].target = player[p].target
             /\ \A p \in Players : ~(player[p].state = "act" /\ player[p].kind = "coop")
  <2>1. ui.state # "wait" /\ ui.cur \in Players /\ player[ui.cur].state # "act"
    BY <1>1, <1>6 DEF Yields, MenuTyped, Commands, Menus
  <2>2. \A p \in Players : ~(player[p].state = "act" /\ player[p].kind = "coop")
    BY <2>1 DEF Commands, CoopWaits
  <2>3. /\ \A p \in Players \ {ui.cur} : player'[p].state = player[p].state
        /\ \A p \in Players : player'[p].kind = player[p].kind /\ player'[p].target = player[p].target
        /\ UNCHANGED order BY <1>6 DEF Yields
  <2>4. player'[ui.cur].state \in {player[ui.cur].state, "wait"}
    BY <1>6 DEF Yields
  <2>5. (ui' = ui /\ player'[ui.cur].state = player[ui.cur].state)
        \/ (ui'.state = "wait" /\ player'[ui.cur].state = "wait") BY <1>6, ClosedOK DEF Yields
  <2>6. Menus' BY <2>1, <2>3, <2>4, <2>5 DEF Commands, Menus
  <2>7. OneCommander' BY <1>2, <2>1, <2>3, <2>5 DEF Commands, OneCommander
  <2>8. CoopWaits' BY <2>1, <2>2, <2>3, <2>4 DEF CoopWaits
  <2> QED BY <2>1, <2>2, <2>3, <2>6, <2>7, <2>8 DEF Commands
<1>7. ASSUME UNCHANGED <<player, order, ui>> PROVE Commands'
  BY <1>2, <1>7 DEF Commands, Menus, OneCommander, CoopWaits
<1> QED BY <1>3, <1>4, <1>5, <1>6, <1>7, MenuCases

\* What the script of an enemy, the frame's start or a blow leave alone.
LEMMA EnemyStays ==
  ASSUME Types, StartFrame \/ EnemyTurn \/ EnemyBlow
  PROVE  BodiesStay /\ UNCHANGED <<battle, player, order, ui>> /\ pc' \notin {"playerActs", "playerDone"}
<1> USE DEF BodiesStay
<1>0. enemy \in [Slots -> EnemyType] /\ (pc = "enemies" => at \in Slots)
  BY TypesSplit, BattleOK DEF FrameTyped
<1>1. CASE StartFrame
  <2>1. UNCHANGED <<battle, player, order, ui>> /\ pc' \in {"frame", "enemies"} BY <1>1 DEF StartFrame
  <2>2. CASE enemy' = enemy BY <2>1, <2>2
  <2>3. CASE enemy' # enemy
    <3>1. enemy' = [e \in Slots |-> IF e \in {f \in Here : enemy[f].turn}
                                      THEN [enemy[e] EXCEPT !.turn = FALSE] ELSE enemy[e]]
      BY <1>1, <2>3 DEF StartFrame
    <3>2. \A e \in Slots : [enemy[e] EXCEPT !.turn = FALSE].body = enemy[e].body
      BY <1>0 DEF EnemyType
    <3> QED BY <2>1, <3>1, <3>2
  <2> QED BY <2>2, <2>3
<1>2. CASE EnemyTurn
  <2>1. UNCHANGED <<battle, player, order, ui>> /\ at \in Slots BY <1>0, <1>2 DEF EnemyTurn
  <2>2. pc' \in {"enemies", "ui", "enemyActs"}
    BY <1>2 DEF EnemyTurn, NextEnemy, Charging, ReadyScript, Strike
  <2>3. \/ enemy' = enemy
        \/ \E m, s : enemy' = [enemy EXCEPT ![at].meter = m, ![at].state = s]
        \/ \E s : enemy' = [enemy EXCEPT ![at].state = s]
        \/ \E d : enemy' = [enemy EXCEPT ![at].dual = d]
    BY <1>2 DEF EnemyTurn, Charging, ReadyScript, Strike
  <2>4. BodiesStay
    <3>1. ASSUME NEW m, NEW s, enemy' = [enemy EXCEPT ![at].meter = m, ![at].state = s] PROVE BodiesStay
      BY <1>0, <2>1, <3>1 DEF EnemyType
    <3>2. ASSUME NEW s, enemy' = [enemy EXCEPT ![at].state = s] PROVE BodiesStay
      BY <1>0, <2>1, <3>2 DEF EnemyType
    <3>3. ASSUME NEW d, enemy' = [enemy EXCEPT ![at].dual = d] PROVE BodiesStay
      BY <1>0, <2>1, <3>3 DEF EnemyType
    <3> QED BY <2>3, <3>1, <3>2, <3>3
  <2> QED BY <2>1, <2>2, <2>4
<1>3. CASE EnemyBlow BY <1>3 DEF EnemyBlow
<1> QED BY <1>1, <1>2, <1>3

LEMMA ChargeCommands ==
  ASSUME Types, Commands, Charge
  PROVE  Commands'
<1>1. FrameTyped /\ MenuTyped BY TypesSplit
<1>2. /\ player' = [p \in Players |-> Charged(p)]
      /\ UNCHANGED <<battle, enemy, ui>> BY DEF Charge
<1>3. Cleared' <=> Cleared BY <1>2 DEF Cleared, Here
<1>4. \A p \in Players : /\ player'[p].kind \in {player[p].kind, "pass", "mate"}
                         /\ player'[p].state = IF InPlay(p) THEN player[p].state ELSE "wait"
  BY <1>1, <1>2, ChargedTyped
<1> DEFINE stay == {p \in Queued : InPlay(p)}
           new == {p \in Players \ Queued : InPlay(p) /\ player[p].state = "act" /\ Charged(p).left = 0}
<1>5. stay \in SUBSET Players /\ new \in SUBSET Players /\ stay \cap new = {} BY DEF Queued
<1>6. order' = Lined(stay, new) BY DEF Charge
<1>7. \A p \in stay \cup new : InPlay(p) /\ player[p].state = "act" BY DEF Queued, Commands, Menus
<1> HIDE DEF stay, new
<1>8. \A p \in Players : order'[p] # 0 => InPlay(p) /\ player[p].state = "act"
  BY <1>5, <1>6, <1>7, LinedOK
<1>9. Menus' BY <1>1, <1>2, <1>4, <1>8 DEF Commands, Menus, MenuTyped
<1>10. OneCommander' BY <1>2, <1>3, <1>4 DEF Commands, OneCommander
<1>11. CoopWaits' BY <1>2, <1>4 DEF Commands, CoopWaits
<1> QED BY <1>9, <1>10, <1>11 DEF Commands

LEMMA ElectCommanders ==
  ASSUME Types, Commanders, Elect
  PROVE  Commanders'
<1>1. FrameTyped /\ MenuTyped BY TypesSplit
<1>2. UNCHANGED <<battle, enemy, order, ui>> /\ Party' = Party /\ Party \subseteq Players
  BY <1>1, HereOK DEF Elect, Party, FrameTyped
<1>3. GoneStays BY <1>2 DEF GoneStays
<1>4. CASE moved \/ Turn = {}
  <2>1. pc' = "frame" /\ player' = player BY <1>4 DEF Elect
  <2>2. Commands' BY <1>2, <1>3, <2>1, CommandsKept DEF Commanders
  <2> QED BY <2>1, <2>2 DEF Commanders, Commanded, CoopAlone
<1>5. CASE ~(moved \/ Turn = {})
  <2> DEFINE p == CHOOSE f \in Turn : \A q \in Turn : order[f] <= order[q]
  <2>1. p \in Turn BY <1>1, <1>5, FirstOK DEF MenuTyped
  <2>2. p \in Players /\ player[p].state = "act" BY <2>1 DEF Turn, Queued
  <2>3. /\ pc' = "playerActs" /\ at' = p
        /\ \E fit \in BOOLEAN, number \in 0..battle.party \cup 0..battle.last :
             player' = [player EXCEPT ![p] = Validated(p, fit, number)]
    BY <1>5 DEF Elect
  <2> HIDE DEF p
  <2>4. PICK fit \in BOOLEAN, number \in 0..battle.party \cup 0..battle.last :
          player' = [player EXCEPT ![p] = Validated(p, fit, number)] BY <2>3
  <2>5. /\ \A q \in Players : player'[q].state = player[q].state
        /\ \A q \in Players \ {p} : player'[q] = player[q]
        /\ player'[p].kind \in {"coop", "item", "throw", "mate"} => player'[p].kind = player[p].kind
        /\ player'[p].kind = "coop" => StillPossible(p)
    BY <1>1, <2>2, <2>4, ValidatedTyped DEF MenuTyped
  <2>6. Commands'
    <3>1. Cleared' <=> Cleared BY <1>2 DEF Cleared, Here
    <3>2. Menus' BY <1>1, <1>2, <2>5 DEF Commanders, Commands, Menus, MenuTyped
    <3>3. OneCommander' BY <1>2, <2>5, <3>1 DEF Commanders, Commands, OneCommander
    <3>4. CoopWaits' BY <1>2, <2>5 DEF Commanders, Commands, CoopWaits
    <3> QED BY <3>2, <3>3, <3>4 DEF Commands
  <2>7. Commanded' BY <2>2, <2>3, <2>5 DEF Commanded
  <2>8. ASSUME player'[p].kind = "coop", NEW q \in Party \ {p}
        PROVE  player'[q].state = "wait" /\ order'[q] = 0
    <3>0. q \in Players BY <1>2
    <3>1. player[q].state # "act" BY <2>5, <2>8 DEF StillPossible
    <3>2. player[q].state # "com" BY <3>0, <2>2, <2>5, <2>8 DEF Commanders, Commands, CoopWaits
    <3>3. player[q].state = "wait" BY <1>1, <3>0, <3>1, <3>2 DEF MenuTyped, PlayerType
    <3>4. order[q] = 0 BY <3>0, <3>3 DEF Commanders, Commands, Menus
    <3> QED BY <1>2, <2>5, <3>0, <3>3, <3>4
  <2>9. CoopAlone' BY <1>2, <2>3, <2>8 DEF CoopAlone
  <2> QED BY <2>6, <2>7, <2>9 DEF Commanders
<1> QED BY <1>4, <1>5

LEMMA PlayerActsCommanders ==
  ASSUME Types, Commanders, PlayerActs
  PROVE  Commanders'
<1>1. FrameTyped /\ MenuTyped BY TypesSplit
<1>2. GoneStays BY <1>1, PlayerActsTyped DEF GoneStays
<1>3. /\ pc = "playerActs" /\ pc' = "playerDone" /\ UNCHANGED <<battle, at, order, ui>>
      /\ at \in Players /\ Party' = Party /\ Party \subseteq Players
  BY <1>1, HereOK DEF PlayerActs, FrameTyped, Party
<1>4. player' \in {player, [q \in Players |-> [player[q] EXCEPT !.meter = 0]]} BY DEF PlayerActs
<1>5. \A q \in Players : player'[q].state = player[q].state /\ player'[q].kind = player[q].kind
  BY <1>1, <1>4 DEF MenuTyped, PlayerType
<1>6. Commands' BY <1>2, <1>3, <1>5, CommandsKept DEF Commanders
<1>7. Commanded' BY <1>3, <1>5 DEF Commanders, Commanded
<1>8. CoopAlone' BY <1>3, <1>5 DEF Commanders, CoopAlone
<1> QED BY <1>6, <1>7, <1>8 DEF Commanders

LEMMA PlayerEndsCommanders ==
  ASSUME Types, Commanders, PlayerEnds
  PROVE  Commanders'
<1>1. FrameTyped /\ MenuTyped BY TypesSplit
<1>2. /\ pc' = "frame" /\ enemy' = Buried(enemy) /\ ui' = MenuAfter(Buried(enemy))
      /\ player' = [player EXCEPT ![at] = Rested] /\ at \in Players
      /\ order' = Lined(Queued \ {at}, {}) /\ UNCHANGED battle
  BY <1>1 DEF PlayerEnds, FrameTyped
<1>3. Cleared => Cleared'
  <2>1. GoneStays BY <1>1, <1>2, BuriedOK DEF GoneStays, FrameTyped
  <2> QED BY <1>2, <2>1, ClearedStays
<1>4. ui' = ui \/ (ui'.state = "wait" /\ Cleared')
  <2>1. battle \in Battles BY <1>1 DEF FrameTyped
  <2> QED BY <1>2, <2>1, MenuClosedLate, ClosedOK
<1>5. player'[at].state = "wait" /\ \A p \in Players \ {at} : player'[p] = player[p]
  BY <1>1, <1>2, FreshTyped DEF MenuTyped
<1>6. \A p \in Players : order'[p] # 0 => p # at /\ order[p] # 0
  <2> DEFINE stay == Queued \ {at}
  <2>1. stay \in SUBSET Players /\ {} \in SUBSET Players /\ stay \cap {} = {} BY DEF Queued
  <2>2. order' = Lined(stay, {}) BY <1>2
  <2>3. \A p \in stay : p # at /\ order[p] # 0 BY DEF Queued
  <2> HIDE DEF stay
  <2> QED BY <2>1, <2>2, <2>3, LinedOK
<1>7. Menus' BY <1>1, <1>4, <1>5, <1>6 DEF Commanders, Commands, Menus, MenuTyped
<1>8. OneCommander'
  <2>1. SUFFICES ASSUME ~Cleared', NEW p \in Players, player'[p].state = "com"
                 PROVE  ui'.state # "wait" /\ ui'.cur = p BY DEF OneCommander
  <2>2. ui' = ui /\ p # at /\ player[p].state = "com" BY <1>4, <1>5, <2>1
  <2> QED BY <1>3, <2>1, <2>2 DEF Commanders, Commands, OneCommander
<1>9. CoopWaits' BY <1>2, <1>4, <1>5 DEF Commanders, Commands, CoopWaits
<1> QED BY <1>2, <1>7, <1>8, <1>9 DEF Commanders, Commands, Commanded, CoopAlone

LEMMA InitCommanders == Init => Commanders
<1> SUFFICES ASSUME Init PROVE Commanders OBVIOUS
<1>1. /\ pc = "frame" /\ ui.state = "wait"
      /\ \A p \in Players : player[p].state = "wait" /\ order[p] = 0 BY FreshTyped DEF Init
<1> QED BY <1>1 DEF Commanders, Commands, Menus, OneCommander, CoopWaits, Commanded, CoopAlone

LEMMA CommandersNext == Types /\ Commanders /\ [Next]_vars => Commanders'
<1> SUFFICES ASSUME Types, Commanders, [Next]_vars PROVE Commanders' OBVIOUS
<1>0. FrameTyped /\ MenuTyped BY TypesSplit
<1>1. ASSUME StartFrame \/ EnemyTurn \/ EnemyBlow PROVE Commanders'
  <2>1. GoneStays /\ UNCHANGED <<battle, player, order, ui>> /\ pc' \notin {"playerActs", "playerDone"}
    BY <1>1, EnemyStays DEF GoneStays, BodiesStay
  <2>2. Commands' BY <2>1, CommandsKept DEF Commanders
  <2> QED BY <2>1, <2>2 DEF Commanders, Commanded, CoopAlone
<1>2. ASSUME EnemyEnds PROVE Commanders'
  <2>1. GoneStays BY <1>0, <1>2, EndsTyped DEF GoneStays
  <2>2. UNCHANGED <<battle, player, order>> /\ pc' \in {"enemies", "ui"} BY <1>2 DEF EnemyEnds, NextEnemy
  <2>3. ui' = ui \/ (ui' = Closed /\ Cleared') BY <1>0, <1>2, EndsTyped
  <2>4. Commands' BY <2>1, <2>2, <2>3, CommandsKept DEF Commanders
  <2> QED BY <2>2, <2>4 DEF Commanders, Commanded, CoopAlone
<1>3. ASSUME MenuOfFrame PROVE Commanders'
  <2>1. Menu /\ UNCHANGED <<battle, enemy>> /\ pc' = "players" BY <1>3 DEF MenuOfFrame
  <2>2. Commands' BY <2>1, MenuCommands DEF Commanders
  <2> QED BY <2>1, <2>2 DEF Commanders, Commanded, CoopAlone
<1>4. ASSUME MenuInDelay PROVE Commanders'
  <2>1. Menu /\ UNCHANGED <<battle, pc, at, enemy>> /\ Party' = Party /\ Party \subseteq Players
    BY <1>0, <1>4, HereOK DEF MenuInDelay, Party, FrameTyped
  <2>2. Commands' BY <2>1, MenuCommands DEF Commanders
  <2>3. pc \in {"playerActs", "playerDone"} => at \in Players BY <1>0 DEF FrameTyped
  <2>4. Commanded' BY <2>1, <2>3, MenuCommands DEF Commanders, Commanded
  <2>5. CoopAlone'
    <3>1. SUFFICES ASSUME pc \in {"playerActs", "playerDone"}, player'[at].kind = "coop",
                          NEW q \in Party \ {at}
                   PROVE  player'[q].state = "wait" /\ order'[q] = 0 BY <2>1 DEF CoopAlone
    <3>2. at \in Players /\ player[at].state = "act" BY <2>3, <3>1 DEF Commanders, Commanded
    <3>3. player[at].kind = "coop" BY <2>1, <3>1, <3>2, MenuCommands DEF Commanders
    <3>4. UNCHANGED <<player, order>> BY <2>1, <3>2, <3>3, MenuCommands DEF Commanders
    <3> QED BY <3>1, <3>2, <3>3, <3>4 DEF Commanders, CoopAlone
  <2> QED BY <2>2, <2>4, <2>5 DEF Commanders
<1>5. ASSUME Charge PROVE Commanders'
  <2>1. pc' = "choose" BY <1>5 DEF Charge
  <2> QED BY <1>5, <2>1, ChargeCommands DEF Commanders, Commanded, CoopAlone
<1>6. ASSUME Elect PROVE Commanders' BY <1>6, ElectCommanders
<1>7. ASSUME PlayerActs PROVE Commanders' BY <1>7, PlayerActsCommanders
<1>8. ASSUME PlayerEnds PROVE Commanders' BY <1>8, PlayerEndsCommanders
<1>9. ASSUME StartBattle PROVE Commanders'
  <2>1. /\ pc' = "frame" /\ ui' = Unasked
        /\ \A p \in Players : player'[p] = Rested /\ order'[p] = 0 BY <1>9 DEF StartBattle, Over
  <2> QED BY <2>1, FreshTyped
      DEF Commanders, Commands, Menus, OneCommander, CoopWaits, Commanded, CoopAlone
<1>10. ASSUME UNCHANGED vars PROVE Commanders'
  BY <1>10 DEF vars, Commanders, Commands, Menus, OneCommander, CoopWaits, Commanded, CoopAlone, Cleared, Here, Party
<1> QED BY <1>1, <1>2, <1>3, <1>4, <1>5, <1>6, <1>7, <1>8, <1>9, <1>10 DEF Next, Frame

\* PAL_BattleUIPlayerReady() is called for one player at a time, and whoever
\* commits, falls or gives way loses the command with the menu (fight.c:997).
THEOREM SingleCommander == Spec => []OneCommander
<1>1. Types /\ Commanders => OneCommander BY DEF Commanders, Commands
<1> QED BY InitTypes, TypesNext, InitCommanders, CommandersNext, <1>1, PTL DEF Spec

\* PAL_BattlePlayerCheckReady() makes nobody ready while a cooperative magic
\* waits, and the validation refuses it when somebody has a command (fight.c:3213).
THEOREM CoopUndisturbed == Spec => []CoopAlone
<1>1. Types /\ Commanders => CoopAlone BY DEF Commanders
<1> QED BY InitTypes, TypesNext, InitCommanders, CommandersNext, <1>1, PTL DEF Spec

-----------------------------------------------------------------------------
(* What the commands aim at.                                               *)

LEMMA EdgeStays ==
  ASSUME Edge, GoneStays, UNCHANGED battle
  PROVE  Edge'
BY DEF Edge, GoneStays

\* What the menu commits names an enemy of this battle.
LEMMA MenuAims ==
  ASSUME Types, Menu, NEW p \in Players
  PROVE  \/ Aim(player'[p])
         \/ player'[p].kind = player[p].kind /\ player'[p].target = player[p].target
<1>1. MenuTyped BY TypesMenu
<1>2. CASE Commits
  <2>1. PICK kind \in CommandKinds, t \in Targets :
          Commit(ui.cur, kind, t) /\ (kind \in EnemyKinds => t \in 0..battle.last)
    BY <1>2 DEF Commits
  <2>2. ui.cur \in Players BY <1>1, <1>2 DEF Commits, MenuTyped
  <2> DEFINE left == IF kind = "magic" THEN 1 ELSE 0
  <2>3. player' = [player EXCEPT ![ui.cur].state = "act", ![ui.cur].kind = kind,
                                 ![ui.cur].target = t, ![ui.cur].left = left] BY <2>1 DEF Commit
  <2> HIDE DEF left
  <2>4. CASE p = ui.cur
    <3>1. player'[p].kind = kind /\ player'[p].target = t
      BY <1>1, <2>2, <2>3, <2>4 DEF MenuTyped, PlayerType
    <3> QED BY <2>1, <3>1 DEF Aim
  <2>5. CASE p # ui.cur BY <1>1, <2>3, <2>5 DEF MenuTyped
  <2> QED BY <2>4, <2>5
<1>3. CASE Calls
  <2>1. PICK c \in Players : player' = [player EXCEPT ![c].state = "com"] BY <1>3 DEF Calls
  <2> QED BY <1>1, <2>1 DEF MenuTyped, PlayerType
<1>4. CASE Looks \/ Yields \/ UNCHANGED <<player, order, ui>> BY <1>4 DEF Looks, Yields
<1> QED BY <1>2, <1>3, <1>4, MenuCases

LEMMA InitAims == Init => Aims
<1> SUFFICES ASSUME Init PROVE Aims OBVIOUS
<1>1. /\ battle \in Battles /\ enemy = Arrayed(battle, [e \in Slots |-> Absent])
      /\ \A p \in Players : player[p] = Rested BY DEF Init
<1>2. Edge BY <1>1, ArrayedOK DEF Edge
<1>3. \A p \in Players : player[p].kind \notin EnemyKinds BY <1>1, FreshTyped DEF EnemyKinds
<1> QED BY <1>2, <1>3 DEF Aims, Aim

LEMMA AimsNext == Types /\ Aims /\ [Next]_vars => Aims'
<1> SUFFICES ASSUME Types, Aims, [Next]_vars PROVE Aims' OBVIOUS
<1> USE DEF Aims, Aim, Validating
<1>0. FrameTyped /\ MenuTyped BY TypesSplit
<1>1. ASSUME StartFrame \/ EnemyTurn \/ EnemyBlow PROVE Aims'
  <2>1. BodiesStay /\ UNCHANGED <<battle, player>> BY <1>1, EnemyStays
  <2>2. pc \in {"frame", "enemies", "enemyActs"} BY <1>1 DEF StartFrame, EnemyTurn, EnemyBlow
  <2>3. Edge' BY <2>1, EdgeStays DEF GoneStays, BodiesStay
  <2> QED BY <2>1, <2>2, <2>3
<1>2. ASSUME EnemyEnds PROVE Aims'
  <2>1. GoneStays BY <1>0, <1>2, EndsTyped DEF GoneStays
  <2>2. pc = "enemyDone" /\ UNCHANGED <<battle, player>> BY <1>2 DEF EnemyEnds
  <2> QED BY <2>1, <2>2, EdgeStays
<1>3. ASSUME MenuOfFrame \/ MenuInDelay PROVE Aims'
  <2>1. /\ Menu /\ UNCHANGED <<battle, at, enemy>> /\ (pc' = pc \/ pc = "ui")
    BY <1>3 DEF MenuOfFrame, MenuInDelay
  <2>2. Edge' BY <2>1 DEF Edge
  <2>3. ASSUME NEW p \in Players PROVE Validating(p)' \/ Aim(player[p])'
    <3>1. \/ Aim(player'[p])
          \/ player'[p].kind = player[p].kind /\ player'[p].target = player[p].target
      BY <2>1, MenuAims
    <3> QED BY <2>1, <3>1
  <2> QED BY <2>2, <2>3
<1>4. ASSUME Charge PROVE Aims'
  <2>1. /\ pc = "players" /\ UNCHANGED <<battle, enemy>>
        /\ \A p \in Players : player'[p] = Charged(p) BY <1>4 DEF Charge
  <2>2. Edge' BY <2>1 DEF Edge
  <2>3. ASSUME NEW p \in Players PROVE Aim(player[p])'
    <3>1. \/ Charged(p).kind \in {"pass", "mate"}
          \/ Charged(p).kind = player[p].kind /\ Charged(p).target = player[p].target
      BY <1>0, ChargedTyped
    <3>2. Aim(player[p]) BY <2>1
    <3> QED BY <2>1, <3>1, <3>2 DEF EnemyKinds
  <2> QED BY <2>2, <2>3
<1>5. ASSUME Elect PROVE Aims'
  <2>1. pc = "choose" /\ UNCHANGED <<battle, enemy>> BY <1>5 DEF Elect
  <2>2. Edge' BY <2>1 DEF Edge
  <2>3. \/ player' = player
        \/ pc' = "playerActs" /\ \E v : player' = [player EXCEPT ![at'] = v]
    BY <1>5 DEF Elect
  <2>4. ASSUME NEW p \in Players PROVE Validating(p)' \/ player'[p] = player[p]
    BY <1>0, <2>3 DEF MenuTyped
  <2> QED BY <2>1, <2>2, <2>4
<1>6. ASSUME PlayerActs PROVE Aims'
  <2>1. /\ pc = "playerActs" /\ pc' = "playerDone" /\ UNCHANGED <<battle, at>>
        /\ player' \in {player, [q \in Players |-> [player[q] EXCEPT !.meter = 0]]} BY <1>6 DEF PlayerActs
  <2>2. Edge' BY <1>0, <1>6, <2>1, PlayerActsTyped, EdgeStays DEF GoneStays
  <2>3. \A p \in Players : player'[p].kind = player[p].kind /\ player'[p].target = player[p].target
    BY <1>0, <2>1 DEF MenuTyped, PlayerType
  <2> QED BY <2>1, <2>2, <2>3
<1>7. ASSUME PlayerEnds PROVE Aims'
  <2>1. /\ pc = "playerDone" /\ enemy' = Buried(enemy) /\ UNCHANGED battle
        /\ player' = [player EXCEPT ![at] = Rested] BY <1>7 DEF PlayerEnds
  <2>2. GoneStays BY <1>0, <2>1, BuriedOK DEF GoneStays, FrameTyped
  <2>3. ASSUME NEW p \in Players PROVE Aim(player[p])'
    <3>1. CASE p = at
      <4>1. player'[p] = Rested BY <1>0, <2>1, <3>1 DEF MenuTyped
      <4> QED BY <4>1, FreshTyped DEF EnemyKinds
    <3>2. CASE p # at BY <1>0, <2>1, <3>2 DEF MenuTyped
    <3> QED BY <3>1, <3>2
  <2> QED BY <2>1, <2>2, <2>3, EdgeStays
<1>8. ASSUME StartBattle PROVE Aims'
  <2>1. /\ battle' \in Battles /\ enemy' = Arrayed(battle', enemy)
        /\ \A p \in Players : player'[p] = Rested BY <1>8 DEF StartBattle
  <2>2. Edge' BY <2>1, ArrayedOK DEF Edge
  <2>3. \A p \in Players : player'[p].kind \notin EnemyKinds BY <2>1, FreshTyped DEF EnemyKinds
  <2> QED BY <2>2, <2>3
<1>9. ASSUME UNCHANGED vars PROVE Aims' BY <1>9 DEF vars, Edge
<1> QED BY <1>1, <1>2, <1>3, <1>4, <1>5, <1>6, <1>7, <1>8, <1>9 DEF Next, Frame

-----------------------------------------------------------------------------
(* The course of a frame.                                                  *)

LEMMA InitFrames == Init => Frames
<1> SUFFICES ASSUME Init PROVE Frames OBVIOUS
<1>1. pc = "frame" /\ \A e \in Slots : enemy[e].body # "struck" BY ArrayedOK DEF Init
<1> QED BY <1>1 DEF Frames, Bodies, Course, Begun, Supplied, TargetIsThere, SomebodyToHit

\* What a frame relies on depends on nothing that the menu, the meters and the
\* order change.
LEMMA CourseKept ==
  ASSUME Frames, UNCHANGED <<battle, moved, enemy, alive, result>>,
         pc \in {"ui", "players"}, pc' \in {"players", "choose"}
  PROVE  Frames'
<1>1. Cleared' <=> Cleared BY DEF Cleared, Here
<1> QED BY <1>1 DEF Frames, Bodies, Course, Begun, Supplied, TargetIsThere, SomebodyToHit

LEMMA StartFrames ==
  ASSUME Types, Frames, StartFrame
  PROVE  Frames'
<1>1. BodiesStay BY EnemyStays
<1>2. Cleared' <=> Cleared BY <1>1, EnemyStays DEF BodiesStay, Cleared, Here
<1>3. pc = "frame" /\ result = "ongoing" /\ UNCHANGED <<battle, alive>> BY DEF StartFrame
<1>4. Bodies' BY <1>1, <1>3 DEF Frames, Bodies, BodiesStay
<1>5. CASE pc' = "frame"
  BY <1>4, <1>5 DEF Frames, Course, Begun, Supplied, TargetIsThere, SomebodyToHit
<1>6. CASE pc' # "frame"
  <2> DEFINE turns == {e \in Here : enemy[e].turn}
  <2>1. /\ pc' = "enemies" /\ ~Cleared
        /\ puppets' = \A p \in Players : ~alive[p]
        /\ moved' = (turns # {})
        /\ result' \in IF turns = {} THEN {"ongoing"} ELSE {"ongoing", "ended"}
    BY <1>3, <1>6 DEF StartFrame, Scripted
  <2>2. result' # "ongoing" => moved' BY <2>1
  <2>3. ~puppets' => \E p \in Players : alive'[p] BY <1>3, <2>1
  <2>4. Course' BY <1>2, <2>1, <2>2, <2>3 DEF Course, Begun
  <2> QED BY <1>4, <2>1, <2>4 DEF Frames, Supplied, TargetIsThere, SomebodyToHit
<1> QED BY <1>5, <1>6

LEMMA EnemyFrames ==
  ASSUME Types, Frames, EnemyTurn
  PROVE  Frames'
<1>1. BodiesStay /\ pc' \notin {"playerActs", "playerDone"} BY EnemyStays
<1>2. Cleared' <=> Cleared BY <1>1, EnemyStays DEF BodiesStay, Cleared, Here
<1>3. pc = "enemies" /\ UNCHANGED <<puppets, alive>> BY DEF EnemyTurn
<1>4. Bodies' BY <1>1, <1>3 DEF Frames, Bodies, BodiesStay
<1>5. /\ ~moved => ~Cleared
      /\ result # "ongoing" => moved
      /\ ~moved /\ ~puppets => \E p \in Players : alive[p]
  BY <1>3 DEF Frames, Course, Begun
<1>6. \/ pc' \in {"enemies", "ui"} /\ UNCHANGED <<moved, result>>
      \/ pc' \in {"enemies", "ui"} /\ moved' = TRUE
      \/ pc' = "enemyActs" /\ ~moved /\ ~puppets /\ moved' = TRUE /\ UNCHANGED result
  BY DEF EnemyTurn, Charging, ReadyScript, Strike, MayAct, NextEnemy
<1>7. Course' BY <1>2, <1>3, <1>5, <1>6 DEF Course, Begun
<1>8. SomebodyToHit' BY <1>3, <1>5, <1>6 DEF SomebodyToHit
<1> QED BY <1>1, <1>4, <1>7, <1>8 DEF Frames, Supplied, TargetIsThere

LEMMA ElectFrames ==
  ASSUME Types, Aims, Frames, Elect
  PROVE  Frames'
<1>1. FrameTyped /\ MenuTyped BY TypesSplit
<1>2. pc = "choose" /\ UNCHANGED <<battle, enemy, alive, order, items, result>> BY DEF Elect
<1>3. Bodies' BY <1>2 DEF Frames, Bodies
<1>4. CASE moved \/ Turn = {}
  <2>1. pc' = "frame" BY <1>4 DEF Elect
  <2> QED BY <1>3, <2>1 DEF Frames, Course, Begun, Supplied, TargetIsThere, SomebodyToHit
<1>5. CASE ~(moved \/ Turn = {})
  <2>1. ~Cleared /\ ~moved /\ result = "ongoing" /\ \A e \in Slots : enemy[e].body # "struck"
    BY <1>2, <1>5 DEF Frames, Bodies, Course, Begun
  <2> DEFINE p == CHOOSE f \in Turn : \A q \in Turn : order[f] <= order[q]
  <2>2. p \in Turn BY <1>1, <1>5, FirstOK DEF MenuTyped
  <2>3. p \in Players BY <2>2 DEF Turn, Queued
  <2>4. /\ pc' = "playerActs" /\ at' = p
        /\ \E fit \in BOOLEAN, number \in 0..battle.party \cup 0..battle.last :
             player' = [player EXCEPT ![p] = Validated(p, fit, number)]
    BY <1>5 DEF Elect
  <2> HIDE DEF p
  <2>5. PICK fit \in BOOLEAN, number \in 0..battle.party \cup 0..battle.last :
          player' = [player EXCEPT ![p] = Validated(p, fit, number)] BY <2>4
  <2> DEFINE r == player'[p]
  <2>6. /\ r.kind \in {"throw", "item"} => r.kind = player[p].kind /\ StillPossible(p)
        /\ r.kind \in EnemyKinds =>
             \/ r.target = AutoTarget
             \/ /\ r.target # NoTarget /\ enemy[r.target].body # "gone"
                /\ \/ player[p].kind \in EnemyKinds /\ r.target = player[p].target
                   \/ r.kind = "attack" /\ r.target = number
    <3>1. player'[p] = Validated(p, fit, number) BY <1>1, <2>3, <2>5 DEF MenuTyped
    <3> QED BY <1>1, <2>3, <3>1, ValidatedTyped
  <2> HIDE DEF r
  <2>7. r.kind \in {"item", "throw"} => items > 0 BY <2>6 DEF StillPossible
  <2>8. ASSUME r.kind \in EnemyKinds
        PROVE  \/ r.target \in Here /\ enemy[r.target].body = "up"
               \/ r.kind = "attack" /\ r.target \in Party /\ r.target > battle.last + 1
    <3>1. /\ battle \in Battles /\ battle.party \in 1..NPlayers /\ battle.last \in 1..NSlots
          /\ 1..battle.last \subseteq Slots /\ 1..battle.party \subseteq Slots
      <4>1. battle \in Battles BY <1>1 DEF FrameTyped
      <4>2. battle.party \in 1..NPlayers /\ battle.last \in 1..NSlots /\ 1..battle.last \subseteq Slots
        BY <4>1, BattleOK
      <4> QED BY <4>1, <4>2, Numbers DEF Slots
    <3>2. ASSUME NEW e \in Slots, enemy[e].body # "gone" PROVE enemy[e].body = "up"
      BY <1>1, <2>1, <3>2 DEF FrameTyped, EnemyType
    <3>3. CASE r.target = AutoTarget
      <4>1. PICK e \in Here : TRUE BY <2>1 DEF Cleared
      <4>2. enemy[e].body = "up" BY <3>2, <4>1 DEF Here
      <4> QED BY <3>1, <3>3, <4>1, <4>2, AutoTargetOK
    <3>4. CASE r.target # AutoTarget
      <4>1. r.target # 0 /\ enemy[r.target].body # "gone" BY <2>6, <2>8, <3>4 DEF NoTarget
      <4>2. ASSUME r.target \in 0..battle.last PROVE r.target \in Here /\ enemy[r.target].body = "up"
        <5>1. r.target \in 1..battle.last BY <3>1, <4>1, <4>2
        <5>2. r.target \in Slots /\ r.target <= battle.last BY <3>1, <5>1
        <5> QED BY <3>2, <4>1, <5>2 DEF Here
      <4>3. CASE player[p].kind \in EnemyKinds /\ r.target = player[p].target
        <5>1. r.target \in 0..battle.last BY <1>2, <2>3, <4>3 DEF Aims, Aim, Validating
        <5> QED BY <4>2, <5>1
      <4>4. CASE r.kind = "attack" /\ r.target = number
        <5>1. CASE r.target \in 0..battle.last BY <4>2, <5>1
        <5>2. CASE r.target \notin 0..battle.last
          <6>1. r.target \in 1..battle.party /\ r.target > battle.last BY <3>1, <4>1, <4>4, <5>2
          <6>2. r.target \in Slots BY <3>1, <6>1
          <6>3. r.target # battle.last + 1 BY <4>1, <6>2 DEF Aims, Edge
          <6> QED BY <3>1, <4>4, <6>1, <6>3 DEF Party
        <5> QED BY <5>1, <5>2
      <4> QED BY <2>6, <2>8, <3>4, <4>3, <4>4
    <3> QED BY <3>3, <3>4
  <2>9. Course' BY <2>4 DEF Course, Begun
  <2>10. Supplied' BY <1>2, <2>4, <2>7 DEF Supplied, r
  <2>11. TargetIsThere' BY <1>2, <2>4, <2>8 DEF TargetIsThere, EnemyKinds, Here, Party, r
  <2> QED BY <1>3, <2>4, <2>9, <2>10, <2>11 DEF Frames, SomebodyToHit
<1> QED BY <1>4, <1>5

LEMMA FramesNext == Types /\ Commanders /\ Aims /\ Frames /\ [Next]_vars => Frames'
<1> SUFFICES ASSUME Types, Commanders, Aims, Frames, [Next]_vars PROVE Frames' OBVIOUS
<1>0. FrameTyped BY TypesSplit
<1>1. ASSUME StartFrame PROVE Frames' BY <1>1, StartFrames
<1>2. ASSUME EnemyTurn PROVE Frames' BY <1>2, EnemyFrames
<1>3. ASSUME EnemyBlow PROVE Frames'
  <2>1. pc = "enemyActs" /\ pc' = "enemyDone" /\ UNCHANGED <<battle, moved, enemy>> BY <1>3 DEF EnemyBlow
  <2> QED BY <2>1 DEF Frames, Bodies, Course, Begun, Supplied, TargetIsThere, SomebodyToHit
<1>4. ASSUME EnemyEnds PROVE Frames'
  <2>1. \A e \in Slots : enemy'[e].body # "struck" BY <1>0, <1>4, EndsTyped
  <2>2. pc = "enemyDone" /\ pc' \in {"enemies", "ui"} /\ UNCHANGED <<battle, moved>>
    BY <1>4 DEF EnemyEnds, NextEnemy
  <2> QED BY <2>1, <2>2 DEF Frames, Bodies, Course, Begun, Supplied, TargetIsThere, SomebodyToHit
<1>5. ASSUME MenuOfFrame PROVE Frames' BY <1>5, CourseKept DEF MenuOfFrame
<1>6. ASSUME MenuInDelay PROVE Frames'
  <2>1. Menu /\ pc \in Acting /\ UNCHANGED <<battle, pc, at, moved, puppets, enemy, alive, items, result>>
    BY <1>6 DEF MenuInDelay
  <2>2. pc = "playerActs" => player'[at].kind = player[at].kind /\ player'[at].target = player[at].target
    <3>1. pc = "playerActs" => at \in Players /\ player[at].state = "act"
      BY <1>0 DEF FrameTyped, Commanders, Commanded
    <3> QED BY <2>1, <3>1, MenuCommands DEF Commanders
  <2>3. Supplied' /\ TargetIsThere' BY <2>1, <2>2 DEF Frames, Supplied, TargetIsThere, Here, Party
  <2>4. Bodies' /\ Course' /\ SomebodyToHit'
    BY <2>1 DEF Frames, Bodies, Course, Begun, Acting, SomebodyToHit
  <2> QED BY <2>3, <2>4 DEF Frames
<1>7. ASSUME Charge PROVE Frames' BY <1>7, CourseKept DEF Charge
<1>8. ASSUME Elect PROVE Frames' BY <1>8, ElectFrames
<1>9. ASSUME PlayerActs PROVE Frames'
  <2>1. pc' = "playerDone" BY <1>9 DEF PlayerActs
  <2> QED BY <2>1 DEF Frames, Bodies, Course, Begun, Supplied, TargetIsThere, SomebodyToHit
<1>10. ASSUME PlayerEnds PROVE Frames'
  <2>1. pc' = "frame" /\ enemy' = Buried(enemy) BY <1>10 DEF PlayerEnds
  <2>2. Bodies' BY <1>0, <2>1, BuriedOK DEF Bodies, FrameTyped
  <2> QED BY <2>1, <2>2 DEF Frames, Course, Begun, Supplied, TargetIsThere, SomebodyToHit
<1>11. ASSUME StartBattle PROVE Frames'
  <2>1. pc' = "frame" /\ \A e \in Slots : enemy'[e].body # "struck"
    BY <1>11, ArrayedOK DEF StartBattle, Over
  <2> QED BY <2>1 DEF Frames, Bodies, Course, Begun, Supplied, TargetIsThere, SomebodyToHit
<1>12. ASSUME UNCHANGED vars PROVE Frames'
  BY <1>12 DEF vars, Frames, Bodies, Course, Begun, Supplied, TargetIsThere, SomebodyToHit, Cleared, Here, Party
<1> QED BY <1>1, <1>2, <1>3, <1>4, <1>5, <1>6, <1>7, <1>8, <1>9, <1>10, <1>11, <1>12 DEF Next, Frame

-----------------------------------------------------------------------------
(* The theorems.                                                           *)

\* The whole invariant: types, who commands, what they aim at, and the course of
\* a frame.
THEOREM Invariance == Spec => []IInv
<1>1. Init => IInv BY InitTypes, InitCommanders, InitAims, InitFrames DEF IInv
<1>2. IInv /\ [Next]_vars => IInv' BY TypesNext, CommandersNext, AimsNext, FramesNext DEF IInv
<1> QED BY <1>1, <1>2, PTL DEF Spec

\* PAL_BattlePlayerValidateAction() looks for another target when the one that
\* was chosen has fallen: what it leaves is an enemy of this battle, in battles of
\* any size and in any order, but for the number that a player who was confused
\* has left from a mate and PAL_StartBattle() from an earlier battle (fight.c:3340).
THEOREM Aiming == Spec => []TargetIsThere
<1>1. IInv => TargetIsThere BY DEF IInv, Frames
<1> QED BY <1>1, Invariance, PTL

\* PAL_BattleEnemySelectTargetIndex() ends: an enemy acts only in a frame that
\* began with hit points left, and nothing between takes them (fight.c:4231).
THEOREM Drawing == Spec => []SomebodyToHit
<1>1. IInv => SomebodyToHit BY DEF IInv, Frames
<1> QED BY <1>1, Invariance, PTL

\* The validation counts the items again when the turn comes, so none is used
\* that is not there (fight.c:3259).
THEOREM ItemsUsed == Spec => NothingFromNothing
<1>1. ASSUME IInv, [Next]_vars
      PROVE  [pc = "playerActs" /\ pc' = "playerDone" /\ player[at].kind \in {"item", "throw"}
                => items' = items - 1]_vars
  <2>1. SUFFICES ASSUME pc = "playerActs", pc' = "playerDone", player[at].kind \in {"item", "throw"}
                 PROVE  items' = items - 1 OBVIOUS
  <2>2. PlayerActs
    BY <1>1, <2>1 DEF Next, Frame, StartFrame, EnemyTurn, EnemyBlow, EnemyEnds, MenuOfFrame, MenuInDelay,
                      Charge, Elect, PlayerEnds, StartBattle, Over, vars
  <2>3. items > 0 BY <1>1, <2>1 DEF IInv, Frames, Supplied
  <2> QED BY <2>1, <2>2, <2>3 DEF PlayerActs
<1> QED BY <1>1, Invariance, PTL DEF Spec, NothingFromNothing

\* A script that decides the battle makes its frame one in which nobody else
\* acts, and only the end of an enemy's action could take the battle up again
\* (fight.c:792).
THEOREM Decisions == Spec => DecidedStays
<1> DEFINE Stays == /\ pc = "enemyDone" \/ result' # "ongoing"
                    /\ pc' \in {"enemyActs", "playerActs"} => pc' = pc
<1>1. ASSUME IInv, [Next]_vars
      PROVE  [result # "ongoing" /\ ~Over => Stays]_vars
  <2>1. SUFFICES ASSUME result # "ongoing", pc # "frame", Next
                 PROVE  Stays BY <1>1 DEF Over
  <2>2. Course BY <1>1 DEF IInv, Frames
  <2>3. CASE StartFrame \/ StartBattle BY <2>1, <2>3 DEF StartFrame, StartBattle, Over
  <2>4. CASE EnemyTurn
    <3>1. pc = "enemies" /\ moved BY <2>1, <2>2, <2>4 DEF Course, Begun, EnemyTurn
    <3>2. result' # "ongoing" /\ pc' \in {"enemies", "ui"}
      BY <2>1, <2>4, <3>1 DEF EnemyTurn, Charging, ReadyScript, Strike, MayAct, NextEnemy, Scripted
    <3> QED BY <3>2
  <2>5. CASE EnemyEnds BY <2>5 DEF EnemyEnds, NextEnemy
  <2>6. CASE Elect
    <3>1. moved BY <2>1, <2>2, <2>6 DEF Course, Begun, Elect
    <3> QED BY <2>1, <2>6, <3>1 DEF Elect
  <2>7. CASE EnemyBlow \/ PlayerActs \/ PlayerEnds
    BY <2>1, <2>7 DEF EnemyBlow, PlayerActs, PlayerEnds, Scripted
  <2>8. CASE MenuOfFrame \/ MenuInDelay \/ Charge
    BY <2>1, <2>8 DEF MenuOfFrame, MenuInDelay, Charge
  <2> QED BY <2>1, <2>3, <2>4, <2>5, <2>6, <2>7, <2>8 DEF Next, Frame
<1> QED BY <1>1, Invariance, PTL DEF Spec, DecidedStays
=============================================================================
