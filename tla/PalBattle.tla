----------------------------- MODULE PalBattle ------------------------------
(***************************************************************************)
(* A battle of the Paladin port, in the mode its build selects: everybody  *)
(* has a meter that fills with time (PAL_CLASSIC is not defined).          *)
(*   One thread plays it, a frame at a time: PAL_BattleStartFrame() gives  *)
(* every enemy its turn, then the menu, then every player, and at most one *)
(* of them acts.  To act takes many frames of its own, which are shown by  *)
(* PAL_BattleDelay(); it calls the menu again, so players command while    *)
(* somebody is acting.  The actions below are the pieces between which     *)
(* that can happen; "pc" says where the frame stands.                      *)
(*   Hit points are abstracted to being alive, statuses to the one of them *)
(* that matters; damage, experience and MP are left out.                   *)
(***************************************************************************)
EXTENDS Integers, FiniteSets

CONSTANTS NPlayers,     \* MAX_PLAYERS_IN_PARTY
          NSlots,       \* MAX_ENEMIES_IN_TEAM
          Battles,      \* bound: the battles that may come, one after the other
          MaxFull,      \* bound: of the frames that fill a meter
          Cap,          \* bound: of what a meter can reach
          Dual,         \* wDualMove of the enemy in each slot
          Kinds,        \* bound: the commands that may be chosen
          Troubles,     \* bound: the statuses that enemies give
          MaxItems

Players == 1..NPlayers
Slots == 1..NSlots
NoTarget == 0

ASSUME PalBattleAssumption ==
  /\ NPlayers \in Nat \ {0} /\ NSlots \in Nat /\ NSlots >= NPlayers  \* 3 and 5 in the game
  /\ Battles \subseteq [party : 1..NPlayers, last : 1..NSlots, team : SUBSET Slots,
                      full : 1..MaxFull, cap : 0..Cap, kinds : SUBSET Kinds,
                      troubles : SUBSET Troubles, items : 0..MaxItems]
  /\ \A b \in Battles : b.team # {} /\ b.team \subseteq 1..b.last /\ b.full <= b.cap
  /\ MaxFull \in Nat \ {0} /\ Cap \in Nat
  /\ Dual \in [Slots -> 0..2]
  /\ Kinds \subseteq {"attack", "magic", "coop", "defend", "flee", "item", "throw"}
  /\ Troubles \subseteq {"sleep", "confused"}
  /\ MaxItems \in Nat

VARIABLES battle,    \* its party, wMaxEnemyIndex, the slots its team fills, and bounds
          pc, at,    \* where the frame stands, and whose turn it is
          moved,     \* fMoved: nobody else acts in this frame
          puppets,   \* fOnlyPuppet
          enemy,     \* rgEnemy, also the slots behind the last enemy
          player,
          alive,     \* has hit points
          trouble,   \* the status that takes a player's commands away
          order,     \* sTurnOrder, numbered from 1 without gaps; 0 stands for -1
          ui,
          items,     \* the number left of the one item
          result     \* BattleResult

vars == <<battle, pc, at, moved, puppets, enemy, player, alive, trouble, order, ui, items, result>>

Acting == {"enemyActs", "enemyDone", "playerActs", "playerDone"}

\* The body of an enemy is "struck" from the blow that took its last hit point
\* until PAL_BattlePostActionCheck() clears wObjectID.
TypeOK ==
  /\ battle \in Battles
  /\ pc \in {"frame", "enemies", "ui", "players", "choose"} \cup Acting
  /\ at \in 0..NPlayers + NSlots
  /\ moved \in BOOLEAN /\ puppets \in BOOLEAN
  /\ enemy \in [Slots -> [body : {"up", "struck", "gone"}, state : {"wait", "com", "act"},
                          meter : 0..MaxFull + 1, turn : BOOLEAN, dual : BOOLEAN, first : BOOLEAN]]
  /\ player \in [Players -> [state : {"wait", "com", "act"}, meter : 0..Cap, left : 0..1,
                             kind : Kinds \cup {"attack", "defend", "pass", "mate"},
                             target : 0..NPlayers + NSlots]]
  /\ alive \in [Players -> BOOLEAN]
  /\ trouble \in [Players -> {"none", "sleep", "confused", "puppet"}]
  /\ order \in [Players -> 0..NPlayers]
  /\ ui \in [state : {"wait", "move", "menu", "target"}, cur : 0..NPlayers,
            kind : Kinds \cup {"none"}, prev : Slots]
  /\ items \in 0..MaxItems
  /\ result \in {"ongoing", "won", "lost", "ended"}

-----------------------------------------------------------------------------
(* What the frame asks of the state.                                       *)

\* The members of the party; PAL_UpdateTimeChargingUnit(); and the enemies up to
\* wMaxEnemyIndex.
Party == 1..battle.party
Full == battle.full       \* in so many frames a meter is full
Here == {e \in Slots : e <= battle.last /\ enemy[e].body # "gone"}
Cleared == Here = {}                      \* fEnemyCleared
InPlay(p) == alive[p] \/ trouble[p] = "puppet"

\* PAL_GetTimeChargingSpeed: time stands still in a submenu.
Paused == ui.state = "menu"

\* PAL_BattleSelectAutoTarget: the enemy chosen last, the first one, or none.
AutoTarget ==
  LET up == {e \in Here : enemy[e].body = "up"}
  IN  CASE ui.prev \in up -> ui.prev
        [] up = {} -> NoTarget
        [] OTHER -> CHOOSE e \in up : \A f \in up : e <= f

\* Who else could be struck by a confused player.
Mates(p) == {q \in Players \ {p} : alive[q]}

\* PAL_BattleUIIsActionValid for cooperative magic
CoopOffered ==
  /\ battle.party > 1
  /\ \A q \in Party : /\ alive[q] /\ trouble[q] \notin {"sleep", "confused"}
                      /\ player[q].meter >= Full /\ player[q].state # "act"

-----------------------------------------------------------------------------
(* Commands.                                                               *)

Queued == {p \in Players : order[p] # 0}

\* Of those who have a place, stay keep theirs; new ones come behind them, by index.
Lined(stay, new) ==
  [p \in Players |-> CASE p \in stay -> Cardinality({q \in stay : order[q] <= order[p]})
                       [] p \in new -> Cardinality(stay) + Cardinality({q \in new : q <= p})
                       [] OTHER -> 0]

\* What is not read again is forgotten: whose menu was shown, and the command
\* that was carried out.
Closed == [ui EXCEPT !.state = "wait", !.cur = 0, !.kind = "none"]
Rested == [state |-> "wait", meter |-> 0, left |-> 0, kind |-> "pass", target |-> NoTarget]

\* PAL_BattleCommitAction: a magic takes time before its turn comes.
Commit(p, kind, target) ==
  LET left == IF kind = "magic" THEN 1 ELSE 0
  IN  /\ player' = [player EXCEPT ![p].state = "act", ![p].kind = kind,
                                  ![p].target = target, ![p].left = left]
      /\ order' = Lined(Queued \ {p}, IF left = 0 THEN {p} ELSE {})
CommitAction(kind, target) == Commit(ui.cur, kind, target) /\ ui' = Closed

\* Bug: the others command although a cooperative magic is about to be cast.
CommandingOnly == {p \in Players : player[p].state = "com"}

\* Who keeps the others from becoming ready.
Commanding == {p \in Players : \/ player[p].state = "com"
                               \/ player[p].state = "act" /\ player[p].kind = "coop"}

\* PAL_BattlePlayerCheckReady and PAL_BattleUIPlayerReady: the fullest meter
\* commands, unless somebody commands already.
Ready ==
  LET full == {p \in Party : player[p].state = "wait" /\ player[p].meter >= Full}
      next == CHOOSE p \in full : \A q \in full : \/ player[q].meter < player[p].meter
                                                  \/ player[q].meter = player[p].meter /\ p <= q
  IN  /\ ui.state = "wait" /\ ~Cleared
      /\ IF Commanding = {} /\ full # {}
         THEN /\ player' = [player EXCEPT ![next].state = "com"]
              /\ ui' = [ui EXCEPT !.state = "move", !.cur = next]
         ELSE UNCHANGED <<player, ui>>
      /\ UNCHANGED order

\* What PAL_BattleUIUpdate commits for a player who cannot command.  A command
\* given without a target keeps the number the menu pointed at last; it is read
\* only when a confused player comes to himself, see Elect.
Forced ==
  LET p == ui.cur
  IN  /\ ui.state # "wait"
      /\ CASE ~alive[p] /\ trouble[p] = "puppet" -> CommitAction("attack", AutoTarget)
           [] trouble[p] = "sleep" \/ ~alive[p]  -> CommitAction("pass", NoTarget)
           [] trouble[p] = "confused"            -> CommitAction("mate", NoTarget)
           [] OTHER -> FALSE

Free == ui.state # "wait" /\ alive[ui.cur] /\ trouble[ui.cur] \notin {"sleep", "confused"}

\* The main menu: submenus, targets, and the keys that commit at once.
OpenMenu == Free /\ ui.state = "move" /\ battle.kinds \cap {"magic", "item", "throw"} # {} /\ ui' = [ui EXCEPT !.state = "menu"] /\ UNCHANGED <<player, order>>
Back == /\ Free /\ ui.state \in {"menu", "target"} /\ UNCHANGED <<player, order>>
        /\ ui' = [ui EXCEPT !.state = IF ui.kind \in {"item", "throw"} THEN "menu" ELSE "move",
                            !.kind = "none"]
Choose(kind) ==
  /\ Free /\ kind \in battle.kinds
  /\ \/ ui.state = "move" /\ kind = "attack"
     \/ ui.state = "move" /\ kind = "coop" /\ CoopOffered
     \/ ui.state = "menu" /\ kind = "magic"
     \/ ui.state = "menu" /\ kind \in {"item", "throw"} /\ items > 0
  /\ ui' = [ui EXCEPT !.state = "target", !.kind = kind] /\ UNCHANGED <<player, order>>
Pick(t) ==
  /\ Free /\ ui.state = "target"
  /\ ui.kind = "coop" => CoopOffered
  /\ t \in IF ui.kind = "item" THEN Party ELSE Here
  /\ Commit(ui.cur, ui.kind, t)
  /\ ui' = IF ui.kind = "item" THEN Closed ELSE [Closed EXCEPT !.prev = t]
AtOnce(kind) == Free /\ ui.state = "move" /\ kind \in battle.kinds \cap {"defend", "flee"}
                /\ CommitAction(kind, NoTarget)
ForceAttack == Free /\ ui.state = "move" /\ "attack" \in battle.kinds /\ CommitAction("attack", AutoTarget)

\* The meters that are full are raised, so that none falls behind.
Raised(p) == player[p].meter + IF player[p].meter >= Full THEN Full ELSE 0

\* Bug: the player who gives way keeps the command.
SwitchTo(q) ==
  player' = [p \in Players |->
    IF p = ui.cur THEN [player[p] EXCEPT !.meter = Raised(q) - (Full - 1)]
    ELSE [player[p] EXCEPT !.meter = Raised(p)]]

\* The player in command is put just behind q.
GiveWay(q) ==
  player' = [p \in Players |->
    IF p = ui.cur THEN [player[p] EXCEPT !.meter = Raised(q) - (Full - 1), !.state = "wait"]
    ELSE [player[p] EXCEPT !.meter = Raised(p)]]

\* kKeyMenu: another player who is ready commands first.
Switch ==
  LET others == {p \in Party \ {ui.cur} : player[p].state = "wait" /\ player[p].meter >= Full}
  IN  /\ Free /\ ui.state = "move"
      /\ \A p \in Players : Raised(p) <= battle.cap
      /\ IF others = {}
         THEN player' = [p \in Players |-> [player[p] EXCEPT !.meter = Raised(p)]] /\ UNCHANGED ui
         ELSE /\ \E q \in others : GiveWay(q) /\ \A p \in others : player[q].meter <= player[p].meter
              /\ ui' = Closed
      /\ UNCHANGED order

\* PAL_BattleUIUpdate; without a key, or while the status screen is shown,
\* nothing happens.
Menu == \/ Ready \/ Forced \/ OpenMenu \/ Back \/ ForceAttack \/ Switch
        \/ \E kind \in Kinds : Choose(kind) \/ AtOnce(kind)
        \/ \E t \in Players \cup Slots : Pick(t)
        \/ UNCHANGED <<player, order, ui>>

-----------------------------------------------------------------------------
(* The frame.                                                              *)

\* What a script may make of the result: instruction 0x89 sets it, 0x3A flees.
\* Fleeing and being ended are the same here.
Scripted(r) == {r, "ended"}

Over == pc = "frame" /\ result # "ongoing"

\* PAL_BattleStartFrame up to the loop over the enemies.  A script that runs at
\* the start of an enemy's turn may end the battle.
StartFrame ==
  /\ pc = "frame" /\ result = "ongoing"
  /\ CASE Cleared -> result' = "won" /\ UNCHANGED <<pc, at, moved, puppets, enemy>>
       [] ~Cleared /\ \A p \in Players : ~InPlay(p) ->
            result' = "lost" /\ UNCHANGED <<pc, at, moved, puppets, enemy>>
       [] OTHER ->
            LET turns == {e \in Here : enemy[e].turn}
            IN  /\ puppets' = \A p \in Players : ~alive[p]
                /\ moved' = (turns # {})
                /\ enemy' = [e \in Slots |-> IF e \in turns THEN [enemy[e] EXCEPT !.turn = FALSE]
                                                            ELSE enemy[e]]
                /\ result' \in IF turns = {} THEN {"ongoing"} ELSE Scripted("ongoing")
                /\ pc' = "enemies" /\ at' = 1
  /\ UNCHANGED <<battle, player, alive, trouble, order, ui, items>>

NextEnemy(e) == IF e = battle.last THEN pc' = "ui" /\ at' = 0 ELSE pc' = "enemies" /\ at' = e + 1

Charging(e) ==
  LET m == enemy[e].meter + 1
  IN  /\ enemy[e].state = "wait"
      /\ enemy' = IF Paused THEN enemy
                  ELSE [enemy EXCEPT ![e].meter = m, ![e].state = IF m > Full THEN "com" ELSE @]
      /\ NextEnemy(e) /\ UNCHANGED <<moved, result>>

\* Bug: another enemy may act in the frame of this script.
ReadyQuietly(e) ==
  /\ enemy[e].state = "com"
  /\ enemy' = [enemy EXCEPT ![e].state = "act"]
  /\ result' \in Scripted(result)
  /\ NextEnemy(e) /\ UNCHANGED moved

\* The script of an enemy that is ready may end the battle, too.
ReadyScript(e) ==
  /\ enemy[e].state = "com"
  /\ enemy' = [enemy EXCEPT ![e].state = "act"]
  /\ moved' = TRUE
  /\ result' \in Scripted(result)
  /\ NextEnemy(e)

\* Bug: an enemy acts although only puppets are left.
MayActAnyway(e) == ~moved /\ (~Paused \/ enemy[e].dual)

MayAct(e) == ~moved /\ (~Paused \/ enemy[e].dual) /\ ~puppets

Strike(e) ==
  /\ enemy[e].state = "act"
  /\ IF MayAct(e)
     THEN /\ moved' = TRUE /\ pc' = "enemyActs" /\ at' = e
          /\ \E d \in BOOLEAN :
               /\ d => ~enemy[e].first /\ Dual[e] > 0
               /\ ~enemy[e].first /\ Dual[e] = 2 => d
               /\ enemy' = [enemy EXCEPT ![e].dual = d]
     ELSE NextEnemy(e) /\ UNCHANGED <<moved, enemy>>
  /\ UNCHANGED result

EnemyTurn ==
  /\ pc = "enemies"
  /\ IF enemy[at].body = "gone" THEN NextEnemy(at) /\ UNCHANGED <<moved, enemy, result>>
     ELSE Charging(at) \/ ReadyScript(at) \/ Strike(at)
  /\ UNCHANGED <<battle, puppets, player, alive, trouble, order, ui, items>>

\* PAL_BattleEnemyPerformAction: blows and magic, on players with hit points, and
\* the scripts of the magic or of the item that a blow is worth.
EnemyBlow ==
  /\ pc = "enemyActs" /\ pc' = "enemyDone"
  /\ \/ \E hit \in SUBSET {p \in Players : alive[p]} :
          alive' = [p \in Players |-> alive[p] /\ p \notin hit] /\ UNCHANGED trouble
     \/ \E p \in Players, t \in battle.troubles :
          alive[p] /\ trouble[p] = "none" /\ trouble' = [trouble EXCEPT ![p] = t] /\ UNCHANGED alive
  /\ result' \in Scripted(result)
  /\ UNCHANGED <<battle, at, moved, puppets, enemy, player, order, ui, items>>

\* Of an empty slot nothing is read.
Absent == [body |-> "gone", state |-> "wait", meter |-> 0, turn |-> FALSE, dual |-> FALSE, first |-> FALSE]

\* PAL_BattlePostActionCheck, which also takes the menu away from the last player.
Buried(es) == [e \in Slots |-> IF es[e].body = "struck" THEN Absent ELSE es[e]]
MenuAfter(es) == IF \A e \in 1..battle.last : es[e].body = "gone" THEN Closed ELSE ui

\* The next move of an enemy who has acted.
Rearmed(r) == IF r.dual THEN [r EXCEPT !.meter = Full, !.state = "com", !.first = TRUE]
              ELSE [r EXCEPT !.meter = 0, !.state = "wait", !.first = FALSE, !.turn = TRUE]

\* The script of a friend or of a dying player runs in a pause, and the battle
\* goes on after it, whatever had been decided in this action.  The poisons of
\* the enemy run after that, at the end of its round, and may decide again.
EnemyEnds ==
  LET e == at
      checked == IF \E p \in Players : alive[p] /\ trouble[p] = "none" THEN {result, "ongoing"} ELSE {result}
  IN  /\ pc = "enemyDone" /\ NextEnemy(e)
      /\ result' \in IF enemy[e].dual THEN checked ELSE UNION {Scripted(r) : r \in checked}
      /\ \E body \in IF enemy[e].dual THEN {enemy[e].body} ELSE {enemy[e].body, "struck"} :
           LET after == Buried([enemy EXCEPT ![e].body = body])
           IN  /\ enemy' = IF after[e].body = "gone" THEN after ELSE [after EXCEPT ![e] = Rearmed(after[e])]
               /\ ui' = MenuAfter(after)
      /\ UNCHANGED <<battle, moved, puppets, player, alive, trouble, order, items>>

\* The menu of the frame, and while somebody acts.
MenuOfFrame == pc = "ui" /\ pc' = "players" /\ Menu
               /\ UNCHANGED <<battle, at, moved, puppets, enemy, alive, trouble, items, result>>
MenuInDelay == pc \in Acting /\ Menu
               /\ UNCHANGED <<battle, pc, at, moved, puppets, enemy, alive, trouble, items, result>>

\* The loop over the players: meters, and those whose turn has come.
Charged(p) ==
  LET r == player[p]
      kind == CASE trouble[p] = "sleep" -> "pass" [] trouble[p] = "confused" -> "mate" [] OTHER -> r.kind
  IN  CASE ~InPlay(p) -> Rested
        [] InPlay(p) /\ r.state = "wait" ->
             [r EXCEPT !.meter = IF Paused \/ @ >= battle.cap THEN @ ELSE @ + 1]
        [] InPlay(p) /\ r.state = "act" ->
             [r EXCEPT !.kind = kind,
                       !.target = IF kind = "mate" THEN NoTarget ELSE @,
                       !.left = IF ~Paused \/ trouble[p] \in {"sleep", "confused"} THEN 0 ELSE @]
        [] OTHER -> r

Charge ==
  /\ pc = "players" /\ pc' = "choose"
  /\ player' = [p \in Players |-> Charged(p)]
  /\ LET inTime == {p \in Players \ Queued : InPlay(p) /\ player[p].state = "act" /\ Charged(p).left = 0}
     IN  order' = Lined({p \in Queued : InPlay(p)}, inTime)
  /\ UNCHANGED <<battle, at, moved, puppets, enemy, alive, trouble, ui, items, result>>

-----------------------------------------------------------------------------
(* The turn of a player.                                                   *)

\* Bug: an item that another player has used up is used again.
StillPossibleTwice(p) ==
  LET r == player[p]
  IN  CASE r.kind = "coop" -> \A q \in Party : /\ alive[q] /\ trouble[q] \notin {"sleep", "confused"}
                                               /\ player[q].meter >= Full
                                               /\ q = p \/ player[q].state # "act"
        [] r.kind = "mate" -> trouble[p] = "confused" /\ Mates(p) # {}
        [] OTHER -> TRUE

\* Whether a command can still be carried out as it was given.
StillPossible(p) ==
  LET r == player[p]
  IN  CASE r.kind = "coop" -> \A q \in Party : /\ alive[q] /\ trouble[q] \notin {"sleep", "confused"}
                                               /\ player[q].meter >= Full
                                               /\ q = p \/ player[q].state # "act"
        [] r.kind \in {"item", "throw"} -> items > 0
        [] r.kind = "mate" -> trouble[p] = "confused" /\ Mates(p) # {}
        [] OTHER -> TRUE

\* Bug: the enemy may have fallen since it was chosen.
AimedAsChosen(kind, t, p) ==
  CASE kind \in {"attack", "magic", "coop", "throw"} -> IF t = NoTarget THEN AutoTarget ELSE t
    [] kind = "item" /\ t = NoTarget -> p
    [] OTHER -> t

\* The target of a command, and another one when its slot is empty; nobody asks
\* whether the slot is one of this battle.
Aimed(kind, t, p) ==
  CASE kind \in {"attack", "magic", "coop", "throw"} ->
         IF t # NoTarget /\ enemy[t].body # "gone" THEN t ELSE AutoTarget
    [] kind = "item" /\ t = NoTarget -> p
    [] OTHER -> t

\* PAL_BattlePlayerValidateAction; a magic may also lack MP or be silenced, and an
\* attack on a mate has the number that was left in the menu.
Validated(p, fit, number) ==
  LET r == player[p]
      kind == CASE r.kind = "magic" /\ ~fit -> "attack"
                [] r.kind = "item" /\ ~StillPossible(p) -> "defend"
                [] r.kind \in {"coop", "throw", "mate"} /\ ~StillPossible(p) -> "attack"
                [] OTHER -> r.kind
      named == IF r.kind = "mate" /\ kind = "attack" THEN number ELSE r.target
  IN  [r EXCEPT !.kind = kind, !.target = Aimed(kind, named, p)]

\* Bug: players, too, wait while a submenu is open.
TurnUnlessPaused == {p \in Queued : InPlay(p) /\ player[p].state = "act" /\ ~Paused}

Turn == {p \in Queued : InPlay(p) /\ player[p].state = "act"}

\* The end of the frame: the first in the order acts, unless somebody has.
Elect ==
  /\ pc = "choose"
  /\ IF moved \/ Turn = {}
     THEN pc' = "frame" /\ at' = 0 /\ moved' = FALSE /\ puppets' = FALSE /\ UNCHANGED player
     ELSE LET p == CHOOSE f \in Turn : \A q \in Turn : order[f] <= order[q]
          IN  /\ pc' = "playerActs" /\ at' = p /\ UNCHANGED <<moved, puppets>>
              /\ \E fit \in BOOLEAN, number \in 0..battle.party \cup 0..battle.last :
                   player' = [player EXCEPT ![p] = Validated(p, fit, number)]
  /\ UNCHANGED <<battle, enemy, alive, trouble, order, ui, items, result>>

Struck(S) == [e \in Slots |-> IF e \in S /\ enemy[e].body = "up" THEN [enemy[e] EXCEPT !.body = "struck"] ELSE enemy[e]]

\* What an item does to player q: a dead one is revived or made a puppet, a
\* living one is cured.
ItemUsed(q) ==
  IF alive[q] THEN trouble' = [trouble EXCEPT ![q] = "none"] /\ UNCHANGED alive
  ELSE \/ alive' = [alive EXCEPT ![q] = TRUE] /\ trouble' = [trouble EXCEPT ![q] = "none"]
       \/ trouble[q] = "none" /\ trouble' = [trouble EXCEPT ![q] = "puppet"] /\ UNCHANGED alive

\* PAL_BattlePlayerPerformAction: what the action does.  A weapon or a magic may
\* meet all the enemies; what the number of an older one loses, nobody reads.
PlayerActs ==
  LET p == at
      kind == player[p].kind
  IN  /\ pc = "playerActs" /\ pc' = "playerDone"
      /\ IF kind \in {"attack", "magic", "throw", "coop"}
         THEN \E hit \in SUBSET Here : enemy' = Struck(hit) ELSE UNCHANGED enemy
      /\ items' = IF kind \in {"item", "throw"} /\ items > 0 THEN items - 1 ELSE items
      /\ CASE kind = "item" -> ItemUsed(player[p].target)
           [] kind = "mate" -> /\ \E hit \in Mates(p), dies \in BOOLEAN : alive' = [alive EXCEPT ![hit] = ~dies]
                               /\ UNCHANGED trouble
           [] OTHER -> UNCHANGED <<alive, trouble>>
      /\ player' = IF kind = "coop" THEN [q \in Players |-> [player[q] EXCEPT !.meter = 0]] ELSE player
      /\ result' \in IF kind \in {"flee", "magic", "item", "throw"} THEN Scripted(result) ELSE {result}
      /\ UNCHANGED <<battle, at, moved, puppets, order, ui>>

\* PAL_BattlePostActionCheck, poisons and statuses, which end one round later.
\* The poisons are scripts; they run only while the battle goes on.
PlayerEnds ==
  LET p == at
      after == Buried(enemy)
      goesOn == result = "ongoing" /\ \E e \in 1..battle.last : after[e].body # "gone"
  IN  /\ pc = "playerDone" /\ pc' = "frame" /\ at' = 0
      /\ enemy' = after /\ ui' = MenuAfter(after)
      /\ \E dies \in IF goesOn THEN BOOLEAN ELSE {FALSE} : alive' = [alive EXCEPT ![p] = @ /\ ~dies]
      /\ result' \in IF goesOn THEN Scripted(result) ELSE {result}
      /\ trouble' \in {trouble, [trouble EXCEPT ![p] = "none"]}
      /\ player' = [player EXCEPT ![p] = Rested]
      /\ order' = Lined(Queued \ {p}, {})
      /\ moved' = FALSE /\ puppets' = FALSE
      /\ UNCHANGED <<battle, items>>

-----------------------------------------------------------------------------

Fresh(b) == [body |-> "up", state |-> "wait", meter |-> b.full \div 2, turn |-> FALSE, dual |-> FALSE, first |-> FALSE]

\* PAL_StartBattle clears the slots up to the one behind the last; what is left
\* in the others by an earlier battle has an object ID, and that is all that is
\* read of it.
Arrayed(b, old) ==
  [e \in Slots |-> CASE e \in b.team -> Fresh(b)
                     [] e > b.last + 1 /\ old[e].body # "gone" -> [Absent EXCEPT !.body = "up"]
                     [] OTHER -> Absent]
Unasked == [state |-> "wait", cur |-> 0, kind |-> "none", prev |-> 1]

\* Who had no hit points gets one.  A script before the first frame may decide.
StartBattle ==
  /\ Over
  /\ battle' \in Battles
  /\ enemy' = Arrayed(battle', enemy)
  /\ player' = [p \in Players |-> Rested]
  /\ alive' = [p \in Players |-> p <= battle'.party] /\ trouble' = [p \in Players |-> "none"]
  /\ order' = [p \in Players |-> 0] /\ ui' = Unasked
  /\ items' = battle'.items
  /\ result' \in Scripted("ongoing")
  /\ UNCHANGED <<pc, at, moved, puppets>>

Init ==
  /\ battle \in Battles
  /\ pc = "frame" /\ at = 0 /\ moved = FALSE /\ puppets = FALSE
  /\ enemy = Arrayed(battle, [e \in Slots |-> Absent]) /\ player = [p \in Players |-> Rested]
  /\ alive = [p \in Players |-> p <= battle.party] /\ trouble = [p \in Players |-> "none"]
  /\ order = [p \in Players |-> 0] /\ ui = Unasked
  /\ items = battle.items /\ result = "ongoing"

Frame == \/ StartFrame \/ EnemyTurn \/ EnemyBlow \/ EnemyEnds \/ MenuOfFrame
         \/ Charge \/ Elect \/ PlayerActs \/ PlayerEnds

Next == Frame \/ MenuInDelay \/ StartBattle

\* PAL_BattleMain never stops asking for the next frame, and PAL_BattleDelay
\* for the next action; nothing is assumed of who holds the keys.
Spec == Init /\ [][Next]_vars /\ WF_vars(Frame)

-----------------------------------------------------------------------------

\* The player who commands is the one whose menu is shown, and the only one,
\* although the menu also runs while others act, fall or cast (uibattle.c:775).
OneCommander ==
  ~Cleared => \A p \in Players : player[p].state = "com" => ui.state # "wait" /\ ui.cur = p

\* While a cooperative magic is cast, which takes the strength of all, nobody
\* else commands or has a command waiting (fight.c:1020, 3213).
CoopAlone ==
  \A p \in Players :
    pc \in {"playerActs", "playerDone"} /\ at = p /\ player[p].kind = "coop"
      => \A q \in Party \ {p} : player[q].state = "wait" /\ order[q] = 0

\* A blow, a magic or a missile meets an enemy of this battle who has not fallen,
\* although others acted since it was aimed (fight.c:3340).  One case is excepted,
\* in which the code fails: an attack meant for a mate, of which only the number
\* is left, meets a slot that an earlier battle filled and PAL_StartBattle() did
\* not clear (battle.c:1193).
TargetIsThere ==
  pc = "playerActs" /\ player[at].kind \in {"attack", "magic", "coop", "throw"}
    => LET t == player[at].target
       IN  \/ t \in Here /\ enemy[t].body = "up"
           \/ player[at].kind = "attack" /\ t \in Party /\ t > battle.last + 1

\* PAL_BattleEnemySelectTargetIndex draws until it finds a player with hit
\* points: there is one whenever an enemy acts (fight.c:4231).
SomebodyToHit == pc = "enemyActs" => \E p \in Players : alive[p]

\* Every item used or thrown in a battle was there, although two players may
\* have chosen the last one (fight.c:3259).
NothingFromNothing ==
  [][pc = "playerActs" /\ pc' = "playerDone" /\ player[at].kind \in {"item", "throw"}
       => items' = items - 1]_vars

\* Once a script has decided the battle, nobody begins to act any more, and it
\* stays decided until it is over.  The exception is the end of the very action
\* in which an enemy's magic or blow decided it: there the script of a friend
\* takes the battle up again (fight.c:792, 855).
DecidedStays ==
  [][result # "ongoing" /\ ~Over =>
       /\ pc = "enemyDone" \/ result' # "ongoing"
       /\ pc' \in {"enemyActs", "playerActs"} => pc' = pc]_vars

\* Whose turn has come gets it, or falls, or the battle is over, even while a
\* submenu stops the time and enemies come first (fight.c:1318).  It is true of
\* enemies whose meters take longer to fill than all of them take to act: each
\* keeps three frames of a round to itself, its script, its action and the start of
\* the turn after it.  In the game the time unit is one over the dexterity of the
\* first player and speeds are divided by four (fight.c:388, 437): the meter of an
\* enemy ten times as quick as that player takes forty frames.
TurnComes == \A p \in Players : order[p] # 0 ~> (order[p] = 0 \/ result # "ongoing")
=============================================================================
