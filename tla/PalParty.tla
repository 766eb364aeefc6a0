------------------------------ MODULE PalParty ------------------------------
(***************************************************************************)
(* The condition of the party in the port of Sword and Fairy: who is in    *)
(* it, hit points, poisons and statuses, and what equipment adds to them   *)
(* (game/src/nemu-pal/global/global.c).  Three arrays say it, and only two *)
(* are indexed by the role: rgPoisonStatus is indexed by the position in   *)
(* the party.                                                              *)
(*   The actions are the script instructions that change these arrays      *)
(* (game/script.c), the start and the end of a battle (battle/battle.c),   *)
(* the end of a player's turn (battle/fight.c), and saving and loading.    *)
(*   Of the equipment, the hand may hold a weapon whose script sets the    *)
(* dual attack, and the role may wear a charm whose script gives a poison  *)
(* of level 99: those are the effects kept in the arrays above.            *)
(***************************************************************************)
EXTENDS Integers, Sequences, FiniteSets

CONSTANTS NRoles,
          MaxParty,          \* 3 in the game
          Poisons, NoPoison,
          Level,             \* of a poison
          Charm,             \* the poison of level 99 that the charm gives
          MaxPoisons,        \* 16 in the game
          MaxHP,
          Statuses,          \* the statuses followed
          Troubled,          \* bound: the roles they are set for
          Armed, Charmed,    \* the roles that the weapon and the charm fit
          MaxRounds          \* 999: what lasts longer comes from equipment

Roles == 1..NRoles
Places == 1..MaxParty
Bad == {"confused", "sleep", "silence", "slow"}
Good == {"bravery", "protect", "dual", "haste"}

ASSUME PalPartyAssumption ==
  /\ NRoles \in Nat \ {0} /\ MaxParty \in Nat \ {0}
  /\ NoPoison \notin Poisons /\ Charm \in Poisons
  /\ Level \in [Poisons -> 0..99]
  /\ \A p \in Poisons : Level[p] = 99 <=> p = Charm
  /\ MaxPoisons \in Nat \ {0} /\ MaxHP \in Nat \ {0, 1}
  /\ {"puppet", "dual", "haste", "slow"} \subseteq Statuses
  /\ Statuses \subseteq Bad \cup Good \cup {"puppet"}
  /\ Troubled \subseteq Roles /\ Armed \subseteq Roles /\ Charmed \subseteq Roles
  /\ MaxRounds \in Nat \ {0}

VARIABLES party,    \* rgParty, up to wMaxPartyMemberIndex
          hp,       \* PlayerRoles.rgwHP
          poison,   \* rgPoisonStatus, by place in the party
          status,   \* rgPlayerStatus, the rounds each lasts
          worn,     \* which of the two pieces of equipment a role has on
          battle    \* fInBattle

vars == <<party, hp, poison, status, worn, battle>>

Parties == {p \in UNION {[1..n -> Roles] : n \in 1..MaxParty} :
              \A i, k \in DOMAIN p : p[i] = p[k] => i = k}

\* A poison remembers the role it was given to, which the program does not.
Empty == [id |-> NoPoison, of |-> 0]
Slot == {Empty} \cup [id : Poisons, of : Roles]
Clean == [j \in 1..MaxPoisons |-> Empty]

Lasting == MaxRounds + 1
Healthy == [s \in Statuses |-> 0]

PlacesOf(r) == {i \in DOMAIN party : party[i] = r}
Members == {party[i] : i \in DOMAIN party}

-----------------------------------------------------------------------------
(* The slots of a player.                                                  *)

\* PAL_AddPoisonForPlayer: the search ends at the first free slot.
Added(v, p, r) ==
  LET ends == {j \in DOMAIN v : v[j].id \in {p, NoPoison}}
      j == CHOOSE j \in ends : \A k \in ends : j <= k
  IN  IF ends = {} \/ v[j].id = p THEN v ELSE [v EXCEPT ![j] = [id |-> p, of |-> r]]

\* PAL_CurePoisonByKind and PAL_CurePoisonByLevel leave a gap.
Cured(v, kinds) == [j \in DOMAIN v |-> IF v[j].id \in kinds THEN Empty ELSE v[j]]
UpTo(level) == {p \in Poisons : Level[p] <= level}

\* Bug: poisons of level 99 stay, too.
KeptOff(v) == v

\* PAL_RemoveEquipmentEffect for what is worn: the poisons of a lower level
\* move together, up to the first gap, and all else is cleared.
WearOff(v) ==
  LET gapless == {j \in DOMAIN v : \A k \in 1..j : v[k].id # NoPoison}
      kept == {j \in gapless : Level[v[j].id] < 99}
      Source(n) == {j \in kept : Cardinality({k \in kept : k < j}) = n - 1}
  IN  [n \in DOMAIN v |-> IF Source(n) = {} THEN Empty ELSE v[CHOOSE j \in Source(n) : TRUE]]

\* The script of the charm; a resistant player does not get the poison.
WearOn(v, r, resists) == IF resists THEN WearOff(v) ELSE Added(WearOff(v), Charm, r)

-----------------------------------------------------------------------------
(* The statuses of a player.                                               *)

\* Bug: what equipment sets is removed like any other status.
RemovedAll(st, s) == [st EXCEPT ![s] = 0]

\* PAL_RemovePlayerStatus: effects of equipment stay.
Removed(st, s) == IF st[s] <= MaxRounds THEN [st EXCEPT ![s] = 0] ELSE st

\* PAL_ClearAllPlayerStatus, and the loop of instruction 0x22.
Cleared(st) == [s \in Statuses |-> Removed(st, s)[s]]

\* Whether a status is set: a bad one when the player has not got it, a good
\* one when it lasts longer now, the puppet for the dead only.
Allowed(st, s, n, alive) ==
  \/ s \in Bad /\ alive /\ st[s] = 0
  \/ s \in Good /\ alive /\ st[s] < n
  \/ s = "puppet" /\ ~alive /\ st[s] < n

\* Bug: haste and slow do not remove each other.
WithStatusBoth(st, s, n, alive) ==
  IF Allowed(st, s, n, alive) THEN [st EXCEPT ![s] = n] ELSE st

\* PAL_SetPlayerStatus
WithStatus(st, s, n, alive) ==
  CASE s = "slow" /\ st["haste"] > 0 -> Removed(st, "haste")
    [] s = "haste" /\ st["slow"] > 0 -> Removed(st, "slow")
    [] OTHER -> IF Allowed(st, s, n, alive) THEN [st EXCEPT ![s] = n] ELSE st

\* The script of the weapon, from PAL_RemoveEquipmentEffect on.
HandOff(st) == [st EXCEPT !["dual"] = 0]
HandOn(st, alive) == WithStatus(HandOff(st), "dual", Lasting, alive)

-----------------------------------------------------------------------------
(* Script instructions.                                                    *)

\* PAL_IncreaseHPMP
Clamped(n) == CASE n < 0 -> 0 [] n > MaxHP -> MaxHP [] OTHER -> n

\* 0x1B: only the living gain or lose; S is one player or the whole party.
ChangeHP(S, d) ==
  /\ hp' = [r \in Roles |->
              IF r \in S /\ hp[r] > 0
              THEN Clamped(hp[r] + d) ELSE hp[r]]
  /\ UNCHANGED <<party, poison, status, worn, battle>>

\* 0x5A and 0x5F
HalveHP(r) == hp' = [hp EXCEPT ![r] = @ \div 2] /\ UNCHANGED <<party, poison, status, worn, battle>>
Kill(r) == hp' = [hp EXCEPT ![r] = 0] /\ UNCHANGED <<party, poison, status, worn, battle>>

\* Bug: the revived keep their statuses.
ReviveOnly(S, tenths) ==
  LET back == {r \in S : hp[r] = 0}
  IN  /\ hp' = [r \in Roles |-> IF r \in back THEN (MaxHP * tenths) \div 10 ELSE hp[r]]
      /\ poison' = [i \in Places |-> IF i \in DOMAIN party /\ party[i] \in back
                                     THEN Cured(poison[i], UpTo(3)) ELSE poison[i]]
      /\ UNCHANGED <<party, status, worn, battle>>

\* 0x22
Revive(S, tenths) ==
  LET back == {r \in S : hp[r] = 0}
  IN  /\ hp' = [r \in Roles |-> IF r \in back THEN (MaxHP * tenths) \div 10 ELSE hp[r]]
      /\ poison' = [i \in Places |-> IF i \in DOMAIN party /\ party[i] \in back
                                     THEN Cured(poison[i], UpTo(3)) ELSE poison[i]]
      /\ status' = [r \in Roles |-> IF r \in back THEN Cleared(status[r]) ELSE status[r]]
      /\ UNCHANGED <<party, worn, battle>>

\* 0x29; S is who does not resist.
Poison(S, p) ==
  /\ poison' = [i \in Places |-> IF i \in DOMAIN party /\ party[i] \in S
                                 THEN Added(poison[i], p, party[i]) ELSE poison[i]]
  /\ UNCHANGED <<party, hp, status, worn, battle>>

\* 0x2B and 0x2C
Cure(S, kinds) ==
  /\ poison' = [i \in Places |-> IF i \in DOMAIN party /\ party[i] \in S
                                 THEN Cured(poison[i], kinds) ELSE poison[i]]
  /\ UNCHANGED <<party, hp, status, worn, battle>>

\* 0x2D and 0x2F
SetStatus(r, s, n) ==
  /\ status' = [status EXCEPT ![r] = WithStatus(@, s, n, hp[r] > 0)]
  /\ UNCHANGED <<party, hp, poison, worn, battle>>

RemoveStatus(r, s) ==
  /\ status' = [status EXCEPT ![r] = Removed(@, s)]
  /\ UNCHANGED <<party, hp, poison, worn, battle>>

\* 0x23 for the piece x; the poisons are those of the role's place.
Unequip(r, x) ==
  /\ x \in worn[r]
  /\ worn' = [worn EXCEPT ![r] = @ \ {x}]
  /\ IF x = "hand"
     THEN status' = [status EXCEPT ![r] = HandOff(@)] /\ UNCHANGED poison
     ELSE /\ poison' = [i \in Places |-> IF i \in PlacesOf(r) THEN WearOff(poison[i]) ELSE poison[i]]
          /\ UNCHANGED status
  /\ UNCHANGED <<party, hp, battle>>

\* PAL_UpdateEquipments, from the poisons v and statuses st, for the roles p
\* with h hit points; those of R resist the poison.
UpdateEquipments(p, h, v, st, R) ==
  /\ poison' = [i \in Places |-> IF i \in DOMAIN p /\ "wear" \in worn[p[i]]
                                 THEN WearOn(v[i], p[i], p[i] \in R) ELSE v[i]]
  /\ status' = [r \in Roles |-> IF "hand" \in worn[r] THEN HandOn(st[r], h[r] > 0) ELSE st[r]]

\* Bug: the poisons stay in their places when others take them.
UncuredParty(p, R) ==
  /\ ~battle
  /\ party' = p
  /\ UpdateEquipments(p, hp, poison, status, R)
  /\ UNCHANGED <<hp, worn, battle>>

\* 0x75
SetParty(p, R) ==
  /\ ~battle
  /\ party' = p
  /\ UpdateEquipments(p, hp, [i \in Places |-> Clean], status, R)
  /\ UNCHANGED <<hp, worn, battle>>

-----------------------------------------------------------------------------
(* The rest of the game.                                                   *)

\* The menu runs the script of the piece of equipment for a member.
Equip(r, x, resists) ==
  /\ ~battle /\ r \in Members
  /\ worn' = [worn EXCEPT ![r] = @ \cup {x}]
  /\ IF x = "hand"
     THEN status' = [status EXCEPT ![r] = HandOn(@, hp[r] > 0)] /\ UNCHANGED poison
     ELSE /\ poison' = [i \in Places |-> IF i \in PlacesOf(r)
                                         THEN WearOn(poison[i], r, resists) ELSE poison[i]]
          /\ UNCHANGED status
  /\ UNCHANGED <<party, hp, battle>>

\* The file holds poisons, but PAL_LoadGame clears them; PAL_InitGameData
\* clears the statuses and puts the equipment on.
SaveAndLoad(R) ==
  /\ ~battle
  /\ UpdateEquipments(party, hp, [i \in Places |-> Clean], [r \in Roles |-> Healthy], R)
  /\ UNCHANGED <<party, hp, worn, battle>>

\* PAL_StartBattle raises the dead of the party, and for the last enemy it
\* fills up everyone.
StartBattle(last, R) ==
  LET raised == [r \in Roles |-> IF r \in Members /\ hp[r] = 0 THEN 1 ELSE hp[r]]
      h == IF last THEN [r \in Roles |-> MaxHP] ELSE raised
      st == [r \in Roles |-> IF r \in Members /\ hp[r] = 0
                             THEN [status[r] EXCEPT !["puppet"] = 0] ELSE status[r]]
  IN  /\ ~battle /\ battle' = TRUE
      /\ hp' = h
      /\ UpdateEquipments(party, h, poison, st, R)
      /\ UNCHANGED <<party, worn>>

\* The end of PAL_BattlePlayerPerformAction: the poisons of the player act,
\* in any way on the hit points of the living, and each status is a round
\* older.  Equipment sets a status for more rounds than a battle has.
EndTurn(i, h) ==
  LET r == party[i]
  IN  /\ battle
      /\ h # hp[r] => hp[r] > 0 /\ \E j \in DOMAIN poison[i] : poison[i][j] # Empty
      /\ hp' = [hp EXCEPT ![r] = h]
      /\ status' = [status EXCEPT ![r] =
           [s \in Statuses |-> IF @[s] \in {0, Lasting} THEN @[s] ELSE @[s] - 1]]
      /\ UNCHANGED <<party, poison, worn, battle>>

\* A battle ends; the statuses and the weak poisons go.  When it is won,
\* those of L gain a level and the members recover half of what they lack.
EndBattle(won, L) ==
  /\ battle /\ battle' = FALSE
  /\ hp' = [r \in Roles |-> IF ~won \/ r \notin Members THEN hp[r]
                            ELSE IF r \in L /\ hp[r] > 0 THEN MaxHP
                            ELSE hp[r] + (MaxHP - hp[r]) \div 2]
  /\ poison' = [i \in Places |-> IF i \in DOMAIN party THEN Cured(poison[i], UpTo(3)) ELSE poison[i]]
  /\ status' = [r \in Roles |-> Cleared(status[r])]
  /\ UNCHANGED <<party, worn>>

-----------------------------------------------------------------------------
Init ==
  /\ party = <<1>>
  /\ hp = [r \in Roles |-> MaxHP]
  /\ poison = [i \in Places |-> Clean]
  /\ status = [r \in Roles |-> Healthy]
  /\ worn = [r \in Roles |-> {}]
  /\ battle = FALSE

\* Whom an instruction is about: one role, or every member.
Whom == {{r} : r \in Roles} \cup {Members}

Next ==
  \/ \E S \in Whom, d \in -1..1 : ChangeHP(S, d)
  \/ \E r \in Roles : HalveHP(r) \/ Kill(r)
  \/ \E S \in Whom, tenths \in {5, 10} : Revive(S, tenths)
  \/ \E S \in SUBSET Roles, p \in Poisons \ {Charm} : Poison(S, p)
  \/ \E S \in Whom, p \in Poisons : Cure(S, {p})
  \/ \E S \in Whom, level \in 1..3 : Cure(S, UpTo(level))
  \/ \E r \in Troubled, s \in Statuses, n \in 1..MaxRounds : SetStatus(r, s, n)
  \/ \E r \in Troubled, s \in Statuses : RemoveStatus(r, s)
  \/ \E r \in Roles, x \in {"hand", "wear"} : Unequip(r, x)
  \/ \E p \in Parties, R \in SUBSET Roles : SetParty(p, R)
  \/ \E r \in Armed : Equip(r, "hand", FALSE)
  \/ \E r \in Charmed, resists \in BOOLEAN : Equip(r, "wear", resists)
  \/ \E R \in SUBSET Roles : SaveAndLoad(R)
  \/ \E last \in BOOLEAN, R \in SUBSET Roles : StartBattle(last, R)
  \/ \E i \in DOMAIN party, h \in 0..MaxHP : EndTurn(i, h)
  \/ \E won \in BOOLEAN, L \in SUBSET Roles : EndBattle(won, L)

Spec == Init /\ [][Next]_vars

-----------------------------------------------------------------------------
(* Properties.                                                             *)

\* Every variable has its type; the hit points stay within their bounds.
TypeOK ==
  /\ party \in Parties
  /\ hp \in [Roles -> 0..MaxHP]
  /\ poison \in [Places -> [1..MaxPoisons -> Slot]]
  /\ status \in [Roles -> [Statuses -> 0..Lasting]]
  /\ worn \in [Roles -> SUBSET {"hand", "wear"}]
  /\ battle \in BOOLEAN

\* Nobody inherits a poison: what a place of the party holds was given to the
\* role that stands there now, however the party and the game changed since
\* (rgPoisonStatus is indexed by place, PAL_UpdateEquipments by role).
NoInheritedPoison ==
  \A i \in Places : \A j \in 1..MaxPoisons :
    poison[i][j] # Empty => i \in DOMAIN party /\ poison[i][j].of = party[i]

\* The poison of level 99 is there only while the charm is worn.
CharmFollows ==
  \A i \in DOMAIN party : \A j \in 1..MaxPoisons :
    poison[i][j].id = Charm => "wear" \in worn[party[i]]

\* In a battle a member attacks twice for good exactly when holding the
\* weapon, even one who took it in hand when dead, or died and was revived
\* since (PAL_SetPlayerStatus refuses the dead, PAL_StartBattle raises them).
DualInBattle ==
  battle => \A r \in Members : status[r]["dual"] = Lasting <=> "hand" \in worn[r]

\* A puppet is dead: no member with hit points is moved as one, whoever
\* revived them and in whatever order.
PuppetIsDead == \A r \in Members : status[r]["puppet"] > 0 => hp[r] = 0

\* Haste and slow exclude each other (PAL_SetPlayerStatus).
HasteOrSlow == \A r \in Roles : status[r]["haste"] = 0 \/ status[r]["slow"] = 0
=============================================================================
