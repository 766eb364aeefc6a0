--------------------------- MODULE PalPartyProofs ---------------------------
(***************************************************************************)
(* Proofs about PalParty, for any roles, size of the party, poisons,       *)
(* number of slots, hit points and statuses.                               *)
(*                                                                         *)
(* None of the properties is inductive by itself.  DualInBattle needs to   *)
(* know that only the weapon sets the status for good (DualIsArmed), and   *)
(* PuppetIsDead, which is about members, that outside a battle it is true  *)
(* of everyone who may join (PuppetOutside) and that no puppet lasts for   *)
(* good, so that the end of a battle ends them all (PuppetEnds).           *)
(***************************************************************************)
EXTENDS PalParty, TLAPS

\* Only who holds the weapon attacks twice for good.
DualIsArmed == \A r \in Roles : status[r]["dual"] = Lasting => "hand" \in worn[r]

\* No puppet lasts for good, ...
PuppetEnds == \A r \in Roles : status[r]["puppet"] <= MaxRounds

\* ... and outside a battle only the dead of all roles are puppets.
PuppetOutside == ~battle => \A r \in Roles : status[r]["puppet"] > 0 => hp[r] = 0

IInv ==
  /\ TypeOK
  /\ NoInheritedPoison /\ CharmFollows
  /\ HasteOrSlow
  /\ DualIsArmed /\ DualInBattle
  /\ PuppetEnds /\ PuppetOutside /\ PuppetIsDead

-----------------------------------------------------------------------------
(* The slots of a player.                                                  *)

Slots == [1..MaxPoisons -> Slot]

\* The poisons of v were given to r.
Given(v, r) == \A j \in 1..MaxPoisons : v[j] # Empty => v[j].of = r

\* No poison of v is the charm's.
NoCharm(v) == \A j \in 1..MaxPoisons : v[j].id # Charm

LEMMA SlotFields ==
  ASSUME NEW e \in Slot
  PROVE  /\ e = Empty <=> e.id = NoPoison
         /\ e # Empty => e.id \in Poisons /\ e.of \in Roles
BY PalPartyAssumption DEF Slot, Empty

LEMMA CleanTyped == Clean \in Slots /\ (\A r : Given(Clean, r)) /\ NoCharm(Clean)
BY PalPartyAssumption DEF Clean, Slots, Slot, Given, NoCharm, Empty

\* Adding a poison writes it into one slot, if any.
LEMMA AddedOK ==
  ASSUME NEW v \in Slots, NEW p \in Poisons, NEW r \in Roles
  PROVE  /\ Added(v, p, r) \in Slots
         /\ Given(v, r) => Given(Added(v, p, r), r)
         /\ NoCharm(v) /\ p # Charm => NoCharm(Added(v, p, r))
<1> DEFINE ends == {j \in DOMAIN v : v[j].id \in {p, NoPoison}}
           j0 == CHOOSE j \in ends : \A k \in ends : j <= k
           new == [id |-> p, of |-> r]
<1>1. Added(v, p, r) \in {v, [v EXCEPT ![j0] = new]} BY DEF Added
<1>2. new \in Slot /\ new.of = r /\ new.id = p BY DEF Slot
<1> HIDE DEF j0, new
<1>3. [v EXCEPT ![j0] = new] \in Slots BY <1>2 DEF Slots
<1>4. \A j \in 1..MaxPoisons : [v EXCEPT ![j0] = new][j] \in {v[j], new} BY DEF Slots
<1> QED BY <1>1, <1>2, <1>3, <1>4 DEF Given, NoCharm

\* Curing only empties slots.
LEMMA CuredOK ==
  ASSUME NEW v \in Slots, NEW kinds
  PROVE  /\ Cured(v, kinds) \in Slots
         /\ \A r : Given(v, r) => Given(Cured(v, kinds), r)
         /\ NoCharm(v) => NoCharm(Cured(v, kinds))
<1>1. Empty \in Slot /\ Empty.id # Charm BY PalPartyAssumption DEF Empty, Slot
<1>2. Cured(v, kinds) \in Slots BY <1>1 DEF Cured, Slots
<1>3. \A j \in 1..MaxPoisons : Cured(v, kinds)[j] \in {v[j], Empty} BY DEF Cured, Slots
<1> QED BY <1>1, <1>2, <1>3 DEF Given, NoCharm

\* Taking the garment off moves poisons and leaves none of the charm.
LEMMA WearOffOK ==
  ASSUME NEW v \in Slots
  PROVE  /\ WearOff(v) \in Slots
         /\ \A r : Given(v, r) => Given(WearOff(v), r)
         /\ NoCharm(WearOff(v))
<1> DEFINE gapless == {j \in DOMAIN v : \A k \in 1..j : v[k].id # NoPoison}
           kept == {j \in gapless : Level[v[j].id] < 99}
           Source(n) == {j \in kept : Cardinality({k \in kept : k < j}) = n - 1}
<1>1. Empty \in Slot /\ Empty.id # Charm BY PalPartyAssumption DEF Empty, Slot
<1>2. ASSUME NEW n \in 1..MaxPoisons
      PROVE  WearOff(v)[n] = Empty \/ \E j \in kept : WearOff(v)[n] = v[j]
  <2>1. WearOff(v)[n] = IF Source(n) = {} THEN Empty ELSE v[CHOOSE j \in Source(n) : TRUE]
    BY <1>2 DEF WearOff, Slots
  <2>2. CASE Source(n) = {} BY <2>1, <2>2
  <2>3. CASE Source(n) # {}
    <3>1. PICK j \in Source(n) : j = CHOOSE k \in Source(n) : TRUE BY <2>3
    <3>2. j \in kept BY <3>1
    <3> HIDE DEF kept
    <3> QED BY <2>1, <2>3, <3>1, <3>2
  <2> QED BY <2>2, <2>3
<1>3. ASSUME NEW j \in kept
      PROVE  j \in 1..MaxPoisons /\ v[j].id # Charm
  <2>1. j \in 1..MaxPoisons /\ v[j].id # NoPoison BY <1>3 DEF Slots
  <2>2. v[j].id \in Poisons BY <2>1, SlotFields DEF Slots
  <2>3. Level[v[j].id] < 99 BY <1>3
  <2> QED BY <2>1, <2>2, <2>3, PalPartyAssumption
<1>4. \A n \in 1..MaxPoisons : WearOff(v)[n] \in Slot BY <1>1, <1>2, <1>3 DEF Slots
<1>5. WearOff(v) = [n \in 1..MaxPoisons |-> WearOff(v)[n]] BY DEF WearOff, Slots
<1>6. WearOff(v) \in Slots BY <1>4, <1>5 DEF Slots
<1> HIDE DEF kept
<1> QED BY <1>1, <1>2, <1>3, <1>6 DEF Given, NoCharm

LEMMA WearOnOK ==
  ASSUME NEW v \in Slots, NEW r \in Roles, NEW b
  PROVE  /\ WearOn(v, r, b) \in Slots
         /\ Given(v, r) => Given(WearOn(v, r, b), r)
BY WearOffOK, AddedOK, PalPartyAssumption DEF WearOn

\* The invariants of the poisons in terms of these.
LEMMA PoisonParts ==
  ASSUME TypeOK
  PROVE  /\ NoInheritedPoison <=>
              \A i \in Places : IF i \in DOMAIN party THEN Given(poison[i], party[i])
                                ELSE \A j \in 1..MaxPoisons : poison[i][j] = Empty
         /\ CharmFollows <=>
              \A i \in DOMAIN party : "wear" \notin worn[party[i]] => NoCharm(poison[i])
BY DEF NoInheritedPoison, CharmFollows, Given, NoCharm

-----------------------------------------------------------------------------
(* The statuses of a player.                                               *)

Rounds == [Statuses -> 0..Lasting]

LEMMA StatusNames == {"puppet", "dual", "haste", "slow"} \subseteq Statuses /\ Lasting \in Nat /\ Lasting = MaxRounds + 1 /\ MaxRounds \in Nat \ {0}
BY PalPartyAssumption DEF Lasting

LEMMA RemovedOK ==
  ASSUME NEW st \in Rounds, NEW s \in Statuses
  PROVE  /\ Removed(st, s) \in Rounds
         /\ \A t \in Statuses : Removed(st, s)[t] \in {0, st[t]}
         /\ st[s] <= MaxRounds => Removed(st, s)[s] = 0
         /\ st[s] > MaxRounds => Removed(st, s) = st
BY StatusNames DEF Removed, Rounds

LEMMA ClearedOK ==
  ASSUME NEW st \in Rounds
  PROVE  /\ Cleared(st) \in Rounds
         /\ \A t \in Statuses : Cleared(st)[t] = IF st[t] <= MaxRounds THEN 0 ELSE st[t]
<1>1. ASSUME NEW t \in Statuses
      PROVE  Removed(st, t)[t] = IF st[t] <= MaxRounds THEN 0 ELSE st[t]
  <2>1. st[t] \in Nat BY StatusNames DEF Rounds
  <2> QED BY <2>1, StatusNames DEF Removed, Rounds
<1>2. Cleared(st) = [t \in Statuses |-> IF st[t] <= MaxRounds THEN 0 ELSE st[t]]
  BY <1>1 DEF Cleared
<1> QED BY <1>2, StatusNames DEF Rounds

LEMMA WithStatusOK ==
  ASSUME NEW st \in Rounds, NEW s \in Statuses, NEW n \in 1..Lasting, NEW alive \in BOOLEAN
  PROVE  /\ WithStatus(st, s, n, alive) \in Rounds
         /\ st["haste"] = 0 \/ st["slow"] = 0 =>
              WithStatus(st, s, n, alive)["haste"] = 0 \/ WithStatus(st, s, n, alive)["slow"] = 0
         /\ \A t \in Statuses : WithStatus(st, s, n, alive)[t] # st[t] =>
              \/ t = s /\ Allowed(st, s, n, alive) /\ WithStatus(st, s, n, alive)[t] = n
              \/ t \in {"haste", "slow"} /\ WithStatus(st, s, n, alive)[t] = 0
<1> USE StatusNames
<1>0. st["haste"] \in Nat /\ st["slow"] \in Nat BY DEF Rounds
<1>1. CASE s = "slow" /\ st["haste"] > 0
  <2>1. WithStatus(st, s, n, alive) = Removed(st, "haste") BY <1>1 DEF WithStatus
  <2> QED BY <1>0, <1>1, <2>1 DEF Removed, Rounds
<1>2. CASE s = "haste" /\ st["slow"] > 0
  <2>1. WithStatus(st, s, n, alive) = Removed(st, "slow") BY <1>2 DEF WithStatus
  <2> QED BY <1>0, <1>2, <2>1 DEF Removed, Rounds
<1>3. CASE ~(s = "slow" /\ st["haste"] > 0) /\ ~(s = "haste" /\ st["slow"] > 0)
  <2>1. WithStatus(st, s, n, alive) = IF Allowed(st, s, n, alive) THEN [st EXCEPT ![s] = n] ELSE st
    BY <1>3 DEF WithStatus
  <2>2. [st EXCEPT ![s] = n] \in Rounds BY DEF Rounds
  <2> QED BY <1>3, <2>1, <2>2 DEF Rounds
<1> QED BY <1>1, <1>2, <1>3

\* The weapon is taken off and put on.
LEMMA HandOK ==
  ASSUME NEW st \in Rounds, NEW alive \in BOOLEAN
  PROVE  /\ HandOff(st) \in Rounds /\ HandOn(st, alive) \in Rounds
         /\ HandOff(st)["dual"] = 0
         /\ \A t \in Statuses \ {"dual"} : HandOff(st)[t] = st[t] /\ HandOn(st, alive)[t] = st[t]
         /\ alive => HandOn(st, alive)["dual"] = Lasting
<1> USE StatusNames
<1>1. /\ HandOff(st) \in Rounds /\ HandOff(st)["dual"] = 0
      /\ \A t \in Statuses \ {"dual"} : HandOff(st)[t] = st[t]
  BY DEF HandOff, Rounds
<1>2. HandOn(st, alive) = IF Allowed(HandOff(st), "dual", Lasting, alive)
                          THEN [HandOff(st) EXCEPT !["dual"] = Lasting] ELSE HandOff(st)
  BY DEF HandOn, WithStatus
<1>3. alive => Allowed(HandOff(st), "dual", Lasting, alive) BY <1>1 DEF Allowed, Good
<1> QED BY <1>1, <1>2, <1>3 DEF Rounds

-----------------------------------------------------------------------------
(* The actions, as far as they share their shape.                          *)

LEMMA PartiesOK ==
  ASSUME NEW p \in Parties
  PROVE  /\ DOMAIN p \subseteq Places
         /\ \A i \in DOMAIN p : p[i] \in Roles
         /\ \A i, k \in DOMAIN p : p[i] = p[k] => i = k
<1>1. PICK n \in 1..MaxParty : p \in [1..n -> Roles] BY DEF Parties
<1>2. DOMAIN p = 1..n /\ MaxParty \in Nat BY <1>1, PalPartyAssumption
<1>3. DOMAIN p \subseteq Places BY <1>2 DEF Places
<1>4. \A i \in DOMAIN p : p[i] \in Roles BY <1>1
<1> QED BY <1>3, <1>4 DEF Parties

LEMMA MembersOK == TypeOK => Members \subseteq Roles
BY PartiesOK DEF Members, TypeOK

\* Putting the equipment on: who has not got the piece keeps what there was.
LEMMA UpdateOK ==
  ASSUME TypeOK, NEW p \in Parties, NEW h \in [Roles -> 0..MaxHP],
         NEW v \in [Places -> Slots], NEW st \in [Roles -> Rounds], NEW R,
         UpdateEquipments(p, h, v, st, R)
  PROVE  /\ poison' \in [Places -> Slots]
         /\ status' \in [Roles -> Rounds]
         /\ \A i \in Places :
              /\ i \in DOMAIN p => p[i] \in Roles
              /\ i \in DOMAIN p /\ Given(v[i], p[i]) => Given(poison'[i], p[i])
              /\ i \notin DOMAIN p \/ "wear" \notin worn[p[i]] => poison'[i] = v[i]
         /\ \A r \in Roles :
              /\ \A t \in Statuses \ {"dual"} : status'[r][t] = st[r][t]
              /\ "hand" \notin worn[r] => status'[r] = st[r]
              /\ "hand" \in worn[r] /\ h[r] > 0 => status'[r]["dual"] = Lasting
<1>1. ASSUME NEW i \in DOMAIN p PROVE p[i] \in Roles BY PartiesOK
<1>2. ASSUME NEW i \in Places
      PROVE  /\ poison'[i] \in Slots
             /\ i \in DOMAIN p /\ Given(v[i], p[i]) => Given(poison'[i], p[i])
             /\ i \notin DOMAIN p \/ "wear" \notin worn[p[i]] => poison'[i] = v[i]
  <2>1. poison'[i] = IF i \in DOMAIN p /\ "wear" \in worn[p[i]]
                     THEN WearOn(v[i], p[i], p[i] \in R) ELSE v[i]
    BY DEF UpdateEquipments
  <2>2. CASE i \in DOMAIN p /\ "wear" \in worn[p[i]] BY <1>1, <2>1, <2>2, WearOnOK
  <2>3. CASE ~(i \in DOMAIN p /\ "wear" \in worn[p[i]]) BY <2>1, <2>3
  <2> QED BY <2>2, <2>3
<1>3. ASSUME NEW r \in Roles
      PROVE  /\ status'[r] \in Rounds
             /\ \A t \in Statuses \ {"dual"} : status'[r][t] = st[r][t]
             /\ "hand" \notin worn[r] => status'[r] = st[r]
             /\ "hand" \in worn[r] /\ h[r] > 0 => status'[r]["dual"] = Lasting
  <2>1. status'[r] = IF "hand" \in worn[r] THEN HandOn(st[r], h[r] > 0) ELSE st[r]
    BY DEF UpdateEquipments
  <2> DEFINE b == h[r] > 0
  <2>2. st[r] \in Rounds /\ b \in BOOLEAN OBVIOUS
  <2>3. CASE "hand" \in worn[r]
    <3>1. status'[r] = HandOn(st[r], b) BY <2>1, <2>3
    <3>2. b <=> h[r] > 0 OBVIOUS
    <3> HIDE DEF b
    <3>3. /\ HandOn(st[r], b) \in Rounds
          /\ \A t \in Statuses \ {"dual"} : HandOn(st[r], b)[t] = st[r][t]
          /\ b => HandOn(st[r], b)["dual"] = Lasting
      BY <2>2, HandOK
    <3> QED BY <2>3, <3>1, <3>2, <3>3
  <2>4. CASE "hand" \notin worn[r] BY <2>1, <2>2, <2>4
  <2> QED BY <2>3, <2>4
<1>4. poison' = [i \in Places |-> poison'[i]] /\ status' = [r \in Roles |-> status'[r]]
  BY DEF UpdateEquipments
<1> QED BY <1>1, <1>2, <1>3, <1>4

\* One player's status is set, ended or aged, or several at once, and nobody dies or
\* is revived unless the puppets end: what the invariants of the statuses need.
StatusStep ==
  \A r \in Roles :
    /\ status[r]["haste"] = 0 \/ status[r]["slow"] = 0 =>
         status'[r]["haste"] = 0 \/ status'[r]["slow"] = 0
    /\ status'[r]["puppet"] <= MaxRounds
    /\ status'[r]["dual"] = Lasting <=> status[r]["dual"] = Lasting
    /\ status'[r]["puppet"] > 0 => hp'[r] = 0 \/ (status[r]["puppet"] > 0 /\ hp'[r] = hp[r])

LEMMA StatusStepOK ==
  ASSUME IInv, TypeOK', StatusStep, UNCHANGED <<party, worn, battle>>
  PROVE  (HasteOrSlow /\ DualIsArmed /\ DualInBattle /\ PuppetEnds /\ PuppetOutside /\ PuppetIsDead)'
<1>1. Members \subseteq Roles /\ Members' = Members
  BY MembersOK DEF Members, IInv
<1>2. HasteOrSlow' BY DEF HasteOrSlow, IInv, StatusStep
<1>3. DualIsArmed' BY DEF DualIsArmed, IInv, StatusStep
<1>4. DualInBattle' BY <1>1 DEF DualInBattle, IInv, StatusStep
<1>5. PuppetEnds' BY DEF PuppetEnds, StatusStep
<1>6. PuppetOutside' BY DEF PuppetOutside, IInv, StatusStep
<1>7. PuppetIsDead' BY <1>1 DEF PuppetIsDead, IInv, StatusStep
<1> QED BY <1>2, <1>3, <1>4, <1>5, <1>6, <1>7

\* The poisons of the places change, each by something that keeps what is true of them.
LEMMA PoisonStepOK ==
  ASSUME IInv, TypeOK', UNCHANGED <<party, worn>>,
         \A i \in Places :
           \/ poison'[i] = poison[i]
           \/ /\ i \in DOMAIN party
              /\ Given(poison[i], party[i]) => Given(poison'[i], party[i])
              /\ NoCharm(poison[i]) => NoCharm(poison'[i])
  PROVE  (NoInheritedPoison /\ CharmFollows)'
<1>1. DOMAIN party \subseteq Places BY PartiesOK DEF IInv, TypeOK
<1>2. \A i \in Places : IF i \in DOMAIN party THEN Given(poison[i], party[i])
                         ELSE \A j \in 1..MaxPoisons : poison[i][j] = Empty
  BY PoisonParts DEF IInv
<1>3. \A i \in DOMAIN party : "wear" \notin worn[party[i]] => NoCharm(poison[i])
  BY PoisonParts DEF IInv
<1>4. \A i \in Places : IF i \in DOMAIN party THEN Given(poison'[i], party[i])
                         ELSE \A j \in 1..MaxPoisons : poison'[i][j] = Empty
  BY <1>2
<1>5. \A i \in DOMAIN party : "wear" \notin worn[party[i]] => NoCharm(poison'[i])
  BY <1>1, <1>3
<1>6. NoInheritedPoison' BY <1>4 DEF NoInheritedPoison, Given
<1>7. CharmFollows' BY <1>5 DEF CharmFollows, NoCharm
<1> QED BY <1>6, <1>7

-----------------------------------------------------------------------------
(* The steps.                                                              *)

LEMMA Initially == Init => IInv
<1> SUFFICES ASSUME Init PROVE IInv OBVIOUS
<1> USE DEF Init
<1>1. TypeOK
  <2>1. party \in Parties
    <3>1. 1 \in 1..MaxParty /\ 1 \in Roles BY PalPartyAssumption DEF Roles
    <3>2. <<1>> \in [1..1 -> Roles] /\ DOMAIN <<1>> = {1} BY <3>1
    <3> QED BY <3>1, <3>2 DEF Parties
  <2>2. hp \in [Roles -> 0..MaxHP] BY PalPartyAssumption
  <2>3. poison \in [Places -> [1..MaxPoisons -> Slot]] BY CleanTyped DEF Slots
  <2>4. status \in [Roles -> [Statuses -> 0..Lasting]] BY StatusNames DEF Healthy
  <2> QED BY <2>1, <2>2, <2>3, <2>4 DEF TypeOK
<1>2. NoInheritedPoison BY DEF NoInheritedPoison, Clean
<1>3. CharmFollows
  <2>1. DOMAIN party \subseteq Places BY <1>1, PartiesOK DEF TypeOK
  <2> QED BY <2>1, CleanTyped DEF CharmFollows, NoCharm
<1>4. \A r \in Roles : \A s \in Statuses : status[r][s] = 0 BY DEF Healthy
<1>5. Members \subseteq Roles BY <1>1, MembersOK
<1>6. HasteOrSlow /\ DualIsArmed /\ PuppetEnds /\ PuppetOutside /\ PuppetIsDead
  BY <1>4, <1>5, StatusNames DEF HasteOrSlow, DualIsArmed, PuppetEnds, PuppetOutside, PuppetIsDead
<1>7. DualInBattle BY DEF DualInBattle
<1> QED BY <1>1, <1>2, <1>3, <1>6, <1>7 DEF IInv

\* Instructions that only change hit points, and raise nobody.
LEMMA HitPointsStep ==
  ASSUME IInv, hp' \in [Roles -> 0..MaxHP], \A r \in Roles : hp[r] = 0 => hp'[r] = 0,
         UNCHANGED <<party, poison, status, worn, battle>>
  PROVE  IInv'
<1>1. TypeOK' BY DEF IInv, TypeOK
<1>2. NoInheritedPoison' /\ CharmFollows' BY DEF IInv, NoInheritedPoison, CharmFollows
<1>3. Members' = Members /\ Members \subseteq Roles BY MembersOK DEF IInv, Members
<1>4. (HasteOrSlow /\ DualIsArmed /\ DualInBattle /\ PuppetEnds)'
  BY <1>3 DEF IInv, HasteOrSlow, DualIsArmed, DualInBattle, PuppetEnds
<1>5. PuppetOutside' /\ PuppetIsDead'
  BY <1>3 DEF IInv, PuppetOutside, PuppetIsDead
<1> QED BY <1>1, <1>2, <1>4, <1>5 DEF IInv

\* Instructions that only change poisons.
LEMMA PoisonsStep ==
  ASSUME IInv, poison' \in [Places -> Slots],
         \A i \in Places :
           \/ poison'[i] = poison[i]
           \/ /\ i \in DOMAIN party
              /\ Given(poison[i], party[i]) => Given(poison'[i], party[i])
              /\ NoCharm(poison[i]) => NoCharm(poison'[i]),
         UNCHANGED <<party, hp, status, worn, battle>>
  PROVE  IInv'
<1>1. TypeOK' BY DEF IInv, TypeOK, Slots
<1>2. NoInheritedPoison' /\ CharmFollows' BY <1>1, PoisonStepOK
<1>3. Members' = Members BY DEF Members
<1>4. (HasteOrSlow /\ DualIsArmed /\ DualInBattle /\ PuppetEnds /\ PuppetOutside /\ PuppetIsDead)'
  BY <1>3 DEF IInv, HasteOrSlow, DualIsArmed, DualInBattle, PuppetEnds, PuppetOutside, PuppetIsDead
<1> QED BY <1>1, <1>2, <1>4 DEF IInv

\* Instructions that only change statuses.
LEMMA StatusesStep ==
  ASSUME IInv, status' \in [Roles -> Rounds], StatusStep,
         UNCHANGED <<party, hp, poison, worn, battle>>
  PROVE  IInv'
<1>1. TypeOK' BY DEF IInv, TypeOK, Rounds
<1>2. NoInheritedPoison' /\ CharmFollows' BY DEF IInv, NoInheritedPoison, CharmFollows
<1>3. (HasteOrSlow /\ DualIsArmed /\ DualInBattle /\ PuppetEnds /\ PuppetOutside /\ PuppetIsDead)'
  BY <1>1, StatusStepOK
<1> QED BY <1>1, <1>2, <1>3 DEF IInv

LEMMA ChangeHPStep == ASSUME IInv, NEW S, NEW d \in -1..1, ChangeHP(S, d) PROVE IInv'
<1> USE DEF ChangeHP
<1>1. \A n \in Int : Clamped(n) \in 0..MaxHP BY PalPartyAssumption DEF Clamped
<1>2. \A r \in Roles : hp[r] \in 0..MaxHP BY DEF IInv, TypeOK
<1>3. \A r \in Roles : hp[r] + d \in Int BY <1>2, PalPartyAssumption
<1>4. hp' \in [Roles -> 0..MaxHP] BY <1>1, <1>2, <1>3
<1>5. \A r \in Roles : hp[r] = 0 => hp'[r] = 0 BY <1>2
<1> QED BY <1>4, <1>5, HitPointsStep

LEMMA HalveKillStep == ASSUME IInv, NEW r \in Roles, HalveHP(r) \/ Kill(r) PROVE IInv'
<1> USE DEF HalveHP, Kill
<1>1. \A q \in Roles : hp[q] \in 0..MaxHP /\ hp[q] \div 2 \in 0..MaxHP
  BY PalPartyAssumption DEF IInv, TypeOK
<1>2. hp \in [Roles -> 0..MaxHP] BY DEF IInv, TypeOK
<1>3. hp' \in [Roles -> 0..MaxHP] BY <1>1, <1>2, PalPartyAssumption
<1>4. \A q \in Roles : hp[q] = 0 => hp'[q] = 0 BY <1>1, <1>2
<1> QED BY <1>3, <1>4, HitPointsStep

LEMMA PoisonStep ==
  ASSUME IInv, NEW S, NEW p \in Poisons \ {Charm}, Poison(S, p) PROVE IInv'
<1> USE DEF Poison
<1>1. party \in Parties /\ poison \in [Places -> Slots] BY DEF IInv, TypeOK, Slots
<1>2. \A i \in DOMAIN party : i \in Places /\ party[i] \in Roles BY <1>1, PartiesOK
<1>3. ASSUME NEW i \in Places
      PROVE  /\ poison'[i] \in Slots
             /\ \/ poison'[i] = poison[i]
                \/ /\ i \in DOMAIN party
                   /\ Given(poison[i], party[i]) => Given(poison'[i], party[i])
                   /\ NoCharm(poison[i]) => NoCharm(poison'[i])
  <2>1. poison[i] \in Slots BY <1>1
  <2>2. CASE i \in DOMAIN party /\ party[i] \in S
    <3>1. poison'[i] = Added(poison[i], p, party[i]) BY <2>2
    <3> QED BY <1>2, <2>1, <2>2, <3>1, AddedOK
  <2>3. CASE ~(i \in DOMAIN party /\ party[i] \in S) BY <2>1, <2>3
  <2> QED BY <2>2, <2>3
<1>4. poison' = [i \in Places |-> poison'[i]] OBVIOUS
<1>5. poison' \in [Places -> Slots] BY <1>3, <1>4
<1> QED BY <1>3, <1>5, PoisonsStep

LEMMA CureStep == ASSUME IInv, NEW S, NEW kinds, Cure(S, kinds) PROVE IInv'
<1> USE DEF Cure
<1>1. poison \in [Places -> Slots] BY DEF IInv, TypeOK, Slots
<1>2. ASSUME NEW i \in Places
      PROVE  /\ poison'[i] \in Slots
             /\ \/ poison'[i] = poison[i]
                \/ /\ i \in DOMAIN party
                   /\ Given(poison[i], party[i]) => Given(poison'[i], party[i])
                   /\ NoCharm(poison[i]) => NoCharm(poison'[i])
  <2>1. poison[i] \in Slots BY <1>1
  <2>2. CASE i \in DOMAIN party /\ party[i] \in S
    <3>1. poison'[i] = Cured(poison[i], kinds) BY <2>2
    <3> QED BY <2>1, <2>2, <3>1, CuredOK
  <2>3. CASE ~(i \in DOMAIN party /\ party[i] \in S) BY <2>1, <2>3
  <2> QED BY <2>2, <2>3
<1>3. poison' = [i \in Places |-> poison'[i]] OBVIOUS
<1>4. poison' \in [Places -> Slots] BY <1>2, <1>3
<1> QED BY <1>2, <1>4, PoisonsStep

LEMMA SetStatusStep ==
  ASSUME IInv, NEW r \in Roles, NEW s \in Statuses, NEW n \in 1..MaxRounds, SetStatus(r, s, n)
  PROVE  IInv'
<1> USE DEF SetStatus
<1>1. status \in [Roles -> Rounds] /\ hp \in [Roles -> 0..MaxHP] BY DEF IInv, TypeOK, Rounds
<1> DEFINE alive == hp[r] > 0
           new == WithStatus(status[r], s, n, alive)
<1>2. n \in 1..Lasting /\ n # Lasting /\ n <= MaxRounds /\ n < Lasting BY StatusNames
<1>3. alive \in BOOLEAN /\ status[r] \in Rounds /\ (alive <=> hp[r] > 0) BY <1>1
<1>4. status' = [status EXCEPT ![r] = new] OBVIOUS
<1> HIDE DEF alive
<1>5. /\ new \in Rounds
      /\ status[r]["haste"] = 0 \/ status[r]["slow"] = 0 => new["haste"] = 0 \/ new["slow"] = 0
      /\ \A t \in Statuses : new[t] # status[r][t] =>
           \/ t = s /\ Allowed(status[r], s, n, alive) /\ new[t] = n
           \/ t \in {"haste", "slow"} /\ new[t] = 0
  BY <1>2, <1>3, WithStatusOK
<1> HIDE DEF new
<1>6. status' \in [Roles -> Rounds] BY <1>1, <1>4, <1>5
<1>7. StatusStep
  <2> SUFFICES ASSUME NEW q \in Roles
               PROVE  /\ status[q]["haste"] = 0 \/ status[q]["slow"] = 0 =>
                           status'[q]["haste"] = 0 \/ status'[q]["slow"] = 0
                      /\ status'[q]["puppet"] <= MaxRounds
                      /\ status'[q]["dual"] = Lasting <=> status[q]["dual"] = Lasting
                      /\ status'[q]["puppet"] > 0 =>
                           hp'[q] = 0 \/ (status[q]["puppet"] > 0 /\ hp'[q] = hp[q])
    BY DEF StatusStep
  <2>1. CASE q # r
    <3>1. status'[q] = status[q] BY <1>1, <1>4, <2>1
    <3> QED BY <3>1 DEF IInv, PuppetEnds
  <2>2. CASE q = r
    <3>1. status'[q] = new BY <1>1, <1>4, <2>2
    <3>2. new["puppet"] <= MaxRounds
      BY <1>2, <1>5, <2>2, StatusNames DEF IInv, PuppetEnds
    <3>3. new["dual"] = Lasting <=> status[r]["dual"] = Lasting
      <4>1. status[r]["dual"] \in 0..Lasting BY <1>3, StatusNames DEF Rounds
      <4>2. CASE new["dual"] = status[r]["dual"] BY <4>2
      <4>3. CASE new["dual"] # status[r]["dual"]
        <5>1. s = "dual" /\ Allowed(status[r], s, n, alive) /\ new["dual"] = n
          BY <1>5, <4>3, StatusNames
        <5>2. status[r]["dual"] < n BY <5>1 DEF Allowed, Bad
        <5> QED BY <1>2, <4>1, <5>1, <5>2, StatusNames
      <4> QED BY <4>2, <4>3
    <3>4. new["puppet"] > 0 => hp[r] = 0 \/ status[r]["puppet"] > 0
      <4>1. CASE new["puppet"] = status[r]["puppet"] BY <4>1
      <4>2. CASE new["puppet"] # status[r]["puppet"]
        <5>1. s = "puppet" /\ Allowed(status[r], s, n, alive)
          BY <1>5, <4>2, StatusNames
        <5>2. ~alive BY <5>1 DEF Allowed, Bad, Good
        <5> QED BY <1>1, <1>3, <5>2, PalPartyAssumption
      <4> QED BY <4>1, <4>2
    <3> QED BY <1>5, <2>2, <3>1, <3>2, <3>3, <3>4
  <2> QED BY <2>1, <2>2
<1> QED BY <1>6, <1>7, StatusesStep

LEMMA RemoveStatusStep ==
  ASSUME IInv, NEW r \in Roles, NEW s \in Statuses, RemoveStatus(r, s) PROVE IInv'
<1> USE DEF RemoveStatus
<1> DEFINE new == Removed(status[r], s)
<1>1. status \in [Roles -> Rounds] BY DEF IInv, TypeOK, Rounds
<1>2. status' = [status EXCEPT ![r] = new] OBVIOUS
<1>3. /\ new \in Rounds
      /\ \A t \in Statuses : new[t] \in {0, status[r][t]}
      /\ status[r][s] > MaxRounds => new = status[r]
  BY <1>1, RemovedOK
<1>4. new["dual"] = Lasting <=> status[r]["dual"] = Lasting
  <2>1. status[r]["dual"] \in Nat /\ status[r][s] \in Nat BY <1>1, StatusNames DEF Rounds
  <2>2. CASE s = "dual" BY <2>1, <2>2, <1>3, StatusNames
  <2>3. CASE s # "dual"
    <3>1. new["dual"] = status[r]["dual"] BY <2>3, <1>1, StatusNames DEF Removed, Rounds
    <3> QED BY <3>1
  <2> QED BY <2>2, <2>3
<1> HIDE DEF new
<1>5. status' \in [Roles -> Rounds] BY <1>1, <1>2, <1>3
<1>6. StatusStep
  <2> SUFFICES ASSUME NEW q \in Roles
               PROVE  /\ status[q]["haste"] = 0 \/ status[q]["slow"] = 0 =>
                           status'[q]["haste"] = 0 \/ status'[q]["slow"] = 0
                      /\ status'[q]["puppet"] <= MaxRounds
                      /\ status'[q]["dual"] = Lasting <=> status[q]["dual"] = Lasting
                      /\ status'[q]["puppet"] > 0 =>
                           hp'[q] = 0 \/ (status[q]["puppet"] > 0 /\ hp'[q] = hp[q])
    BY DEF StatusStep
  <2>1. status[q]["puppet"] <= MaxRounds BY DEF IInv, PuppetEnds
  <2>2. CASE q # r BY <1>1, <1>2, <2>1, <2>2
  <2>3. CASE q = r
    <3>1. status'[q] = new BY <1>1, <1>2, <2>3
    <3> QED BY <1>3, <1>4, <2>1, <2>3, <3>1, StatusNames
  <2> QED BY <2>2, <2>3
<1> QED BY <1>5, <1>6, StatusesStep

\* The poisons of the place of the role r change, and what r wears.
LEMMA WearStep ==
  ASSUME IInv, poison' \in [Places -> Slots], worn' \in [Roles -> SUBSET {"hand", "wear"}],
         NEW r \in Roles,
         \A q \in Roles : /\ "hand" \in worn'[q] <=> "hand" \in worn[q]
                          /\ q # r => worn'[q] = worn[q],
         \A i \in Places :
           IF i \in PlacesOf(r)
           THEN /\ Given(poison[i], r) => Given(poison'[i], r)
                /\ "wear" \notin worn'[r] => NoCharm(poison'[i])
           ELSE poison'[i] = poison[i],
         UNCHANGED <<party, hp, status, battle>>
  PROVE  IInv'
<1>1. TypeOK' BY DEF IInv, TypeOK, Slots
<1>2. DOMAIN party \subseteq Places /\ (\A i \in DOMAIN party : party[i] \in Roles)
  BY PartiesOK DEF IInv, TypeOK
<1>3. \A i \in Places : IF i \in DOMAIN party THEN Given(poison[i], party[i])
                         ELSE \A j \in 1..MaxPoisons : poison[i][j] = Empty
  BY PoisonParts DEF IInv
<1>4. \A i \in DOMAIN party : "wear" \notin worn[party[i]] => NoCharm(poison[i])
  BY PoisonParts DEF IInv
<1>5. \A i \in Places : IF i \in DOMAIN party THEN Given(poison'[i], party[i])
                         ELSE \A j \in 1..MaxPoisons : poison'[i][j] = Empty
  BY <1>3 DEF PlacesOf
<1>6. \A i \in DOMAIN party : "wear" \notin worn'[party[i]] => NoCharm(poison'[i])
  BY <1>2, <1>4 DEF PlacesOf
<1>7. NoInheritedPoison' BY <1>5 DEF NoInheritedPoison, Given
<1>8. CharmFollows' BY <1>6 DEF CharmFollows, NoCharm
<1>9. Members' = Members /\ Members \subseteq Roles BY MembersOK DEF IInv, Members
<1>10. HasteOrSlow' /\ PuppetEnds' /\ PuppetOutside' /\ PuppetIsDead'
  BY <1>9 DEF IInv, HasteOrSlow, PuppetEnds, PuppetOutside, PuppetIsDead
<1>11. DualIsArmed' BY DEF IInv, DualIsArmed
<1>12. DualInBattle' BY <1>9 DEF IInv, DualInBattle
<1> QED BY <1>1, <1>7, <1>8, <1>10, <1>11, <1>12 DEF IInv

\* The weapon of the role r changes, and with it the status it sets.
LEMMA HandStep ==
  ASSUME IInv, status' \in [Roles -> Rounds], worn' \in [Roles -> SUBSET {"hand", "wear"}],
         NEW r \in Roles,
         \A q \in Roles : /\ "wear" \in worn'[q] <=> "wear" \in worn[q]
                          /\ q # r => worn'[q] = worn[q] /\ status'[q] = status[q],
         \A t \in Statuses \ {"dual"} : status'[r][t] = status[r][t],
         "hand" \notin worn'[r] => status'[r]["dual"] = 0,
         battle => "hand" \notin worn'[r],
         UNCHANGED <<party, hp, poison, battle>>
  PROVE  IInv'
<1> USE StatusNames
<1>1. TypeOK' BY DEF IInv, TypeOK, Rounds
<1>2. NoInheritedPoison' BY DEF IInv, NoInheritedPoison
<1>3. \A i \in DOMAIN party : party[i] \in Roles BY PartiesOK DEF IInv, TypeOK
<1>4. CharmFollows' BY <1>3 DEF IInv, CharmFollows
<1>5. Members' = Members /\ Members \subseteq Roles BY MembersOK DEF IInv, Members
<1>6. \A q \in Roles : \A t \in {"haste", "slow", "puppet"} : status'[q][t] = status[q][t]
  OBVIOUS
<1>7. HasteOrSlow' BY <1>6 DEF IInv, HasteOrSlow
<1>8. PuppetEnds' /\ PuppetOutside' /\ PuppetIsDead'
  BY <1>5, <1>6 DEF IInv, PuppetEnds, PuppetOutside, PuppetIsDead
<1>9. \A q \in Roles : status'[q]["dual"] = Lasting => "hand" \in worn'[q]
  BY DEF IInv, DualIsArmed
<1>10. battle => \A q \in Members : status'[q]["dual"] = Lasting <=> "hand" \in worn'[q]
  BY <1>5, <1>9 DEF IInv, DualInBattle
<1>11. DualIsArmed' BY <1>9 DEF DualIsArmed
<1>12. DualInBattle' BY <1>5, <1>10 DEF DualInBattle
<1> QED BY <1>1, <1>2, <1>4, <1>7, <1>8, <1>11, <1>12 DEF IInv

LEMMA UnequipStep ==
  ASSUME IInv, NEW r \in Roles, NEW x \in {"hand", "wear"}, Unequip(r, x) PROVE IInv'
<1>1. poison \in [Places -> Slots] /\ status \in [Roles -> Rounds]
  BY DEF IInv, TypeOK, Slots, Rounds
<1>2. worn' \in [Roles -> SUBSET {"hand", "wear"}] BY DEF IInv, TypeOK, Unequip
<1>3. \A q \in Roles : worn'[q] = IF q = r THEN worn[q] \ {x} ELSE worn[q]
  BY DEF IInv, TypeOK, Unequip
<1>4. CASE x = "hand"
  <2>1. status' = [status EXCEPT ![r] = HandOff(status[r])] BY <1>4 DEF Unequip
  <2>2. UNCHANGED <<party, hp, poison, battle>> BY <1>4 DEF Unequip
  <2>3. /\ HandOff(status[r]) \in Rounds /\ HandOff(status[r])["dual"] = 0
        /\ \A t \in Statuses \ {"dual"} : HandOff(status[r])[t] = status[r][t]
    BY <1>1, HandOK
  <2>4. status'[r] = HandOff(status[r]) /\ \A q \in Roles \ {r} : status'[q] = status[q]
    BY <1>1, <2>1
  <2>5. status' \in [Roles -> Rounds] BY <1>1, <2>1, <2>3
  <2>6. "hand" \notin worn'[r] BY <1>3, <1>4
  <2>7. \A q \in Roles : /\ "wear" \in worn'[q] <=> "wear" \in worn[q]
                         /\ q # r => worn'[q] = worn[q] /\ status'[q] = status[q]
    BY <1>3, <1>4, <2>4
  <2> QED BY <1>2, <2>2, <2>3, <2>4, <2>5, <2>6, <2>7, HandStep
<1>5. CASE x = "wear"
  <2>1. poison' = [i \in Places |-> IF i \in PlacesOf(r) THEN WearOff(poison[i]) ELSE poison[i]]
    BY <1>5 DEF Unequip
  <2>2. UNCHANGED <<party, hp, status, battle>> BY <1>5 DEF Unequip
  <2>3. ASSUME NEW i \in Places
        PROVE  /\ poison'[i] \in Slots
               /\ IF i \in PlacesOf(r)
                  THEN /\ Given(poison[i], r) => Given(poison'[i], r)
                       /\ "wear" \notin worn'[r] => NoCharm(poison'[i])
                  ELSE poison'[i] = poison[i]
    BY <1>1, <2>1, WearOffOK
  <2>4. poison' \in [Places -> Slots] BY <2>1, <2>3
  <2>5. \A q \in Roles : /\ "hand" \in worn'[q] <=> "hand" \in worn[q]
                         /\ q # r => worn'[q] = worn[q]
    BY <1>3, <1>5
  <2> QED BY <1>2, <2>2, <2>3, <2>4, <2>5, WearStep
<1> QED BY <1>4, <1>5

LEMMA EquipStep ==
  ASSUME IInv, NEW r \in Roles, NEW x \in {"hand", "wear"}, NEW b, Equip(r, x, b) PROVE IInv'
<1>1. poison \in [Places -> Slots] /\ status \in [Roles -> Rounds] /\ hp \in [Roles -> 0..MaxHP]
  BY DEF IInv, TypeOK, Slots, Rounds
<1>2. worn' \in [Roles -> SUBSET {"hand", "wear"}] BY DEF IInv, TypeOK, Equip
<1>3. worn'[r] = worn[r] \cup {x} /\ \A q \in Roles \ {r} : worn'[q] = worn[q]
  BY DEF IInv, TypeOK, Equip
<1>4. \A q \in Roles : \A y : y \in worn'[q] => y \in worn[q] \/ y = x BY <1>3
<1>5. \A q \in Roles : \A y : y \in worn[q] => y \in worn'[q] BY <1>3
<1>6. CASE x = "hand"
  <2> DEFINE alive == hp[r] > 0
             new == HandOn(status[r], alive)
  <2>1. status' = [status EXCEPT ![r] = new] BY <1>6 DEF Equip
  <2>2. UNCHANGED <<party, hp, poison, battle>> /\ ~battle BY <1>6 DEF Equip
  <2>3. alive \in BOOLEAN OBVIOUS
  <2> HIDE DEF alive
  <2>4. /\ new \in Rounds
        /\ \A t \in Statuses \ {"dual"} : new[t] = status[r][t]
    BY <1>1, <2>3, HandOK
  <2> HIDE DEF new
  <2>5. status'[r] = new /\ \A q \in Roles \ {r} : status'[q] = status[q] BY <1>1, <2>1
  <2>6. status' \in [Roles -> Rounds] BY <1>1, <2>1, <2>4
  <2>7. "hand" \in worn'[r] BY <1>3, <1>6
  <2>8. \A q \in Roles : /\ "wear" \in worn'[q] <=> "wear" \in worn[q]
                         /\ q # r => worn'[q] = worn[q] /\ status'[q] = status[q]
    BY <1>3, <1>6, <1>4, <1>5, <2>5
  <2> QED BY <1>2, <2>2, <2>4, <2>5, <2>6, <2>7, <2>8, HandStep
<1>7. CASE x = "wear"
  <2>1. poison' = [i \in Places |-> IF i \in PlacesOf(r) THEN WearOn(poison[i], r, b) ELSE poison[i]]
    BY <1>7 DEF Equip
  <2>2. UNCHANGED <<party, hp, status, battle>> BY <1>7 DEF Equip
  <2>3. "wear" \in worn'[r] BY <1>3, <1>7
  <2>4. ASSUME NEW i \in Places
        PROVE  /\ poison'[i] \in Slots
               /\ IF i \in PlacesOf(r)
                  THEN /\ Given(poison[i], r) => Given(poison'[i], r)
                       /\ "wear" \notin worn'[r] => NoCharm(poison'[i])
                  ELSE poison'[i] = poison[i]
    BY <1>1, <2>1, <2>3, WearOnOK
  <2>5. poison' \in [Places -> Slots] BY <2>1, <2>4
  <2>6. \A q \in Roles : /\ "hand" \in worn'[q] <=> "hand" \in worn[q]
                         /\ q # r => worn'[q] = worn[q]
    BY <1>3, <1>7, <1>4, <1>5
  <2> QED BY <1>2, <2>2, <2>4, <2>5, <2>6, WearStep
<1> QED BY <1>6, <1>7

\* The equipment is put on again, by the party p.
LEMMA UpdateStep ==
  ASSUME IInv, NEW p \in Parties, NEW h \in [Roles -> 0..MaxHP],
         NEW v \in [Places -> Slots], NEW st \in [Roles -> Rounds], NEW R,
         UpdateEquipments(p, h, v, st, R),
         party' = p, hp' = h, worn' = worn, battle' \in BOOLEAN,
         \A i \in Places : IF i \in DOMAIN p
                           THEN /\ Given(v[i], p[i])
                                /\ "wear" \notin worn[p[i]] => NoCharm(v[i])
                           ELSE \A j \in 1..MaxPoisons : v[i][j] = Empty,
         \A r \in Roles : /\ st[r]["haste"] = 0 \/ st[r]["slow"] = 0
                          /\ st[r]["dual"] = Lasting => "hand" \in worn[r]
                          /\ st[r]["puppet"] <= MaxRounds
                          /\ ~battle' /\ st[r]["puppet"] > 0 => h[r] = 0,
         battle' => \A i \in DOMAIN p : h[p[i]] > 0 /\ st[p[i]]["puppet"] = 0
  PROVE  IInv'
<1> USE StatusNames
<1>0. TypeOK BY DEF IInv
<1>1. /\ poison' \in [Places -> Slots]
      /\ status' \in [Roles -> Rounds]
      /\ \A i \in Places :
           /\ i \in DOMAIN p => p[i] \in Roles
           /\ i \in DOMAIN p /\ Given(v[i], p[i]) => Given(poison'[i], p[i])
           /\ i \notin DOMAIN p \/ "wear" \notin worn[p[i]] => poison'[i] = v[i]
      /\ \A r \in Roles :
           /\ \A t \in Statuses \ {"dual"} : status'[r][t] = st[r][t]
           /\ "hand" \notin worn[r] => status'[r] = st[r]
           /\ "hand" \in worn[r] /\ h[r] > 0 => status'[r]["dual"] = Lasting
  BY <1>0, UpdateOK
<1>2. TypeOK' BY <1>0, <1>1 DEF TypeOK, Slots, Rounds
<1>3. DOMAIN p \subseteq Places /\ \A i \in DOMAIN p : p[i] \in Roles BY PartiesOK
<1>4. \A i \in Places : IF i \in DOMAIN p THEN Given(poison'[i], p[i])
                         ELSE \A j \in 1..MaxPoisons : poison'[i][j] = Empty
  BY <1>1
<1>5. \A i \in DOMAIN p : "wear" \notin worn[p[i]] => NoCharm(poison'[i])
  BY <1>1, <1>3
<1>6. NoInheritedPoison' BY <1>4 DEF NoInheritedPoison, Given
<1>7. CharmFollows' BY <1>5 DEF CharmFollows, NoCharm
<1>8. \A r \in Roles : \A t \in {"haste", "slow", "puppet"} : status'[r][t] = st[r][t]
  BY <1>1
<1>9. HasteOrSlow' BY <1>8 DEF HasteOrSlow
<1>10. PuppetEnds' /\ PuppetOutside' BY <1>8 DEF PuppetEnds, PuppetOutside
<1>11. DualIsArmed' BY <1>1 DEF DualIsArmed
<1>12. Members' = {p[i] : i \in DOMAIN p} BY DEF Members
<1>13. PuppetIsDead' BY <1>3, <1>8, <1>12 DEF PuppetIsDead
<1>14. DualInBattle'
  <2> SUFFICES ASSUME battle', NEW i \in DOMAIN p
               PROVE  status'[p[i]]["dual"] = Lasting <=> "hand" \in worn[p[i]]
    BY <1>12 DEF DualInBattle
  <2> QED BY <1>1, <1>3
<1> QED BY <1>2, <1>6, <1>7, <1>9, <1>10, <1>11, <1>13, <1>14 DEF IInv

\* What a new party or a loaded game starts from.
LEMMA CleanPlaces ==
  ASSUME NEW p \in Parties
  PROVE  /\ [i \in Places |-> Clean] \in [Places -> Slots]
         /\ \A i \in Places : IF i \in DOMAIN p
              THEN Given([k \in Places |-> Clean][i], p[i]) /\ NoCharm([k \in Places |-> Clean][i])
              ELSE \A j \in 1..MaxPoisons : [k \in Places |-> Clean][i][j] = Empty
BY CleanTyped DEF Clean

LEMMA SetPartyStep == ASSUME IInv, NEW p \in Parties, NEW R, SetParty(p, R) PROVE IInv'
<1> DEFINE v == [i \in Places |-> Clean]
<1>1. ~battle /\ party' = p /\ UNCHANGED <<hp, worn, battle>> /\ UpdateEquipments(p, hp, v, status, R)
  BY DEF SetParty
<1>2. /\ v \in [Places -> Slots]
      /\ \A i \in Places : IF i \in DOMAIN p THEN Given(v[i], p[i]) /\ NoCharm(v[i])
                           ELSE \A j \in 1..MaxPoisons : v[i][j] = Empty
  BY CleanPlaces
<1> HIDE DEF v
<1>3. hp \in [Roles -> 0..MaxHP] /\ status \in [Roles -> Rounds] BY DEF IInv, TypeOK, Rounds
<1>4. \A r \in Roles : /\ status[r]["haste"] = 0 \/ status[r]["slow"] = 0
                       /\ status[r]["dual"] = Lasting => "hand" \in worn[r]
                       /\ status[r]["puppet"] <= MaxRounds
                       /\ ~battle' /\ status[r]["puppet"] > 0 => hp[r] = 0
  BY <1>1 DEF IInv, HasteOrSlow, DualIsArmed, PuppetEnds, PuppetOutside
<1>5. ~battle' /\ battle' \in BOOLEAN BY <1>1 DEF IInv, TypeOK
<1> QED BY <1>1, <1>2, <1>3, <1>4, <1>5, UpdateStep

LEMMA SaveAndLoadStep == ASSUME IInv, NEW R, SaveAndLoad(R) PROVE IInv'
<1> DEFINE v == [i \in Places |-> Clean]
           st == [r \in Roles |-> Healthy]
<1>1. ~battle /\ UNCHANGED <<party, hp, worn, battle>> /\ UpdateEquipments(party, hp, v, st, R)
  BY DEF SaveAndLoad
<1>2. party \in Parties /\ hp \in [Roles -> 0..MaxHP] BY DEF IInv, TypeOK
<1>3. /\ v \in [Places -> Slots]
      /\ \A i \in Places : IF i \in DOMAIN party THEN Given(v[i], party[i]) /\ NoCharm(v[i])
                           ELSE \A j \in 1..MaxPoisons : v[i][j] = Empty
  BY <1>2, CleanPlaces
<1>4. st \in [Roles -> Rounds] /\ \A r \in Roles : \A s \in Statuses : st[r][s] = 0
  BY StatusNames DEF Healthy, Rounds
<1> HIDE DEF v, st
<1>5. \A r \in Roles : /\ st[r]["haste"] = 0 \/ st[r]["slow"] = 0
                       /\ st[r]["dual"] = Lasting => "hand" \in worn[r]
                       /\ st[r]["puppet"] <= MaxRounds
                       /\ ~battle' /\ st[r]["puppet"] > 0 => hp[r] = 0
  BY <1>4, StatusNames
<1>6. ~battle' /\ battle' \in BOOLEAN BY <1>1 DEF IInv, TypeOK
<1> QED BY <1>1, <1>2, <1>3, <1>4, <1>5, <1>6, UpdateStep

LEMMA StartBattleStep == ASSUME IInv, NEW last, NEW R, StartBattle(last, R) PROVE IInv'
<1> DEFINE raised == [r \in Roles |-> IF r \in Members /\ hp[r] = 0 THEN 1 ELSE hp[r]]
           h == IF last THEN [r \in Roles |-> MaxHP] ELSE raised
           st == [r \in Roles |-> IF r \in Members /\ hp[r] = 0
                                  THEN [status[r] EXCEPT !["puppet"] = 0] ELSE status[r]]
<1>1. /\ ~battle /\ battle' = TRUE /\ hp' = h /\ UNCHANGED <<party, worn>>
      /\ UpdateEquipments(party, h, poison, st, R)
  BY DEF StartBattle
<1>2. /\ party \in Parties /\ hp \in [Roles -> 0..MaxHP] /\ poison \in [Places -> Slots]
      /\ status \in [Roles -> Rounds]
  BY DEF IInv, TypeOK, Slots, Rounds
<1>3. DOMAIN party \subseteq Places /\ \A i \in DOMAIN party : party[i] \in Roles /\ party[i] \in Members
  BY <1>2, PartiesOK DEF Members
<1>4. h \in [Roles -> 0..MaxHP] /\ \A i \in DOMAIN party : h[party[i]] > 0
  <2>1. /\ raised \in [Roles -> 0..MaxHP]
        /\ \A i \in DOMAIN party : raised[party[i]] > 0
    BY <1>2, <1>3, PalPartyAssumption
  <2>2. /\ [r \in Roles |-> MaxHP] \in [Roles -> 0..MaxHP]
        /\ \A i \in DOMAIN party : [r \in Roles |-> MaxHP][party[i]] > 0
    BY <1>3, PalPartyAssumption
  <2> QED BY <2>1, <2>2
<1>5. /\ st \in [Roles -> Rounds]
      /\ \A r \in Roles : st[r] = IF r \in Members /\ hp[r] = 0
                                  THEN [status[r] EXCEPT !["puppet"] = 0] ELSE status[r]
      /\ \A r \in Roles : \A s \in Statuses : st[r][s] \in {status[r][s], 0}
      /\ \A r \in Roles : \A s \in Statuses \ {"puppet"} : st[r][s] = status[r][s]
  BY <1>2, StatusNames DEF Rounds
<1>6. \A i \in DOMAIN party : st[party[i]]["puppet"] = 0
  <2> SUFFICES ASSUME NEW i \in DOMAIN party PROVE st[party[i]]["puppet"] = 0 OBVIOUS
  <2> HIDE DEF h, st
  <2>1. party[i] \in Roles /\ party[i] \in Members /\ status[party[i]] \in Rounds BY <1>2, <1>3
  <2>2. CASE hp[party[i]] = 0
    <3>1. st[party[i]] = [status[party[i]] EXCEPT !["puppet"] = 0] BY <1>5, <2>1, <2>2
    <3> QED BY <2>1, <3>1, StatusNames DEF Rounds
  <2>3. CASE hp[party[i]] # 0
    <3>1. ~(status[party[i]]["puppet"] > 0) BY <2>1, <2>3 DEF IInv, PuppetIsDead
    <3>2. status[party[i]]["puppet"] \in Nat BY <2>1, StatusNames DEF Rounds
    <3> QED BY <1>5, <2>1, <2>3, <3>1, <3>2
  <2> QED BY <2>2, <2>3
<1> HIDE DEF h, st
<1>7. \A i \in Places : IF i \in DOMAIN party
                        THEN /\ Given(poison[i], party[i])
                             /\ "wear" \notin worn[party[i]] => NoCharm(poison[i])
                        ELSE \A j \in 1..MaxPoisons : poison[i][j] = Empty
  BY PoisonParts DEF IInv
<1>8. \A r \in Roles : /\ st[r]["haste"] = 0 \/ st[r]["slow"] = 0
                       /\ st[r]["dual"] = Lasting => "hand" \in worn[r]
                       /\ st[r]["puppet"] <= MaxRounds
                       /\ ~battle' /\ st[r]["puppet"] > 0 => h[r] = 0
  BY <1>1, <1>5, StatusNames DEF IInv, HasteOrSlow, DualIsArmed, PuppetEnds
<1> QED BY <1>1, <1>2, <1>4, <1>5, <1>6, <1>7, <1>8, UpdateStep

LEMMA ReviveStep ==
  ASSUME IInv, NEW S, NEW tenths \in {5, 10}, Revive(S, tenths) PROVE IInv'
<1> DEFINE back == {r \in S : hp[r] = 0}
<1>1. /\ hp' = [r \in Roles |-> IF r \in back THEN (MaxHP * tenths) \div 10 ELSE hp[r]]
      /\ poison' = [i \in Places |-> IF i \in DOMAIN party /\ party[i] \in back
                                     THEN Cured(poison[i], UpTo(3)) ELSE poison[i]]
      /\ status' = [r \in Roles |-> IF r \in back THEN Cleared(status[r]) ELSE status[r]]
      /\ UNCHANGED <<party, worn, battle>>
  BY DEF Revive
<1>2. /\ hp \in [Roles -> 0..MaxHP] /\ poison \in [Places -> Slots]
      /\ status \in [Roles -> Rounds]
  BY DEF IInv, TypeOK, Slots, Rounds
<1> HIDE DEF back
<1>3. hp' \in [Roles -> 0..MaxHP]
  <2>1. (MaxHP * tenths) \div 10 \in 0..MaxHP BY PalPartyAssumption
  <2> QED BY <1>1, <1>2, <2>1
<1>4. ASSUME NEW i \in Places
      PROVE  /\ poison'[i] \in Slots
             /\ \/ poison'[i] = poison[i]
                \/ /\ i \in DOMAIN party
                   /\ Given(poison[i], party[i]) => Given(poison'[i], party[i])
                   /\ NoCharm(poison[i]) => NoCharm(poison'[i])
  BY <1>1, <1>2, CuredOK
<1>5. poison' \in [Places -> Slots] BY <1>1, <1>4
<1>6. ASSUME NEW r \in Roles
      PROVE  /\ status'[r] \in Rounds
             /\ r \in back => \A t \in Statuses : status'[r][t] =
                                IF status[r][t] <= MaxRounds THEN 0 ELSE status[r][t]
             /\ r \notin back => status'[r] = status[r] /\ hp'[r] = hp[r]
  BY <1>1, <1>2, ClearedOK
<1>7. status' \in [Roles -> Rounds] BY <1>1, <1>6
<1>8. TypeOK' BY <1>1, <1>3, <1>5, <1>7 DEF IInv, TypeOK, Slots, Rounds
<1>9. NoInheritedPoison' /\ CharmFollows' BY <1>1, <1>4, <1>8, PoisonStepOK
<1>10. StatusStep
  <2> SUFFICES ASSUME NEW r \in Roles
               PROVE  /\ status[r]["haste"] = 0 \/ status[r]["slow"] = 0 =>
                           status'[r]["haste"] = 0 \/ status'[r]["slow"] = 0
                      /\ status'[r]["puppet"] <= MaxRounds
                      /\ status'[r]["dual"] = Lasting <=> status[r]["dual"] = Lasting
                      /\ status'[r]["puppet"] > 0 =>
                           hp'[r] = 0 \/ (status[r]["puppet"] > 0 /\ hp'[r] = hp[r])
    BY DEF StatusStep
  <2>1. /\ status[r]["puppet"] <= MaxRounds /\ status[r]["dual"] \in Nat
    BY <1>2, StatusNames DEF IInv, PuppetEnds, Rounds
  <2>2. CASE r \notin back BY <1>6, <2>1, <2>2
  <2>3. CASE r \in back BY <1>6, <2>1, <2>3, StatusNames
  <2> QED BY <2>2, <2>3
<1>11. (HasteOrSlow /\ DualIsArmed /\ DualInBattle /\ PuppetEnds /\ PuppetOutside /\ PuppetIsDead)'
  BY <1>1, <1>8, <1>10, StatusStepOK
<1> QED BY <1>8, <1>9, <1>11 DEF IInv

LEMMA EndTurnStep ==
  ASSUME IInv, NEW i \in DOMAIN party, NEW h \in 0..MaxHP, EndTurn(i, h) PROVE IInv'
<1> DEFINE r == party[i]
           aged == [s \in Statuses |->
                      IF status[r][s] \in {0, Lasting} THEN status[r][s] ELSE status[r][s] - 1]
<1>1. /\ h # hp[r] => hp[r] > 0
      /\ hp' = [hp EXCEPT ![r] = h]
      /\ status' = [status EXCEPT ![r] = aged]
      /\ UNCHANGED <<party, poison, worn, battle>>
  BY DEF EndTurn
<1>2. /\ hp \in [Roles -> 0..MaxHP] /\ status \in [Roles -> Rounds]
      /\ r \in Roles /\ r \in Members
  BY PartiesOK DEF IInv, TypeOK, Rounds, Members
<1>3. aged \in Rounds /\ \A s \in Statuses : aged[s] =
         IF status[r][s] \in {0, Lasting} THEN status[r][s] ELSE status[r][s] - 1
  BY <1>2, StatusNames DEF Rounds
<1> HIDE DEF aged
<1>4. status'[r] = aged /\ status' \in [Roles -> Rounds]
      /\ \A q \in Roles \ {r} : status'[q] = status[q] /\ hp'[q] = hp[q]
  BY <1>1, <1>2, <1>3
<1>5. hp' \in [Roles -> 0..MaxHP] /\ hp'[r] = h BY <1>1, <1>2
<1> HIDE DEF r
<1>6. TypeOK' BY <1>1, <1>4, <1>5 DEF IInv, TypeOK, Rounds
<1>7. StatusStep
  <2> SUFFICES ASSUME NEW q \in Roles
               PROVE  /\ status[q]["haste"] = 0 \/ status[q]["slow"] = 0 =>
                           status'[q]["haste"] = 0 \/ status'[q]["slow"] = 0
                      /\ status'[q]["puppet"] <= MaxRounds
                      /\ status'[q]["dual"] = Lasting <=> status[q]["dual"] = Lasting
                      /\ status'[q]["puppet"] > 0 =>
                           hp'[q] = 0 \/ (status[q]["puppet"] > 0 /\ hp'[q] = hp[q])
    BY DEF StatusStep
  <2>1. status[q]["puppet"] <= MaxRounds BY DEF IInv, PuppetEnds
  <2>2. CASE q # r BY <1>4, <2>1, <2>2
  <2>3. CASE q = r
    <3>1. \A s \in {"haste", "slow", "dual", "puppet"} :
            status[r][s] \in 0..Lasting /\ aged[s] =
              IF status[r][s] \in {0, Lasting} THEN status[r][s] ELSE status[r][s] - 1
      BY <1>2, <1>3, StatusNames DEF Rounds
    <3>2. aged["dual"] = Lasting <=> status[r]["dual"] = Lasting BY <3>1, StatusNames
    <3>3. aged["puppet"] > 0 => status[r]["puppet"] > 0 BY <3>1, StatusNames
    <3>4. aged["puppet"] > 0 => h = 0
      BY <1>1, <1>2, <3>3, PalPartyAssumption DEF IInv, PuppetIsDead
    <3>5. aged["puppet"] <= MaxRounds BY <2>1, <2>3, <3>1, StatusNames
    <3> QED BY <1>4, <1>5, <2>3, <3>1, <3>2, <3>4, <3>5
  <2> QED BY <2>2, <2>3
<1>8. NoInheritedPoison' /\ CharmFollows' BY <1>1 DEF IInv, NoInheritedPoison, CharmFollows
<1>9. (HasteOrSlow /\ DualIsArmed /\ DualInBattle /\ PuppetEnds /\ PuppetOutside /\ PuppetIsDead)'
  BY <1>1, <1>6, <1>7, StatusStepOK
<1> QED BY <1>6, <1>8, <1>9 DEF IInv

LEMMA EndBattleStep == ASSUME IInv, NEW won, NEW L, EndBattle(won, L) PROVE IInv'
<1>1. /\ hp \in [Roles -> 0..MaxHP] /\ poison \in [Places -> Slots]
      /\ status \in [Roles -> Rounds]
  BY DEF IInv, TypeOK, Slots, Rounds
<1>2. UNCHANGED <<party, worn>> /\ battle' = FALSE BY DEF EndBattle
<1>3. hp' \in [Roles -> 0..MaxHP]
  <2>1. \A r \in Roles : hp[r] + (MaxHP - hp[r]) \div 2 \in 0..MaxHP
    BY <1>1, PalPartyAssumption
  <2> QED BY <1>1, <2>1, PalPartyAssumption DEF EndBattle
<1>4. ASSUME NEW i \in Places
      PROVE  /\ poison'[i] \in Slots
             /\ \/ poison'[i] = poison[i]
                \/ /\ i \in DOMAIN party
                   /\ Given(poison[i], party[i]) => Given(poison'[i], party[i])
                   /\ NoCharm(poison[i]) => NoCharm(poison'[i])
  BY <1>1, CuredOK DEF EndBattle
<1>5. poison' \in [Places -> Slots] BY <1>4 DEF EndBattle
<1>6. ASSUME NEW r \in Roles
      PROVE  /\ status'[r] \in Rounds
             /\ \A t \in Statuses : status'[r][t] =
                  IF status[r][t] <= MaxRounds THEN 0 ELSE status[r][t]
  BY <1>1, ClearedOK DEF EndBattle
<1>7. status' \in [Roles -> Rounds] BY <1>6 DEF EndBattle
<1>8. TypeOK' BY <1>2, <1>3, <1>5, <1>7 DEF IInv, TypeOK, Slots, Rounds
<1>9. NoInheritedPoison' /\ CharmFollows' BY <1>2, <1>4, <1>8, PoisonStepOK
<1>10. Members' = Members /\ Members \subseteq Roles BY <1>2, MembersOK DEF IInv, Members
<1>11. \A r \in Roles : status'[r]["puppet"] = 0 BY <1>6, StatusNames DEF IInv, PuppetEnds
<1>12. HasteOrSlow' BY <1>6, StatusNames DEF IInv, HasteOrSlow
<1>13. DualIsArmed' BY <1>1, <1>2, <1>6, StatusNames DEF IInv, DualIsArmed, Rounds
<1>14. DualInBattle' BY <1>2 DEF DualInBattle
<1>15. PuppetEnds' /\ PuppetOutside' /\ PuppetIsDead'
  BY <1>10, <1>11, StatusNames DEF PuppetEnds, PuppetOutside, PuppetIsDead
<1> QED BY <1>8, <1>9, <1>12, <1>13, <1>14, <1>15 DEF IInv

LEMMA Inductive == IInv /\ [Next]_vars => IInv'
<1> SUFFICES ASSUME IInv, [Next]_vars PROVE IInv' OBVIOUS
<1>1. ASSUME NEW S \in Whom, NEW d \in -1..1, ChangeHP(S, d) PROVE IInv'
  BY <1>1, ChangeHPStep
<1>2. ASSUME NEW r \in Roles, HalveHP(r) \/ Kill(r) PROVE IInv' BY <1>2, HalveKillStep
<1>3. ASSUME NEW S \in Whom, NEW tenths \in {5, 10}, Revive(S, tenths) PROVE IInv'
  BY <1>3, ReviveStep
<1>4. ASSUME NEW S \in SUBSET Roles, NEW p \in Poisons \ {Charm}, Poison(S, p) PROVE IInv'
  BY <1>4, PoisonStep
<1>5. ASSUME NEW S \in Whom, NEW p \in Poisons, Cure(S, {p}) PROVE IInv' BY <1>5, CureStep
<1>6. ASSUME NEW S \in Whom, NEW level \in 1..3, Cure(S, UpTo(level)) PROVE IInv'
  BY <1>6, CureStep
<1>7. ASSUME NEW r \in Troubled, NEW s \in Statuses, NEW n \in 1..MaxRounds, SetStatus(r, s, n)
      PROVE  IInv'
  BY <1>7, SetStatusStep, PalPartyAssumption
<1>8. ASSUME NEW r \in Troubled, NEW s \in Statuses, RemoveStatus(r, s) PROVE IInv'
  BY <1>8, RemoveStatusStep, PalPartyAssumption
<1>9. ASSUME NEW r \in Roles, NEW x \in {"hand", "wear"}, Unequip(r, x) PROVE IInv'
  BY <1>9, UnequipStep
<1>10. ASSUME NEW p \in Parties, NEW R \in SUBSET Roles, SetParty(p, R) PROVE IInv'
  BY <1>10, SetPartyStep
<1>11. ASSUME NEW r \in Armed, Equip(r, "hand", FALSE) PROVE IInv'
  <2>1. r \in Roles BY PalPartyAssumption
  <2>2. \A b : Equip(r, "hand", b) => IInv' BY <2>1, EquipStep
  <2> QED BY <1>11, <2>2, Zenon
<1>12. ASSUME NEW r \in Charmed, NEW resists \in BOOLEAN, Equip(r, "wear", resists) PROVE IInv'
  BY <1>12, EquipStep, PalPartyAssumption
<1>13. ASSUME NEW R \in SUBSET Roles, SaveAndLoad(R) PROVE IInv' BY <1>13, SaveAndLoadStep
<1>14. ASSUME NEW last \in BOOLEAN, NEW R \in SUBSET Roles, StartBattle(last, R) PROVE IInv'
  BY <1>14, StartBattleStep
<1>15. ASSUME NEW i \in DOMAIN party, NEW h \in 0..MaxHP, EndTurn(i, h) PROVE IInv'
  BY <1>15, EndTurnStep
<1>16. ASSUME NEW won \in BOOLEAN, NEW L \in SUBSET Roles, EndBattle(won, L) PROVE IInv'
  BY <1>16, EndBattleStep
<1>17. CASE UNCHANGED vars
  BY <1>17 DEF vars, IInv, TypeOK, NoInheritedPoison, CharmFollows, HasteOrSlow, DualIsArmed,
               DualInBattle, PuppetEnds, PuppetOutside, PuppetIsDead, Members
<1> QED
  BY <1>1, <1>2, <1>3, <1>4, <1>5, <1>6, <1>7, <1>8, <1>9, <1>10, <1>11, <1>12, <1>13,
     <1>14, <1>15, <1>16, <1>17
  DEF Next

-----------------------------------------------------------------------------
(* Theorems.                                                               *)

\* Every state the game reaches satisfies the inductive invariant.
THEOREM Invariance == Spec => []IInv
BY Initially, Inductive, PTL DEF Spec

\* The variables keep their types; hit points stay between 0 and the maximum
\* through every clamp, halving and recovery (PAL_IncreaseHPMP, instruction
\* 0x5F, the end of PAL_BattleWon).
THEOREM Typing == Spec => []TypeOK
<1>1. IInv => TypeOK BY DEF IInv
<1> QED BY <1>1, Invariance, PTL

\* A member never suffers from a poison that was given to another, although
\* rgPoisonStatus is indexed by the place in the party: instruction 0x75 and
\* PAL_LoadGame clear the places before others take them.
THEOREM NoInherited == Spec => []NoInheritedPoison
<1>1. IInv => NoInheritedPoison BY DEF IInv
<1> QED BY <1>1, Invariance, PTL

\* The poison of level 99 leaves with the garment that gave it
\* (PAL_RemoveEquipmentEffect).
THEOREM Charmless == Spec => []CharmFollows
<1>1. IInv => CharmFollows BY DEF IInv
<1> QED BY <1>1, Invariance, PTL

\* Nobody is hasted and slowed at once (PAL_SetPlayerStatus).
THEOREM Exclusive == Spec => []HasteOrSlow
<1>1. IInv => HasteOrSlow BY DEF IInv
<1> QED BY <1>1, Invariance, PTL

\* In a battle exactly the members who hold the weapon attack twice for good:
\* PAL_StartBattle raises the dead before it puts the equipment on again.
THEOREM DualWhileArmed == Spec => []DualInBattle
<1>1. IInv => DualInBattle BY DEF IInv
<1> QED BY <1>1, Invariance, PTL

\* No member with hit points is a puppet: whatever revives a player ends the
\* status (instruction 0x22, PAL_StartBattle).
THEOREM DeadPuppets == Spec => []PuppetIsDead
<1>1. IInv => PuppetIsDead BY DEF IInv
<1> QED BY <1>1, Invariance, PTL
=============================================================================
