---------------------------- MODULE MCPalBattle -----------------------------
(***************************************************************************)
(* Four battles, one after the other in any order: two players against an  *)
(* enemy, with nearly every command; two against two, so that a target may *)
(* fall; three against one, confused in turn; and one against an enemy in  *)
(* the third slot, who may strike twice and whom a flight leaves there.    *)
(***************************************************************************)
EXTENDS PalBattle

MCDual == [e \in Slots |-> IF e = 3 THEN 1 ELSE 0]
MCBattles ==
  {[party |-> 2, last |-> 2, team |-> {1}, full |-> 2, cap |-> 4,
    kinds |-> Kinds, troubles |-> Troubles, items |-> 1],
   [party |-> 2, last |-> 2, team |-> {1, 2}, full |-> 4, cap |-> 4,
    kinds |-> {"attack"}, troubles |-> {}, items |-> 0],
   [party |-> 3, last |-> 1, team |-> {1}, full |-> 1, cap |-> 1,
    kinds |-> {}, troubles |-> Troubles, items |-> 0],
   [party |-> 1, last |-> 3, team |-> {3}, full |-> 1, cap |-> 1,
    kinds |-> {"flee"}, troubles |-> {}, items |-> 0]}
=============================================================================
