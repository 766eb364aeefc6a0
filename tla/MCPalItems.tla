----------------------------- MODULE MCPalItems -----------------------------
(***************************************************************************)
(* Three roles, one part and three kinds of items: two weapons, of which   *)
(* one can also be used and fits only two roles, and herbs.  The inventory *)
(* is as long as the list of items, so what the menu appends may fill it.  *)
(***************************************************************************)
EXTENDS PalItems

MCPartOf == [it \in Items |-> 1]
MCWornBy == [it \in Items |-> CASE it = "herb"  -> {}
                                [] it = "knife" -> {1, 2}
                                [] OTHER        -> Roles]
MCPrice == [it \in Items |-> 2]
=============================================================================
