----------------------------- MODULE MCPalParty -----------------------------
(* Two roles: the statuses and the weapon are tried on the first, the charm *)
(* on the second; two slots for three kinds of poison.                      *)
EXTENDS PalParty

MCLevel == [p \in Poisons |-> CASE p = "snake" -> 1 [] p = "curse" -> 5 [] OTHER -> 99]
=============================================================================
