----------------------------- MODULE MCOperate -----------------------------
(* Numbers small enough to try every value of every operand, in three sizes. *)
EXTENDS Operate
=============================================================================
