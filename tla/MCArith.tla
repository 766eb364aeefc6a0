------------------------------ MODULE MCArith ------------------------------
(* Numbers small enough to try every value of every limb. *)
EXTENDS Arith
=============================================================================
