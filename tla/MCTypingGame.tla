---------------------------- MODULE MCTypingGame ----------------------------
(***************************************************************************)
(* A screen three rows high and a pool that is just large enough for it.   *)
(***************************************************************************)
EXTENDS TypingGame
=============================================================================
