------------------------------ MODULE MCCache -------------------------------
(***************************************************************************)
(* A small cache for TLC: two groups of two ways over five blocks, so that *)
(* three blocks compete for the two lines of group 0, tags tell the blocks *)
(* of a group apart, a write hits either way and an access is split over   *)
(* lines of both groups.  Lines have two bytes, accesses one or two.       *)
(***************************************************************************)
EXTENDS Cache, FiniteSets

\* Two images: one that fills memory up to the bound below, and one that
\* leaves it cleared.
MCImages == {[a \in Addr |-> IF a \in {3, 8} THEN 1 ELSE 0], [a \in Addr |-> 0]}

\* A bound for TLC: memories with at most MaxSet bytes set.  Every byte and
\* every pair of bytes is set in some state, so that any two accesses can be
\* told apart.
MaxSet == 2
FewSet == Cardinality({a \in Addr : hw_mem[a] # Zero}) <= MaxSet
=============================================================================
