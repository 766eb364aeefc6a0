------------------------------ MODULE MCMemory ------------------------------
(***************************************************************************)
(* Four frames of four bytes, the window in the middle two, so that an     *)
(* access can cross into the window, within it and out of it.  Two visible *)
(* lines of three bytes, so that lines meet inside a page and at its end,  *)
(* and two bytes of the window lie below the screen.                       *)
(***************************************************************************)
EXTENDS Memory, FiniteSets

\* Operands with one byte set: the first, so that every length changes what
\* was there, or the second, which two parts or two lines may divide from it.
MCData == {[i \in 0 .. 3 |-> IF i = k THEN 1 ELSE 0] : k \in {0, 1}}

\* The kernel's identical mapping, and a program's: neighbouring pages are in
\* frames far apart, the video memory is mapped in reverse and a page is absent.
MCMappings == {[g \in Page |-> g],
               [g \in Page |-> CASE g = 0 -> 3 [] g = 1 -> 2 [] g = 2 -> 1 [] g = 3 -> NoFrame]}

\* A bound for TLC: at most MaxSet bytes are set.
MaxSet == 1
FewSet == Cardinality({a \in Paddr : ram[a] # Blank}) + Cardinality({b \in Space : mmio_space[b] # Blank}) <= MaxSet
=============================================================================
