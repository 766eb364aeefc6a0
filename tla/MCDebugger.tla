----------------------------- MODULE MCDebugger -----------------------------
(***************************************************************************)
(* A guest of five instructions for TLC: a loop 0, 1, 2, a BREAK_POINT of   *)
(* its own at 2 (or the trap that ends the run), and a handler 3, 4.       *)
(* Breakpoints are set in the loop and at the entry of the handler.        *)
(***************************************************************************)
EXTENDS Debugger

MCAddr == 0 .. 4
MCProg == [a \in MCAddr |-> CASE a = 2 -> INT3
                              [] a = 4 -> "iret"
                              [] OTHER -> "plain"]
MCNext_eip == [a \in MCAddr |-> CASE a \in {2, 4} -> 0
                                  [] OTHER -> a + 1]
\* The same loop without the guest's own break, ending in the trap.
MCProgTrap == [a \in MCAddr |-> CASE a = 2 -> "trap"
                                  [] a = 4 -> "iret"
                                  [] OTHER -> "plain"]
=============================================================================
