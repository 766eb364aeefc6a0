----------------------------- MODULE Interrupts -----------------------------
(***************************************************************************)
(* How the emulated machine and the kernel take interrupts:                *)
(*   - the interrupt controller, nemu/src/device/i8259_pic.c, which has    *)
(*     room for a single request;                                          *)
(*   - the turn of exec() in nemu/src/cpu/cpu.c: one instruction, then the *)
(*     devices are polled, then a pending interrupt is taken;              *)
(*   - raise_intr() and the instructions int, iret, sti, cli and hlt;      *)
(*   - the kernel's entry asm_do_irq and its list of handlers per request, *)
(*     kernel/src/irq/irq_handle.c.                                        *)
(*                                                                         *)
(* The module has no specification of its own: programs that run on the    *)
(* machine (IdeDriver, TypingGame) extend it.  A program's instruction is  *)
(* an action with the conjunct Instr; Turn is the rest of the turn.        *)
(***************************************************************************)
EXTENDS Integers, Sequences

TIMER_IRQ    == 0
KEYBOARD_IRQ == 1
IDE_IRQ      == 14
SYSCALL      == 128      \* the entry of int $0x80
HardIrqs == {TIMER_IRQ, KEYBOARD_IRQ, IDE_IRQ}
Polled   == {TIMER_IRQ, KEYBOARD_IRQ}
NoIntr   == -1           \* I8259_NO_INTR

CONSTANTS Routines,      \* the handlers programs register
          Gap            \* turns between two requests of a polled device

ASSUME InterruptsAssumption == Gap \in Nat

VARIABLES i8259_intr_no, \* the request in the controller's only slot
          intr,          \* cpu.intr
          eflags_IF,     \* the interrupt flag
          is_nemu_hlt,   \* the processor waits in hlt
          turn,          \* "cpu": an instruction is next; "devices": Turn is
          frames,        \* the entries not yet left, innermost first: what was
                         \* entered, the IF it saved, the handlers left to call
          handles,       \* the handlers of each request, newest first
          idle           \* turns since each polled device raised a request

\* History, read by no action: the requests raised since the last was taken.
VARIABLE requests

slot    == <<i8259_intr_no, intr, requests>>
control == <<eflags_IF, is_nemu_hlt, frames>>
machine == <<slot, control, turn, handles, idle>>

Frame == [irq : HardIrqs \cup {SYSCALL}, saved : BOOLEAN, f : Seq(Routines)]

-----------------------------------------------------------------------------
(* i8259_pic.c                                                             *)

\* Bug: the latest request stays.
LatestStays(no, irq) == irq

\* The slot after i8259_raise_intr(irq): the higher number stays, the other
\* request is gone.
Raised(no, irq) == IF no = NoIntr \/ irq > no THEN irq ELSE no

\* i8259_raise_intr() from the handler of an I/O port.
RaiseIntr(irq) == /\ i8259_intr_no' = Raised(i8259_intr_no, irq)
                  /\ intr' = TRUE
                  /\ requests' = requests \cup {irq}

-----------------------------------------------------------------------------
(* The turn of exec().                                                     *)

\* The processor executes an instruction.
Instr == turn = "cpu" /\ ~is_nemu_hlt /\ turn' = "devices"

\* IF after raise_intr(): irq0, irq1 and irq14 have interrupt gates.
IFInHandler == FALSE

\* Bug: an interrupt is taken, but the processor is left halted.
StillHalted == is_nemu_hlt

\* do_intr() wakes the processor.
Halted == FALSE

MayRaise(d) == idle[d] >= Gap
IdleAfter(d, raises) == IF raises THEN 0 ELSE IF idle[d] < Gap THEN idle[d] + 1 ELSE Gap

\* do_devices(), where the timer and the keyboard raise their requests or do
\* not, and do_intr().  A halted processor gets here without an instruction.
Turn(timer, key) ==
  /\ turn = "devices" \/ is_nemu_hlt
  /\ turn' = "cpu"
  /\ timer => MayRaise(TIMER_IRQ)
  /\ key => MayRaise(KEYBOARD_IRQ)
  /\ idle' = [d \in Polled |-> IdleAfter(d, IF d = TIMER_IRQ THEN timer ELSE key)]
  /\ LET s1 == IF timer THEN Raised(i8259_intr_no, TIMER_IRQ) ELSE i8259_intr_no
         s2 == IF key THEN Raised(s1, KEYBOARD_IRQ) ELSE s1
         pending == intr \/ timer \/ key
     IN  IF pending /\ eflags_IF
         THEN /\ i8259_intr_no' = NoIntr      \* i8259_ack_intr()
              /\ intr' = FALSE
              /\ requests' = {}
              /\ is_nemu_hlt' = Halted
              /\ frames' = <<[irq |-> s2, saved |-> eflags_IF, f |-> handles[s2]]>> \o frames
              /\ eflags_IF' = IFInHandler
         ELSE /\ i8259_intr_no' = s2
              /\ intr' = pending
              /\ requests' = requests \cup (IF timer THEN {TIMER_IRQ} ELSE {})
                                      \cup (IF key THEN {KEYBOARD_IRQ} ELSE {})
              /\ UNCHANGED control
  /\ UNCHANGED handles

-----------------------------------------------------------------------------
(* Instructions, and the code of the kernel between entry and iret.        *)

Hlt == is_nemu_hlt' = TRUE /\ UNCHANGED <<eflags_IF, frames>>

\* Bug: cli does nothing.
NoCli == UNCHANGED control

Cli == eflags_IF' = FALSE /\ UNCHANGED <<is_nemu_hlt, frames>>
Sti == eflags_IF' = TRUE /\ UNCHANGED <<is_nemu_hlt, frames>>

\* int $0x80: the code clears IF although the entry is a trap gate.
Int80 == /\ frames' = <<[irq |-> SYSCALL, saved |-> eflags_IF, f |-> <<>>]>> \o frames
         /\ eflags_IF' = FALSE
         /\ UNCHANGED is_nemu_hlt

\* Bug: iret does not restore the flags.
IFUnrestored == eflags_IF

\* iret pops the flags that were pushed.
IFRestored == Head(frames).saved

\* The end of asm_do_irq, when every handler has been called.
Iret == /\ Instr
        /\ frames # <<>> /\ Head(frames).f = <<>>
        /\ frames' = Tail(frames)
        /\ eflags_IF' = IFRestored
        /\ UNCHANGED <<is_nemu_hlt, slot, handles, idle>>

\* The handler irq_handle() calls next, and the call of it.
InHandler(r) == frames # <<>> /\ Head(frames).f # <<>> /\ Head(Head(frames).f) = r
Called == /\ frames' = [frames EXCEPT ![1].f = Tail(@)]
          /\ UNCHANGED <<eflags_IF, is_nemu_hlt>>

\* add_irq_handle(): linked in at the head of the list, the link last.
AddIrqHandle(irq, r) == handles' = [handles EXCEPT ![irq] = <<r>> \o @]

MachineInit(lists) ==
  /\ i8259_intr_no = NoIntr
  /\ intr = FALSE
  /\ requests = {}
  /\ eflags_IF = TRUE                           \* the sti() of init_idt()
  /\ is_nemu_hlt = FALSE
  /\ turn = "cpu"
  /\ frames = <<>>
  /\ handles = lists
  /\ idle = [d \in Polled |-> Gap]

-----------------------------------------------------------------------------

MachineTypeOK ==
  /\ i8259_intr_no \in HardIrqs \cup {NoIntr}
  /\ intr \in BOOLEAN /\ eflags_IF \in BOOLEAN /\ is_nemu_hlt \in BOOLEAN
  /\ turn \in {"cpu", "devices"}
  /\ frames \in Seq(Frame)
  /\ handles \in [HardIrqs -> Seq(Routines)]
  /\ idle \in [Polled -> 0 .. Gap]
  /\ requests \subseteq HardIrqs

\* The slot holds the highest request raised since one was last taken, and
\* cpu.intr says whether there is one: do_intr() asserts it (cpu.c:150).
SlotIsHighest ==
  /\ intr <=> i8259_intr_no # NoIntr
  /\ IF requests = {} THEN i8259_intr_no = NoIntr
     ELSE i8259_intr_no \in requests /\ \A r \in requests : r <= i8259_intr_no

\* The processor is never halted with interrupts off: it would not wake.
NoDeadHalt == is_nemu_hlt => eflags_IF
=============================================================================
