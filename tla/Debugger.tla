------------------------------ MODULE Debugger ------------------------------
(***************************************************************************)
(* The monitor of the emulator: the breakpoints of                         *)
(* nemu/src/monitor/breakpoint.c, the commands of ui.c that use them, and  *)
(* the loop exec() of nemu/src/cpu/cpu.c that runs the guest, meets the    *)
(* breakpoints and takes interrupts.                                       *)
(*                                                                         *)
(* A breakpoint is an opcode INT3 patched into the guest's code.  When it  *)
(* is met the loop puts the original opcode back and stops; the next       *)
(* exec() runs that one instruction and then patches all breakpoints in    *)
(* again (hit_break_rerun).                                                *)
(*                                                                         *)
(* An address is the start of an instruction.  The code is abstracted to   *)
(* the opcodes that matter here.  Watchpoints are left out: set_watchpoint *)
(* calls expr(), which aborts in this tree, so none is ever created.       *)
(***************************************************************************)
EXTENDS Integers, Sequences, FiniteSets

CONSTANTS Addr,          \* addresses of instructions
          Prog,          \* the code the guest was built from
          Next_eip,      \* where a plain instruction leads
          Entry,         \* the first instruction
          Handler,       \* the entry of the interrupt handler
          BpAddrs,       \* where the user sets breakpoints: starts of functions,
                         \* a one-byte push %ebp; b *ADDR calls expr(), which aborts
          NR_BP,         \* breakpoints in the pool
          Steps          \* arguments of the command si

Forever == -1            \* exec(-1): 2^32 - 1 instructions, never used up here
NoAddr  == -1

INT3 == "int3"
Op == {"plain", "iret", "trap", INT3}
Unset == "unset"         \* an ori_byte nothing was stored in

\* H is the code of the handler: only an interrupt leads into it, only iret out.
Apart(H) ==
  /\ Handler \in H /\ Entry \notin H
  /\ \A a \in Addr : IF Prog[a] = "iret" THEN a \in H ELSE Next_eip[a] \in H <=> a \in H

ASSUME DebuggerAssumption ==
         /\ Addr \subseteq Nat
         /\ Prog \in [Addr -> Op]
         /\ Next_eip \in [Addr -> Addr]
         /\ Entry \in Addr /\ Handler \in Addr
         /\ BpAddrs \subseteq {a \in Addr : Prog[a] = "plain"}
         /\ NR_BP \in Nat \ {0}
         /\ Steps \subseteq Nat \ {0}
         /\ \E H \in SUBSET Addr : Apart(H)

VARIABLES mem,              \* the guest's code, with the breakpoints patched in
          head,             \* breakpoints in use, newest first
          free_,            \* numbers of the free breakpoints
          nemu_state,       \* READY, RUN, BREAK or STOP
          pc,               \* where exec() is; "ui" between two calls of it
          n,                \* instructions exec() may still run
          hit_break_rerun,
          eip,
          ret,              \* the eip the handler returns to, or NoAddr
          intr              \* the pending interrupt request, or "none"

\* History, read by no action: the address of the latest stop whose
\* instruction has not run since, whether a keyboard interrupt was taken in
\* between, and whether exec() has returned READY from a stop and has not
\* patched the breakpoints in since.
VARIABLES stopped, interrupted, forgotten

\* History as well: the addresses at which a breakpoint was set over another,
\* and those at which one was deleted from under another.
VARIABLES doubled, lost

vars == <<mem, head, free_, nemu_state, pc, n, hit_break_rerun, eip, ret, intr,
          stopped, interrupted, forgotten, doubled, lost>>

guest   == <<eip, ret, intr>>
monitor == <<nemu_state, pc, n, hit_break_rerun>>
history == <<stopped, interrupted, forgotten>>
overlap == <<doubled, lost>>

Nos == 0 .. NR_BP - 1
BP == [NO : Nos, addr : Addr, ori_byte : Op]

-----------------------------------------------------------------------------
(* breakpoint.c                                                            *)

At(a) == {i \in DOMAIN head : head[i].addr = a}
First(I) == CHOOSE i \in I : \A j \in I : i <= j

\* Bug: the byte is fetched once INT3 has been written there.
OriByteLate(a) == INT3

\* instr_fetch() of the byte under a new breakpoint.
OriByte(a) == mem[a]

\* Bug: a breakpoint is linked into the list and left in the free list.
StillFree == free_

\* new_BP() takes the first free breakpoint.
FreeAfterNew == Tail(free_)

\* m with every breakpoint patched in: resume_breakpoints().
Resumed(m) == [a \in Addr |-> IF At(a) # {} THEN INT3 ELSE m[a]]

\* Bug: all are unlinked and none is written back.
NotRestored == mem

\* free_BP() of every breakpoint, from the tail of the list to its head: the
\* newest of several at one address is written back last.
AllRestored == [a \in Addr |-> IF At(a) # {} THEN head[First(At(a))].ori_byte
                               ELSE mem[a]]

\* set_breakpoint(), by the command b.  new_BP() asserts that one is free; nobody
\* asks whether the address has one already.
SetBreakpoint(a) ==
  /\ pc = "ui" /\ nemu_state # "STOP"
  /\ IF free_ = <<>>
     THEN /\ pc' = "aborted"
          /\ UNCHANGED <<mem, head, free_, history, overlap>>
     ELSE /\ head' = <<[NO |-> Head(free_), addr |-> a, ori_byte |-> OriByte(a)]>> \o head
          /\ free_' = FreeAfterNew
          /\ mem' = [mem EXCEPT ![a] = INT3]
          /\ stopped' = IF stopped = a THEN NoAddr ELSE stopped
          /\ doubled' = IF At(a) # {} THEN doubled \cup {a} ELSE doubled
          /\ UNCHANGED <<pc, interrupted, forgotten, lost>>
  /\ UNCHANGED <<nemu_state, n, hit_break_rerun, guest>>

\* Breakpoint i is the oldest at its address and not the only one.
Under(i) == /\ \E j \in DOMAIN head : j < i /\ head[j].addr = head[i].addr
            /\ \A j \in DOMAIN head : j > i => head[j].addr # head[i].addr

\* delete_breakpoint() and free_BP(), by the command d with a number.
DeleteBreakpoint(NO) ==
  /\ pc = "ui" /\ nemu_state # "STOP"
  /\ \E i \in DOMAIN head :
       /\ head[i].NO = NO
       /\ head' = SubSeq(head, 1, i - 1) \o SubSeq(head, i + 1, Len(head))
       /\ mem' = [mem EXCEPT ![head[i].addr] = head[i].ori_byte]
       /\ lost' = IF Under(i) THEN lost \cup {head[i].addr} ELSE lost
  /\ free_' = <<NO>> \o free_
  /\ UNCHANGED <<monitor, guest, history, doubled>>

\* delete_all_breakpoint(), by the command d without a number.
DeleteAll ==
  /\ pc = "ui" /\ nemu_state # "STOP"
  /\ head # <<>>
  /\ mem' = AllRestored
  /\ free_' = [i \in DOMAIN head |-> head[i].NO] \o free_
  /\ head' = <<>>
  /\ lost' = lost \cup {head[i].addr : i \in {j \in DOMAIN head : Under(j)}}
  /\ UNCHANGED <<monitor, guest, history, doubled>>

-----------------------------------------------------------------------------
(* exec()                                                                  *)

\* The state exec() finds tells it that it resumes from a breakpoint.
Rerun == nemu_state = "BREAK"

\* The commands c and si call exec() with n = k.
Exec(k) ==
  /\ pc = "ui" /\ nemu_state # "STOP"
  /\ hit_break_rerun' = Rerun
  /\ nemu_state' = "RUN"
  /\ n' = k
  /\ pc' = "exec_inst"
  /\ UNCHANGED <<mem, head, free_, guest, history, overlap>>

\* The code the instruction is fetched from.
Fetched == mem

\* exec_inst(), the rearming of the breakpoints, the check for a breakpoint.
ExecInst ==
  /\ pc = "exec_inst"
  /\ LET op  == Fetched[eip]
         hit == op = INT3 /\ At(eip) # {}
         m   == IF hit_break_rerun THEN Resumed(mem) ELSE mem
     IN  /\ nemu_state' = CASE op = INT3   -> "BREAK"
                            [] op = "trap" -> "STOP"
                            [] OTHER       -> "RUN"
         /\ eip' = IF hit THEN eip
                   ELSE IF op = "iret" THEN ret ELSE Next_eip[eip]
         /\ ret' = IF op = "iret" THEN NoAddr ELSE ret
         /\ mem' = IF hit THEN [m EXCEPT ![eip] = head[First(At(eip))].ori_byte]
                   ELSE m
         /\ stopped' = IF hit THEN eip ELSE IF stopped = eip THEN NoAddr ELSE stopped
         /\ interrupted' = IF hit THEN FALSE ELSE interrupted
         /\ forgotten' = (forgotten /\ ~hit_break_rerun)
  /\ hit_break_rerun' = FALSE
  /\ n' = IF n = Forever THEN Forever ELSE n - 1
  /\ pc' = "do_devices"
  /\ UNCHANGED <<head, free_, intr, overlap>>

\* Bug: the timer interrupts a machine that has stopped at a breakpoint.
TimerAlways == TRUE

\* timer_intr() asks for a running machine; keyboard_down() does not.
TimerMayRaise == nemu_state = "RUN"

\* do_devices(): the timer and the keyboard may raise an interrupt, and the
\* user may close the window.
DoDevices ==
  /\ pc = "do_devices"
  /\ \/ UNCHANGED <<intr, nemu_state>>
     \/ /\ TimerMayRaise
        /\ intr' = IF intr = "none" THEN "timer" ELSE intr
        /\ UNCHANGED nemu_state
     \/ intr' = "keyboard" /\ UNCHANGED nemu_state
     \/ nemu_state' = "STOP" /\ UNCHANGED intr
  /\ pc' = "do_intr"
  /\ UNCHANGED <<mem, head, free_, n, hit_break_rerun, eip, ret, history, overlap>>

\* Bug: exec() leaves READY after every stop.
ReadyAtEnd == IF nemu_state = "STOP" THEN "STOP" ELSE "READY"

\* What exec() leaves: READY once n is used up, even at a breakpoint.
StateAtEnd == IF nemu_state # "STOP" /\ n = 0 THEN "READY" ELSE nemu_state

\* do_intr() and the test of the loop.  Interrupts are enabled outside the
\* handler; its gate clears IF and iret restores it.
DoIntr ==
  /\ pc = "do_intr"
  /\ IF intr # "none" /\ ret = NoAddr
     THEN /\ ret' = eip
          /\ eip' = Handler
          /\ intr' = "none"
          /\ interrupted' = (interrupted \/ intr = "keyboard")
     ELSE UNCHANGED <<guest, interrupted>>
  /\ IF nemu_state = "RUN" /\ n # 0
     THEN pc' = "exec_inst" /\ UNCHANGED <<nemu_state, forgotten>>
     ELSE /\ pc' = "ui"
          /\ nemu_state' = StateAtEnd
          /\ forgotten' = (forgotten \/ (nemu_state = "BREAK" /\ n = 0 /\ stopped # NoAddr))
  /\ UNCHANGED <<mem, head, free_, n, hit_break_rerun, stopped, overlap>>

-----------------------------------------------------------------------------

\* init_bp_list(), and the machine as single_run() hands it to the monitor.
Init ==
  /\ mem = Prog
  /\ head = <<>>
  /\ free_ = [i \in 1 .. NR_BP |-> i - 1]
  /\ nemu_state = "READY"
  /\ pc = "ui"
  /\ n = 0
  /\ hit_break_rerun = FALSE
  /\ eip = Entry
  /\ ret = NoAddr
  /\ intr = "none"
  /\ stopped = NoAddr
  /\ interrupted = FALSE
  /\ forgotten = FALSE
  /\ doubled = {}
  /\ lost = {}

Command == \/ \E a \in BpAddrs : SetBreakpoint(a)
           \/ \E NO \in Nos : DeleteBreakpoint(NO)
           \/ DeleteAll
           \/ \E k \in Steps \cup {Forever} : Exec(k)

Loop == ExecInst \/ DoDevices \/ DoIntr

Next == Command \/ Loop

Spec == Init /\ [][Next]_vars

-----------------------------------------------------------------------------

\* Types of the variables.
TypeOK ==
  /\ mem \in [Addr -> Op]
  /\ head \in Seq(BP) /\ Len(head) <= NR_BP
  /\ free_ \in Seq(Nos) /\ Len(free_) <= NR_BP
  /\ nemu_state \in {"READY", "RUN", "BREAK", "STOP"}
  /\ pc \in {"ui", "exec_inst", "do_devices", "do_intr", "aborted"}
  /\ n \in Nat \cup {Forever}
  /\ hit_break_rerun \in BOOLEAN
  /\ eip \in Addr
  /\ ret \in Addr \cup {NoAddr}
  /\ intr \in {"none", "timer", "keyboard"}
  /\ stopped \in Addr \cup {NoAddr}
  /\ interrupted \in BOOLEAN /\ forgotten \in BOOLEAN
  /\ lost \subseteq doubled /\ doubled \subseteq BpAddrs

\* Each of the NR_BP breakpoints is in exactly one of the two lists, once: the
\* lists share the field next, so a breakpoint in both would tie them together.
PoolPartition ==
  /\ TypeOK
  /\ Len(head) + Len(free_) = NR_BP
  /\ {head[i].NO : i \in DOMAIN head} \cup {free_[i] : i \in DOMAIN free_} = Nos

\* The guest's code can be recovered.  However breakpoints are set, met and
\* deleted, several at one address included, the oldest at an address has saved
\* the byte the program was built with, and without a breakpoint that byte is in
\* place: deleting them from the newest to the oldest leaves the program as it
\* was.  It is lost only by deleting the oldest from under a newer one, which
\* has saved INT3 (breakpoint.c:57): by its number, or with all of them, because
\* delete_all_breakpoint() begins with the oldest (breakpoint.c:118).
Recoverable ==
  /\ \A a \in Addr \ lost : At(a) = {} => mem[a] = Prog[a]
  /\ \A i \in DOMAIN head :
       \/ head[i].addr \in lost
       \/ head[i].ori_byte = Prog[head[i].addr]
       \/ \E j \in DOMAIN head : j > i /\ head[j].addr = head[i].addr

RunsThrough == pc = "exec_inst" /\ At(eip) # {} /\ nemu_state' # "BREAK" /\ stopped # eip

\* A breakpoint alone at its address is run through in one case only: a command
\* si spent its last instruction on meeting one, so that exec() took BREAK for
\* READY (cpu.c:120).  Deleting one of two takes the INT3 of both away.
RunThroughOnlyForgotten == [][RunsThrough => forgotten \/ eip \in doubled]_vars

\* No instruction under a breakpoint runs unless the monitor has just stopped
\* there: breakpoints are neither run through nor lost (ui.c:233).
NeverRunThrough == [][~RunsThrough]_vars

\* A breakpoint stops the guest once per arrival.  It stops again at the same
\* address, its instruction not having run, only if a keyboard interrupt was
\* taken right after the first stop: the one step that exec() runs with the
\* breakpoint off is then spent on the handler.  The timer cannot do this
\* because timer_intr() asks for a running machine (timer.c:13).  Where one was
\* set over another the stop puts INT3 back and the guest never gets on.
OneStopPerArrival ==
  [][pc = "exec_inst" /\ stopped = eip /\ nemu_state' = "BREAK"
       => interrupted \/ eip \in doubled]_vars
=============================================================================
