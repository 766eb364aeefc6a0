---------------------------- MODULE TypingProofs ----------------------------
(***************************************************************************)
(* Proofs about TypingGame, for any letters, screen, pool, speeds and rate *)
(* of interrupts.                                                          *)
(*                                                                         *)
(* Masked says where the entries of the kernel and IF stand at each point  *)
(* of the game: where the code has interrupts off nothing has been         *)
(* entered but the game's own system call; elsewhere one handler may have  *)
(* been, with IF off and to be restored.  Awake says at which point the    *)
(* processor may be halted.  Charge counts a key that is noted and not yet *)
(* used as a shot still to come.                                           *)
(*                                                                         *)
(* Flights says where the elements of the pool are: the letters S and the  *)
(* free elements F are all of it, and a letter is as high as it must be    *)
(* since the tick b at which it appeared.  Letters appear one in a period  *)
(* and leave after a bounded time, so there are few of them (FewLetters)   *)
(* and the pool does not run out.  Listed and Ticked bound the ticks that  *)
(* are counted.                                                            *)
(***************************************************************************)
EXTENDS TypingGame, FiniteSetTheorems, SequenceTheorems, WellFoundedInduction, TLAPS

USE DEF TIMER_IRQ, KEYBOARD_IRQ, IDE_IRQ, SYSCALL, HardIrqs, NoIntr, Polled

\* Where the game is in its system call, and where its code has turned
\* interrupts off.
Calling == {"cli", "link", "sti", "iret"}
OffPcs  == {"cli", "link", "sti", "test", "sti_continue", "loop_sti", "scan"}

Call == [irq |-> SYSCALL, saved |-> TRUE, f |-> <<>>]
HandlerFrame == [irq : HardIrqs, saved : {TRUE}, f : Seq(Routines)]

\* The entries when the game runs, and while it is interrupted by fr.
Own(c)     == IF c \in Calling THEN <<Call>> ELSE <<>>
Under(fr, c) == IF c \in Calling THEN <<fr, Call>> ELSE <<fr>>

\* Types, and that a request that is pending is in the slot.
Types ==
  /\ i8259_intr_no \in HardIrqs \cup {NoIntr}
  /\ intr \in BOOLEAN /\ (intr => i8259_intr_no \in HardIrqs)
  /\ eflags_IF \in BOOLEAN /\ is_nemu_hlt \in BOOLEAN
  /\ handles \in [HardIrqs -> Seq(Routines)]
  /\ irq \in {TIMER_IRQ, KEYBOARD_IRQ}

\* After a letter is shot update_keypress() is called again with IF off.
Masked ==
  \/ /\ frames = Own(pc)
     /\ pc # "key_cli" => (eflags_IF <=> pc \notin OffPcs)
  \/ /\ ~eflags_IF /\ pc \notin OffPcs
     /\ \E fr \in HandlerFrame : frames = Under(fr, pc)

Awake == is_nemu_hlt => pc = "loop_cli" /\ frames = <<>>

Charge ==
  /\ IsFiniteSet(letter_pressed)
  /\ presses \in Nat /\ shots \in Nat
  /\ shots + Cardinality(letter_pressed) <= presses

IInv == Types /\ Masked /\ Awake /\ Charge

-----------------------------------------------------------------------------
(* The entries.                                                            *)

LEMMA HandlerFacts ==
  ASSUME NEW fr \in HandlerFrame
  PROVE  /\ fr.irq \in HardIrqs /\ fr.irq # SYSCALL /\ fr.saved = TRUE
         /\ fr.f # <<>> => [fr EXCEPT !.f = Tail(@)] \in HandlerFrame
<1>1. fr.irq \in HardIrqs /\ fr.saved \in {TRUE} /\ fr.f \in Seq(Routines)
  BY DEF HandlerFrame
<1>2. fr.saved = TRUE BY <1>1
<1>3. fr.irq # SYSCALL BY <1>1
<1>4. ASSUME fr.f # <<>> PROVE [fr EXCEPT !.f = Tail(@)] \in HandlerFrame
  <2>1. Tail(fr.f) \in Seq(Routines) BY <1>1, <1>4
  <2> QED BY <2>1 DEF HandlerFrame
<1> QED BY <1>1, <1>2, <1>3, <1>4

\* Two entries or handlers in a row.
LEMMA Pair == ASSUME NEW x, NEW y PROVE <<x>> \o <<y>> = <<x, y>>
<1> DEFINE S == {x, y}
           t == <<x>> \o <<y>>
<1>1. /\ <<x>> \in Seq(S) /\ <<y>> \in Seq(S) /\ <<x, y>> \in Seq(S)
      /\ Len(<<x>>) = 1 /\ Len(<<y>>) = 1 /\ Len(<<x, y>>) = 2
      /\ <<x>>[1] = x /\ <<y>>[1] = y
      /\ <<x, y>>[1] = x /\ <<x, y>>[2] = y
  OBVIOUS
<1> HIDE DEF S
<1>2. /\ t \in Seq(S) /\ Len(t) = 2
      /\ \A i \in 1 .. 2 : t[i] = IF i <= 1 THEN <<x>>[i] ELSE <<y>>[i - 1]
  BY <1>1, ConcatProperties
<1> HIDE DEF t
<1>3. t[1] = x /\ t[2] = y BY <1>1, <1>2
<1>4. \A i \in 1 .. Len(t) : t[i] = <<x, y>>[i] BY <1>1, <1>2, <1>3
<1>5. t = <<x, y>> BY <1>1, <1>2, <1>4, SeqEqual
<1> QED BY <1>5 DEF t

\* Entering a handler and leaving it.
LEMMA Frames ==
  ASSUME NEW fr, NEW c
  PROVE  /\ Head(Under(fr, c)) = fr /\ Tail(Under(fr, c)) = Own(c)
         /\ Under(fr, c)[1] = fr /\ <<fr>> \o Own(c) = Under(fr, c)
<1>1. /\ Head(<<fr>>) = fr /\ Tail(<<fr>>) = <<>> /\ <<fr>>[1] = fr
      /\ <<fr>> \o <<>> = <<fr>>
  OBVIOUS
<1>2. /\ Head(<<fr, Call>>) = fr /\ <<fr, Call>>[1] = fr
      /\ Tail(<<fr, Call>>) = <<Call>>
  OBVIOUS
<1>3. <<fr>> \o <<Call>> = <<fr, Call>> BY Pair
<1>4. CASE c \in Calling BY <1>2, <1>3, <1>4 DEF Under, Own
<1>5. CASE c \notin Calling BY <1>1, <1>5 DEF Under, Own
<1> QED BY <1>4, <1>5

\* Calling a handler.
LEMMA FrameCalled ==
  ASSUME NEW fr, NEW c, NEW g
  PROVE  [Under(fr, c) EXCEPT ![1].f = g] = Under([fr EXCEPT !.f = g], c)
<1>1. [<<fr>> EXCEPT ![1].f = g] = <<[fr EXCEPT !.f = g]>> OBVIOUS
<1>2. [<<fr, Call>> EXCEPT ![1].f = g] = <<[fr EXCEPT !.f = g], Call>> OBVIOUS
<1>3. CASE c \in Calling BY <1>2, <1>3 DEF Under
<1>4. CASE c \notin Calling BY <1>1, <1>4 DEF Under
<1> QED BY <1>3, <1>4

\* An instruction of the game, where its own entries are on top.
Goes(from, to, flag, halted) ==
  /\ pc = from /\ pc' = to /\ frames' = Own(to)
  /\ eflags_IF' \in BOOLEAN /\ (eflags_IF' <=> flag)
  /\ is_nemu_hlt' \in BOOLEAN /\ (is_nemu_hlt' <=> halted)
  /\ UNCHANGED <<i8259_intr_no, intr>>

LEMMA Instruction ==
  ASSUME IInv, NEW from, NEW to, NEW flag \in BOOLEAN, NEW halted \in BOOLEAN,
         Goes(from, to, flag, halted),
         handles' \in [HardIrqs -> Seq(Routines)], irq' \in {TIMER_IRQ, KEYBOARD_IRQ},
         to # "key_cli" => (flag <=> to \notin OffPcs),
         halted => to = "loop_cli"
  PROVE  Types' /\ Masked' /\ Awake'
<1>1. Types' BY DEF IInv, Types, Goes
<1>2. Masked' BY DEF Masked, Goes
<1>3. Awake' BY DEF Awake, Goes, Own, Calling
<1> QED BY <1>1, <1>2, <1>3

\* What is known of IF where the game runs.
LEMMA Running ==
  ASSUME IInv, frames = Own(pc), pc # "key_cli"
  PROVE  eflags_IF <=> pc \notin OffPcs
<1>1. ASSUME NEW fr \in HandlerFrame PROVE Under(fr, pc) # Own(pc)
  <2>1. CASE pc \in Calling BY <2>1 DEF Under, Own
  <2>2. CASE pc \notin Calling BY <2>2 DEF Under, Own
  <2> QED BY <2>1, <2>2
<1> QED BY <1>1 DEF IInv, Masked

-----------------------------------------------------------------------------
(* The keys.                                                               *)

LEMMA ChargeKept ==
  ASSUME Charge, UNCHANGED <<letter_pressed, presses, shots>>
  PROVE  Charge'
BY DEF Charge

\* A key is noted at most once for each press, and used at most once.
LEMMA ChargeNoted ==
  ASSUME Charge, KeyboardEvent
  PROVE  Charge'
<1>1. /\ letter_pressed' = letter_pressed \cup ({scan_code_buf} \cap Letters)
      /\ presses' = presses + (IF scan_code_buf \in Letters THEN 1 ELSE 0)
      /\ shots' = shots
  BY DEF KeyboardEvent
<1>2. CASE scan_code_buf \in Letters
  <2>1. letter_pressed' = letter_pressed \cup {scan_code_buf} /\ presses' = presses + 1
    BY <1>1, <1>2
  <2>2. /\ IsFiniteSet(letter_pressed')
        /\ Cardinality(letter_pressed') \in {Cardinality(letter_pressed), Cardinality(letter_pressed) + 1}
    BY <2>1, FS_AddElement DEF Charge
  <2>3. Cardinality(letter_pressed) \in Nat BY FS_CardinalityType DEF Charge
  <2> QED BY <1>1, <2>1, <2>2, <2>3 DEF Charge
<1>3. CASE scan_code_buf \notin Letters
  <2>1. letter_pressed' = letter_pressed /\ presses' = presses BY <1>1, <1>3 DEF Charge
  <2> QED BY <1>1, <2>1, ChargeKept
<1> QED BY <1>2, <1>3

LEMMA ChargeReleased ==
  ASSUME Charge, NEW t, letter_pressed' = Released(t), presses' = presses,
         shots' = shots \/ (shots' = shots + 1 /\ t \in letter_pressed)
  PROVE  Charge'
<1>1. letter_pressed' = letter_pressed \ {t} BY DEF Released
<1>2. /\ IsFiniteSet(letter_pressed')
      /\ Cardinality(letter_pressed') = IF t \in letter_pressed THEN Cardinality(letter_pressed) - 1
                                       ELSE Cardinality(letter_pressed)
  BY <1>1, FS_RemoveElement DEF Charge
<1>3. Cardinality(letter_pressed) \in Nat BY FS_CardinalityType DEF Charge
<1> QED BY <1>2, <1>3 DEF Charge

-----------------------------------------------------------------------------
(* The game.                                                               *)

\* A step of the loop outside the system call.
LEMMA LoopInstruction ==
  ASSUME IInv, NEW from, NEW to, Main(from, to),
         from \notin Calling, to \notin Calling, UNCHANGED <<slot, handles, irq>>
  PROVE  /\ UNCHANGED control /\ (to = "key_cli" \/ (from # "key_cli" /\ (from \in OffPcs <=> to \in OffPcs)))
              => Types' /\ Masked' /\ Awake'
         /\ Sti /\ to \notin OffPcs => Types' /\ Masked' /\ Awake'
         /\ Cli /\ to \in OffPcs => Types' /\ Masked' /\ Awake'
<1>1. /\ frames = <<>> /\ pc = from /\ pc' = to /\ is_nemu_hlt = FALSE
      /\ Own(from) = <<>> /\ Own(to) = <<>>
      /\ handles' \in [HardIrqs -> Seq(Routines)] /\ irq' \in {TIMER_IRQ, KEYBOARD_IRQ}
      /\ UNCHANGED <<i8259_intr_no, intr>> /\ eflags_IF \in BOOLEAN
  BY DEF Main, Instr, Own, IInv, Types, slot
<1>2. ASSUME UNCHANGED control,
             to = "key_cli" \/ (from # "key_cli" /\ (from \in OffPcs <=> to \in OffPcs))
      PROVE  Types' /\ Masked' /\ Awake'
  <2>1. Goes(from, to, eflags_IF, FALSE) BY <1>1, <1>2 DEF Goes, control
  <2>2. to # "key_cli" => (eflags_IF <=> to \notin OffPcs)
    BY <1>1, <1>2, Running
  <2> QED BY <1>1, <2>1, <2>2, Instruction
<1>3. ASSUME Sti, to \notin OffPcs PROVE Types' /\ Masked' /\ Awake'
  <2>1. Goes(from, to, TRUE, FALSE) BY <1>1, <1>3 DEF Goes, Sti
  <2> QED BY <1>1, <1>3, <2>1, Instruction
<1>4. ASSUME Cli, to \in OffPcs PROVE Types' /\ Masked' /\ Awake'
  <2>1. Goes(from, to, FALSE, FALSE) BY <1>1, <1>4 DEF Goes, Cli
  <2> QED BY <1>1, <1>4, <2>1, Instruction
<1> QED BY <1>2, <1>3, <1>4

LEMMA MainLoopStep ==
  ASSUME IInv, MainLoop
  PROVE  IInv'
<1> USE DEF IInv, Calling, OffPcs
<1>1. CASE WaitIntr
  <2>1. /\ Goes("wait_intr", "loop_cli", eflags_IF, TRUE)
        /\ handles' \in [HardIrqs -> Seq(Routines)] /\ irq' \in {TIMER_IRQ, KEYBOARD_IRQ}
        /\ eflags_IF \in BOOLEAN /\ frames = Own(pc)
    BY <1>1 DEF WaitIntr, Main, Instr, Hlt, slot, Goes, Own, Types
  <2>2. eflags_IF = TRUE BY <2>1, Running DEF Goes
  <2>3. Types' /\ Masked' /\ Awake' BY <2>1, <2>2, Instruction
  <2>4. Charge' BY <1>1, ChargeKept DEF WaitIntr, game, hist
  <2> QED BY <2>3, <2>4
<1>2. CASE LoopCli
  <2>1. Main("loop_cli", "test") /\ Cli /\ UNCHANGED <<slot, handles, irq, game, hist>>
    BY <1>2 DEF LoopCli
  <2> QED BY <2>1, LoopInstruction, ChargeKept DEF game, hist
<1>3. CASE Test
  <2>1. \E to \in {"sti_continue", "loop_sti"} :
           Main("test", to) /\ UNCHANGED <<slot, control, handles, irq, letter_pressed, hist>>
    BY <1>3 DEF Test, Main
  <2> QED BY <2>1, LoopInstruction, ChargeKept DEF hist
<1>4. CASE StiContinue
  <2>1. Main("sti_continue", "wait_intr") /\ Sti /\ UNCHANGED <<slot, handles, irq, game, hist>>
    BY <1>4 DEF StiContinue
  <2> QED BY <2>1, LoopInstruction, ChargeKept DEF game, hist
<1>5. CASE LoopSti
  <2>1. Main("loop_sti", "key_cli") /\ Sti /\ UNCHANGED <<slot, handles, irq, game, hist>>
    BY <1>5 DEF LoopSti
  <2> QED BY <2>1, LoopInstruction, ChargeKept DEF game, hist
<1>6. CASE KeyCli
  <2>1. Main("key_cli", "scan") /\ Cli /\ UNCHANGED <<slot, handles, irq, game, hist>>
    BY <1>6 DEF KeyCli
  <2> QED BY <2>1, LoopInstruction, ChargeKept DEF game, hist
<1>7. CASE ScanHit
  <2>1. Main("scan", "key_cli") /\ UNCHANGED <<slot, control, handles, irq, presses>>
    BY <1>7 DEF ScanHit
  <2>2. \E t \in letter_pressed : letter_pressed' = Released(t) /\ shots' = shots + 1
    BY <1>7 DEF ScanHit, Lowest, Targets
  <2>3. Charge' BY <2>1, <2>2, ChargeReleased
  <2> QED BY <2>1, <2>3, LoopInstruction
<1>8. CASE ScanEnd
  <2>1. Main("scan", "play") /\ Sti /\ UNCHANGED <<slot, handles, irq, game, hist>>
    BY <1>8 DEF ScanEnd, KeySti
  <2> QED BY <2>1, LoopInstruction, ChargeKept DEF game, hist
<1>9. CASE PlayEnd
  <2>1. Main("play", "wait_intr") /\ UNCHANGED <<slot, control, handles, irq, game, hist>>
    BY <1>9 DEF PlayEnd
  <2> QED BY <2>1, LoopInstruction, ChargeKept DEF game, hist
<1>10. CASE \E t \in Letters : CreateNewLetter(t)
  <2>1. PICK t \in Letters : CreateNewLetter(t) BY <1>10
  <2>2. Main("play", "update") /\ UNCHANGED <<slot, control, handles, irq, presses, shots>>
    BY <2>1 DEF CreateNewLetter
  <2>3. letter_pressed' = Released(t) BY <2>1 DEF CreateNewLetter
  <2>4. Charge' BY <2>2, <2>3, ChargeReleased
  <2> QED BY <2>2, <2>4, LoopInstruction
<1>11. CASE NoLetter
  <2>1. Main("play", "update") /\ UNCHANGED <<slot, control, handles, irq, letter_pressed, hist>>
    BY <1>11 DEF NoLetter
  <2> QED BY <2>1, LoopInstruction, ChargeKept DEF hist
<1>12. CASE UpdateLetterPos
  <2>1. Main("update", "update") /\ UNCHANGED <<slot, control, handles, irq, letter_pressed, hist>>
    BY <1>12 DEF UpdateLetterPos
  <2> QED BY <2>1, LoopInstruction, ChargeKept DEF hist
<1>13. CASE TickPlayed
  <2>1. Main("update", "play") /\ UNCHANGED <<slot, control, handles, irq, letter_pressed, hist>>
    BY <1>13 DEF TickPlayed
  <2> QED BY <2>1, LoopInstruction, ChargeKept DEF hist
<1> QED BY <1>1, <1>2, <1>3, <1>4, <1>5, <1>6, <1>7, <1>8, <1>9, <1>10, <1>11, <1>12, <1>13
        DEF MainLoop

-----------------------------------------------------------------------------
(* The system call.                                                        *)

\* Inside the call its entry is the only one.
LEMMA InsideCall ==
  ASSUME IInv, NEW from \in Calling, NEW to, InCall(from, to)
  PROVE  frames = Own(from) /\ frames = <<Call>> /\ pc = from /\ pc' = to /\ is_nemu_hlt = FALSE
<1>1. Len(frames) = 1 /\ pc = from /\ pc' = to /\ is_nemu_hlt = FALSE
  BY DEF InCall, Instr, IInv, Types
<1>2. \A fr \in HandlerFrame : Len(Under(fr, pc)) = 2 BY <1>1 DEF Under
<1>3. frames = Own(pc) BY <1>1, <1>2 DEF IInv, Masked
<1> QED BY <1>1, <1>3 DEF Own

LEMMA RegisterStep ==
  ASSUME IInv, Register
  PROVE  IInv'
<1> USE DEF IInv, Calling, OffPcs
<1>1. /\ eflags_IF \in BOOLEAN /\ handles \in [HardIrqs -> Seq(Routines)]
      /\ irq \in {TIMER_IRQ, KEYBOARD_IRQ}
  BY DEF Types
<1>2. CASE Syscall
  <2>1. /\ Main("int80", "cli") /\ Int80 /\ UNCHANGED <<slot, handles, irq, game, hist>>
    BY <1>2 DEF Syscall
  <2>2. frames = <<>> /\ pc = "int80" /\ frames = Own(pc) /\ is_nemu_hlt = FALSE
    BY <2>1 DEF Main, Instr, Own, Types
  <2>3. eflags_IF = TRUE BY <1>1, <2>2, Running
  <2>4. frames' = <<Call>>
    <3>1. frames' = <<Call>> \o <<>> BY <2>1, <2>2, <2>3 DEF Int80, Call
    <3> QED BY <3>1
  <2>5. Goes("int80", "cli", FALSE, FALSE) BY <2>1, <2>2, <2>4 DEF Goes, Main, Int80, Own, slot
  <2>6. Types' /\ Masked' /\ Awake' BY <1>1, <2>1, <2>5, Instruction
  <2> QED BY <2>1, <2>6, ChargeKept DEF game, hist
<1>3. CASE SysCli
  <2>1. InCall("cli", "link") /\ Cli /\ UNCHANGED <<slot, handles, irq, game, hist>>
    BY <1>3 DEF SysCli
  <2>2. Goes("cli", "link", FALSE, FALSE) BY <2>1, InsideCall DEF Goes, Cli, Own, slot
  <2>3. Types' /\ Masked' /\ Awake' BY <1>1, <2>1, <2>2, Instruction
  <2> QED BY <2>1, <2>3, ChargeKept DEF game, hist
<1>4. CASE SysLink
  <2>1. /\ InCall("link", "sti") /\ AddIrqHandle(irq, Routine)
        /\ UNCHANGED <<slot, control, irq, game, hist>>
    BY <1>4 DEF SysLink
  <2>2. /\ frames = Own("link") /\ frames = <<Call>> /\ pc = "link" /\ pc' = "sti"
        /\ is_nemu_hlt = FALSE
    BY <2>1, InsideCall
  <2>3. eflags_IF = FALSE BY <1>1, <2>2, Running
  <2>4. Goes("link", "sti", FALSE, FALSE) BY <2>1, <2>2, <2>3 DEF Goes, Own, slot, control
  <2>5. handles' \in [HardIrqs -> Seq(Routines)]
    <3>1. Routine \in Routines BY TypingAssumption DEF Routine
    <3>2. <<Routine>> \o handles[irq] \in Seq(Routines) BY <1>1, <3>1, ConcatProperties
    <3> QED BY <1>1, <2>1, <3>2 DEF AddIrqHandle
  <2>6. Types' /\ Masked' /\ Awake' BY <1>1, <2>1, <2>4, <2>5, Instruction
  <2> QED BY <2>1, <2>6, ChargeKept DEF game, hist
<1>5. CASE SysSti
  <2>1. InCall("sti", "iret") /\ Sti /\ UNCHANGED <<slot, handles, irq, game, hist>>
    BY <1>5 DEF SysSti
  <2>2. Goes("sti", "iret", TRUE, FALSE) BY <2>1, InsideCall DEF Goes, Sti, Own, slot
  <2>3. Types' /\ Masked' /\ Awake' BY <1>1, <2>1, <2>2, Instruction
  <2> QED BY <2>1, <2>3, ChargeKept DEF game, hist
<1>6. CASE SysReturn
  <2>1. /\ InCall("iret", pc') /\ Iret /\ irq' = KEYBOARD_IRQ /\ pc' \in {"int80", "wait_intr"}
        /\ UNCHANGED <<game, hist>>
    BY <1>6 DEF SysReturn, InCall, Iret
  <2>2. frames = <<Call>> /\ pc = "iret" /\ is_nemu_hlt = FALSE BY <2>1, InsideCall
  <2>3. eflags_IF' = TRUE /\ frames' = <<>> /\ UNCHANGED <<slot, handles, is_nemu_hlt>>
    BY <2>1, <2>2 DEF Iret, IFRestored, Call
  <2>4. Goes("iret", pc', TRUE, FALSE) BY <2>1, <2>2, <2>3 DEF Goes, Own, slot
  <2>5. Types' /\ Masked' /\ Awake' BY <1>1, <2>1, <2>3, <2>4, Instruction
  <2> QED BY <2>1, <2>5, ChargeKept DEF game, hist
<1> QED BY <1>2, <1>3, <1>4, <1>5, <1>6 DEF Register

-----------------------------------------------------------------------------
(* The handlers and the devices.                                           *)

\* A handler runs with IF off, above the entries of the game.
LEMMA InsideHandler ==
  ASSUME IInv, frames # <<>>, Head(frames).irq # SYSCALL \/ Head(frames).f # <<>>
  PROVE  /\ ~eflags_IF /\ pc \notin OffPcs
         /\ \E fr \in HandlerFrame : frames = Under(fr, pc)
<1>1. frames # Own(pc) BY DEF Own, Call
<1> QED BY <1>1 DEF IInv, Masked

LEMMA CalledKeeps ==
  ASSUME IInv, Instr, frames # <<>>, Head(frames).f # <<>>, Called,
         UNCHANGED <<slot, handles, irq, pc>>
  PROVE  Types' /\ Masked' /\ Awake'
<1>1. PICK fr \in HandlerFrame : frames = Under(fr, pc) BY InsideHandler
<1>2. ~eflags_IF /\ pc \notin OffPcs BY InsideHandler
<1>3. fr.f # <<>> BY <1>1, Frames
<1> DEFINE g == [fr EXCEPT !.f = Tail(@)]
<1>4. g \in HandlerFrame BY <1>3, HandlerFacts
<1>5. frames' = Under(g, pc')
  <2>1. frames' = [frames EXCEPT ![1].f = Tail(@)] BY DEF Called
  <2>2. frames[1].f = fr.f BY <1>1, Frames
  <2>3. frames' = [Under(fr, pc) EXCEPT ![1].f = Tail(fr.f)] BY <1>1, <2>1, <2>2
  <2>4. [Under(fr, pc) EXCEPT ![1].f = Tail(fr.f)] = Under(g, pc) BY FrameCalled
  <2> QED BY <2>3, <2>4
<1> HIDE DEF g
<1>6. UNCHANGED <<eflags_IF, is_nemu_hlt>> BY DEF Called
<1>7. Types' BY <1>6 DEF IInv, Types, slot
<1>8. Masked' BY <1>2, <1>4, <1>5, <1>6 DEF Masked
<1>9. Awake' BY <1>6 DEF Awake, Instr, IInv, Types
<1> QED BY <1>7, <1>8, <1>9

LEMMA HandlerStep ==
  ASSUME IInv, Handler
  PROVE  IInv'
<1> USE DEF IInv
<1>1. CASE TimerEvent
  <2>1. Types' /\ Masked' /\ Awake' BY <1>1, CalledKeeps DEF TimerEvent, InHandler
  <2> QED BY <1>1, <2>1, ChargeKept DEF TimerEvent, hist
<1>2. CASE KeyboardEvent
  <2>1. Types' /\ Masked' /\ Awake' BY <1>2, CalledKeeps DEF KeyboardEvent, InHandler
  <2> QED BY <1>2, <2>1, ChargeNoted
<1>3. CASE IdeWriteback
  <2>1. Types' /\ Masked' /\ Awake' BY <1>3, CalledKeeps DEF IdeWriteback, InHandler
  <2> QED BY <1>3, <2>1, ChargeKept DEF IdeWriteback, game, hist
<1>4. CASE HandlerEnd
  <2>1. /\ Instr /\ frames # <<>> /\ Head(frames).irq # SYSCALL
        /\ frames' = Tail(frames) /\ eflags_IF' = Head(frames).saved
        /\ UNCHANGED <<is_nemu_hlt, slot, handles, pc, irq, game, hist>>
    BY <1>4 DEF HandlerEnd, Iret, IFRestored
  <2>2. PICK fr \in HandlerFrame : frames = Under(fr, pc) BY <2>1, InsideHandler
  <2>3. pc \notin OffPcs BY <2>1, InsideHandler
  <2>4. frames' = Own(pc') /\ eflags_IF' = TRUE
    <3>1. Head(frames) = fr /\ Tail(frames) = Own(pc) BY <2>2, Frames
    <3>2. fr.saved = TRUE BY HandlerFacts
    <3>3. frames' = Own(pc') BY <2>1, <3>1
    <3> QED BY <2>1, <3>1, <3>2, <3>3
  <2>5. Types' BY <2>1, <2>4 DEF Types, slot
  <2>6. Masked' BY <2>1, <2>3, <2>4 DEF Masked
  <2>7. Awake' BY <2>1 DEF Awake, Instr, Types
  <2> QED BY <2>1, <2>5, <2>6, <2>7, ChargeKept DEF game, hist
<1> QED BY <1>1, <1>2, <1>3, <1>4 DEF Handler

LEMMA DevicesStep ==
  ASSUME IInv, NEW timer \in BOOLEAN, NEW codes \in Polls, Devices(timer, codes)
  PROVE  IInv'
<1> USE DEF IInv
<1> DEFINE key == codes # <<>>
           s1 == IF timer THEN Raised(i8259_intr_no, TIMER_IRQ) ELSE i8259_intr_no
           s2 == IF key THEN Raised(s1, KEYBOARD_IRQ) ELSE s1
           pending == intr \/ timer \/ key
<1>1. /\ UNCHANGED <<handles, pc, irq, letter_pressed, presses, shots>>
      /\ IF pending /\ eflags_IF
         THEN /\ i8259_intr_no' = NoIntr /\ intr' = FALSE /\ is_nemu_hlt' = FALSE
              /\ frames' = <<[irq |-> s2, saved |-> eflags_IF, f |-> handles[s2]]>> \o frames
              /\ eflags_IF' = FALSE
         ELSE i8259_intr_no' = s2 /\ intr' = pending /\ UNCHANGED control
  BY DEF Devices, Turn, Halted, IFInHandler, game
<1>2. s1 \in HardIrqs \cup {NoIntr} /\ (intr \/ timer => s1 \in HardIrqs)
  BY DEF Types, Raised
<1>3. s2 \in HardIrqs \cup {NoIntr} /\ (pending => s2 \in HardIrqs)
  BY <1>2 DEF Raised
<1> HIDE DEF s1, s2
<1>4. Charge' BY <1>1, ChargeKept
<1>5. CASE pending /\ eflags_IF
  <2> DEFINE fr == [irq |-> s2, saved |-> TRUE, f |-> handles[s2]]
  <2>1. fr \in HandlerFrame BY <1>3, <1>5 DEF Types, HandlerFrame
  <2>2. frames = Own(pc) /\ pc \notin OffPcs BY <1>5 DEF Masked, OffPcs
  <2>3. eflags_IF = TRUE BY <1>5 DEF Types
  <2>4. frames' = <<fr>> \o Own(pc) BY <1>1, <1>5, <2>2, <2>3
  <2> HIDE DEF fr
  <2>5. frames' = Under(fr, pc') BY <1>1, <2>1, <2>4, Frames
  <2>6. Types' BY <1>1, <1>5 DEF Types
  <2>7. Masked' BY <1>1, <1>5, <2>1, <2>2, <2>5 DEF Masked
  <2>8. Awake' BY <1>1, <1>5 DEF Awake
  <2> QED BY <1>4, <2>6, <2>7, <2>8
<1>6. CASE ~(pending /\ eflags_IF)
  <2>1. i8259_intr_no' = s2 /\ intr' = pending /\ UNCHANGED <<eflags_IF, is_nemu_hlt, frames>>
    BY <1>1, <1>6 DEF control
  <2>2. Types' BY <1>1, <1>3, <2>1 DEF Types
  <2>3. Masked' BY <1>1, <2>1 DEF Masked
  <2>4. Awake' BY <1>1, <2>1 DEF Awake
  <2> QED BY <1>4, <2>2, <2>3, <2>4
<1> QED BY <1>5, <1>6

-----------------------------------------------------------------------------

LEMMA InitIInv == Init => IInv
<1> SUFFICES ASSUME Init PROVE IInv OBVIOUS
<1>1. /\ i8259_intr_no = NoIntr /\ intr = FALSE /\ eflags_IF = TRUE /\ is_nemu_hlt = FALSE
      /\ frames = <<>> /\ pc = "int80" /\ irq = TIMER_IRQ
      /\ letter_pressed = {} /\ presses = 0 /\ shots = 0
  BY DEF Init, MachineInit
<1>2. handles \in [HardIrqs -> Seq(Routines)]
  <2>1. <<"ide_writeback">> \in Seq(Routines) /\ <<"ide_intr">> \in Seq(Routines)
        /\ <<>> \in Seq(Routines)
    BY TypingAssumption
  <2> QED BY <2>1 DEF Init, MachineInit
<1>3. Types BY <1>1, <1>2 DEF Types
<1>4. Masked BY <1>1 DEF Masked, Own, Calling, OffPcs
<1>5. Awake BY <1>1 DEF Awake
<1>6. Charge BY <1>1, FS_EmptySet DEF Charge
<1> QED BY <1>3, <1>4, <1>5, <1>6 DEF IInv

LEMMA Inductive == IInv /\ [Next]_vars => IInv'
<1> SUFFICES ASSUME IInv, [Next]_vars PROVE IInv' OBVIOUS
<1>1. CASE Register BY <1>1, RegisterStep
<1>2. CASE MainLoop BY <1>2, MainLoopStep
<1>3. CASE Handler BY <1>3, HandlerStep
<1>4. CASE \E timer \in BOOLEAN, codes \in Polls : Devices(timer, codes)
  BY <1>4, DevicesStep
<1>5. CASE UNCHANGED vars
  BY <1>5 DEF vars, machine, slot, control, game, hist, IInv, Types, Masked, Awake, Charge
<1> QED BY <1>1, <1>2, <1>3, <1>4, <1>5 DEF Next

\* What the entries, IF, the halted processor and the keys have to do with
\* each other and with the place of the game holds in every state.
THEOREM Invariance == Spec => []IInv
BY InitIInv, Inductive, PTL DEF Spec

\* No handler runs between cli() and sti(), and none interrupts another
\* (do_syscall.c:51, game.c:45, effect.c:81), for any rate of interrupts.
THEOREM Excluded == Spec => []Exclusion
<1>1. IInv => Exclusion
  <2> SUFFICES ASSUME IInv PROVE Exclusion OBVIOUS
  <2>1. CASE frames = Own(pc) /\ (pc # "key_cli" => (eflags_IF <=> pc \notin OffPcs))
    <3>1. /\ pc \in Calling => Len(frames) = 1 /\ DOMAIN frames = {1} /\ frames[1].irq = SYSCALL
          /\ pc \notin Calling => Len(frames) = 0 /\ DOMAIN frames = {}
      <4>1. CASE pc \in Calling BY <2>1, <4>1 DEF Own, Call
      <4>2. CASE pc \notin Calling BY <2>1, <4>2 DEF Own
      <4> QED BY <4>1, <4>2
    <3>2. pc \in {"link", "sti", "test", "sti_continue", "loop_sti", "scan"} => ~eflags_IF
      BY <2>1 DEF OffPcs
    <3>3. pc \in {"link", "sti", "test", "sti_continue", "loop_sti", "scan"} =>
            Len(frames) = IF pc \in {"link", "sti"} THEN 1 ELSE 0
      BY <3>1 DEF Calling
    <3>4. \A i \in DOMAIN frames : frames[i].irq = SYSCALL
      BY <3>1
    <3>5. Len(frames) <= 2
      <4>1. Len(frames) \in {0, 1} BY <3>1
      <4> QED BY <4>1
    <3> QED BY <3>2, <3>3, <3>4, <3>5 DEF Exclusion
  <2>2. CASE /\ ~eflags_IF /\ pc \notin OffPcs
             /\ \E fr \in HandlerFrame : frames = Under(fr, pc)
    <3>1. PICK fr \in HandlerFrame : frames = Under(fr, pc) BY <2>2
    <3>2. /\ Len(frames) <= 2 /\ DOMAIN frames \subseteq {1, 2}
          /\ 2 \in DOMAIN frames => frames[2].irq = SYSCALL
      <4>1. CASE pc \in Calling BY <3>1, <4>1 DEF Under, Call
      <4>2. CASE pc \notin Calling BY <3>1, <4>2 DEF Under
      <4> QED BY <4>1, <4>2
    <3> QED BY <2>2, <3>2 DEF Exclusion, OffPcs
  <2> QED BY <2>1, <2>2 DEF IInv, Masked
<1> QED BY <1>1, Invariance, PTL

\* The game never sleeps in hlt with interrupts off (game.c:44, effect.c:99).
THEOREM Wakes == Spec => []NoDeadHalt
<1>1. IInv => NoDeadHalt
  <2> SUFFICES ASSUME IInv, is_nemu_hlt PROVE eflags_IF BY DEF NoDeadHalt
  <2>1. pc = "loop_cli" /\ frames = Own(pc) BY DEF IInv, Awake, Own, Calling
  <2> QED BY <2>1, Running DEF OffPcs
<1> QED BY <1>1, Invariance, PTL

\* Each time a key is pressed it shoots at most one letter (effect.c:92),
\* whatever the letters, their speeds and the screen.
THEOREM OneShot == Spec => []OneShotPerPress
<1>1. IInv => OneShotPerPress
  <2> SUFFICES ASSUME IInv PROVE OneShotPerPress OBVIOUS
  <2>1. Cardinality(letter_pressed) \in Nat BY FS_CardinalityType DEF IInv, Charge
  <2> QED BY <2>1 DEF IInv, Charge, OneShotPerPress
<1> QED BY <1>1, Invariance, PTL

-----------------------------------------------------------------------------
(* Lists in a pool.                                                        *)

\* A set of numbers has a least one.
LEMMA Least ==
  ASSUME NEW T, T \subseteq Nat, T # {}
  PROVE  \E x \in T : \A y \in T : x <= y
<1> DEFINE R == OpToRel(<, Nat)
<1>1. IsWellFoundedOn(R, Nat) BY NatLessThanWellFounded
<1> HIDE DEF R
<1>2. PICK x \in T : \A y \in T : ~(<<y, x>> \in R) BY <1>1, WFMin
<1>3. \A a, b \in Nat : a < b => <<a, b>> \in R BY DEF R, OpToRel
<1>4. ASSUME NEW y \in T PROVE x <= y
  <2>1. x \in Nat /\ y \in Nat OBVIOUS
  <2>2. ~(y < x) BY <1>2, <1>3, <2>1
  <2> QED BY <2>1, <2>2
<1> QED BY <1>4

\* The list of the n elements S[1], ..., S[n] that the links lead through from c.
IsChain(l, c, S, n) ==
  /\ n \in 0..(SIZE + 1) /\ S \in [1..n -> Cells]
  /\ \A i, j \in 1..n : S[i] = S[j] => i = j
  /\ c = IF n = 0 THEN NULL ELSE S[1]
  /\ \A i \in 1..n : l.next[S[i]] = IF i < n THEN S[i + 1] ELSE NULL

\* What is found by following the links.
LEMMA Walk ==
  ASSUME NEW l, NEW c, NEW S, NEW n, IsChain(l, c, S, n)
  PROVE  Step(l, c) = [k \in 0..(SIZE + 1) |-> IF k < n THEN S[k + 1] ELSE NULL]
<1> DEFINE G(s) == [k \in 0..(SIZE + 1) |-> IF k = 0 THEN c
                                            ELSE IF s[k - 1] = NULL THEN NULL ELSE l.next[s[k - 1]]]
           w == [k \in 0..(SIZE + 1) |-> IF k < n THEN S[k + 1] ELSE NULL]
           s == Step(l, c)
<1>1. s = CHOOSE t : t = G(t) BY DEF Step
<1>2. /\ SIZE \in Nat /\ n \in 0..(SIZE + 1) /\ \A i \in 1..n : S[i] \in Cells /\ S[i] # NULL
  BY LinkListAssumption DEF IsChain, Cells, NULL
<1>3. w = G(w)
  <2>1. ASSUME NEW k \in 0..(SIZE + 1) PROVE w[k] = G(w)[k]
    <3>1. CASE k = 0 BY <1>2, <3>1 DEF IsChain
    <3>2. CASE k # 0
      <4>1. k - 1 \in 0..(SIZE + 1) /\ k = (k - 1) + 1 /\ k \in Nat \ {0} BY <1>2, <3>2
      <4>2. CASE k - 1 < n
        <5>1. k \in 1..n /\ w[k - 1] = S[k] BY <1>2, <4>1, <4>2
        <5>2. l.next[S[k]] = IF k < n THEN S[k + 1] ELSE NULL BY <5>1 DEF IsChain
        <5> QED BY <1>2, <3>2, <5>1, <5>2
      <4>3. CASE ~(k - 1 < n)
        <5>1. w[k - 1] = NULL /\ ~(k < n) BY <1>2, <4>1, <4>3
        <5> QED BY <3>2, <5>1
      <4> QED BY <4>2, <4>3
    <3> QED BY <3>1, <3>2
  <2> QED BY <2>1
<1> HIDE DEF s
<1>4. s = G(s) BY <1>1, <1>3
<1>5. \A k \in 0..(SIZE + 1) : s[k] = w[k]
  <2> DEFINE T == {k \in 0..(SIZE + 1) : s[k] # w[k]}
  <2>1. SUFFICES ASSUME T # {} PROVE FALSE OBVIOUS
  <2>2. T \subseteq Nat BY <1>2
  <2>3. PICK x \in T : \A y \in T : x <= y
    <3> HIDE DEF T
    <3> QED BY <2>1, <2>2, Least
  <2>4. x \in 0..(SIZE + 1) /\ s[x] # w[x] OBVIOUS
  <2>5. s[x] = G(s)[x] /\ w[x] = G(w)[x]
    <3> HIDE DEF w, G
    <3> QED BY <1>3, <1>4
  <2>6. CASE x = 0 BY <2>4, <2>5, <2>6
  <2>7. CASE x # 0
    <3>1. x - 1 \in 0..(SIZE + 1) /\ ~(x <= x - 1) BY <1>2, <2>4, <2>7
    <3>2. x - 1 \notin T BY <2>3, <3>1
    <3>3. s[x - 1] = w[x - 1] BY <3>1, <3>2
    <3> HIDE DEF w
    <3> QED BY <2>4, <2>5, <3>3
  <2> QED BY <2>6, <2>7
<1> HIDE DEF w
<1>6. s = [k \in 0..(SIZE + 1) |-> s[k]] /\ w = [k \in 0..(SIZE + 1) |-> w[k]]
  <2>1. w = [k \in 0..(SIZE + 1) |-> w[k]] BY DEF w
  <2>2. G(s) = [k \in 0..(SIZE + 1) |-> G(s)[k]] OBVIOUS
  <2> HIDE DEF G
  <2> QED BY <1>4, <2>1, <2>2
<1>7. s = w BY <1>5, <1>6
<1> QED BY <1>7 DEF s, w

\* What the operators on chains make of such a list.
LEMMA Found ==
  ASSUME NEW l, NEW c, NEW S, NEW n, IsChain(l, c, S, n)
  PROVE  /\ ChainCells(l, c) = {S[i] : i \in 1..n}
         /\ ChainLen(l, c) = n
         /\ \A i \in 1..n : Chain(l, c)[i] = S[i]
         /\ n <= SIZE + 1 /\ Step(l, c)[SIZE + 1] = NULL
<1> DEFINE s == Step(l, c)
<1>1. s = [k \in 0..(SIZE + 1) |-> IF k < n THEN S[k + 1] ELSE NULL] BY Walk
<1>2. /\ SIZE \in Nat /\ n \in 0..(SIZE + 1) /\ \A i \in 1..n : S[i] \in Cells /\ S[i] # NULL
  BY LinkListAssumption DEF IsChain, Cells, NULL
<1> HIDE DEF s
<1>3. \A k \in 0..(SIZE + 1) : s[k] = IF k < n THEN S[k + 1] ELSE NULL BY <1>1
<1>4. \A k \in 0..(SIZE + 1) : k < n => k + 1 \in 1..n BY <1>2
<1>5. \A k \in 0..(SIZE + 1) : s[k] # NULL <=> k < n BY <1>2, <1>3, <1>4
<1>6. ChainCells(l, c) = {S[i] : i \in 1..n}
  <2>1. ASSUME NEW i \in 1..n PROVE \E k \in 0..(SIZE + 1) : s[k] = S[i] /\ S[i] # NULL
    <3>1. i - 1 \in 0..(SIZE + 1) /\ i - 1 < n /\ (i - 1) + 1 = i BY <1>2
    <3> QED BY <1>2, <1>3, <3>1
  <2>2. ASSUME NEW k \in 0..(SIZE + 1), s[k] # NULL PROVE \E i \in 1..n : S[i] = s[k]
    <3>1. k + 1 \in 1..n /\ s[k] = S[k + 1] BY <1>3, <1>4, <1>5, <2>2
    <3> QED BY <3>1
  <2>3. ChainCells(l, c) = {s[k] : k \in 0..(SIZE + 1)} \ {NULL} BY DEF ChainCells, s
  <2> QED BY <2>1, <2>2, <2>3
<1>7. ChainLen(l, c) = n
  <2> DEFINE P(x) == \A k \in 0..(SIZE + 1) : s[k] # NULL <=> k < x
  <2>1. n \in 0..(SIZE + 2) /\ P(n) BY <1>2, <1>5
  <2>2. ASSUME NEW x \in 0..(SIZE + 2), P(x) PROVE x = n
    <3>1. \A k \in 0..(SIZE + 1) : k < x <=> k < n BY <1>5, <2>2
    <3>2. CASE x < n BY <1>2, <3>1, <3>2
    <3>3. CASE n < x BY <1>2, <3>1, <3>3
    <3> QED BY <1>2, <3>2, <3>3
  <2>3. ChainLen(l, c) = CHOOSE x \in 0..(SIZE + 2) : P(x) BY DEF ChainLen, s
  <2> HIDE DEF P
  <2>4. ChainLen(l, c) \in 0..(SIZE + 2) /\ P(ChainLen(l, c)) BY <2>1, <2>3
  <2> QED BY <2>2, <2>4
<1>8. ASSUME NEW i \in 1..n PROVE Chain(l, c)[i] = S[i]
  <2>1. Chain(l, c)[i] = s[i - 1] BY <1>7 DEF Chain, s
  <2>2. i - 1 \in 0..(SIZE + 1) /\ i - 1 < n /\ (i - 1) + 1 = i BY <1>2
  <2> QED BY <1>3, <2>1, <2>2
<1>9. s[SIZE + 1] = NULL
  <2>1. SIZE + 1 \in 0..(SIZE + 1) /\ ~(SIZE + 1 < n) BY <1>2
  <2> QED BY <1>3, <2>1
<1> QED BY <1>2, <1>6, <1>7, <1>8, <1>9 DEF s

\* The links back of such a list.
BackLinked(l, S, n) == \A i \in 1..n : l.prev[S[i]] = IF i > 1 THEN S[i - 1] ELSE NULL

\* S are the elements in use, from h on, and F the free ones.
Split(l, h, S, n, F, m) ==
  /\ l \in Links
  /\ IsChain(l, h, S, n) /\ BackLinked(l, S, n)
  /\ IsChain(l, l.free_head, F, m)
  /\ \A i \in 1..n, j \in 1..m : S[i] # F[j]

\* They are the whole pool, of which one element is always free.
Whole(S, n, F, m) ==
  /\ n + m = SIZE + 1 /\ m >= 1
  /\ \A c \in Cells : (\E i \in 1..n : c = S[i]) \/ (\E j \in 1..m : c = F[j])

LEMMA Sizes == SIZE \in Nat \ {0} /\ NULL \notin Cells /\ NULL = -1 /\ Cells = 0..SIZE
BY LinkListAssumption DEF NULL, Cells

\* The first call of new links the pool together.
LEMMA FirstBuilt ==
  /\ Split(EmptyPool, NULL, <<>>, 0, <<>>, 0)
  /\ Split(Built(EmptyPool), NULL, <<>>, 0, [i \in 1..(SIZE + 1) |-> i - 1], SIZE + 1)
  /\ Whole(<<>>, 0, [i \in 1..(SIZE + 1) |-> i - 1], SIZE + 1)
  /\ Built(Built(EmptyPool)) = Built(EmptyPool)
<1> USE Sizes
<1> DEFINE F == [i \in 1..(SIZE + 1) |-> i - 1]
           b == Built(EmptyPool)
<1>1. EmptyPool \in Links /\ EmptyPool.free_head = NULL BY DEF EmptyPool, Links
<1>2. <<>> \in [1..0 -> Cells] OBVIOUS
<1>3. Split(EmptyPool, NULL, <<>>, 0, <<>>, 0) BY <1>1, <1>2 DEF Split, IsChain, BackLinked
<1>4. b = [prev |-> [c \in Cells |-> NULL], next |-> [c \in Cells |-> IF c < SIZE THEN c + 1 ELSE NULL],
           free_head |-> 0]
  BY DEF Built, EmptyPool
<1>5. b \in Links /\ b.free_head = 0 BY <1>4 DEF Links
<1>6. F \in [1..(SIZE + 1) -> Cells] /\ \A i \in 1..(SIZE + 1) : F[i] = i - 1 OBVIOUS
<1>7. \A c \in Cells : b.next[c] = IF c < SIZE THEN c + 1 ELSE NULL BY <1>4
<1>8. ASSUME NEW c \in Cells PROVE \E i \in 1..(SIZE + 1) : c = F[i]
  <2>1. c + 1 \in 1..(SIZE + 1) /\ c = F[c + 1] OBVIOUS
  <2> QED BY <2>1
<1> HIDE DEF F, b
<1>9. IsChain(b, b.free_head, F, SIZE + 1)
  <2>1. ASSUME NEW i \in 1..(SIZE + 1)
        PROVE  b.next[F[i]] = IF i < SIZE + 1 THEN F[i + 1] ELSE NULL
    <3>1. F[i] = i - 1 /\ i - 1 \in Cells BY <1>6
    <3>2. i < SIZE + 1 => F[i + 1] = i BY <1>6
    <3> QED BY <1>7, <3>1, <3>2
  <2>2. 1 \in 1..(SIZE + 1) /\ F[1] = 0 BY <1>6
  <2>3. \A i, j \in 1..(SIZE + 1) : F[i] = F[j] => i = j BY <1>6
  <2>4. SIZE + 1 \in 0..(SIZE + 1) OBVIOUS
  <2> QED BY <1>5, <1>6, <2>1, <2>2, <2>3, <2>4 DEF IsChain
<1>10. IsChain(b, NULL, <<>>, 0) BY <1>2 DEF IsChain
<1>11. Split(b, NULL, <<>>, 0, F, SIZE + 1) BY <1>5, <1>9, <1>10 DEF Split, BackLinked
<1>12. Whole(<<>>, 0, F, SIZE + 1) BY <1>8 DEF Whole
<1>13. Built(b) = b BY <1>5 DEF Built
<1> QED BY <1>3, <1>11, <1>12, <1>13 DEF F, b

\* What new finds.
LEMMA Offered ==
  ASSUME NEW l, NEW h, NEW S, NEW n, NEW F, NEW m, Split(l, h, S, n, F, m), m >= 1
  PROVE  Built(l) = l /\ NewCell(l) = F[1] /\ F[1] \in Cells /\ (CanNew(l) <=> m >= 2)
<1> USE Sizes
<1>1. /\ m \in 0..(SIZE + 1) /\ F \in [1..m -> Cells] /\ l.free_head = F[1] /\ 1 \in 1..m
      /\ l.next[F[1]] = IF 1 < m THEN F[1 + 1] ELSE NULL
  BY DEF Split, IsChain
<1>2. F[1] \in Cells /\ F[1] # NULL BY <1>1
<1>3. Built(l) = l BY <1>1, <1>2 DEF Built
<1>4. m >= 2 => F[1 + 1] \in Cells BY <1>1
<1> QED BY <1>1, <1>2, <1>3, <1>4 DEF NewCell, CanNew

\* The list after a new element c has been put in front of it.
Fronted(l, h) == LET c == NewCell(l) IN IF h = NULL THEN AfterNew(l) ELSE Insert(AfterNew(l), NULL, h, c)

\* What linking a and b changes.
LinksTo(r, l, a, b) ==
  /\ r \in Links /\ r.free_head = l.free_head
  /\ \A d \in Cells : /\ r.next[d] = IF d = a THEN b ELSE l.next[d]
                      /\ r.prev[d] = IF d = b THEN a ELSE l.prev[d]

\* Linked in fields.
LEMMA LinkedFields ==
  ASSUME NEW l \in Links, NEW a \in Cells \cup {NULL}, NEW b \in Cells \cup {NULL}
  PROVE  LinksTo(Linked(l, a, b), l, a, b)
<1> DEFINE r == Linked(l, a, b)
           P == IF b = NULL THEN l.prev ELSE [l.prev EXCEPT ![b] = a]
           N == IF a = NULL THEN l.next ELSE [l.next EXCEPT ![a] = b]
<1>1. r = [l EXCEPT !.next = N, !.prev = P] BY Zenon DEF Linked
<1> HIDE DEF r
<1>2. l.prev \in [Cells -> Cells \cup {NULL}] /\ l.next \in [Cells -> Cells \cup {NULL}] BY DEF Links
<1>3. P \in [Cells -> Cells \cup {NULL}] /\ \A d \in Cells : P[d] = IF d = b THEN a ELSE l.prev[d]
  BY <1>2, Sizes
<1>4. N \in [Cells -> Cells \cup {NULL}] /\ \A d \in Cells : N[d] = IF d = a THEN b ELSE l.next[d]
  BY <1>2, Sizes
<1> HIDE DEF P, N
<1>5. r \in Links /\ r.next = N /\ r.prev = P /\ r.free_head = l.free_head BY <1>1, <1>3, <1>4 DEF Links
<1> QED BY <1>3, <1>4, <1>5 DEF r, LinksTo

LEMMA FrontLinks ==
  ASSUME NEW l \in Links, NEW c \in Cells, NEW h \in Cells \cup {NULL}, c # h,
         Built(l) = l, NewCell(l) = c, NEW r, r = Fronted(l, h)
  PROVE  /\ r \in Links
         /\ r.free_head = l.next[c]
         /\ \A d \in Cells : /\ r.next[d] = IF d = c THEN h ELSE l.next[d]
                             /\ r.prev[d] = IF d = c THEN NULL ELSE IF d = h THEN c ELSE l.prev[d]
<1> DEFINE taken == AfterNew(l)
           a1 == Linked(taken, NULL, c)
           P == [l.prev EXCEPT ![c] = NULL]
           N == [l.next EXCEPT ![c] = NULL]
<1>1. l.free_head = c BY DEF NewCell
<1>2. /\ l.prev \in [Cells -> Cells \cup {NULL}] /\ l.next \in [Cells -> Cells \cup {NULL}]
      /\ l.next[c] \in Cells \cup {NULL}
  BY DEF Links
<1>3. taken = [l EXCEPT !.free_head = l.next[c], !.prev = P, !.next = N] BY <1>1 DEF AfterNew
<1>4. /\ P \in [Cells -> Cells \cup {NULL}] /\ N \in [Cells -> Cells \cup {NULL}]
      /\ \A d \in Cells : /\ P[d] = IF d = c THEN NULL ELSE l.prev[d]
                          /\ N[d] = IF d = c THEN NULL ELSE l.next[d]
  BY <1>2
<1> HIDE DEF P, N, taken
<1>5. taken \in Links /\ taken.prev = P /\ taken.next = N /\ taken.free_head = l.next[c] BY <1>2, <1>3, <1>4 DEF Links
<1>8. NULL \in Cells \cup {NULL} /\ c \in Cells \cup {NULL} OBVIOUS
<1>6. CASE h = NULL
  <2>1. r = taken BY <1>6 DEF Fronted, taken
  <2> QED BY <1>4, <1>5, <1>6, <2>1, Sizes
<1>7. CASE h # NULL
  <2>1. r = Linked(a1, c, h) BY <1>7 DEF Fronted, Insert, taken
  <2> HIDE DEF a1
  <2>2. /\ a1 \in Links /\ a1.free_head = taken.free_head
        /\ \A d \in Cells : a1.next[d] = N[d] /\ a1.prev[d] = IF d = c THEN NULL ELSE P[d]
    <3>1. LinksTo(Linked(taken, NULL, c), taken, NULL, c) BY <1>5, <1>8, LinkedFields
    <3> QED BY <1>5, <3>1, Sizes DEF LinksTo, a1
  <2>3. /\ r \in Links /\ r.free_head = a1.free_head
        /\ \A d \in Cells : /\ r.next[d] = IF d = c THEN h ELSE a1.next[d]
                            /\ r.prev[d] = IF d = h THEN c ELSE a1.prev[d]
    <3>1. LinksTo(Linked(a1, c, h), a1, c, h) BY <1>8, <2>2, LinkedFields
    <3> QED BY <2>1, <3>1 DEF LinksTo
  <2> QED BY <1>4, <1>5, <2>2, <2>3
<1> QED BY <1>6, <1>7

AtFront(c, S, n) == [i \in 1..(n + 1) |-> IF i = 1 THEN c ELSE S[i - 1]]
Rest(F, m) == [i \in 1..(m - 1) |-> F[i + 1]]

\* A new element comes from the front of the free list to the front of the list.
LEMMA NewSplits ==
  ASSUME NEW l, NEW h, NEW S, NEW n, NEW F, NEW m,
         Split(l, h, S, n, F, m), Whole(S, n, F, m), m >= 2
  PROVE  /\ Split(Fronted(l, h), F[1], AtFront(F[1], S, n), n + 1, Rest(F, m), m - 1)
         /\ Whole(AtFront(F[1], S, n), n + 1, Rest(F, m), m - 1)
<1> USE Sizes
<1> DEFINE c == F[1]
           r == Fronted(l, h)
           A == AtFront(c, S, n)
           R == Rest(F, m)
<1>1. /\ l \in Links /\ n \in 0..(SIZE + 1) /\ m \in 0..(SIZE + 1) /\ n + m = SIZE + 1
      /\ S \in [1..n -> Cells] /\ F \in [1..m -> Cells]
      /\ \A i, j \in 1..n : S[i] = S[j] => i = j
      /\ \A i, j \in 1..m : F[i] = F[j] => i = j
      /\ h = IF n = 0 THEN NULL ELSE S[1]
      /\ \A i \in 1..n : l.next[S[i]] = IF i < n THEN S[i + 1] ELSE NULL
      /\ \A i \in 1..m : l.next[F[i]] = IF i < m THEN F[i + 1] ELSE NULL
      /\ \A i \in 1..n : l.prev[S[i]] = IF i > 1 THEN S[i - 1] ELSE NULL
      /\ \A i \in 1..n, j \in 1..m : S[i] # F[j]
      /\ \A x \in Cells : (\E i \in 1..n : x = S[i]) \/ (\E j \in 1..m : x = F[j])
  BY DEF Split, Whole, IsChain, BackLinked
<1>2. Built(l) = l /\ NewCell(l) = c /\ c \in Cells
  <2>1. m >= 1 BY <1>1
  <2> QED BY <2>1, Offered
<1>3. h \in Cells \cup {NULL} /\ c # h
  <2>1. 1 \in 1..m BY <1>1
  <2>2. CASE n = 0 BY <1>1, <1>2, <2>2
  <2>3. CASE n # 0
    <3>1. 1 \in 1..n /\ h = S[1] BY <1>1, <2>3
    <3> QED BY <1>1, <2>1, <3>1
  <2> QED BY <2>2, <2>3
<1> HIDE DEF c, r
<1>4. /\ r \in Links /\ r.free_head = l.next[c]
      /\ \A d \in Cells : /\ r.next[d] = IF d = c THEN h ELSE l.next[d]
                          /\ r.prev[d] = IF d = c THEN NULL ELSE IF d = h THEN c ELSE l.prev[d]
  BY <1>1, <1>2, <1>3, FrontLinks DEF r
<1>5. /\ A = [i \in 1..(n + 1) |-> IF i = 1 THEN c ELSE S[i - 1]]
      /\ R = [i \in 1..(m - 1) |-> F[i + 1]]
  BY DEF AtFront, Rest
<1> HIDE DEF A, R
<1>6. /\ \A i \in 1..(n + 1) : A[i] \in Cells /\ A[i] = IF i = 1 THEN c ELSE S[i - 1]
      /\ \A i \in 1..(m - 1) : R[i] \in Cells /\ R[i] = F[i + 1]
      /\ A \in [1..(n + 1) -> Cells] /\ R \in [1..(m - 1) -> Cells]
  <2>1. \A i \in 1..(n + 1) : i # 1 => i - 1 \in 1..n BY <1>1
  <2>2. \A i \in 1..(m - 1) : i + 1 \in 1..m BY <1>1
  <2> QED BY <1>1, <1>2, <1>5, <2>1, <2>2
<1>7. c = F[1] /\ 1 \in 1..m /\ 1 + 1 \in 1..m BY <1>1 DEF c
<1>8. \A i \in 1..n : S[i] # c BY <1>1, <1>7
<1>9. \A j \in 1..(m - 1) : R[j] # c
  <2> TAKE j \in 1..(m - 1)
  <2>1. j + 1 \in 1..m /\ j + 1 # 1 BY <1>1
  <2> QED BY <1>1, <1>6, <1>7, <2>1
<1>10. IsChain(r, c, A, n + 1)
  <2>1. ASSUME NEW i \in 1..(n + 1), NEW j \in 1..(n + 1), A[i] = A[j] PROVE i = j
    <3>1. CASE i = 1 /\ j = 1 BY <3>1
    <3>2. CASE i = 1 /\ j # 1
      <4>1. j - 1 \in 1..n BY <1>1, <3>2
      <4> QED BY <1>6, <1>8, <2>1, <3>2, <4>1
    <3>3. CASE i # 1 /\ j = 1
      <4>1. i - 1 \in 1..n BY <1>1, <3>3
      <4> QED BY <1>6, <1>8, <2>1, <3>3, <4>1
    <3>4. CASE i # 1 /\ j # 1
      <4>1. i - 1 \in 1..n /\ j - 1 \in 1..n BY <1>1, <3>4
      <4>2. i - 1 = j - 1 BY <1>1, <1>6, <2>1, <3>4, <4>1
      <4> QED BY <1>1, <4>2
    <3> QED BY <3>1, <3>2, <3>3, <3>4
  <2>2. ASSUME NEW i \in 1..(n + 1) PROVE r.next[A[i]] = IF i < n + 1 THEN A[i + 1] ELSE NULL
    <3>1. CASE i = 1
      <4>1. r.next[A[i]] = h BY <1>2, <1>4, <1>6, <3>1
      <4>2. CASE n = 0 BY <1>1, <3>1, <4>1, <4>2
      <4>3. CASE n # 0
        <5>1. 2 \in 1..(n + 1) /\ 1 < n + 1 BY <1>1, <4>3
        <5>2. A[2] = S[2 - 1] BY <1>6, <5>1
        <5> QED BY <1>1, <3>1, <4>1, <4>3, <5>1, <5>2
      <4> QED BY <4>2, <4>3
    <3>2. CASE i # 1
      <4>1. i - 1 \in 1..n /\ A[i] = S[i - 1] BY <1>1, <1>6, <3>2
      <4>2. r.next[A[i]] = l.next[S[i - 1]] BY <1>4, <1>6, <1>8, <4>1
      <4>3. CASE i < n + 1
        <5>1. i + 1 \in 1..(n + 1) /\ i + 1 # 1 /\ i - 1 < n /\ (i + 1) - 1 = (i - 1) + 1
          BY <1>1, <4>3
        <5> QED BY <1>1, <1>6, <4>1, <4>2, <4>3, <5>1
      <4>4. CASE ~(i < n + 1)
        <5>1. ~(i - 1 < n) BY <1>1, <4>4
        <5> QED BY <1>1, <4>1, <4>2, <4>4, <5>1
      <4> QED BY <4>3, <4>4
    <3> QED BY <3>1, <3>2
  <2>3. n + 1 \in 0..(SIZE + 1) /\ n + 1 # 0 /\ 1 \in 1..(n + 1) /\ A[1] = c BY <1>1, <1>6
  <2> QED BY <1>6, <2>1, <2>2, <2>3 DEF IsChain
<1>11. BackLinked(r, A, n + 1)
  <2> SUFFICES ASSUME NEW i \in 1..(n + 1)
               PROVE  r.prev[A[i]] = IF i > 1 THEN A[i - 1] ELSE NULL
    BY DEF BackLinked
  <2>1. CASE i = 1 BY <1>2, <1>4, <1>6, <2>1
  <2>2. CASE i # 1
    <3>1. i - 1 \in 1..n /\ A[i] = S[i - 1] /\ i - 1 \in 1..(n + 1) /\ i > 1 /\ 1 \in 1..n
      BY <1>1, <1>6, <2>2
    <3>2. h = S[1] BY <1>1, <3>1
    <3>3. CASE i - 1 = 1
      <4>1. r.prev[A[i]] = c BY <1>4, <1>6, <1>8, <3>1, <3>2, <3>3
      <4> QED BY <1>6, <3>1, <3>3, <4>1
    <3>4. CASE i - 1 # 1
      <4>1. A[i] # h BY <1>1, <3>1, <3>2, <3>4
      <4>2. r.prev[A[i]] = l.prev[S[i - 1]] BY <1>4, <1>6, <1>8, <3>1, <4>1
      <4>3. l.prev[S[i - 1]] = S[(i - 1) - 1] BY <1>1, <3>1, <3>4
      <4> QED BY <1>6, <3>1, <3>4, <4>2, <4>3
    <3> QED BY <3>3, <3>4
  <2> QED BY <2>1, <2>2
<1>12. IsChain(r, r.free_head, R, m - 1)
  <2>1. ASSUME NEW i \in 1..(m - 1), NEW j \in 1..(m - 1), R[i] = R[j] PROVE i = j
    <3>1. i + 1 \in 1..m /\ j + 1 \in 1..m BY <1>1
    <3>2. i + 1 = j + 1 BY <1>1, <1>6, <2>1, <3>1
    <3> QED BY <1>1, <3>2
  <2>2. ASSUME NEW i \in 1..(m - 1) PROVE r.next[R[i]] = IF i < m - 1 THEN R[i + 1] ELSE NULL
    <3>1. i + 1 \in 1..m BY <1>1
    <3>2. r.next[R[i]] = l.next[F[i + 1]] BY <1>4, <1>6, <1>9
    <3>3. CASE i < m - 1
      <4>1. i + 1 \in 1..(m - 1) /\ i + 1 < m BY <1>1, <3>3
      <4> QED BY <1>1, <1>6, <3>1, <3>2, <3>3, <4>1
    <3>4. CASE ~(i < m - 1)
      <4>1. ~(i + 1 < m) BY <1>1, <3>4
      <4> QED BY <1>1, <3>1, <3>2, <3>4, <4>1
    <3> QED BY <3>3, <3>4
  <2>3. m - 1 \in 0..(SIZE + 1) /\ m - 1 # 0 /\ 1 \in 1..(m - 1) /\ R[1] = F[1 + 1] BY <1>1, <1>6
  <2>4. r.free_head = F[1 + 1] BY <1>1, <1>4, <1>7
  <2> QED BY <1>6, <2>1, <2>2, <2>3, <2>4 DEF IsChain
<1>13. ASSUME NEW i \in 1..(n + 1), NEW j \in 1..(m - 1) PROVE A[i] # R[j]
  <2>1. j + 1 \in 1..m /\ R[j] = F[j + 1] BY <1>1, <1>6
  <2>2. CASE i = 1 BY <1>6, <1>9, <2>2
  <2>3. CASE i # 1
    <3>1. i - 1 \in 1..n /\ A[i] = S[i - 1] BY <1>1, <1>6, <2>3
    <3> QED BY <1>1, <2>1, <3>1
  <2> QED BY <2>2, <2>3
<1>14. ASSUME NEW x \in Cells
       PROVE  (\E i \in 1..(n + 1) : x = A[i]) \/ (\E j \in 1..(m - 1) : x = R[j])
  <2>1. CASE \E i \in 1..n : x = S[i]
    <3>1. PICK i \in 1..n : x = S[i] BY <2>1
    <3>2. i + 1 \in 1..(n + 1) /\ i + 1 # 1 /\ (i + 1) - 1 = i BY <1>1
    <3>3. A[i + 1] = x BY <1>6, <3>1, <3>2
    <3> QED BY <3>2, <3>3
  <2>2. CASE \E j \in 1..m : x = F[j]
    <3>1. PICK j \in 1..m : x = F[j] BY <2>2
    <3>2. CASE j = 1
      <4>1. 1 \in 1..(n + 1) /\ A[1] = c BY <1>1, <1>6
      <4> QED BY <1>7, <3>1, <3>2, <4>1
    <3>3. CASE j # 1
      <4>1. j - 1 \in 1..(m - 1) /\ (j - 1) + 1 = j BY <1>1, <3>3
      <4>2. R[j - 1] = x BY <1>6, <3>1, <4>1
      <4> QED BY <4>1, <4>2
    <3> QED BY <3>2, <3>3
  <2> QED BY <1>1, <2>1, <2>2
<1>15. Split(r, c, A, n + 1, R, m - 1) BY <1>4, <1>10, <1>11, <1>12, <1>13 DEF Split
<1>16. Whole(A, n + 1, R, m - 1)
  <2>1. (n + 1) + (m - 1) = SIZE + 1 /\ m - 1 >= 1 BY <1>1
  <2> QED BY <1>14, <2>1 DEF Whole
<1> QED BY <1>15, <1>16 DEF c, r, A, R

\* The list after an element has left it and is free.
Freed(r, l, c) ==
  /\ r \in Links /\ r.free_head = c
  /\ \A d \in Cells : /\ r.next[d] = IF d = c THEN l.free_head
                                     ELSE IF d = l.prev[c] THEN l.next[c] ELSE l.next[d]
                      /\ r.prev[d] = IF d = l.next[c] THEN l.prev[c] ELSE l.prev[d]

\* Remove and Free in fields.
LEMMA FreedLinks ==
  ASSUME NEW l \in Links, NEW c \in Cells
  PROVE  Freed(Free(Remove(l, c), c), l, c)
<1> DEFINE r == Free(Remove(l, c), c)
           a == Remove(l, c)
           N == [a.next EXCEPT ![c] = l.free_head]
<1>1. l.prev[c] \in Cells \cup {NULL} /\ l.next[c] \in Cells \cup {NULL} /\ l.free_head \in Cells \cup {NULL}
  BY DEF Links
<1>2. LinksTo(a, l, l.prev[c], l.next[c]) BY <1>1, LinkedFields DEF Remove
<1>3. r = Free(a, c) OBVIOUS
<1> HIDE DEF a, r
<1>4. a \in Links /\ a.free_head = l.free_head BY <1>2 DEF LinksTo
<1>5. r = [a EXCEPT !.next = N, !.free_head = c] BY <1>3, <1>4 DEF Free
<1>6. /\ N \in [Cells -> Cells \cup {NULL}]
      /\ \A d \in Cells : N[d] = IF d = c THEN l.free_head ELSE a.next[d]
  BY <1>1, <1>4 DEF Links
<1> HIDE DEF N
<1>7. r \in Links /\ r.next = N /\ r.prev = a.prev /\ r.free_head = c BY <1>4, <1>5, <1>6 DEF Links
<1> QED BY <1>2, <1>6, <1>7 DEF LinksTo, Freed, r

Without(S, n, p) == [i \in 1..(n - 1) |-> IF i < p THEN S[i] ELSE S[i + 1]]

\* An element leaves any place of the list for the front of the free list.
LEMMA RemoveSplits ==
  ASSUME NEW l, NEW h, NEW S, NEW n, NEW F, NEW m,
         Split(l, h, S, n, F, m), Whole(S, n, F, m), NEW p \in 1..n
  PROVE  /\ Split(Free(Remove(l, S[p]), S[p]), IF S[p] = h THEN l.next[S[p]] ELSE h,
                  Without(S, n, p), n - 1, AtFront(S[p], F, m), m + 1)
         /\ Whole(Without(S, n, p), n - 1, AtFront(S[p], F, m), m + 1)
         /\ l.next[S[p]] = IF p < n THEN Without(S, n, p)[p] ELSE NULL
<1> USE Sizes
<1> DEFINE c == S[p]
           r == Free(Remove(l, c), c)
           h2 == IF c = h THEN l.next[c] ELSE h
           W == Without(S, n, p)
           A == AtFront(c, F, m)
           nx == l.next[c]
           pv == l.prev[c]
<1>1. /\ l \in Links /\ n \in 0..(SIZE + 1) /\ m \in 0..(SIZE + 1) /\ n + m = SIZE + 1 /\ m >= 1
      /\ S \in [1..n -> Cells] /\ F \in [1..m -> Cells]
      /\ \A i, j \in 1..n : S[i] = S[j] => i = j
      /\ \A i, j \in 1..m : F[i] = F[j] => i = j
      /\ h = IF n = 0 THEN NULL ELSE S[1]
      /\ l.free_head = IF m = 0 THEN NULL ELSE F[1]
      /\ \A i \in 1..n : l.next[S[i]] = IF i < n THEN S[i + 1] ELSE NULL
      /\ \A i \in 1..m : l.next[F[i]] = IF i < m THEN F[i + 1] ELSE NULL
      /\ \A i \in 1..n : l.prev[S[i]] = IF i > 1 THEN S[i - 1] ELSE NULL
      /\ \A i \in 1..n, j \in 1..m : S[i] # F[j]
      /\ \A x \in Cells : (\E i \in 1..n : x = S[i]) \/ (\E j \in 1..m : x = F[j])
  BY DEF Split, Whole, IsChain, BackLinked
<1>0. /\ n \in Nat /\ m \in Nat /\ p \in Nat /\ 1 <= p /\ p <= n /\ 1 \in 1..n /\ 1 \in 1..m /\ n # 0 /\ m # 0
  BY <1>1
<1>2. /\ n \in Nat /\ m \in Nat /\ p \in Nat /\ 1 <= p /\ p <= n /\ c \in Cells /\ h = S[1]
      /\ l.free_head = F[1] /\ 1 \in 1..n /\ 1 \in 1..m
      /\ nx = (IF p < n THEN S[p + 1] ELSE NULL) /\ pv = (IF p > 1 THEN S[p - 1] ELSE NULL)
  BY <1>0, <1>1
<1>3. /\ W = [i \in 1..(n - 1) |-> IF i < p THEN S[i] ELSE S[i + 1]]
      /\ A = [i \in 1..(m + 1) |-> IF i = 1 THEN c ELSE F[i - 1]]
  BY DEF Without, AtFront
<1>4. /\ r \in Links /\ r.free_head = c
      /\ \A d \in Cells : /\ r.next[d] = IF d = c THEN l.free_head ELSE IF d = pv THEN nx ELSE l.next[d]
                          /\ r.prev[d] = IF d = nx THEN pv ELSE l.prev[d]
  <2>1. Freed(r, l, c) BY <1>1, <1>2, FreedLinks
  <2> HIDE DEF r
  <2> QED BY <2>1 DEF Freed
<1>5. c = S[p] /\ (h2 = IF c = h THEN nx ELSE h) OBVIOUS
<1> HIDE DEF c, r, h2, W, A, nx, pv
\* Where the elements were.
<1> DEFINE old(i) == IF i < p THEN i ELSE i + 1
<1>6. \A i \in 1..(n - 1) : old(i) \in 1..n /\ old(i) # p /\ W[i] = S[old(i)] /\ W[i] \in Cells
  <2> TAKE i \in 1..(n - 1)
  <2>1. old(i) \in 1..n /\ old(i) # p BY <1>0
  <2>2. W[i] = S[old(i)] BY <1>3
  <2> QED BY <1>1, <2>1, <2>2
<1>7. W \in [1..(n - 1) -> Cells] /\ A \in [1..(m + 1) -> Cells]
  <2>1. \A i \in 1..(m + 1) : i # 1 => i - 1 \in 1..m BY <1>2
  <2>2. \A i \in 1..(m + 1) : (IF i = 1 THEN c ELSE F[i - 1]) \in Cells BY <1>1, <1>2, <2>1
  <2>3. \A i \in 1..(n - 1) : (IF i < p THEN S[i] ELSE S[i + 1]) \in Cells
    <3> TAKE i \in 1..(n - 1)
    <3>1. i \in 1..n /\ i + 1 \in 1..n BY <1>0
    <3> QED BY <1>1, <3>1
  <2> QED BY <1>3, <2>2, <2>3
<1>8. \A i \in 1..(m + 1) : A[i] = IF i = 1 THEN c ELSE F[i - 1] BY <1>3
<1>9. \A i \in 1..n : i # p => S[i] # c BY <1>1, <1>5
<1>10. \A j \in 1..m : F[j] # c BY <1>1, <1>5
<1>11. ASSUME NEW i \in 1..(n - 1), NEW j \in 1..(n - 1), W[i] = W[j] PROVE i = j
  <2>1. old(i) = old(j)
    <3> DEFINE x == old(i)
               y == old(j)
    <3>1. x \in 1..n /\ y \in 1..n /\ S[x] = S[y] BY <1>6, <1>11
    <3> HIDE DEF x, y
    <3>2. x = y BY <1>1, <3>1
    <3> QED BY <3>2 DEF x, y
  <2> QED BY <1>2, <2>1
<1>12. ASSUME NEW i \in 1..(n - 1) PROVE r.next[W[i]] = IF i < n - 1 THEN W[i + 1] ELSE NULL
  <2>1. r.next[W[i]] = IF W[i] = pv THEN nx ELSE l.next[S[old(i)]] BY <1>4, <1>6, <1>9
  <2>2. CASE i = p - 1
    <3>1. p > 1 /\ p - 1 \in 1..n /\ old(i) = p - 1 /\ W[i] = pv BY <1>2, <1>6, <2>2
    <3>2. r.next[W[i]] = nx BY <2>1, <3>1
    <3>3. CASE p < n
      <4>1. i < n - 1 /\ i + 1 \in 1..(n - 1) /\ old(i + 1) = p + 1 BY <1>2, <2>2, <3>3
      <4>2. W[i + 1] = S[p + 1] BY <1>6, <4>1
      <4> QED BY <1>2, <3>2, <3>3, <4>1, <4>2
    <3>4. CASE ~(p < n)
      <4>1. ~(i < n - 1) BY <1>2, <2>2, <3>4
      <4> QED BY <1>2, <3>2, <3>4, <4>1
    <3> QED BY <3>3, <3>4
  <2>3. CASE i # p - 1
    <3>1. W[i] # pv
      <4>1. CASE p > 1
        <5>1. p - 1 \in 1..n /\ old(i) # p - 1 BY <1>2, <2>3, <4>1
        <5>2. pv = S[p - 1] BY <1>2, <4>1
        <5> QED BY <1>1, <1>6, <5>1, <5>2
      <4>2. CASE ~(p > 1)
        <5>1. pv = NULL BY <1>2, <4>2
        <5> QED BY <1>6, <5>1
      <4> QED BY <4>1, <4>2
    <3>2. r.next[W[i]] = IF old(i) < n THEN S[old(i) + 1] ELSE NULL BY <1>1, <1>6, <2>1, <3>1
    <3>3. CASE i < n - 1
      <4>1. i + 1 \in 1..(n - 1) /\ old(i) < n /\ old(i + 1) = old(i) + 1 BY <1>2, <2>3, <3>3
      <4>2. W[i + 1] = S[old(i) + 1] BY <1>6, <4>1
      <4> QED BY <3>2, <3>3, <4>1, <4>2
    <3>4. CASE ~(i < n - 1)
      <4>1. ~(old(i) < n) BY <1>2, <2>3, <3>4
      <4> QED BY <3>2, <3>4, <4>1
    <3> QED BY <3>3, <3>4
  <2> QED BY <2>2, <2>3
<1>13. ASSUME NEW i \in 1..(n - 1) PROVE r.prev[W[i]] = IF i > 1 THEN W[i - 1] ELSE NULL
  <2>1. r.prev[W[i]] = IF W[i] = nx THEN pv ELSE l.prev[S[old(i)]] BY <1>4, <1>6
  <2>2. CASE i = p
    <3>1. p < n /\ p + 1 \in 1..n /\ old(i) = p + 1 BY <1>2, <2>2
    <3>2. r.prev[W[i]] = pv BY <1>2, <1>6, <2>1, <3>1
    <3>3. CASE p > 1
      <4>1. i - 1 \in 1..(n - 1) /\ old(i - 1) = p - 1 /\ i > 1 BY <1>2, <2>2, <3>3
      <4>2. W[i - 1] = S[p - 1] BY <1>6, <4>1
      <4> QED BY <1>2, <3>2, <3>3, <4>1, <4>2
    <3>4. CASE ~(p > 1) BY <1>2, <2>2, <3>2, <3>4
    <3> QED BY <3>3, <3>4
  <2>3. CASE i # p
    <3>1. W[i] # nx
      <4>1. CASE p < n
        <5>1. p + 1 \in 1..n /\ old(i) # p + 1 BY <1>2, <2>3, <4>1
        <5>2. nx = S[p + 1] BY <1>2, <4>1
        <5> QED BY <1>1, <1>6, <5>1, <5>2
      <4>2. CASE ~(p < n)
        <5>1. nx = NULL BY <1>2, <4>2
        <5> QED BY <1>6, <5>1
      <4> QED BY <4>1, <4>2
    <3>2. r.prev[W[i]] = IF old(i) > 1 THEN S[old(i) - 1] ELSE NULL BY <1>1, <1>6, <2>1, <3>1
    <3>3. CASE i > 1
      <4>1. i - 1 \in 1..(n - 1) /\ old(i) > 1 /\ old(i - 1) = old(i) - 1 BY <1>2, <2>3, <3>3
      <4>2. W[i - 1] = S[old(i) - 1] BY <1>6, <4>1
      <4> QED BY <3>2, <3>3, <4>1, <4>2
    <3>4. CASE ~(i > 1)
      <4>1. ~(old(i) > 1) BY <1>2, <2>3, <3>4
      <4> QED BY <3>2, <3>4, <4>1
    <3> QED BY <3>3, <3>4
  <2> QED BY <2>2, <2>3
<1>14. h2 = IF n - 1 = 0 THEN NULL ELSE W[1]
  <2>1. CASE p = 1
    <3>1. h2 = nx BY <1>2, <1>5, <2>1
    <3>2. CASE n = 1 BY <1>2, <2>1, <3>1, <3>2
    <3>3. CASE n # 1
      <4>1. 1 \in 1..(n - 1) /\ old(1) = 1 + 1 /\ p < n BY <1>2, <2>1, <3>3
      <4>2. W[1] = S[1 + 1] BY <1>6, <4>1
      <4> QED BY <1>2, <2>1, <3>1, <3>3, <4>1, <4>2
    <3> QED BY <3>2, <3>3
  <2>2. CASE p # 1
    <3>1. h2 = h BY <1>2, <1>5, <1>9, <2>2
    <3>2. 1 \in 1..(n - 1) /\ old(1) = 1 /\ n - 1 # 0 BY <1>2, <2>2
    <3>3. W[1] = S[1] BY <1>6, <3>2
    <3> QED BY <1>2, <3>1, <3>2, <3>3
  <2> QED BY <2>1, <2>2
<1>15. IsChain(r, h2, W, n - 1)
  <2>1. n - 1 \in 0..(SIZE + 1) BY <1>1, <1>2
  <2> QED BY <1>7, <1>11, <1>12, <1>14, <2>1 DEF IsChain
<1>16. BackLinked(r, W, n - 1) BY <1>13 DEF BackLinked
<1>17. ASSUME NEW j \in 1..m PROVE r.next[F[j]] = l.next[F[j]]
  <2>1. F[j] \in Cells /\ F[j] # c BY <1>1, <1>10
  <2>2. F[j] # pv
    <3>1. CASE p > 1
      <4>1. p - 1 \in 1..n BY <1>2, <3>1
      <4> QED BY <1>1, <1>2, <3>1, <4>1
    <3>2. CASE ~(p > 1)
      <4>1. pv = NULL BY <1>2, <3>2
      <4> QED BY <2>1, <4>1
    <3> QED BY <3>1, <3>2
  <2> QED BY <1>4, <2>1, <2>2
<1>18. IsChain(r, c, A, m + 1)
  <2>1. ASSUME NEW i \in 1..(m + 1), NEW j \in 1..(m + 1), A[i] = A[j] PROVE i = j
    <3>1. CASE i = 1 /\ j = 1 BY <3>1
    <3>2. CASE i = 1 /\ j # 1
      <4>1. j - 1 \in 1..m BY <1>2, <3>2
      <4> QED BY <1>8, <1>10, <2>1, <3>2, <4>1
    <3>3. CASE i # 1 /\ j = 1
      <4>1. i - 1 \in 1..m BY <1>2, <3>3
      <4> QED BY <1>8, <1>10, <2>1, <3>3, <4>1
    <3>4. CASE i # 1 /\ j # 1
      <4>1. i - 1 \in 1..m /\ j - 1 \in 1..m BY <1>2, <3>4
      <4>2. i - 1 = j - 1 BY <1>1, <1>8, <2>1, <3>4, <4>1
      <4> QED BY <1>2, <4>2
    <3> QED BY <3>1, <3>2, <3>3, <3>4
  <2>2. ASSUME NEW i \in 1..(m + 1) PROVE r.next[A[i]] = IF i < m + 1 THEN A[i + 1] ELSE NULL
    <3>1. CASE i = 1
      <4>1. r.next[A[i]] = F[1] BY <1>2, <1>4, <1>8, <3>1
      <4>2. 2 \in 1..(m + 1) /\ 2 # 1 /\ 2 - 1 = 1 /\ 1 < m + 1 /\ 1 + 1 = 2 BY <1>1, <1>2
      <4>3. A[2] = F[1] BY <1>8, <4>2
      <4> QED BY <3>1, <4>1, <4>2, <4>3
    <3>2. CASE i # 1
      <4>1. i - 1 \in 1..m /\ A[i] = F[i - 1] BY <1>2, <1>8, <3>2
      <4>2. r.next[A[i]] = IF i - 1 < m THEN F[(i - 1) + 1] ELSE NULL BY <1>1, <1>17, <4>1
      <4>3. CASE i < m + 1
        <5>1. i + 1 \in 1..(m + 1) /\ i + 1 # 1 /\ i - 1 < m /\ (i + 1) - 1 = (i - 1) + 1
          BY <1>2, <4>3
        <5>2. A[i + 1] = F[(i - 1) + 1] BY <1>8, <5>1
        <5> QED BY <4>2, <4>3, <5>1, <5>2
      <4>4. CASE ~(i < m + 1)
        <5>1. ~(i - 1 < m) BY <1>2, <4>4
        <5> QED BY <4>2, <4>4, <5>1
      <4> QED BY <4>3, <4>4
    <3> QED BY <3>1, <3>2
  <2>3. m + 1 \in 0..(SIZE + 1) /\ m + 1 # 0 /\ 1 \in 1..(m + 1) /\ A[1] = c BY <1>1, <1>2, <1>8
  <2> QED BY <1>7, <2>1, <2>2, <2>3 DEF IsChain
<1>19. ASSUME NEW i \in 1..(n - 1), NEW j \in 1..(m + 1) PROVE W[i] # A[j]
  <2>1. old(i) \in 1..n /\ old(i) # p /\ W[i] = S[old(i)] BY <1>6
  <2>2. CASE j = 1 BY <1>8, <1>9, <2>1, <2>2
  <2>3. CASE j # 1
    <3>1. j - 1 \in 1..m /\ A[j] = F[j - 1] BY <1>2, <1>8, <2>3
    <3> QED BY <1>1, <2>1, <3>1
  <2> QED BY <2>2, <2>3
<1>20. ASSUME NEW x \in Cells
       PROVE  (\E i \in 1..(n - 1) : x = W[i]) \/ (\E j \in 1..(m + 1) : x = A[j])
  <2>1. CASE \E i \in 1..n : x = S[i]
    <3>1. PICK i \in 1..n : x = S[i] BY <2>1
    <3>2. CASE i < p
      <4>1. i \in 1..(n - 1) /\ old(i) = i BY <1>2, <3>2
      <4> QED BY <1>6, <3>1, <4>1
    <3>3. CASE i = p
      <4>1. 1 \in 1..(m + 1) /\ A[1] = c BY <1>2, <1>8
      <4> QED BY <1>5, <3>1, <3>3, <4>1
    <3>4. CASE i > p
      <4>1. i - 1 \in 1..(n - 1) /\ old(i - 1) = i BY <1>2, <3>4
      <4> QED BY <1>6, <3>1, <4>1
    <3> QED BY <1>2, <3>2, <3>3, <3>4
  <2>2. CASE \E j \in 1..m : x = F[j]
    <3>1. PICK j \in 1..m : x = F[j] BY <2>2
    <3>2. j + 1 \in 1..(m + 1) /\ j + 1 # 1 /\ (j + 1) - 1 = j BY <1>2
    <3>3. A[j + 1] = x BY <1>8, <3>1, <3>2
    <3> QED BY <3>2, <3>3
  <2> QED BY <1>1, <2>1, <2>2
<1>21. Split(r, h2, W, n - 1, A, m + 1) BY <1>4, <1>15, <1>16, <1>18, <1>19 DEF Split
<1>22. Whole(W, n - 1, A, m + 1)
  <2>1. (n - 1) + (m + 1) = SIZE + 1 /\ m + 1 >= 1 BY <1>1, <1>2
  <2> QED BY <1>20, <2>1 DEF Whole
<1>23. nx = IF p < n THEN W[p] ELSE NULL
  <2>1. p < n => p \in 1..(n - 1) /\ old(p) = p + 1 BY <1>2
  <2> QED BY <1>2, <1>6, <2>1
<1> QED BY <1>21, <1>22, <1>23 DEF c, r, h2, W, A, nx

-----------------------------------------------------------------------------
(* How long a letter has been flying.                                      *)

\* A letter that has moved a times: while it falls it has come down a times,
\* and once shot it has risen as often as it has not come down.
Aged(f, a) ==
  /\ a \in Nat /\ f.x \in 0..Bottom
  /\ IF f.up THEN (a - (Bottom \div Down)) * Up + f.x <= Bottom ELSE a * Down <= f.x

\* The letters on the screen are S[1], ..., S[n] and the free elements F[1],
\* ..., F[m]; letter c appeared at tick b[c]; and in this tick the letters
\* before place p have moved.
InFlight(S, n, F, m, b, p) ==
  /\ Split(pool, head, S, n, F, m)
  /\ IF created = 0 THEN pool = EmptyPool /\ n = 0 /\ m = 0 ELSE Whole(S, n, F, m)
  /\ p \in 1..(n + 1)
  /\ IF pc = "update" THEN it = (IF p <= n THEN S[p] ELSE NULL) ELSE p = 1
  /\ b \in [Cells -> Nat]
  /\ \A i, j \in 1..n : b[S[i]] = b[S[j]] => i = j
  /\ \A i \in 1..n :
       /\ b[S[i]] % LetterPeriod = 0
       /\ IF pc = "update" THEN b[S[i]] <= now ELSE b[S[i]] < now
       /\ Aged(fly[S[i]], now - b[S[i]] + (IF i < p THEN 1 ELSE 0))

\* What the model counts.
Counted(n) ==
  /\ created \in Nat /\ hit \in Nat /\ miss \in Nat
  /\ hit + miss + n = created
  /\ tick \in Nat /\ now \in 0..tick /\ target \in 0..tick
  /\ pc = "update" => now < target

Flights == \E S, n, F, m, b, p : InFlight(S, n, F, m, b, p) /\ Counted(n)

Fields ==
  /\ fly \in [Cells -> Fly]
  /\ \A c \in Cells : fly[c].x \in -Up..(Bottom + Down)
  /\ it \in Cells \cup {NULL}

\* The rest of the machine.
Others ==
  /\ turn \in {"cpu", "devices"}
  /\ idle \in [Polled -> 0..Gap]
  /\ requests \subseteq HardIrqs
  /\ scan_code_buf \in Codes
  /\ letter_pressed \subseteq Letters
  /\ i8259_intr_no \in Polled \cup {NoIntr}

\* The handlers of the timer's request.
Both == <<"timer_event", "ide_writeback">>
Keys == Seq({"keyboard_event"})
Listed ==
  /\ handles[TIMER_IRQ] = IF irq = TIMER_IRQ /\ pc \in {"int80", "cli", "link"}
                          THEN <<"ide_writeback">> ELSE Both
  /\ handles[KEYBOARD_IRQ] \in Keys
  /\ frames # <<>> => Head(frames).f \in {Both, <<"ide_writeback">>, <<>>} \cup Keys

\* A request of the timer that is in the slot, and one whose handler has been
\* entered and has not counted it.
Slotted == IF i8259_intr_no = TIMER_IRQ THEN 1 ELSE 0
Owed    == IF frames # <<>> /\ Head(frames).f = Both THEN 1 ELSE 0
Ticked ==
  /\ timer_requests \in 0..MaxTick
  /\ IF handles[TIMER_IRQ] = Both THEN tick + Owed + Slotted <= timer_requests + 1
     ELSE tick = 0 /\ Owed = 0

-----------------------------------------------------------------------------
(* Numbers.                                                                *)

LEMMA Times == \A a, b, k \in Nat : a <= b => a * k <= b * k
<1> SUFFICES ASSUME NEW a \in Nat, NEW b \in Nat, NEW k \in Nat, a <= b PROVE a * k <= b * k
  OBVIOUS
<1>1. PICK d \in Nat : b = a + d
  <2>1. b - a \in Nat /\ b = a + (b - a) OBVIOUS
  <2> QED BY <2>1
<1>2. b * k = a * k + d * k /\ d * k \in Nat /\ a * k \in Nat BY <1>1
<1> QED BY <1>2

LEMMA Quotient ==
  ASSUME NEW v \in Nat, NEW k \in Nat \ {0}
  PROVE  /\ v \div k \in Nat /\ v % k \in Nat
         /\ v = k * (v \div k) + (v % k) /\ v % k < k
OBVIOUS

LEMMA Multiple ==
  ASSUME NEW v \in Nat, NEW k \in Nat \ {0}, v % k = 0
  PROVE  v \div k \in Nat /\ v = k * (v \div k)
OBVIOUS

\* A number is at most the quotient if its multiple is at most the dividend.
LEMMA AtMost ==
  ASSUME NEW v \in Nat, NEW k \in Nat \ {0}, NEW a \in Nat, a * k <= v
  PROVE  a <= v \div k
<1> DEFINE q == v \div k
<1>1. q \in Nat /\ v % k \in Nat /\ v = k * q + (v % k) /\ v % k < k BY Quotient
<1> HIDE DEF q
<1>2. SUFFICES ASSUME a >= q + 1 PROVE FALSE BY <1>1 DEF q
<1>3. (q + 1) * k <= a * k BY <1>1, <1>2, Times
<1>4. (q + 1) * k = k * q + k BY <1>1
<1>5. a * k \in Nat /\ k * q \in Nat BY <1>1
<1> QED BY <1>1, <1>3, <1>4, <1>5

LEMMA Speeds ==
  /\ LetterPeriod \in Nat \ {0} /\ Down \in Nat \ {0} /\ Up \in Nat \ {0} /\ Bottom \in Nat
  /\ Bottom \div Down \in Nat /\ Bottom \div Up \in Nat
BY TypingAssumption, Quotient

\* A letter does not fly longer than it takes to fall and to rise.
LEMMA AgeBound ==
  ASSUME NEW f, NEW a, Aged(f, a)
  PROVE  /\ a \in Nat /\ a <= (Bottom \div Down) + (Bottom \div Up)
         /\ ~f.up => a <= Bottom \div Down
<1> DEFINE D == Bottom \div Down
           U == Bottom \div Up
<1>1. D \in Nat /\ U \in Nat /\ a \in Nat /\ f.x \in 0..Bottom BY Speeds DEF Aged
<1>2. CASE ~f.up
  <2>1. a * Down <= Bottom
    <3>1. a * Down <= f.x /\ a * Down \in Nat BY <1>1, <1>2, Speeds DEF Aged
    <3> QED BY <1>1, <3>1, Speeds
  <2>2. a <= D BY <1>1, <2>1, AtMost, Speeds
  <2> HIDE DEF D, U
  <2> QED BY <1>1, <2>2 DEF D, U
<1>3. CASE f.up
  <2>1. (a - D) * Up + f.x <= Bottom BY <1>3 DEF Aged
  <2> HIDE DEF D
  <2>2. CASE a <= D BY <1>1, <1>3, <2>2 DEF D
  <2>3. CASE a > D
    <3>1. a - D \in Nat /\ (a - D) * Up \in Nat BY <1>1, <2>3, Speeds
    <3>2. (a - D) * Up <= Bottom BY <1>1, <2>1, <3>1, Speeds
    <3>3. a - D <= U BY <3>1, <3>2, AtMost, Speeds
    <3> HIDE DEF U
    <3> QED BY <1>1, <1>3, <3>3 DEF D, U
  <2> QED BY <1>1, <2>2, <2>3
<1> QED BY <1>2, <1>3

LEMMA AgedNew ==
  ASSUME NEW t
  PROVE  Aged([x |-> 0, up |-> FALSE, text |-> t], 0)
BY Speeds DEF Aged

LEMMA AgedShot ==
  ASSUME NEW f \in Fly, NEW a, Aged(f, a), ~f.up
  PROVE  Aged([f EXCEPT !.up = TRUE], a)
<1> DEFINE D == Bottom \div Down
           g == [f EXCEPT !.up = TRUE]
<1>1. g.x = f.x /\ g.up = TRUE BY DEF Fly
<1>2. a \in Nat /\ a <= D /\ f.x \in 0..Bottom /\ D \in Nat BY AgeBound, Speeds DEF Aged
<1> HIDE DEF D, g
<1>3. (a - D) * Up <= 0
  <2>1. D - a \in Nat /\ (D - a) * Up \in Nat BY <1>2, Speeds
  <2>2. (a - D) * Up = -((D - a) * Up) BY <1>2, Speeds
  <2> QED BY <2>1, <2>2
<1>4. (a - D) * Up + g.x <= Bottom
  <2>1. (a - D) * Up \in Int BY <1>2, Speeds
  <2> QED BY <1>1, <1>2, <1>3, <2>1, Speeds
<1> QED BY <1>1, <1>2, <1>4 DEF Aged, D, g

\* A letter moves on, or leaves the screen.
LEMMA AgedMoved ==
  ASSUME NEW f \in Fly, NEW a, Aged(f, a)
  PROVE  /\ Moved(f) \in Fly /\ Moved(f).x \in -Up..(Bottom + Down)
         /\ ~Off(Moved(f)) => Aged(Moved(f), a + 1)
<1> DEFINE D == Bottom \div Down
           g == Moved(f)
           y == IF f.up THEN f.x - Up ELSE f.x + Down
<1>1. a \in Nat /\ f.x \in 0..Bottom /\ D \in Nat /\ f.x \in Int /\ y \in Int BY Speeds DEF Aged
<1>2. g = [f EXCEPT !.x = y] BY DEF Moved
<1>3. g \in Fly /\ g.x = y /\ g.up = f.up
  <2> HIDE DEF g, y
  <2> QED BY <1>1, <1>2 DEF Fly
<1>4. y \in -Up..(Bottom + Down) BY <1>1, Speeds
<1>5. ASSUME ~Off(g) PROVE Aged(g, a + 1)
  <2>1. ~(y < 0) /\ ~(y > Bottom)
    <3> HIDE DEF g, y
    <3> QED BY <1>3, <1>5 DEF Off
  <2>2. y \in 0..Bottom /\ a + 1 \in Nat BY <1>1, <2>1, Speeds
  <2>3. CASE f.up
    <3>1. (a - D) * Up + f.x <= Bottom BY <2>3 DEF Aged
    <3> HIDE DEF D, g
    <3>2. ((a + 1) - D) * Up = (a - D) * Up + Up /\ (a - D) * Up \in Int BY <1>1, Speeds
    <3>3. ((a + 1) - D) * Up + y <= Bottom BY <1>1, <2>3, <3>1, <3>2, Speeds
    <3> HIDE DEF y
    <3> QED BY <1>3, <2>2, <2>3, <3>3 DEF Aged, D
  <2>4. CASE ~f.up
    <3>1. a * Down <= f.x BY <2>4 DEF Aged
    <3> HIDE DEF g
    <3>2. (a + 1) * Down = a * Down + Down /\ a * Down \in Int BY <1>1, Speeds
    <3>3. (a + 1) * Down <= y BY <1>1, <2>4, <3>1, <3>2, Speeds
    <3> HIDE DEF y
    <3> QED BY <1>3, <2>2, <2>4, <3>3 DEF Aged
  <2> QED BY <2>3, <2>4
<1> HIDE DEF g, y
<1> QED BY <1>3, <1>4, <1>5 DEF g

\* Of the letters that appeared at different ticks, a period apart from each
\* other and from the present, there are few.
LEMMA FewLetters ==
  ASSUME NEW n \in Nat, NEW g \in [1..n -> Nat], NEW V \in Nat,
         now \in Nat, now % LetterPeriod = 0,
         \A i, j \in 1..n : g[i] = g[j] => i = j,
         \A i \in 1..n : g[i] % LetterPeriod = 0 /\ g[i] < now /\ now - g[i] <= V
  PROVE  n <= V \div LetterPeriod
<1> DEFINE k == LetterPeriod
           M == V \div k
           q(i) == (now \div k) - (g[i] \div k)
           f == [i \in 1..n |-> q(i)]
<1>1. k \in Nat \ {0} /\ M \in Nat BY Speeds, Quotient
<1>2. now \div k \in Nat /\ now = k * (now \div k) BY <1>1, Quotient
<1>3. \A i \in 1..n : g[i] \div k \in Nat /\ g[i] = k * (g[i] \div k)
  <2> TAKE i \in 1..n
  <2> DEFINE v == g[i]
  <2>1. v \in Nat /\ v % k = 0 OBVIOUS
  <2> HIDE DEF v, k
  <2>2. v \div k \in Nat /\ v = k * (v \div k) BY <1>1, <2>1, Multiple, Zenon
  <2> QED BY <2>2 DEF v, k
<1>4. ASSUME NEW i \in 1..n PROVE q(i) \in 1..M
  <2> DEFINE A == now \div k
             B == g[i] \div k
  <2>1. /\ A \in Nat /\ B \in Nat /\ now = k * A /\ g[i] = k * B /\ g[i] < now /\ now - g[i] <= V
    BY <1>2, <1>3
  <2> HIDE DEF A, B
  <2>2. B < A
    <3>1. SUFFICES ASSUME A <= B PROVE FALSE BY <2>1
    <3>2. A * k <= B * k BY <1>1, <2>1, <3>1, Times
    <3> QED BY <1>1, <2>1, <3>2
  <2>3. A - B \in Nat /\ (A - B) * k = now - g[i] BY <1>1, <2>1, <2>2
  <2>4. A - B <= M
    <3>1. (A - B) * k <= V BY <2>1, <2>3
    <3> QED BY <1>1, <2>3, <3>1, AtMost
  <2> HIDE DEF M
  <2> QED BY <1>1, <2>1, <2>2, <2>3, <2>4 DEF A, B
<1>5. ASSUME NEW i \in 1..n, NEW j \in 1..n, q(i) = q(j) PROVE i = j
  <2>1. g[i] \div k = g[j] \div k BY <1>2, <1>3, <1>5
  <2>2. g[i] = g[j] BY <1>3, <2>1
  <2> QED BY <2>2
<1>6. f \in Injection(1..n, 1..M)
  <2>1. f \in [1..n -> 1..M] BY <1>4
  <2>2. \A i, j \in 1..n : f[i] = f[j] => i = j BY <1>5
  <2> QED BY <2>1, <2>2 DEF Injection, IsInjective
<1> HIDE DEF f, M
<1>7. /\ IsFiniteSet(1..n) /\ Cardinality(1..n) = n /\ IsFiniteSet(1..M) /\ Cardinality(1..M) = M
  <2>1. 1 \in Int /\ n \in Int /\ M \in Int BY <1>1
  <2> QED BY <1>1, <2>1, FS_Interval
<1>8. Cardinality(1..n) <= Cardinality(1..M) BY <1>6, <1>7, FS_Injection
<1> QED BY <1>7, <1>8 DEF M

-----------------------------------------------------------------------------
(* The letters.                                                            *)

\* The letters are different elements.
LEMMA Letter ==
  ASSUME NEW S, NEW n, NEW F, NEW m, NEW b, NEW p, InFlight(S, n, F, m, b, p), Counted(n)
  PROVE  /\ n \in Nat /\ p \in 1..(n + 1) /\ head = IF n = 0 THEN NULL ELSE S[1]
         /\ now \in Nat /\ target \in Nat /\ tick \in Nat
         /\ \A i \in 1..n : S[i] \in Cells /\ b[S[i]] \in Nat
         /\ \A i, j \in 1..n : S[i] = S[j] => i = j
<1>1. IsChain(pool, head, S, n) /\ p \in 1..(n + 1) /\ b \in [Cells -> Nat] BY DEF InFlight, Split
<1>2. now \in Nat /\ target \in Nat /\ tick \in Nat BY DEF Counted
<1>3. n \in Nat BY <1>1, Sizes DEF IsChain
<1>4. \A i \in 1..n : S[i] \in Cells /\ b[S[i]] \in Nat BY <1>1 DEF IsChain
<1> QED BY <1>1, <1>2, <1>3, <1>4 DEF IsChain

\* Nothing happens to the letters.
LEMMA FlightsKept ==
  ASSUME Flights, UNCHANGED <<pool, head, fly, hit, miss, now, created>>,
         tick' \in Nat, tick <= tick', target' \in 0..tick',
         (pc = "update") <=> (pc' = "update"),
         pc = "update" => it' = it /\ target' = target
  PROVE  Flights'
<1>1. PICK S, n, F, m, b, p : InFlight(S, n, F, m, b, p) /\ Counted(n) BY DEF Flights
<1>2. InFlight(S, n, F, m, b, p)' BY <1>1 DEF InFlight
<1>3. Counted(n)' BY <1>1 DEF Counted
<1> QED BY <1>2, <1>3 DEF Flights

\* A letter is shot.
LEMMA LetterShot ==
  ASSUME Flights, Fields, ScanHit
  PROVE  Flights' /\ Fields'
<1>1. PICK S, n, F, m, b, p : InFlight(S, n, F, m, b, p) /\ Counted(n) BY DEF Flights
<1>2. /\ UNCHANGED <<pool, head, it, hit, miss, now, created, tick, target>>
      /\ pc = "scan" /\ pc' = "key_cli"
  BY DEF ScanHit, Main, score
<1>3. PICK i \in Targets : fly' = [fly EXCEPT ![Chain(pool, head)[i]].up = TRUE]
  BY DEF ScanHit, Lowest
<1>4. IsChain(pool, head, S, n) BY <1>1 DEF InFlight, Split
<1>5. i \in 1..n /\ Chain(pool, head)[i] = S[i] /\ ~fly[S[i]].up
  <2>1. i \in 1..n BY <1>4, Found DEF Targets
  <2>2. Chain(pool, head)[i] = S[i] BY <1>4, <2>1, Found
  <2> QED BY <2>1, <2>2 DEF Targets
<1> DEFINE c == S[i]
           g == [fly[c] EXCEPT !.up = TRUE]
<1>6. c \in Cells /\ fly \in [Cells -> Fly] BY <1>4, <1>5 DEF IsChain, Fields
<1>7. fly' = [fly EXCEPT ![c] = g] BY <1>3, <1>5
<1>8. g \in Fly /\ g.x = fly[c].x
  <2>1. fly[c] \in Fly BY <1>6
  <2> QED BY <2>1 DEF Fly
<1>9. Aged(g, now - b[c] + (IF i < p THEN 1 ELSE 0))
  <2>1. fly[c] \in Fly /\ ~fly[c].up BY <1>5, <1>6
  <2>2. Aged(fly[c], now - b[c] + (IF i < p THEN 1 ELSE 0)) BY <1>1, <1>5 DEF InFlight
  <2> QED BY <2>1, <2>2, AgedShot
<1>10. ASSUME NEW j \in 1..n PROVE Aged(fly'[S[j]], now - b[S[j]] + (IF j < p THEN 1 ELSE 0))
  <2>1. S[j] \in Cells BY <1>4 DEF IsChain
  <2>2. CASE j = i
    <3>1. fly'[S[j]] = g
      <4> HIDE DEF g
      <4> QED BY <1>6, <1>7, <2>2
    <3> QED BY <1>9, <2>2, <3>1
  <2>3. CASE j # i
    <3>1. S[j] # c BY <1>4, <1>5, <2>3 DEF IsChain
    <3>2. fly'[S[j]] = fly[S[j]]
      <4> HIDE DEF g, c
      <4> QED BY <1>6, <1>7, <2>1, <3>1
    <3> QED BY <1>1, <3>2 DEF InFlight
  <2> QED BY <2>2, <2>3
<1>11. InFlight(S, n, F, m, b, p)' BY <1>1, <1>2, <1>10 DEF InFlight
<1>12. Counted(n)' BY <1>1, <1>2 DEF Counted
<1>13. Fields'
  <2> HIDE DEF g, c
  <2>1. fly' \in [Cells -> Fly] BY <1>6, <1>7, <1>8
  <2>2. \A d \in Cells : fly'[d].x = fly[d].x BY <1>6, <1>7, <1>8
  <2> QED BY <1>2, <2>1, <2>2 DEF Fields
<1> QED BY <1>11, <1>12, <1>13 DEF Flights

\* All have moved.
LEMMA LettersMoved ==
  ASSUME Flights, Fields, TickPlayed
  PROVE  Flights' /\ Fields'
<1>1. PICK S, n, F, m, b, p : InFlight(S, n, F, m, b, p) /\ Counted(n) BY DEF Flights
<1>2. /\ UNCHANGED <<pool, head, fly, it, hit, miss, created, tick, target>>
      /\ pc = "update" /\ pc' = "play" /\ it = NULL /\ now' = now + 1
  BY DEF TickPlayed, Main, score, list, hist
<1>3. /\ n \in Nat /\ \A i \in 1..n : S[i] \in Cells
      /\ now \in Nat /\ p \in 1..(n + 1) /\ \A i \in 1..n : b[S[i]] \in Nat
  BY <1>1, Letter
<1>4. p = n + 1
  <2>1. p <= n => p \in 1..n /\ it = S[p] BY <1>1, <1>2, <1>3 DEF InFlight
  <2>2. p <= n => it \in Cells BY <1>3, <2>1
  <2> QED BY <1>2, <1>3, <2>2, Sizes
<1>5. ASSUME NEW i \in 1..n
      PROVE  /\ b[S[i]] < now'
             /\ Aged(fly[S[i]], now' - b[S[i]] + 0)
  <2>1. b[S[i]] <= now BY <1>1, <1>2 DEF InFlight
  <2>2. b[S[i]] \in Nat BY <1>3
  <2>3. i < p BY <1>3, <1>4
  <2>4. Aged(fly[S[i]], now - b[S[i]] + 1) BY <1>1, <2>3 DEF InFlight
  <2>5. now - b[S[i]] + 1 = now' - b[S[i]] + 0 BY <1>2, <1>3, <2>2
  <2> QED BY <1>2, <1>3, <2>1, <2>2, <2>4, <2>5
<1>6. InFlight(S, n, F, m, b, 1)'
  <2>1. 1 \in 1..(n + 1) /\ \A i \in 1..n : ~(i < 1) BY <1>3
  <2> QED BY <1>1, <1>2, <1>5, <2>1 DEF InFlight
<1>7. Counted(n)' BY <1>1, <1>2 DEF Counted
<1>8. Fields' BY <1>2 DEF Fields
<1> QED BY <1>6, <1>7, <1>8 DEF Flights

\* A tick without a new letter.
LEMMA NoneNew ==
  ASSUME Flights, Fields, NoLetter
  PROVE  Flights' /\ Fields'
<1>1. PICK S, n, F, m, b, p : InFlight(S, n, F, m, b, p) /\ Counted(n) BY DEF Flights
<1>2. /\ UNCHANGED <<pool, head, fly, hit, miss, created, tick, now, target>>
      /\ pc = "play" /\ pc' = "update" /\ it' = head /\ now < target
  BY DEF NoLetter, Main, score, hist
<1>3. /\ n \in Nat /\ \A i \in 1..n : S[i] \in Cells
      /\ now \in Nat /\ head = (IF n = 0 THEN NULL ELSE S[1]) /\ \A i \in 1..n : b[S[i]] \in Nat
  BY <1>1, Letter
<1>4. p = 1 BY <1>1, <1>2 DEF InFlight
<1>5. it' = IF 1 <= n THEN S[1] ELSE NULL BY <1>2, <1>3
<1>6. \A i \in 1..n : b[S[i]] <= now
  <2> TAKE i \in 1..n
  <2>1. b[S[i]] < now /\ b[S[i]] \in Nat BY <1>1, <1>2, <1>3 DEF InFlight
  <2> QED BY <1>3, <2>1
<1>7. InFlight(S, n, F, m, b, p)' BY <1>1, <1>2, <1>4, <1>5, <1>6 DEF InFlight
<1>8. Counted(n)' BY <1>1, <1>2 DEF Counted
<1>9. it' \in Cells \cup {NULL} BY <1>2, <1>3
<1>10. Fields' BY <1>2, <1>9 DEF Fields
<1> QED BY <1>7, <1>8, <1>10 DEF Flights

\* What new is called with, also the first time.
LEMMA Ready ==
  ASSUME NEW S, NEW n, NEW F, NEW m, NEW b, NEW p, InFlight(S, n, F, m, b, p), Counted(n)
  PROVE  \E F2, m2 : /\ Split(Built(pool), head, S, n, F2, m2) /\ Whole(S, n, F2, m2)
                     /\ Built(Built(pool)) = Built(pool)
<1>1. CASE created = 0
  <2>1. pool = EmptyPool /\ n = 0 /\ m = 0 /\ IsChain(pool, head, S, n) BY <1>1 DEF InFlight, Split
  <2>2. S = <<>> /\ head = NULL
    <3>1. S \in [1..0 -> Cells] /\ head = NULL BY <2>1 DEF IsChain
    <3> QED BY <3>1
  <2> QED BY <2>1, <2>2, FirstBuilt
<1>2. CASE created # 0
  <2>1. Split(pool, head, S, n, F, m) /\ Whole(S, n, F, m) BY <1>2 DEF InFlight
  <2>2. m >= 1 BY <2>1 DEF Whole
  <2>3. Built(pool) = pool BY <2>1, <2>2, Offered
  <2> QED BY <2>1, <2>3
<1> QED BY <1>1, <1>2

\* A letter appears, the pool being large enough.
LEMMA LetterCreated ==
  ASSUME Flights, Fields, NEW t \in Letters, CreateNewLetter(t)
  PROVE  Flights' /\ Fields'
<1>1. PICK S, n, F, m, b, p : InFlight(S, n, F, m, b, p) /\ Counted(n) BY DEF Flights
<1>0. PICK l, c : l = Built(pool) /\ c = NewCell(pool) OBVIOUS
<1>2. /\ UNCHANGED <<hit, miss, tick, now, target>>
      /\ pc = "play" /\ pc' = "update" /\ now < target /\ now % LetterPeriod = 0
      /\ CanNew(pool)
      /\ pool' = (IF head = NULL THEN AfterNew(pool) ELSE Insert(AfterNew(pool), NULL, head, c))
      /\ head' = c /\ it' = c
      /\ fly' = [fly EXCEPT ![c] = [x |-> 0, up |-> FALSE, text |-> t]]
      /\ created' = created + 1
  BY <1>0 DEF CreateNewLetter, Main, score
<1>3. PICK F2, m2 : Split(l, head, S, n, F2, m2) /\ Whole(S, n, F2, m2) /\ Built(l) = l
  BY <1>0, <1>1, Ready
<1>4. NewCell(l) = c /\ (CanNew(l) <=> CanNew(pool)) /\ AfterNew(l) = AfterNew(pool)
  <2>1. Built(l) = Built(pool) BY <1>0, <1>3
  <2> QED BY <1>0, <2>1 DEF NewCell, CanNew, AfterNew
<1>5. pool' = Fronted(l, head) BY <1>2, <1>4 DEF Fronted
<1>6. m2 >= 1 BY <1>3 DEF Whole
<1>7. c = F2[1] /\ c \in Cells /\ m2 >= 2 BY <1>2, <1>3, <1>4, <1>6, Offered
<1> DEFINE A == AtFront(c, S, n)
           R == Rest(F2, m2)
<1>8. Split(pool', head', A, n + 1, R, m2 - 1) /\ Whole(A, n + 1, R, m2 - 1)
  BY <1>2, <1>3, <1>5, <1>7, NewSplits
<1>9. /\ n \in Nat /\ now \in Nat /\ p = 1 /\ b \in [Cells -> Nat]
      /\ \A i \in 1..n : S[i] \in Cells /\ S[i] # c
  <2>1. p = 1 /\ b \in [Cells -> Nat] BY <1>1, <1>2 DEF InFlight
  <2>2. 1 \in 1..m2 BY <1>3, <1>7 DEF Split, IsChain
  <2>3. \A i \in 1..n : S[i] # c BY <1>3, <1>7, <2>2 DEF Split
  <2> QED BY <1>1, <2>1, <2>3, Letter
<1>10. \A i \in 1..(n + 1) : A[i] = IF i = 1 THEN c ELSE S[i - 1] BY DEF AtFront
<1>20. PICK g : g = [b EXCEPT ![c] = now] OBVIOUS
<1>11. g \in [Cells -> Nat] /\ g[c] = now /\ \A d \in Cells : d # c => g[d] = b[d] BY <1>7, <1>9, <1>20
<1>12. /\ fly \in [Cells -> Fly] /\ fly' \in [Cells -> Fly]
       /\ fly'[c] = [x |-> 0, up |-> FALSE, text |-> t]
       /\ \A d \in Cells : d # c => fly'[d] = fly[d]
  <2>1. [x |-> 0, up |-> FALSE, text |-> t] \in Fly BY DEF Fly
  <2> QED BY <1>2, <1>7, <2>1 DEF Fields
<1> HIDE DEF A, R
<1>13. ASSUME NEW i \in 1..(n + 1), i # 1
       PROVE  /\ i - 1 \in 1..n /\ A[i] = S[i - 1] /\ g[A[i]] = b[S[i - 1]] /\ fly'[A[i]] = fly[S[i - 1]]
              /\ b[S[i - 1]] % LetterPeriod = 0 /\ b[S[i - 1]] < now /\ b[S[i - 1]] \in Nat
              /\ Aged(fly[S[i - 1]], now - b[S[i - 1]] + 0)
  <2>1. i - 1 \in 1..n BY <1>9, <1>13
  <2>2. A[i] = S[i - 1] BY <1>10, <1>13
  <2>3. S[i - 1] \in Cells /\ S[i - 1] # c BY <1>9, <2>1
  <2>4. ~(i - 1 < p) BY <1>9, <2>1
  <2> QED BY <1>1, <1>2, <1>9, <1>11, <1>12, <2>1, <2>2, <2>3, <2>4 DEF InFlight
<1>14. 1 \in 1..(n + 1) /\ A[1] = c BY <1>9, <1>10
<1>15. ASSUME NEW i \in 1..(n + 1), NEW j \in 1..(n + 1), g[A[i]] = g[A[j]] PROVE i = j
  <2>1. CASE i = 1 /\ j = 1 BY <2>1
  <2>2. CASE i = 1 /\ j # 1 BY <1>9, <1>11, <1>13, <1>14, <1>15, <2>2
  <2>3. CASE i # 1 /\ j = 1 BY <1>9, <1>11, <1>13, <1>14, <1>15, <2>3
  <2>4. CASE i # 1 /\ j # 1
    <3>1. i - 1 \in 1..n /\ j - 1 \in 1..n /\ b[S[i - 1]] = b[S[j - 1]] BY <1>13, <1>15, <2>4
    <3>2. i - 1 = j - 1 BY <1>1, <3>1 DEF InFlight
    <3> QED BY <1>9, <3>2
  <2> QED BY <2>1, <2>2, <2>3, <2>4
<1>16. ASSUME NEW i \in 1..(n + 1)
       PROVE  /\ g[A[i]] % LetterPeriod = 0 /\ g[A[i]] <= now
              /\ Aged(fly'[A[i]], now - g[A[i]] + (IF i < 1 THEN 1 ELSE 0))
  <2>1. CASE i = 1
    <3>1. now - g[A[i]] + (IF i < 1 THEN 1 ELSE 0) = 0 BY <1>9, <1>11, <1>14, <2>1
    <3>2. Aged(fly'[A[i]], 0) BY <1>12, <1>14, <2>1, AgedNew
    <3>3. g[A[i]] = now BY <1>11, <1>14, <2>1
    <3> QED BY <1>2, <1>9, <3>1, <3>2, <3>3
  <2>2. CASE i # 1
    <3>1. ~(i < 1) BY <1>9
    <3> QED BY <1>9, <1>13, <2>2, <3>1
  <2> QED BY <2>1, <2>2
<1>17. InFlight(A, n + 1, R, m2 - 1, g, 1)'
  <2>1. created' # 0 BY <1>1, <1>2 DEF Counted
  <2>2. 1 \in 1..((n + 1) + 1) /\ it' = (IF 1 <= n + 1 THEN A[1] ELSE NULL) BY <1>2, <1>9, <1>14
  <2> QED BY <1>2, <1>8, <1>11, <1>15, <1>16, <2>1, <2>2 DEF InFlight
<1>18. Counted(n + 1)' BY <1>1, <1>2, <1>9 DEF Counted
<1>19. Fields'
  <2>1. \A d \in Cells : fly'[d].x \in -Up..(Bottom + Down)
    <3>1. fly'[c].x = 0 BY <1>12
    <3>2. 0 \in -Up..(Bottom + Down) BY Speeds
    <3> QED BY <1>12, <3>1, <3>2 DEF Fields
  <2> QED BY <1>2, <1>7, <1>12, <2>1 DEF Fields
<1> QED BY <1>17, <1>18, <1>19 DEF Flights

\* The letter at it moves, and leaves the list if it leaves the screen.
LEMMA LetterUpdated ==
  ASSUME Flights, Fields, UpdateLetterPos
  PROVE  Flights' /\ Fields'
<1>1. PICK S, n, F, m, b, p : InFlight(S, n, F, m, b, p) /\ Counted(n) BY DEF Flights
<1>2. PICK c, f : c = it /\ f = Moved(fly[it]) OBVIOUS
<1>3. /\ UNCHANGED <<created, tick, now, target>>
      /\ pc = "update" /\ pc' = "update" /\ c # NULL
      /\ it' = pool.next[c]
      /\ fly' = [fly EXCEPT ![c] = f]
      /\ IF Off(f)
         THEN /\ hit' = IF f.x < 0 THEN hit + 1 ELSE hit
              /\ miss' = IF f.x < 0 THEN miss ELSE miss + 1
              /\ pool' = Free(Remove(pool, c), c)
              /\ head' = IF c = head THEN pool.next[c] ELSE head
         ELSE UNCHANGED <<pool, head, hit, miss>>
  BY <1>2 DEF UpdateLetterPos, Main, HeadAfter, score, hist
<1>4. /\ n \in Nat /\ p \in 1..n /\ c = S[p] /\ c \in Cells /\ now \in Nat
      /\ \A i \in 1..n : S[i] \in Cells /\ b[S[i]] \in Nat
      /\ \A i, j \in 1..n : S[i] = S[j] => i = j
  <2>1. /\ n \in Nat /\ p \in 1..(n + 1) /\ now \in Nat
        /\ \A i \in 1..n : S[i] \in Cells /\ b[S[i]] \in Nat
        /\ \A i, j \in 1..n : S[i] = S[j] => i = j
    BY <1>1, Letter
  <2>2. c = IF p <= n THEN S[p] ELSE NULL BY <1>1, <1>2, <1>3 DEF InFlight
  <2>3. p \in 1..n BY <1>3, <2>1, <2>2
  <2> QED BY <2>1, <2>2, <2>3
<1>5. Split(pool, head, S, n, F, m) /\ Whole(S, n, F, m) /\ created # 0
  <2>1. created = 0 => n = 0 BY <1>1 DEF InFlight
  <2> QED BY <1>1, <1>4, <2>1 DEF InFlight
<1>6. fly[c] \in Fly /\ fly \in [Cells -> Fly] BY <1>4 DEF Fields
<1>7. Aged(fly[c], now - b[c])
  <2>1. ~(p < p) BY <1>4
  <2>2. Aged(fly[c], now - b[c] + 0) BY <1>1, <1>4, <2>1 DEF InFlight
  <2>3. now - b[c] + 0 = now - b[c] BY <1>4
  <2> QED BY <2>2, <2>3
<1>8. f \in Fly /\ f.x \in -Up..(Bottom + Down) /\ (~Off(f) => Aged(f, now - b[c] + 1))
  BY <1>2, <1>6, <1>7, AgedMoved
<1>9. /\ fly' \in [Cells -> Fly] /\ fly'[c] = f /\ \A d \in Cells : d # c => fly'[d] = fly[d]
  BY <1>3, <1>4, <1>6, <1>8
<1>10. \A d \in Cells : fly'[d].x \in -Up..(Bottom + Down) BY <1>8, <1>9 DEF Fields
<1>11. it' \in Cells \cup {NULL}
  <2>1. pool.next \in [Cells -> Cells \cup {NULL}] BY <1>5 DEF Split, Links
  <2> QED BY <1>3, <1>4, <2>1
<1>12. Fields' BY <1>9, <1>10, <1>11 DEF Fields
<1>13. CASE ~Off(f)
  <2>1. /\ UNCHANGED <<pool, head, hit, miss>> /\ p + 1 \in 1..(n + 1)
        /\ it' = IF p + 1 <= n THEN S[p + 1] ELSE NULL
    <3>1. pool.next[S[p]] = IF p < n THEN S[p + 1] ELSE NULL BY <1>4, <1>5 DEF Split, IsChain
    <3>2. p < n <=> p + 1 <= n BY <1>4
    <3> QED BY <1>3, <1>4, <1>13, <3>1, <3>2
  <2>2. ASSUME NEW i \in 1..n
        PROVE  Aged(fly'[S[i]], now - b[S[i]] + (IF i < p + 1 THEN 1 ELSE 0))
    <3>1. CASE i = p
      <4>1. i < p + 1 BY <1>4, <3>1
      <4> QED BY <1>4, <1>8, <1>9, <1>13, <3>1, <4>1
    <3>2. CASE i # p
      <4>1. (i < p + 1 <=> i < p) /\ S[i] # c /\ S[i] \in Cells BY <1>4, <3>2
      <4>2. Aged(fly[S[i]], now - b[S[i]] + (IF i < p THEN 1 ELSE 0)) BY <1>1 DEF InFlight
      <4>3. fly'[S[i]] = fly[S[i]] BY <1>9, <4>1
      <4>4. (IF i < p + 1 THEN 1 ELSE 0) = (IF i < p THEN 1 ELSE 0) BY <4>1
      <4> QED BY <4>2, <4>3, <4>4
    <3> QED BY <3>1, <3>2
  <2>3. InFlight(S, n, F, m, b, p + 1)' BY <1>1, <1>3, <1>5, <2>1, <2>2 DEF InFlight
  <2>4. Counted(n)' BY <1>1, <1>3, <2>1 DEF Counted
  <2> QED BY <1>12, <2>3, <2>4 DEF Flights
<1>14. CASE Off(f)
  <2>1. PICK W, A : W = Without(S, n, p) /\ A = AtFront(c, F, m) OBVIOUS
  <2>2. /\ Split(pool', head', W, n - 1, A, m + 1) /\ Whole(W, n - 1, A, m + 1)
        /\ it' = IF p < n THEN W[p] ELSE NULL
    BY <1>3, <1>4, <1>5, <1>14, <2>1, RemoveSplits
  <2> DEFINE old(i) == IF i < p THEN i ELSE i + 1
  <2>3. ASSUME NEW i \in 1..(n - 1)
        PROVE  old(i) \in 1..n /\ old(i) # p /\ W[i] = S[old(i)] /\ (i < p <=> old(i) < p)
    <3>1. old(i) \in 1..n /\ old(i) # p /\ (i < p <=> old(i) < p) BY <1>4
    <3>2. W[i] = S[old(i)] BY <2>1 DEF Without
    <3> QED BY <3>1, <3>2
  <2>4. ASSUME NEW i \in 1..(n - 1), NEW j \in 1..(n - 1), old(i) = old(j) PROVE i = j
    BY <1>4, <2>4
  <2> HIDE DEF old
  <2>5. ASSUME NEW i \in 1..(n - 1)
        PROVE  /\ b[W[i]] % LetterPeriod = 0 /\ b[W[i]] <= now
               /\ Aged(fly'[W[i]], now - b[W[i]] + (IF i < p THEN 1 ELSE 0))
    <3> DEFINE k == old(i)
    <3>1. k \in 1..n /\ k # p /\ W[i] = S[k] /\ (i < p <=> k < p) BY <2>3
    <3> HIDE DEF k
    <3>2. S[k] # c /\ S[k] \in Cells BY <1>4, <3>1
    <3>3. fly'[S[k]] = fly[S[k]] BY <1>9, <3>2
    <3>4. /\ b[S[k]] % LetterPeriod = 0 /\ b[S[k]] <= now
          /\ Aged(fly[S[k]], now - b[S[k]] + (IF k < p THEN 1 ELSE 0))
      BY <1>1, <1>3, <3>1 DEF InFlight
    <3>5. (IF i < p THEN 1 ELSE 0) = (IF k < p THEN 1 ELSE 0) BY <3>1
    <3> QED BY <3>1, <3>3, <3>4, <3>5
  <2>6. ASSUME NEW i \in 1..(n - 1), NEW j \in 1..(n - 1), b[W[i]] = b[W[j]] PROVE i = j
    <3>1. b[S[old(i)]] = b[S[old(j)]] /\ old(i) \in 1..n /\ old(j) \in 1..n BY <2>3, <2>6
    <3>2. old(i) = old(j) BY <1>1, <3>1 DEF InFlight
    <3> QED BY <2>4, <3>2
  <2>7. p \in 1..((n - 1) + 1) /\ it' = (IF p <= n - 1 THEN W[p] ELSE NULL)
    <3>1. (p < n <=> p <= n - 1) /\ p \in 1..((n - 1) + 1) BY <1>4
    <3> QED BY <2>2, <3>1
  <2>8. b \in [Cells -> Nat] BY <1>1 DEF InFlight
  <2>9. InFlight(W, n - 1, A, m + 1, b, p)' BY <1>3, <1>5, <2>2, <2>5, <2>6, <2>7, <2>8 DEF InFlight
  <2>10. Counted(n - 1)'
    <3>1. hit' \in Nat /\ miss' \in Nat /\ hit' + miss' + (n - 1) = created
      <4>1. hit \in Nat /\ miss \in Nat /\ hit + miss + n = created BY <1>1 DEF Counted
      <4>2. \/ hit' = hit + 1 /\ miss' = miss
            \/ hit' = hit /\ miss' = miss + 1
        BY <1>3, <1>14
      <4> QED BY <1>4, <4>1, <4>2
    <3> QED BY <1>1, <1>3, <3>1 DEF Counted
  <2> QED BY <1>12, <2>9, <2>10 DEF Flights
<1> QED BY <1>13, <1>14

\* The links of the letters in flight are sound.
LEMMA FlightsSound ==
  ASSUME Flights, Fields
  PROVE  PoolSplit /\ LettersCounted /\ NeverExhausted /\ pool \in Links /\ head \in Cells \cup {NULL}
         /\ hit \in 0..created /\ miss \in 0..created
         /\ tick \in Nat /\ now \in 0..tick /\ target \in 0..tick
<1>1. PICK S, n, F, m, b, p : InFlight(S, n, F, m, b, p) /\ Counted(n) BY DEF Flights
<1>2. /\ pool \in Links /\ IsChain(pool, head, S, n) /\ BackLinked(pool, S, n)
      /\ IsChain(pool, pool.free_head, F, m) /\ \A i \in 1..n, j \in 1..m : S[i] # F[j]
  BY <1>1 DEF InFlight, Split
<1>3. /\ ChainCells(pool, head) = {S[i] : i \in 1..n} /\ ChainLen(pool, head) = n
      /\ Step(pool, head)[SIZE + 1] = NULL
      /\ ChainCells(pool, pool.free_head) = {F[i] : i \in 1..m}
      /\ Step(pool, pool.free_head)[SIZE + 1] = NULL
  BY <1>2, Found
<1>4. /\ n \in Nat /\ m \in Nat /\ head = (IF n = 0 THEN NULL ELSE S[1]) /\ now \in Nat
      /\ \A i \in 1..n : S[i] \in Cells /\ b[S[i]] \in Nat
      /\ \A i, j \in 1..n : S[i] = S[j] => i = j
  <2>1. m \in Nat BY <1>2, Sizes DEF IsChain
  <2> QED BY <1>1, <2>1, Letter
<1>5. WellLinked(pool, head)
  <2>1. head # NULL => pool.prev[head] = NULL
    <3>1. ASSUME head # NULL PROVE pool.prev[head] = NULL
      <4>1. 1 \in 1..n /\ head = S[1] BY <1>4, <3>1
      <4> QED BY <1>2, <4>1 DEF BackLinked
    <3> QED BY <3>1
  <2>2. ASSUME NEW i \in 1..n, pool.next[S[i]] # NULL
        PROVE  pool.prev[pool.next[S[i]]] = S[i]
    <3>1. i < n /\ pool.next[S[i]] = S[i + 1] BY <1>2, <2>2 DEF IsChain
    <3>2. i + 1 \in 1..n /\ i + 1 > 1 /\ (i + 1) - 1 = i BY <1>4, <3>1
    <3>3. pool.prev[S[i + 1]] = S[(i + 1) - 1] BY <1>2, <3>2 DEF BackLinked
    <3> QED BY <3>1, <3>2, <3>3
  <2> QED BY <1>3, <2>1, <2>2 DEF WellLinked
<1>6. created > 0 => ChainCells(pool, head) \cup ChainCells(pool, pool.free_head) = Cells
  <2> SUFFICES ASSUME created > 0 PROVE {S[i] : i \in 1..n} \cup {F[i] : i \in 1..m} = Cells
    BY <1>3
  <2>1. created # 0 OBVIOUS
  <2>2. Whole(S, n, F, m) BY <1>1, <2>1 DEF InFlight
  <2>3. \A i \in 1..m : F[i] \in Cells BY <1>2 DEF IsChain
  <2> QED BY <1>4, <2>2, <2>3 DEF Whole
<1>7. PoolSplit BY <1>2, <1>3, <1>5, <1>6 DEF PoolSplit
<1>8. LettersCounted BY <1>1, <1>3 DEF LettersCounted, Counted
<1>9. NeverExhausted
  <2> SUFFICES ASSUME pc = "play", now % LetterPeriod = 0 PROVE CanNew(pool) BY DEF NeverExhausted
  <2>1. PICK F2, m2 : /\ Split(Built(pool), head, S, n, F2, m2) /\ Whole(S, n, F2, m2)
                      /\ Built(Built(pool)) = Built(pool)
    BY <1>1, Ready
  <2>2. PICK V : V = (Bottom \div Down) + (Bottom \div Up) OBVIOUS
  <2>3. V \in Nat BY <2>2, Speeds
  <2>4. PICK g : g = [i \in 1..n |-> b[S[i]]] OBVIOUS
  <2>5. ASSUME NEW i \in 1..n
        PROVE  g[i] \in Nat /\ g[i] % LetterPeriod = 0 /\ g[i] < now /\ now - g[i] <= V
    <3>1. g[i] = b[S[i]] /\ g[i] \in Nat BY <1>4, <2>4
    <3>2. p = 1 /\ ~(i < 1) BY <1>1 DEF InFlight
    <3>3. b[S[i]] % LetterPeriod = 0 /\ b[S[i]] < now /\ Aged(fly[S[i]], now - b[S[i]] + 0)
      BY <1>1, <3>2 DEF InFlight
    <3>4. now - b[S[i]] + 0 <= V BY <2>2, <3>3, AgeBound
    <3> QED BY <1>4, <3>1, <3>3, <3>4
  <2>6. \A i, j \in 1..n : g[i] = g[j] => i = j BY <1>1, <2>4 DEF InFlight
  <2>7. g \in [1..n -> Nat] BY <2>4, <2>5
  <2>8. n <= V \div LetterPeriod BY <1>4, <2>3, <2>5, <2>6, <2>7, FewLetters
  <2>9. V \div LetterPeriod < SIZE /\ V \div LetterPeriod \in Nat
    BY <2>2, <2>3, PoolAssumption, Speeds, Quotient
  <2>10. m2 >= 2
    <3>1. n < SIZE BY <1>4, <2>8, <2>9, Sizes
    <3>2. n + m2 = SIZE + 1 /\ m2 >= 1 BY <2>1 DEF Whole
    <3>3. m2 \in Nat BY <2>1, Sizes DEF Split, IsChain
    <3> QED BY <1>4, <3>1, <3>2, <3>3, Sizes
  <2>11. CanNew(Built(pool))
    <3>1. m2 >= 1 BY <2>1 DEF Whole
    <3> QED BY <2>1, <2>10, <3>1, Offered
  <2> QED BY <2>1, <2>11 DEF CanNew
<1>10. head \in Cells \cup {NULL} BY <1>4
<1>11. hit \in 0..created /\ miss \in 0..created BY <1>1, <1>4 DEF Counted
<1>12. tick \in Nat /\ now \in 0..tick /\ target \in 0..tick BY <1>1 DEF Counted
<1> QED BY <1>2, <1>7, <1>8, <1>9, <1>10, <1>11, <1>12

-----------------------------------------------------------------------------
(* The requests of the timer.                                              *)

\* The invariant for the pool; it needs IInv beside it.
SInv == Flights /\ Fields /\ Others /\ Listed /\ Ticked

\* Where the timer's handler is not yet linked, as long as irq is the timer's.
Linking == {"int80", "cli", "link"}

\* The lists of handlers differ, and what is left when one has been called.
LEMMA Routes ==
  /\ Both # <<"ide_writeback">> /\ Both # <<>> /\ Both \notin Keys
  /\ Head(Both) = "timer_event" /\ Tail(Both) = <<"ide_writeback">>
  /\ Head(<<"ide_writeback">>) = "ide_writeback" /\ Tail(<<"ide_writeback">>) = <<>>
  /\ <<>> \in Keys
  /\ \A s \in Keys : s # <<>> => Head(s) = "keyboard_event" /\ Tail(s) \in Keys
<1>1. Len(Both) = 2 /\ Len(<<"ide_writeback">>) = 1 /\ Len(<<>>) = 0 BY DEF Both
<1>2. Both # <<"ide_writeback">> /\ Both # <<>>
  <2> HIDE DEF Both
  <2> QED BY <1>1
<1>3. ASSUME NEW s \in Keys, s # <<>> PROVE Head(s) = "keyboard_event" /\ Tail(s) \in Keys
  <2>1. Head(s) \in {"keyboard_event"} /\ Tail(s) \in Seq({"keyboard_event"}) BY <1>3 DEF Keys
  <2> QED BY <2>1 DEF Keys
<1>4. Head(Both) = "timer_event" /\ Tail(Both) = <<"ide_writeback">> BY DEF Both
<1>5. Both \notin Keys
  <2> HIDE DEF Both
  <2> QED BY <1>2, <1>3, <1>4
<1>6. Head(<<"ide_writeback">>) = "ide_writeback" /\ Tail(<<"ide_writeback">>) = <<>> OBVIOUS
<1>7. <<>> \in Keys BY DEF Keys
<1> QED BY <1>2, <1>3, <1>4, <1>5, <1>6, <1>7

\* Nothing is owed where the game runs.
LEMMA NoneOwed ==
  ASSUME frames \in {<<>>, <<Call>>}
  PROVE  Owed = 0 /\ (frames # <<>> => Head(frames).f = <<>>)
<1>1. frames # <<>> => Head(frames).f = <<>>
  <2>1. Head(<<Call>>) = Call /\ Call.f = <<>> BY DEF Call
  <2> QED BY <2>1
<1>2. Owed = 0 BY <1>1, Routes DEF Owed
<1> QED BY <1>1, <1>2

LEMMA NoneOwedNext ==
  ASSUME frames' \in {<<>>, <<Call>>}
  PROVE  Owed' = 0 /\ (frames' # <<>> => Head(frames').f = <<>>)
<1>1. frames' # <<>> => Head(frames').f = <<>>
  <2>1. Head(<<Call>>) = Call /\ Call.f = <<>> BY DEF Call
  <2> QED BY <2>1
<1>2. Both' = Both BY DEF Both
<1>3. Owed' = 0 BY <1>1, <1>2, Routes DEF Owed
<1> QED BY <1>1, <1>3

LEMMA ListsKept ==
  ASSUME Listed, Ticked, frames \in {<<>>, <<Call>>}, frames' \in {<<>>, <<Call>>},
         UNCHANGED <<i8259_intr_no, handles, tick, timer_requests>>,
         (irq = TIMER_IRQ /\ pc \in Linking) <=> (irq' = TIMER_IRQ /\ pc' \in Linking)
  PROVE  Listed' /\ Ticked'
<1>1. Owed = 0 /\ Owed' = 0 /\ (frames' # <<>> => Head(frames').f = <<>>)
  BY NoneOwed, NoneOwedNext
<1>2. Slotted' = Slotted BY DEF Slotted
<1>3. Listed'
  <2>1. handles'[TIMER_IRQ] = IF irq' = TIMER_IRQ /\ pc' \in Linking THEN <<"ide_writeback">> ELSE Both
    BY DEF Listed, Linking
  <2> QED BY <1>1, <2>1 DEF Listed, Linking, Both, Keys
<1>4. Ticked' BY <1>1, <1>2 DEF Ticked, Both
<1> QED BY <1>3, <1>4

\* An instruction of the game.
LEMMA OthersInstr ==
  ASSUME Others, turn' = "devices", UNCHANGED <<idle, slot, scan_code_buf>>,
         letter_pressed' \subseteq Letters
  PROVE  Others'
BY DEF Others, slot, Codes

LEMMA SoundMainLoop ==
  ASSUME IInv, SInv, MainLoop
  PROVE  SInv'
<1> USE DEF SInv
<1>1. SUFFICES ASSUME TRUE PROVE (Flights' /\ Fields') /\ Others' /\ (Listed' /\ Ticked') OBVIOUS
<1>2. /\ pc \notin Linking /\ pc' \notin Linking /\ Instr /\ frames = <<>> /\ frames' = <<>>
      /\ UNCHANGED <<slot, handles, idle, scan_code_buf, irq, tick, timer_requests>>
      /\ letter_pressed' \subseteq Letters
  <2> USE DEF Main, Linking, Others, game, hist
  <2>1. CASE WaitIntr BY <2>1 DEF WaitIntr, Hlt
  <2>2. CASE LoopCli BY <2>2 DEF LoopCli, Cli
  <2>3. CASE Test BY <2>3 DEF Test, control
  <2>4. CASE StiContinue BY <2>4 DEF StiContinue, Sti
  <2>5. CASE LoopSti BY <2>5 DEF LoopSti, Sti
  <2>6. CASE KeyCli BY <2>6 DEF KeyCli, Cli
  <2>7. CASE ScanHit BY <2>7 DEF ScanHit, control, Released
  <2>8. CASE ScanEnd BY <2>8 DEF ScanEnd, KeySti, Sti
  <2>9. CASE PlayEnd BY <2>9 DEF PlayEnd, control
  <2>10. CASE \E t \in Letters : CreateNewLetter(t) BY <2>10 DEF CreateNewLetter, control, Released
  <2>11. CASE NoLetter BY <2>11 DEF NoLetter, control
  <2>12. CASE UpdateLetterPos BY <2>12 DEF UpdateLetterPos, control
  <2>13. CASE TickPlayed BY <2>13 DEF TickPlayed, control
  <2> QED BY <2>1, <2>2, <2>3, <2>4, <2>5, <2>6, <2>7, <2>8, <2>9, <2>10, <2>11, <2>12, <2>13
          DEF MainLoop
<1>3. Others' BY <1>2, OthersInstr DEF Instr
<1>4. Listed' /\ Ticked' BY <1>2, ListsKept DEF slot
<1>5. Flights' /\ Fields'
  <2>0. tick \in Nat /\ target \in 0..tick
    BY FlightsSound
  <2>1. ASSUME UNCHANGED <<game, hist>>, pc # "update", pc' # "update" PROVE Flights' /\ Fields'
    <3>1. UNCHANGED <<pool, head, fly, it, hit, miss, now, created, tick, target>>
      BY <2>1 DEF game, list, score, hist
    <3>2. Flights' BY <2>0, <2>1, <3>1, FlightsKept
    <3> QED BY <3>1, <3>2 DEF Fields
  <2>2. CASE WaitIntr BY <2>1, <2>2 DEF WaitIntr, Main
  <2>3. CASE LoopCli BY <2>1, <2>3 DEF LoopCli, Main
  <2>4. CASE Test
    <3>1. /\ UNCHANGED <<pool, head, fly, it, hit, miss, now, created, tick>>
          /\ target' \in {target, tick} /\ pc # "update" /\ pc' # "update"
      BY <2>4 DEF Test, list, score, hist
    <3>2. Flights' BY <2>0, <3>1, FlightsKept
    <3> QED BY <3>1, <3>2 DEF Fields
  <2>5. CASE StiContinue BY <2>1, <2>5 DEF StiContinue, Main
  <2>6. CASE LoopSti BY <2>1, <2>6 DEF LoopSti, Main
  <2>7. CASE KeyCli BY <2>1, <2>7 DEF KeyCli, Main
  <2>8. CASE ScanHit BY <2>8, LetterShot
  <2>9. CASE ScanEnd BY <2>1, <2>9 DEF ScanEnd, Main
  <2>10. CASE PlayEnd BY <2>1, <2>10 DEF PlayEnd, Main
  <2>11. CASE \E t \in Letters : CreateNewLetter(t) BY <2>11, LetterCreated
  <2>12. CASE NoLetter BY <2>12, NoneNew
  <2>13. CASE UpdateLetterPos BY <2>13, LetterUpdated
  <2>14. CASE TickPlayed BY <2>14, LettersMoved
  <2> QED BY <2>2, <2>3, <2>4, <2>5, <2>6, <2>7, <2>8, <2>9, <2>10, <2>11, <2>12, <2>13, <2>14
          DEF MainLoop
<1> QED BY <1>3, <1>4, <1>5

LEMMA SoundRegister ==
  ASSUME IInv, SInv, Register
  PROVE  SInv'
<1> USE DEF SInv, Calling
<1>1. /\ pc # "update" /\ pc' # "update" /\ turn' = "devices"
      /\ UNCHANGED <<slot, idle, scan_code_buf, game, hist>>
  BY DEF Register, Syscall, SysCli, SysLink, SysSti, SysReturn, Main, InCall, Instr, Iret
<1>2. UNCHANGED <<pool, head, fly, it, hit, miss, now, created, tick, target, letter_pressed, timer_requests>>
  BY <1>1 DEF game, list, score, hist
<1>3. tick \in Nat /\ target \in 0..tick BY FlightsSound
<1>4. Flights' /\ Fields'
  <2>1. Flights' BY <1>1, <1>2, <1>3, FlightsKept
  <2> QED BY <1>2, <2>1 DEF Fields
<1>5. Others' BY <1>1, <1>2, OthersInstr DEF Others
<1>6. Listed' /\ Ticked'
  <2>1. CASE Syscall
    <3>1. Main("int80", "cli") /\ Int80 /\ UNCHANGED <<slot, handles, irq>> BY <2>1 DEF Syscall
    <3>2. frames = <<>> /\ eflags_IF = TRUE
      <4>1. frames = <<>> /\ frames = Own(pc) /\ pc = "int80" BY <3>1 DEF Main, Own
      <4> QED BY <4>1, Running DEF OffPcs, IInv, Types
    <3>3. frames' = <<Call>>
      <4>1. frames' = <<Call>> \o <<>> BY <3>1, <3>2 DEF Int80, Call
      <4> QED BY <4>1
    <3> QED BY <1>1, <1>2, <3>1, <3>2, <3>3, ListsKept DEF Main, Linking, slot
  <2>2. CASE SysCli
    <3>1. InCall("cli", "link") /\ Cli /\ UNCHANGED <<handles, irq>> BY <2>2 DEF SysCli
    <3>2. frames = <<Call>> /\ pc = "cli" /\ pc' = "link" BY <3>1, InsideCall
    <3>3. frames' = <<Call>> BY <3>1, <3>2 DEF Cli
    <3> QED BY <1>1, <1>2, <3>1, <3>2, <3>3, ListsKept DEF Linking, slot
  <2>3. CASE SysLink
    <3>1. InCall("link", "sti") /\ AddIrqHandle(irq, Routine) /\ UNCHANGED <<control, irq>>
      BY <2>3 DEF SysLink
    <3>2. frames = <<Call>> /\ frames' = <<Call>> /\ pc = "link" /\ pc' = "sti"
      <4>1. frames = <<Call>> /\ pc = "link" /\ pc' = "sti" BY <3>1, InsideCall
      <4> QED BY <3>1, <4>1 DEF control
    <3>3. Owed = 0 /\ Owed' = 0 /\ Head(frames').f = <<>> BY <3>2, NoneOwed, NoneOwedNext
    <3>4. /\ handles \in [HardIrqs -> Seq(Routines)] /\ irq \in {TIMER_IRQ, KEYBOARD_IRQ}
          /\ handles' = [handles EXCEPT ![irq] = <<Routine>> \o @]
      BY <3>1 DEF AddIrqHandle, IInv, Types
    <3>5. CASE irq = TIMER_IRQ
      <4>1. handles[TIMER_IRQ] = <<"ide_writeback">> BY <3>2, <3>5 DEF Listed
      <4>2. handles'[TIMER_IRQ] = <<"timer_event">> \o <<"ide_writeback">> /\ handles'[KEYBOARD_IRQ] = handles[KEYBOARD_IRQ]
        BY <3>4, <3>5, <4>1 DEF Routine
      <4>3. handles'[TIMER_IRQ] = Both BY <4>2, Pair DEF Both
      <4>4. tick = 0 /\ timer_requests \in 0..MaxTick BY <4>1, Routes, TypingAssumption DEF Ticked
      <4>5. Slotted' \in {0, 1} BY DEF Slotted
      <4>6. Ticked'
        <5>1. tick' = 0 /\ Owed' = 0 /\ timer_requests' \in 0..MaxTick /\ timer_requests' \in Nat
          BY <1>2, <3>3, <4>4, TypingAssumption
        <5>2. PICK k \in {0, 1} : k = Slotted' BY <4>5
        <5>4. PICK r \in Nat : r = timer_requests' BY <5>1
        <5>5. 0 + 0 + k <= r + 1 OBVIOUS
        <5>3. tick' + Owed' + Slotted' <= timer_requests' + 1 BY <5>1, <5>2, <5>4, <5>5
        <5> QED BY <4>3, <5>1, <5>3 DEF Ticked, Both
      <4>7. Listed' BY <3>2, <3>3, <4>2, <4>3 DEF Listed, Both, Keys
      <4> QED BY <4>6, <4>7
    <3>6. CASE irq = KEYBOARD_IRQ
      <4>1. handles'[KEYBOARD_IRQ] = <<"keyboard_event">> \o handles[KEYBOARD_IRQ]
            /\ handles'[TIMER_IRQ] = handles[TIMER_IRQ]
        BY <3>4, <3>6 DEF Routine
      <4>2. handles'[KEYBOARD_IRQ] \in Keys
        <5>1. <<"keyboard_event">> \in Keys /\ handles[KEYBOARD_IRQ] \in Keys BY DEF Listed, Keys
        <5> QED BY <4>1, <5>1, ConcatProperties DEF Keys
      <4>3. Listed' BY <3>1, <3>2, <3>3, <3>6, <4>1, <4>2 DEF Listed, Both, Keys
      <4>4. Slotted' = Slotted BY <1>1 DEF Slotted, slot
      <4>5. Ticked' BY <1>2, <3>3, <4>1, <4>4 DEF Ticked, Both
      <4> QED BY <4>3, <4>5
    <3> QED BY <3>4, <3>5, <3>6
  <2>4. CASE SysSti
    <3>1. InCall("sti", "iret") /\ Sti /\ UNCHANGED <<handles, irq>> BY <2>4 DEF SysSti
    <3>2. frames = <<Call>> /\ pc = "sti" /\ pc' = "iret" BY <3>1, InsideCall
    <3>3. frames' = <<Call>> BY <3>1, <3>2 DEF Sti
    <3> QED BY <1>1, <1>2, <3>1, <3>2, <3>3, ListsKept DEF Linking, slot
  <2>5. CASE SysReturn
    <3>1. InCall("iret", pc') /\ Iret /\ irq' = KEYBOARD_IRQ /\ UNCHANGED handles
      BY <2>5 DEF SysReturn, InCall, Iret
    <3>2. frames = <<Call>> /\ pc = "iret" BY <3>1, InsideCall
    <3>3. frames' = <<>>
      <4>1. frames' = Tail(<<Call>>) BY <3>1, <3>2 DEF Iret
      <4> QED BY <4>1
    <3> QED BY <1>1, <1>2, <3>1, <3>2, <3>3, ListsKept DEF Linking, slot
  <2> QED BY <2>1, <2>2, <2>3, <2>4, <2>5 DEF Register
<1> QED BY <1>4, <1>5, <1>6

\* The handlers that are left when one has been called.
LEMMA CalledTail ==
  ASSUME IInv, frames # <<>>, Head(frames).f # <<>>, Called
  PROVE  frames' # <<>> /\ Head(frames').f = Tail(Head(frames).f)
<1>1. PICK fr \in HandlerFrame : frames = Under(fr, pc) BY InsideHandler
<1> DEFINE g == [fr EXCEPT !.f = Tail(fr.f)]
<1>2. frames' = Under(g, pc)
  <2>1. frames' = [frames EXCEPT ![1].f = Tail(@)] BY DEF Called
  <2>2. frames[1].f = fr.f BY <1>1, Frames
  <2>3. frames' = [Under(fr, pc) EXCEPT ![1].f = Tail(fr.f)] BY <1>1, <2>1, <2>2
  <2> QED BY <2>3, FrameCalled
<1>3. g.f = Tail(fr.f) BY DEF HandlerFrame
<1>4. Head(frames) = fr BY <1>1, Frames
<1> HIDE DEF g
<1>5. Head(frames') = g /\ frames' # <<>>
  <2>1. Head(Under(g, pc)) = g BY Frames
  <2>2. Under(g, pc) # <<>>
    <3>1. CASE pc \in Calling BY <3>1 DEF Under
    <3>2. CASE pc \notin Calling BY <3>2 DEF Under
    <3> QED BY <3>1, <3>2
  <2> QED BY <1>2, <2>1, <2>2
<1> QED BY <1>3, <1>4, <1>5

LEMMA SoundHandler ==
  ASSUME IInv, SInv, Handler
  PROVE  SInv'
<1> USE DEF SInv
<1> DEFINE s == Head(frames).f
<1>0. tick \in Nat /\ target \in 0..tick BY FlightsSound
<1>1. /\ turn' = "devices" /\ UNCHANGED <<slot, handles, idle, scan_code_buf, pc, irq, now, target, list, score,
                                          events, timer_requests, created>>
      /\ letter_pressed' \subseteq Letters /\ tick' \in {tick, tick + 1}
  <2> USE DEF Others, game, hist
  <2>1. CASE TimerEvent BY <2>1 DEF TimerEvent, Instr
  <2>2. CASE KeyboardEvent BY <2>2 DEF KeyboardEvent, Instr
  <2>3. CASE IdeWriteback BY <2>3 DEF IdeWriteback, Instr
  <2>4. CASE HandlerEnd BY <2>4 DEF HandlerEnd, Iret, Instr
  <2> QED BY <2>1, <2>2, <2>3, <2>4 DEF Handler
<1>2. Others' BY <1>1, OthersInstr
<1>3. Flights' /\ Fields'
  <2>1. UNCHANGED <<pool, head, fly, it, hit, miss, now, created, target, pc>>
    BY <1>1 DEF list, score
  <2>2. tick' \in Nat /\ tick <= tick' /\ target' \in 0..tick' BY <1>0, <1>1
  <2>3. Flights' BY <2>1, <2>2, FlightsKept
  <2> QED BY <2>1, <2>3 DEF Fields
<1>4. Slotted' = Slotted /\ Slotted \in {0, 1} BY <1>1 DEF Slotted, slot
<1>5. Listed' /\ Ticked'
  <2>1. CASE TimerEvent
    <3>1. frames # <<>> /\ s # <<>> /\ Head(s) = "timer_event" /\ Called /\ tick' = tick + 1
      BY <2>1 DEF TimerEvent, InHandler
    <3>2. s = Both BY <3>1, Routes DEF Listed
    <3>3. frames' # <<>> /\ Head(frames').f = <<"ide_writeback">> BY <3>1, <3>2, CalledTail, Routes
    <3>4. Owed = 1 /\ Owed' = 0
      <4>1. Owed = 1 BY <3>1, <3>2 DEF Owed
      <4>2. Owed' = IF Head(frames').f = Both THEN 1 ELSE 0 BY <3>3 DEF Owed, Both
      <4> QED BY <3>3, <4>1, <4>2, Routes
    <3>5. handles[TIMER_IRQ] = Both /\ tick + Owed + Slotted <= timer_requests + 1 BY <3>4 DEF Ticked
    <3>6. Ticked'
      <4>1. tick' + Owed' + Slotted' = tick + Owed + Slotted BY <1>0, <1>4, <3>1, <3>4
      <4>2. tick' + Owed' + Slotted' <= timer_requests' + 1 BY <1>1, <3>5, <4>1
      <4> QED BY <1>1, <3>5, <4>2 DEF Ticked, Both
    <3>7. Listed' BY <1>1, <3>3 DEF Listed, Both, Keys
    <3> QED BY <3>6, <3>7
  <2>2. CASE ~TimerEvent
    <3>1. tick' = tick /\ (frames' # <<>> => Head(frames').f \in {<<"ide_writeback">>, <<>>} \cup Keys)
      <4>1. ASSUME frames # <<>>, s # <<>>, Called, Head(s) # "timer_event"
            PROVE  frames' # <<>> => Head(frames').f \in {<<"ide_writeback">>, <<>>} \cup Keys
        <5>1. Head(frames').f = Tail(s) BY <4>1, CalledTail
        <5>2. s \in {Both, <<"ide_writeback">>, <<>>} \cup Keys /\ s # Both BY <4>1, Routes DEF Listed
        <5> QED BY <4>1, <5>1, <5>2, Routes
      <4>2. CASE KeyboardEvent BY <4>1, <4>2 DEF KeyboardEvent, InHandler
      <4>3. CASE IdeWriteback BY <4>1, <4>3 DEF IdeWriteback, InHandler, game
      <4>4. CASE HandlerEnd
        <5>1. frames # <<>> /\ Head(frames).irq # SYSCALL /\ frames' = Tail(frames) /\ tick' = tick
          BY <4>4 DEF HandlerEnd, Iret, game
        <5>2. PICK fr \in HandlerFrame : frames = Under(fr, pc) BY <5>1, InsideHandler
        <5>3. frames' \in {<<>>, <<Call>>}
          <6>1. Tail(frames) = Own(pc) BY <5>2, Frames
          <6> QED BY <5>1, <6>1 DEF Own
        <5> QED BY <5>1, <5>3, NoneOwedNext
      <4> QED BY <2>2, <4>2, <4>3, <4>4 DEF Handler
    <3>2. Owed' = 0
      <4>1. Owed' = IF frames' # <<>> /\ Head(frames').f = Both THEN 1 ELSE 0 BY DEF Owed, Both
      <4> QED BY <3>1, <4>1, Routes
    <3>3. Owed \in {0, 1} BY DEF Owed
    <3>4. handles[TIMER_IRQ] = Both => tick' + Owed' + Slotted' <= timer_requests' + 1
      <4>1. ASSUME handles[TIMER_IRQ] = Both PROVE tick' + Owed' + Slotted' <= timer_requests' + 1
        <5>1. tick + Owed + Slotted <= timer_requests + 1 /\ timer_requests \in Nat
          BY <4>1, TypingAssumption DEF Ticked
        <5>2. PICK x, y : x = Owed /\ y = Slotted OBVIOUS
        <5>3. tick + 0 + y <= timer_requests + 1 BY <1>0, <1>4, <3>3, <5>1, <5>2
        <5> QED BY <1>1, <1>4, <3>1, <3>2, <5>2, <5>3
      <4> QED BY <4>1
    <3>5. Ticked' BY <1>1, <3>1, <3>2, <3>4 DEF Ticked, Both
    <3>6. Listed' BY <1>1, <3>1 DEF Listed, Both, Keys
    <3> QED BY <3>5, <3>6
  <2> QED BY <2>1, <2>2
<1> QED BY <1>2, <1>3, <1>5

LEMMA SoundDevices ==
  ASSUME IInv, SInv, NEW timer \in BOOLEAN, NEW codes \in Polls, Devices(timer, codes)
  PROVE  SInv'
<1> USE DEF SInv
<1>0. PICK key, s1, s2, pending :
        /\ key = (codes # <<>>)
        /\ s1 = IF timer THEN Raised(i8259_intr_no, TIMER_IRQ) ELSE i8259_intr_no
        /\ s2 = IF key THEN Raised(s1, KEYBOARD_IRQ) ELSE s1
        /\ pending = (intr \/ timer \/ key)
  OBVIOUS
<1>1. /\ UNCHANGED <<handles, pc, irq, game, created>>
      /\ turn' = "cpu"
      /\ idle' = [d \in Polled |-> IdleAfter(d, IF d = TIMER_IRQ THEN timer ELSE key)]
      /\ requests' \in {{}, requests \cup (IF timer THEN {TIMER_IRQ} ELSE {}) \cup (IF key THEN {KEYBOARD_IRQ} ELSE {})}
      /\ scan_code_buf' = IF codes = <<>> THEN scan_code_buf ELSE codes[Len(codes)]
      /\ timer => timer_requests < MaxTick
      /\ timer_requests' = timer_requests + (IF timer /\ Len(handles[TIMER_IRQ]) = 2 THEN 1 ELSE 0)
      /\ \/ /\ i8259_intr_no' = NoIntr /\ pending /\ eflags_IF
            /\ frames' = <<[irq |-> s2, saved |-> eflags_IF, f |-> handles[s2]]>> \o frames
         \/ i8259_intr_no' = s2 /\ frames' = frames
  BY <1>0 DEF Devices, Turn, control
<1>2. UNCHANGED <<pool, head, fly, it, hit, miss, now, created, target, pc, tick, letter_pressed, irq, handles>>
  BY <1>1 DEF game, list, score
<1>3. tick \in Nat /\ target \in 0..tick BY FlightsSound
<1>4. Flights' /\ Fields'
  <2>1. Flights' BY <1>2, <1>3, FlightsKept
  <2> QED BY <1>2, <2>1 DEF Fields
<1>5. s1 \in Polled \cup {NoIntr} /\ s2 \in Polled \cup {NoIntr} /\ (pending => s2 \in Polled)
  <2>1. i8259_intr_no \in Polled \cup {NoIntr} BY DEF Others
  <2>2. s1 \in Polled \cup {NoIntr} /\ (timer => s1 \in Polled) BY <1>0, <2>1 DEF Raised
  <2>3. s2 \in Polled \cup {NoIntr} /\ (timer \/ key => s2 \in Polled) BY <1>0, <2>2 DEF Raised
  <2>4. intr => i8259_intr_no \in Polled BY <2>1 DEF IInv, Types
  <2>5. intr => s2 \in Polled BY <1>0, <2>4 DEF Raised
  <2> QED BY <1>0, <2>2, <2>3, <2>5
<1>6. Others'
  <2>1. idle' \in [Polled -> 0..Gap]
    <3>1. \A d \in Polled : idle[d] \in 0..Gap BY DEF Others
    <3>2. \A d \in Polled, x \in BOOLEAN : IdleAfter(d, x) \in 0..Gap
      <4> TAKE d \in Polled, x \in BOOLEAN
      <4>1. idle[d] \in 0..Gap /\ Gap \in Nat BY <3>1, InterruptsAssumption
      <4> QED BY <4>1 DEF IdleAfter
    <3>3. \A d \in Polled : (IF d = TIMER_IRQ THEN timer ELSE key) \in BOOLEAN BY <1>0
    <3> QED BY <1>1, <3>2, <3>3
  <2>2. requests' \subseteq HardIrqs BY <1>1 DEF Others
  <2>3. scan_code_buf' \in Codes
    <3>1. CASE codes = <<>> BY <1>1, <3>1 DEF Others
    <3>2. CASE \E c \in Codes : codes = <<c>>
      <4>1. PICK c \in Codes : codes = <<c>> BY <3>2
      <4>2. codes # <<>> /\ codes[Len(codes)] = c BY <4>1
      <4> QED BY <1>1, <4>2
    <3>3. CASE \E c, d \in Codes : codes = <<c, d>>
      <4>1. PICK c \in Codes, d \in Codes : codes = <<c, d>> BY <3>3
      <4>2. codes # <<>> /\ codes[Len(codes)] = d BY <4>1
      <4> QED BY <1>1, <4>2
    <3>4. codes = <<>> \/ (\E c \in Codes : codes = <<c>>) \/ (\E c, d \in Codes : codes = <<c, d>>)
      BY DEF Polls
    <3> QED BY <3>1, <3>2, <3>3, <3>4
  <2>4. i8259_intr_no' \in Polled \cup {NoIntr} BY <1>1, <1>5
  <2>5. letter_pressed' \subseteq Letters /\ turn' \in {"cpu", "devices"} BY <1>1, <1>2 DEF Others
  <2> QED BY <2>1, <2>2, <2>3, <2>4, <2>5 DEF Others, Codes
<1>7. Len(Both) = 2 /\ Len(<<"ide_writeback">>) = 1 BY DEF Both
<1>8. timer_requests \in Nat /\ timer_requests <= MaxTick /\ MaxTick \in Nat BY TypingAssumption DEF Ticked
<1>9. PICK raised \in {0, 1} : /\ raised = IF timer /\ handles[TIMER_IRQ] = Both THEN 1 ELSE 0
                              /\ timer_requests' = timer_requests + raised
  <2>1. handles[TIMER_IRQ] \in {Both, <<"ide_writeback">>} BY DEF Listed
  <2> HIDE DEF Both
  <2>2. Len(handles[TIMER_IRQ]) = 2 <=> handles[TIMER_IRQ] = Both BY <1>7, <2>1
  <2> QED BY <1>1, <2>2
<1>10. timer_requests' \in 0..MaxTick BY <1>1, <1>8, <1>9
\* The request in the slot at the end was there, or the timer has just raised it.
<1>11. s2 = TIMER_IRQ => i8259_intr_no = TIMER_IRQ \/ timer
  BY <1>0 DEF Raised
<1>12. Owed \in {0, 1} /\ Slotted \in {0, 1} BY DEF Owed, Slotted
<1>13. CASE i8259_intr_no' = s2 /\ frames' = frames
  <2>1. Owed' = Owed /\ Slotted' = IF s2 = TIMER_IRQ THEN 1 ELSE 0 BY <1>13 DEF Owed, Slotted, Both
  <2>2. Listed' BY <1>2, <1>13 DEF Listed, Both, Keys
  <2>3. ASSUME handles[TIMER_IRQ] = Both PROVE tick' + Owed' + Slotted' <= timer_requests' + 1
    <3>1. tick + Owed + Slotted <= timer_requests + 1 BY <2>3 DEF Ticked
    <3>2. PICK x \in {0, 1}, y \in {0, 1}, z \in {0, 1} : x = Owed /\ y = Slotted /\ z = Slotted'
      BY <1>12, <2>1
    <3>3. z <= y + raised BY <1>9, <1>11, <2>1, <2>3, <3>2 DEF Slotted
    <3>4. PICK t \in Nat, r \in Nat : t = tick /\ r = timer_requests BY <1>3, <1>8
    <3>5. t + x + y <= r + 1 BY <3>1, <3>2, <3>4
    <3>6. t + x + z <= (r + raised) + 1 BY <3>3, <3>5
    <3> QED BY <1>2, <1>9, <2>1, <3>2, <3>4, <3>6
  <2>4. Ticked' BY <1>2, <1>10, <2>1, <2>3 DEF Ticked, Both
  <2> QED BY <1>4, <1>6, <2>2, <2>4
<1>14. CASE /\ i8259_intr_no' = NoIntr /\ pending /\ eflags_IF
            /\ frames' = <<[irq |-> s2, saved |-> eflags_IF, f |-> handles[s2]]>> \o frames
  <2>1. s2 \in Polled BY <1>5, <1>14
  <2>2. frames = Own(pc) BY <1>14 DEF IInv, Masked
  <2>3. frames' # <<>> /\ Head(frames').f = handles[s2]
    <3> DEFINE fr == [irq |-> s2, saved |-> eflags_IF, f |-> handles[s2]]
    <3>1. frames' = <<fr>> \o Own(pc) /\ fr.f = handles[s2] BY <1>14, <2>2
    <3> HIDE DEF fr
    <3>2. frames' = Under(fr, pc) BY <3>1, Frames
    <3>3. Head(frames') = fr BY <3>2, Frames
    <3>4. Under(fr, pc) # <<>>
      <4>1. CASE pc \in Calling BY <4>1 DEF Under
      <4>2. CASE pc \notin Calling BY <4>2 DEF Under
      <4> QED BY <4>1, <4>2
    <3> QED BY <3>1, <3>2, <3>3, <3>4
  <2>4. Owed = 0 BY <2>2, NoneOwed DEF Own
  <2>5. Slotted' = 0 BY <1>14 DEF Slotted
  <2>6. Listed'
    <3>1. handles[s2] \in {Both, <<"ide_writeback">>, <<>>} \cup Keys BY <2>1 DEF Listed
    <3> QED BY <1>2, <2>3, <3>1 DEF Listed, Both, Keys
  <2>7. Owed' = IF handles[s2] = Both THEN 1 ELSE 0
    BY <2>3 DEF Owed, Both
  <2>8. handles[s2] = Both => s2 = TIMER_IRQ BY <2>1, Routes DEF Listed
  <2>9. ASSUME handles[TIMER_IRQ] = Both PROVE tick' + Owed' + Slotted' <= timer_requests' + 1
    <3>1. tick + Owed + Slotted <= timer_requests + 1 BY <2>9 DEF Ticked
    <3>2. PICK y \in {0, 1}, z \in {0, 1} : y = Slotted /\ z = Owed' BY <1>12, <2>7
    <3>3. z <= y + raised BY <1>9, <1>11, <2>7, <2>8, <2>9, <3>2 DEF Slotted
    <3>4. PICK t \in Nat, r \in Nat : t = tick /\ r = timer_requests BY <1>3, <1>8
    <3>5. t + 0 + y <= r + 1 BY <2>4, <3>1, <3>2, <3>4
    <3>6. t + z + 0 <= (r + raised) + 1 BY <3>3, <3>5
    <3> QED BY <1>2, <1>9, <2>5, <3>2, <3>4, <3>6
  <2>10. handles[TIMER_IRQ] # Both => tick' = 0 /\ Owed' = 0
    <3>1. handles[TIMER_IRQ] # Both => handles[s2] # Both BY <2>8
    <3> QED BY <1>2, <2>7, <3>1 DEF Ticked
  <2>11. Ticked' BY <1>2, <1>10, <2>9, <2>10 DEF Ticked, Both
  <2> QED BY <1>4, <1>6, <2>6, <2>11
<1> QED BY <1>1, <1>13, <1>14

-----------------------------------------------------------------------------

LEMMA InitSInv == Init => SInv
<1> SUFFICES ASSUME Init PROVE SInv OBVIOUS
<1>1. Flights
  <2> DEFINE b == [c \in Cells |-> 0]
  <2>1. pool = EmptyPool /\ head = NULL /\ created = 0 /\ pc = "int80" /\ hit = 0 /\ miss = 0
        /\ tick = 0 /\ now = 0 /\ target = 0
    BY DEF Init
  <2>2. Split(pool, head, <<>>, 0, <<>>, 0) BY <2>1, FirstBuilt
  <2>3. b \in [Cells -> Nat] OBVIOUS
  <2> HIDE DEF b
  <2>4. InFlight(<<>>, 0, <<>>, 0, b, 1) BY <2>1, <2>2, <2>3 DEF InFlight
  <2>5. Counted(0) BY <2>1 DEF Counted
  <2> QED BY <2>4, <2>5 DEF Flights
<1>2. Fields
  <2>1. (CHOOSE t \in Letters : TRUE) \in Letters BY TypingAssumption
  <2>2. 0 \in -Up..(Bottom + Down) BY Speeds
  <2>3. fly = [c \in Cells |-> [x |-> 0, up |-> FALSE, text |-> CHOOSE t \in Letters : TRUE]] /\ it = NULL
    BY DEF Init
  <2> QED BY <2>1, <2>2, <2>3 DEF Fields, Fly
<1>3. Others BY InterruptsAssumption DEF Init, MachineInit, Others, Codes
<1>4. frames = <<>> /\ tick = 0 /\ timer_requests = 0 /\ irq = TIMER_IRQ /\ pc = "int80"
      /\ handles[TIMER_IRQ] = <<"ide_writeback">> /\ handles[KEYBOARD_IRQ] = <<>>
  BY DEF Init, MachineInit
<1>5. Listed BY <1>4, Routes DEF Listed
<1>6. Ticked
  <2>1. Owed = 0 /\ handles[TIMER_IRQ] # Both BY <1>4, Routes DEF Owed
  <2> QED BY <1>4, <2>1, TypingAssumption DEF Ticked
<1> QED BY <1>1, <1>2, <1>3, <1>5, <1>6 DEF SInv

LEMMA SInductive == IInv /\ SInv /\ [Next]_vars => SInv'
<1> SUFFICES ASSUME IInv, SInv, [Next]_vars PROVE SInv' OBVIOUS
<1>1. CASE Register BY <1>1, SoundRegister
<1>2. CASE MainLoop BY <1>2, SoundMainLoop
<1>3. CASE Handler BY <1>3, SoundHandler
<1>4. CASE \E timer \in BOOLEAN, codes \in Polls : Devices(timer, codes)
  BY <1>4, SoundDevices
<1>5. CASE UNCHANGED vars
  <2>1. UNCHANGED <<pool, head, fly, it, hit, miss, now, created, tick, target, letter_pressed, pc, irq,
                    timer_requests, slot, frames, turn, handles, idle, scan_code_buf>>
    BY <1>5 DEF vars, machine, control, game, list, score, hist
  <2>2. tick \in Nat /\ target \in 0..tick BY FlightsSound DEF SInv
  <2>3. Flights' BY <2>1, <2>2, FlightsKept DEF SInv
  <2>4. Fields' BY <2>1 DEF SInv, Fields
  <2>5. Others' BY <2>1 DEF SInv, Others, slot, Codes
  <2>6. Listed' BY <2>1 DEF SInv, Listed, Both, Keys
  <2>7. Slotted' = Slotted /\ Owed' = Owed BY <2>1 DEF Slotted, Owed, Both, slot
  <2>8. Ticked' BY <2>1, <2>7 DEF SInv, Ticked, Both
  <2> QED BY <2>3, <2>4, <2>5, <2>6, <2>8 DEF SInv
<1> QED BY <1>1, <1>2, <1>3, <1>4, <1>5 DEF Next

\* The letters, the free elements and the ticks still owed are in order in
\* every state.
THEOREM InOrder == Spec => [](IInv /\ SInv)
<1>1. Init => IInv /\ SInv BY InitIInv, InitSInv
<1>2. (IInv /\ SInv) /\ [Next]_vars => (IInv /\ SInv)' BY Inductive, SInductive
<1> QED BY <1>1, <1>2, PTL DEF Spec

\* The entries are of their type.
LEMMA FramesTyped == IInv => frames \in Seq(Frame)
<1> SUFFICES ASSUME IInv PROVE frames \in Seq(Frame) OBVIOUS
<1>1. Call \in Frame BY DEF Call, Frame
<1>2. HandlerFrame \subseteq Frame BY DEF HandlerFrame, Frame
<1> HIDE DEF Call
<1>3. Own(pc) \in Seq(Frame) BY <1>1 DEF Own
<1>4. \A fr \in HandlerFrame : Under(fr, pc) \in Seq(Frame) BY <1>1, <1>2 DEF Under
<1> QED BY <1>3, <1>4 DEF IInv, Masked

\* A tick is counted once for each request of the timer, and for one more that
\* may have been in the slot when its handler was registered.
LEMMA TicksBounded == IInv /\ SInv => tick \in 0..(MaxTick + 1)
<1> SUFFICES ASSUME IInv, SInv PROVE tick \in 0..(MaxTick + 1) OBVIOUS
<1>1. tick \in Nat /\ MaxTick \in Nat /\ timer_requests \in 0..MaxTick
  BY FlightsSound, TypingAssumption DEF SInv, Ticked
<1>2. PICK x \in {0, 1}, y \in {0, 1} : x = Owed /\ y = Slotted
  BY DEF Owed, Slotted
<1>3. CASE handles[TIMER_IRQ] = Both
  <2>1. tick + x + y <= timer_requests + 1 BY <1>2, <1>3 DEF SInv, Ticked
  <2> QED BY <1>1, <2>1
<1>4. CASE handles[TIMER_IRQ] # Both BY <1>1, <1>4 DEF SInv, Ticked
<1> QED BY <1>3, <1>4

\* Whatever the order in which letters appear, are shot and leave the screen,
\* the elements of the pool (linklist.h) are either on the list of letters or
\* free, none lost and none in both lists; every letter created is on the
\* screen or counted; and a pool that is as large as the speeds ask for never
\* runs out (the assertion of new, linklist.h:61, called at effect.c:36 and 40).
THEOREM Sound == Spec => []PoolSound
<1>1. IInv /\ SInv => PoolSound
  <2> SUFFICES ASSUME IInv, SInv PROVE PoolSound OBVIOUS
  <2>1. /\ PoolSplit /\ LettersCounted /\ NeverExhausted
        /\ pool \in Links /\ head \in Cells \cup {NULL}
        /\ hit \in 0..created /\ miss \in 0..created
        /\ now \in 0..tick /\ target \in 0..tick
    BY FlightsSound DEF SInv
  <2>2. MachineTypeOK
    BY FramesTyped DEF IInv, Types, SInv, Others, MachineTypeOK
  <2>3. /\ DOMAIN fly = Cells /\ it \in Cells \cup {NULL}
        /\ \A c \in Cells : fly[c].x \in -Up..(Bottom + Down) /\ fly[c].text \in Letters
    BY DEF SInv, Fields, Fly
  <2>4. irq \in {TIMER_IRQ, KEYBOARD_IRQ} /\ scan_code_buf \in Codes /\ letter_pressed \subseteq Letters
    BY DEF IInv, Types, SInv, Others
  <2>5. TypeOK BY <2>1, <2>2, <2>3, <2>4, TicksBounded DEF TypeOK
  <2> QED BY <2>1, <2>5 DEF PoolSound
<1> QED BY <1>1, InOrder, PTL
=============================================================================
