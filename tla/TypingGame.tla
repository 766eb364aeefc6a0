----------------------------- MODULE TypingGame -----------------------------
(***************************************************************************)
(* The typing game of game/src/typing on the machine and the kernel of     *)
(* Interrupts: it registers its handlers with system call 0, sleeps in hlt *)
(* and plays the ticks that have passed; the timer's and the keyboard's    *)
(* handlers count ticks and note keys whenever interrupts are on.          *)
(*                                                                         *)
(* The keyboard device (nemu/src/device/dev/keyboard.c) is here: a single  *)
(* buffer for scan codes.  Positions are in units of the model: a letter   *)
(* falls by Down and, once shot, rises by Up per tick, and leaves the      *)
(* screen above 0 or beyond Bottom.  Drawing and the count of frames leave *)
(* nothing behind that the game reads, and are left out.                   *)
(***************************************************************************)
EXTENDS Interrupts, LinkList, FiniteSets

CONSTANTS Letters,       \* the letters that fall and their keys
          LetterPeriod,  \* HZ / CHARACTER_PER_SECOND
          Down, Up, Bottom,
          MaxTick,       \* bound: the timer stops raising requests
          MaxEvents      \* bound: key events

ASSUME TypingAssumption ==
         /\ LetterPeriod \in Nat \ {0} /\ Down \in Nat \ {0} /\ Up \in Nat \ {0}
         /\ Bottom \in Nat /\ MaxTick \in Nat /\ MaxEvents \in Nat
         /\ {"ide_writeback", "ide_intr", "timer_event", "keyboard_event"} \subseteq Routines
         /\ Letters # {}

\* The pool is large enough for the letters between the top of the screen and
\* the bottom, or back: of the game's 1000 elements they need 13, with a letter
\* every HZ / 3 ticks, 384 steps of 0.5 down and 64 of 3 up.
ASSUME PoolAssumption ==
         ((Bottom \div Down) + (Bottom \div Up)) \div LetterPeriod < SIZE

OtherKey == "other"      \* a key that is no letter, or the release of any key
Codes    == Letters \cup {OtherKey}

VARIABLES
  scan_code_buf,         \* the buffer of the keyboard device
  pc, irq,               \* where the game is; the request it registers
  tick,                  \* counted by timer_event()
  letter_pressed,        \* keys noted by keyboard_event() and not yet used
  now, target,           \* ticks played; ticks to play in this round
  pool, head, fly,       \* links of the letters, first letter, letters' fields
  it,                    \* the letter update_letter_pos() is at
  hit, miss

\* History, read by no action but for the bounds.
VARIABLES events,        \* key events
          timer_requests,\* the timer's since timer_event() is registered
          presses,       \* letters noted by keyboard_event()
          created, shots \* letters created, and shot

list  == <<pool, head, fly, it>>
score == <<hit, miss>>
hist  == <<events, timer_requests, presses, created, shots>>
game  == <<tick, letter_pressed, now, target, list, score>>
vars  == <<machine, scan_code_buf, pc, irq, game, hist>>

Fly == [x : Int, up : BOOLEAN, text : Letters]

-----------------------------------------------------------------------------
(* The game runs when no handler does.  Inside its system call, the entry  *)
(* of the call is the only frame.                                          *)

Main(from, to) == Instr /\ frames = <<>> /\ pc = from /\ pc' = to
InCall(from, to) == /\ Instr /\ Len(frames) = 1 /\ Head(frames).irq = SYSCALL
                    /\ pc = from /\ pc' = to

Routine == IF irq = TIMER_IRQ THEN "timer_event" ELSE "keyboard_event"

\* syscall(0, irq, handler)
Syscall ==
  /\ Main("int80", "cli") /\ Int80
  /\ UNCHANGED <<slot, handles, idle, scan_code_buf, irq, game, hist>>

\* do_syscall() for number 0: cli(), add_irq_handle(), sti().
SysCli ==
  /\ InCall("cli", "link") /\ Cli
  /\ UNCHANGED <<slot, handles, idle, scan_code_buf, irq, game, hist>>
SysLink ==
  /\ InCall("link", "sti") /\ AddIrqHandle(irq, Routine)
  /\ UNCHANGED <<slot, control, idle, scan_code_buf, irq, game, hist>>
SysSti ==
  /\ InCall("sti", "iret") /\ Sti
  /\ UNCHANGED <<slot, handles, idle, scan_code_buf, irq, game, hist>>

\* The return from the call: game_init() registers the timer's handler, then
\* the keyboard's, and enters main_loop().
SysReturn ==
  /\ Iret /\ Len(frames) = 1 /\ Head(frames).irq = SYSCALL /\ pc = "iret"
  /\ pc' = IF irq = TIMER_IRQ THEN "int80" ELSE "wait_intr"
  /\ irq' = KEYBOARD_IRQ
  /\ UNCHANGED <<scan_code_buf, game, hist>>

-----------------------------------------------------------------------------
(* main_loop()                                                             *)

WaitIntr ==
  /\ Main("wait_intr", "loop_cli") /\ Hlt
  /\ UNCHANGED <<slot, handles, idle, scan_code_buf, irq, game, hist>>

LoopCli ==
  /\ Main("loop_cli", "test") /\ Cli
  /\ UNCHANGED <<slot, handles, idle, scan_code_buf, irq, game, hist>>

\* now == tick: back to sleep.  Otherwise target = tick.
Test ==
  /\ Instr /\ frames = <<>> /\ pc = "test"
  /\ pc' = IF now = tick THEN "sti_continue" ELSE "loop_sti"
  /\ target' = IF now = tick THEN target ELSE tick
  /\ UNCHANGED <<slot, control, handles, idle, scan_code_buf, irq, tick, letter_pressed,
                 now, list, score, hist>>

StiContinue ==
  /\ Main("sti_continue", "wait_intr") /\ Sti
  /\ UNCHANGED <<slot, handles, idle, scan_code_buf, irq, game, hist>>

LoopSti ==
  /\ Main("loop_sti", "key_cli") /\ Sti
  /\ UNCHANGED <<slot, handles, idle, scan_code_buf, irq, game, hist>>

\* update_keypress()
KeyCli ==
  /\ Main("key_cli", "scan") /\ Cli
  /\ UNCHANGED <<slot, handles, idle, scan_code_buf, irq, game, hist>>

\* The letters that can be shot, by their places in the list, and the one the
\* loop finds: the lowest, and of those at the same height the first.
Targets == {i \in 1 .. ChainLen(pool, head) :
              LET f == fly[Chain(pool, head)[i]] IN ~f.up /\ f.text \in letter_pressed}
Lowest ==
  LET X(i) == fly[Chain(pool, head)[i]].x
  IN  {i \in Targets : \A j \in Targets : X(j) < X(i) \/ (X(j) = X(i) /\ i <= j)}

\* Bug: the key stays pressed after it has hit.
KeyKept(t) == letter_pressed

\* release_key()
Released(t) == letter_pressed \ {t}

\* The loop of update_keypress().  When a letter is shot the function returns
\* true with interrupts still off, and is called again.
ScanHit ==
  /\ Main("scan", "key_cli")
  /\ \E i \in Lowest :
       LET c == Chain(pool, head)[i]
       IN  /\ letter_pressed' = Released(fly[c].text)
           /\ fly' = [fly EXCEPT ![c].up = TRUE]
  /\ shots' = shots + 1
  /\ UNCHANGED <<slot, control, handles, idle, scan_code_buf, irq, tick, now, target,
                 pool, head, it, score, events, timer_requests, presses, created>>

\* Bug: the sti() is missing.
NoSti == UNCHANGED control

\* The sti() before update_keypress() returns false.
KeySti == Sti

ScanEnd ==
  /\ Main("scan", "play")
  /\ Targets = {}
  /\ KeySti
  /\ UNCHANGED <<slot, handles, idle, scan_code_buf, irq, game, hist>>

-----------------------------------------------------------------------------
(* The rounds of the simulation.                                           *)

\* now = target: the loop is over and, after drawing, the game sleeps.
PlayEnd ==
  /\ Main("play", "wait_intr")
  /\ now >= target
  /\ UNCHANGED <<slot, control, handles, idle, scan_code_buf, irq, game, hist>>

\* create_new_letter() when one is due; text is random.
CreateNewLetter(text) ==
  /\ Main("play", "update")
  /\ now < target /\ now % LetterPeriod = 0
  /\ CanNew(pool)
  /\ LET c == NewCell(pool)
         l == AfterNew(pool)
     IN  /\ pool' = IF head = NULL THEN l ELSE Insert(l, NULL, head, c)
         /\ head' = c
         /\ it' = c
         /\ fly' = [fly EXCEPT ![c] = [x |-> 0, up |-> FALSE, text |-> text]]
  /\ letter_pressed' = Released(text)
  /\ created' = created + 1
  /\ UNCHANGED <<slot, control, handles, idle, scan_code_buf, irq, tick, now, target,
                 score, events, timer_requests, presses, shots>>

NoLetter ==
  /\ Main("play", "update")
  /\ now < target /\ now % LetterPeriod # 0
  /\ it' = head
  /\ UNCHANGED <<slot, control, handles, idle, scan_code_buf, irq, tick, letter_pressed,
                 now, target, pool, head, fly, score, hist>>

Moved(f) == [f EXCEPT !.x = IF f.up THEN @ - Up ELSE @ + Down]

\* Above the screen, or below it.
Off(f) == f.x < 0 \/ f.x > Bottom

\* The head of the list after the letter at it is removed.
HeadAfter == IF it = head THEN pool.next[it] ELSE head

\* One turn of the loop of update_letter_pos().
UpdateLetterPos ==
  /\ Main("update", "update")
  /\ it # NULL
  /\ it' = pool.next[it]
  /\ LET f == Moved(fly[it])
     IN  /\ fly' = [fly EXCEPT ![it] = f]
         /\ IF Off(f)
            THEN /\ hit' = IF f.x < 0 THEN hit + 1 ELSE hit
                 /\ miss' = IF f.x < 0 THEN miss ELSE miss + 1
                 /\ pool' = Free(Remove(pool, it), it)
                 /\ head' = HeadAfter
            ELSE UNCHANGED <<pool, head, score>>
  /\ UNCHANGED <<slot, control, handles, idle, scan_code_buf, irq, tick, letter_pressed,
                 now, target, hist>>

TickPlayed ==
  /\ Main("update", "play")
  /\ it = NULL
  /\ now' = now + 1
  /\ UNCHANGED <<slot, control, handles, idle, scan_code_buf, irq, tick, letter_pressed,
                 target, list, score, hist>>

-----------------------------------------------------------------------------
(* The handlers, and the devices.                                          *)

TimerEvent ==
  /\ Instr /\ InHandler("timer_event") /\ Called
  /\ tick' = tick + 1
  /\ UNCHANGED <<slot, handles, idle, scan_code_buf, pc, irq, letter_pressed, now, target,
                 list, score, hist>>

\* keyboard_event() reads the port and press_key() notes a letter.
KeyboardEvent ==
  /\ Instr /\ InHandler("keyboard_event") /\ Called
  /\ letter_pressed' = letter_pressed \cup ({scan_code_buf} \cap Letters)
  /\ presses' = presses + (IF scan_code_buf \in Letters THEN 1 ELSE 0)
  /\ UNCHANGED <<slot, handles, idle, scan_code_buf, pc, irq, tick, now, target, list,
                 score, events, timer_requests, created, shots>>

\* The kernel's handler for the timer: see IdeDriver.
IdeWriteback ==
  /\ Instr /\ InHandler("ide_writeback") /\ Called
  /\ UNCHANGED <<slot, handles, idle, scan_code_buf, pc, irq, game, hist>>

HandlerEnd ==
  /\ Iret /\ Head(frames).irq # SYSCALL
  /\ UNCHANGED <<scan_code_buf, pc, irq, game, hist>>

\* do_keyboard() handles all the events there are: the last scan code stays.
Devices(timer, codes) ==
  /\ timer => timer_requests < MaxTick
  /\ events + Len(codes) <= MaxEvents
  /\ Turn(timer, codes # <<>>)
  /\ scan_code_buf' = IF codes = <<>> THEN scan_code_buf ELSE codes[Len(codes)]
  /\ events' = events + Len(codes)
  /\ timer_requests' = timer_requests + (IF timer /\ Len(handles[TIMER_IRQ]) = 2 THEN 1 ELSE 0)
  /\ UNCHANGED <<pc, irq, game, presses, created, shots>>

Polls == {<<>>} \cup {<<c>> : c \in Codes} \cup {<<c, d>> : c, d \in Codes}

-----------------------------------------------------------------------------

Init ==
  /\ MachineInit([i \in HardIrqs |-> CASE i = TIMER_IRQ -> <<"ide_writeback">>
                                        [] i = IDE_IRQ -> <<"ide_intr">>
                                        [] OTHER -> <<>>])
  /\ scan_code_buf = OtherKey
  /\ pc = "int80" /\ irq = TIMER_IRQ
  /\ tick = 0 /\ letter_pressed = {}
  /\ now = 0 /\ target = 0
  /\ pool = EmptyPool /\ head = NULL /\ it = NULL
  /\ fly = [c \in Cells |-> [x |-> 0, up |-> FALSE, text |-> CHOOSE t \in Letters : TRUE]]
  /\ hit = 0 /\ miss = 0
  /\ events = 0 /\ timer_requests = 0 /\ presses = 0 /\ created = 0 /\ shots = 0

Register == Syscall \/ SysCli \/ SysLink \/ SysSti \/ SysReturn

MainLoop == \/ WaitIntr \/ LoopCli \/ Test \/ StiContinue \/ LoopSti
            \/ KeyCli \/ ScanHit \/ ScanEnd
            \/ PlayEnd \/ (\E t \in Letters : CreateNewLetter(t)) \/ NoLetter
            \/ UpdateLetterPos \/ TickPlayed

Handler == TimerEvent \/ KeyboardEvent \/ IdeWriteback \/ HandlerEnd

Next == \/ Register \/ MainLoop \/ Handler
        \/ \E timer \in BOOLEAN, codes \in Polls : Devices(timer, codes)

Spec == Init /\ [][Next]_vars

-----------------------------------------------------------------------------

\* The loop of exec() never stops turning, and the timer keeps firing:
\* do_timer() looks at the clock of the host at every turn.
Fairness == /\ WF_vars(Next)
            /\ SF_vars(\E codes \in Polls : Devices(TRUE, codes))

LiveSpec == Spec /\ Fairness

-----------------------------------------------------------------------------

\* Types of the variables.
TypeOK ==
  /\ MachineTypeOK
  /\ scan_code_buf \in Codes
  /\ irq \in {TIMER_IRQ, KEYBOARD_IRQ}
  /\ tick \in 0 .. MaxTick + 1 /\ now \in 0 .. tick /\ target \in 0 .. tick
  /\ letter_pressed \subseteq Letters
  /\ pool \in Links
  /\ head \in Cells \cup {NULL} /\ it \in Cells \cup {NULL}
  /\ DOMAIN fly = Cells
  /\ \A c \in Cells : fly[c].x \in -Up .. Bottom + Down /\ fly[c].text \in Letters
  /\ hit \in 0 .. created /\ miss \in 0 .. created

\* The letters on the screen and the free ones are two chains that end, have
\* no element in common and together hold the whole pool.
PoolSplit ==
  LET onScreen == ChainCells(pool, head)
      free     == ChainCells(pool, pool.free_head)
  IN  /\ WellLinked(pool, head)
      /\ Step(pool, pool.free_head)[SIZE + 1] = NULL
      /\ onScreen \cap free = {}
      /\ created > 0 => onScreen \cup free = Cells

\* Every letter created is on the screen, or has been counted as hit or miss.
LettersCounted == hit + miss + ChainLen(pool, head) = created

\* The pool is large enough for the letters of the slowest game: the
\* assertion of fly_new() never fails.
NeverExhausted ==
  pc = "play" /\ now < target /\ now % LetterPeriod = 0 => CanNew(pool)

\* The pool is used soundly through every order in which letters appear, are hit
\* and are missed: nothing is lost, shared or counted twice, and it never runs out.
PoolSound == TypeOK /\ PoolSplit /\ LettersCounted /\ NeverExhausted

\* No handler runs between cli() and sti(), in the kernel or in the game: the
\* list of handlers is linked, ticks are compared and a letter is chosen and
\* its key released undisturbed.  And a handler interrupts the game or its
\* system call, never another handler.
Exclusion ==
  /\ pc \in {"link", "sti", "test", "sti_continue", "loop_sti", "scan"} =>
       /\ ~eflags_IF
       /\ Len(frames) = IF pc \in {"link", "sti"} THEN 1 ELSE 0
  /\ \A i \in DOMAIN frames : frames[i].irq # SYSCALL => i = 1 /\ ~eflags_IF
  /\ Len(frames) <= 2

\* A key shoots at most one letter each time it is pressed.
OneShotPerPress == shots <= presses

\* Every tick is played, as long as the timer goes on: a tick that comes just
\* before hlt waits for the next request, and no longer.  (MaxEvents requests
\* of the timer may be lost to the keyboard's, and the last one wakes.)
KeepsUp == \A k \in 1 .. MaxTick - MaxEvents - 1 : tick >= k ~> now >= k
=============================================================================
