----------------------------- MODULE IdeProofs ------------------------------
(***************************************************************************)
(* Proofs about IdeDriver.tla, for every disk, every size of sector and of *)
(* sector cache and every rate of interrupts: handlers are not nested, the *)
(* kernel never sleeps in hlt waiting for the disk, and every answer is    *)
(* the sector asked for.                                                   *)
(*                                                                         *)
(* The argument.  IF is off exactly while a handler runs (Masked), so only *)
(* a turn of the main thread can take a request.  The disk's request is    *)
(* a token: from the command to the end of the wait it is in one place,    *)
(* the controller, the handler or the flag, and elsewhere it is in none    *)
(* (Token).  The data phase copies the sector word by word (Copying), and  *)
(* the rest of the sector cache stays correct.                             *)
(***************************************************************************)
EXTENDS IdeDriver, TLAPS

USE InterruptsAssumption, IdeAssumption
    DEF TIMER_IRQ, KEYBOARD_IRQ, IDE_IRQ, SYSCALL, HardIrqs, NoIntr, Polled

-----------------------------------------------------------------------------
(* The inductive invariant.                                                *)

\* The lists of handlers, as far as the kernel has registered them.
Lists ==
  handles = [i \in HardIrqs |->
     IF i = TIMER_IRQ /\ pc # "init_ide_0" THEN <<"ide_writeback">>
     ELSE IF i = IDE_IRQ /\ pc \notin {"init_ide_0", "init_ide_14"} THEN <<"ide_intr">>
     ELSE <<>>]

\* The entry of a handler: what it has left to call, and the IF it restores.
HandlerFrame == [irq : HardIrqs, saved : {TRUE},
                 f : {<<>>, <<"ide_writeback">>, <<"ide_intr">>}]

\* IF is off exactly while a handler runs, and the processor does not wait.
Masked ==
  /\ \/ frames = <<>> /\ eflags_IF = TRUE
     \/ eflags_IF = FALSE /\ \E fr \in HandlerFrame : frames = <<fr>>
  /\ is_nemu_hlt = FALSE

\* The places where the request of the disk can be.
InSlot  == i8259_intr_no = IDE_IRQ
InFrame == frames # <<>> /\ frames[1].f = <<"ide_intr">>

Token ==
  /\ pc = "wait_ide_intr" =>
       /\ InSlot \/ InFrame \/ has_ide_intr
       /\ ~(InSlot /\ InFrame) /\ ~(InSlot /\ has_ide_intr) /\ ~(InFrame /\ has_ide_intr)
       /\ InSlot => turn = "devices" /\ frames = <<>>
  /\ pc = "clear_again" => ~InSlot /\ ~InFrame
  /\ pc \notin {"wait_ide_intr", "clear_again"} => ~InSlot /\ ~InFrame /\ ~has_ide_intr

\* What the main thread has done of the read it is at.
Copied(n) == \A k \in 1 .. n : cache[Slot(want)].content[k] = Disk[want][k]
Copying ==
  /\ pc # "wait_intr"
  /\ pc \in {"init_ide_0", "init_ide_14", "read_byte"} <=> want = None
  /\ pc = "return" => Hit(want)
  /\ pc = "issue_read" => port_sector = want
  /\ pc \in {"wait_ide_intr", "clear_again", "in_long", "fetched"} => sector = want
  /\ pc \in {"wait_ide_intr", "clear_again"} => word_cnt = 0
  /\ pc = "in_long" => word_cnt < SectorWords /\ Copied(word_cnt)
  /\ pc = "fetched" => Copied(SectorWords)

IInv == /\ TypeOK /\ SlotIsHighest
        /\ Lists /\ Masked /\ Token /\ Copying
        /\ CacheCorrect

-----------------------------------------------------------------------------
(* Lemmas about data.                                                      *)

\* The entry of the sector cache for a sector is one of its entries.
LEMMA SlotRange ==
  ASSUME NEW s \in Sectors
  PROVE  Slot(s) \in Slots
<1>1. \A a \in Nat, n \in Nat \ {0} : a % n \in 0 .. n - 1
  OBVIOUS
<1>2. s \in Nat
  OBVIOUS
<1> QED BY <1>1, <1>2 DEF Slot, Slots

\* The entries of handlers are entries.
LEMMA FrameTypes ==
  /\ \A fr \in HandlerFrame : <<fr>> \in Seq(Frame) /\ Head(<<fr>>) = fr /\ Tail(<<fr>>) = <<>>
  /\ <<>> \in Seq(Frame)
<1>1. <<>> \in Seq(Routines) /\ <<"ide_intr">> \in Seq(Routines)
      /\ <<"ide_writeback">> \in Seq(Routines)
  OBVIOUS
<1>2. \A fr \in HandlerFrame : fr \in Frame
  BY <1>1 DEF HandlerFrame, Frame
<1> QED BY <1>2

\* The lists of handlers are those of registered routines.
LEMMA ListTypes == Lists => handles \in [HardIrqs -> Seq(Routines)]
<1>1. <<>> \in Seq(Routines) /\ <<"ide_intr">> \in Seq(Routines)
      /\ <<"ide_writeback">> \in Seq(Routines)
  OBVIOUS
<1> QED BY <1>1 DEF Lists

\* The slot after a request: the higher of two requests.
LEMMA RaisedFacts ==
  ASSUME NEW no \in HardIrqs \cup {NoIntr}, NEW i \in HardIrqs
  PROVE  /\ Raised(no, i) \in {no, i} /\ Raised(no, i) \in HardIrqs
         /\ i <= Raised(no, i) /\ no <= Raised(no, i)
         /\ i # IDE_IRQ => (Raised(no, i) = IDE_IRQ <=> no = IDE_IRQ)
         /\ i = IDE_IRQ => Raised(no, i) = IDE_IRQ
BY DEF Raised

-----------------------------------------------------------------------------

\* The initial states satisfy the invariant.
LEMMA InitInv == Init => IInv
<1> SUFFICES ASSUME Init PROVE IInv
  OBVIOUS
<1>0. /\ handles = [i \in HardIrqs |-> <<>>] /\ frames = <<>> /\ pc = "init_ide_0"
      /\ idle = [d \in Polled |-> Gap]
  BY DEF Init, MachineInit
<1>a. /\ i8259_intr_no = NoIntr /\ intr = FALSE /\ requests = {}
      /\ eflags_IF = TRUE /\ is_nemu_hlt = FALSE /\ turn = "cpu"
  BY DEF Init, MachineInit
<1>c. /\ sector = 0 /\ word_cnt = 0 /\ port_sector = 0 /\ has_ide_intr = FALSE
      /\ want = None /\ answer = None /\ \A i \in Slots : cache[i].used = FALSE
  BY DEF Init
<1>1. Lists
  <2>1. \A i \in HardIrqs : handles[i] = <<>>
    BY <1>0
  <2> QED BY <1>0, <2>1 DEF Lists
<1>b. idle \in [Polled -> 0 .. Gap]
  BY <1>0
<1>2. MachineTypeOK
  BY <1>0, <1>a, <1>b, <1>1, FrameTypes, ListTypes DEF MachineTypeOK
<1>3. cache \in [Slots -> Entry]
  BY DEF Init, Entry, Blank
<1>4. TypeOK
  <2>1. sector \in Sectors \cup {0} /\ port_sector \in Sectors \cup {0}
    BY <1>c
  <2>2. word_cnt \in 0 .. SectorWords
    BY <1>c
  <2>3. pc \in Pcs
    BY <1>0 DEF Pcs
  <2>4. /\ has_ide_intr \in BOOLEAN /\ want \in Sectors \cup {None}
        /\ answer \in [1 .. SectorWords -> Word] \cup {None}
    BY <1>c
  <2> QED BY <1>2, <1>3, <2>1, <2>2, <2>3, <2>4 DEF TypeOK
<1>5. SlotIsHighest
  BY <1>a DEF SlotIsHighest
<1>6. Masked
  BY <1>0, <1>a DEF Masked
<1>7. Token
  BY <1>0, <1>a, <1>c DEF Token, InSlot, InFrame
<1>8. Copying
  BY <1>0, <1>c DEF Copying
<1>9. CacheCorrect
  BY <1>c DEF CacheCorrect
<1> QED BY <1>1, <1>4, <1>5, <1>6, <1>7, <1>8, <1>9 DEF IInv
-----------------------------------------------------------------------------
(* The steps of the main thread.                                           *)

\* An instruction of the main thread that leaves the machine alone.
LEMMA QuietMachine ==
  ASSUME IInv, turn' = "devices", frames = <<>>,
         UNCHANGED <<slot, control, handles, idle>>,
         pc \notin {"init_ide_0", "init_ide_14"}, pc' \notin {"init_ide_0", "init_ide_14"}
  PROVE  /\ MachineTypeOK' /\ SlotIsHighest' /\ Lists' /\ Masked'
         /\ InSlot' <=> InSlot
         /\ ~InFrame /\ ~InFrame'
<1>1. /\ UNCHANGED <<i8259_intr_no, intr, requests, eflags_IF, is_nemu_hlt, frames, handles, idle>>
      /\ MachineTypeOK /\ SlotIsHighest /\ Lists /\ Masked
  BY DEF slot, control, IInv, TypeOK
<1>2. MachineTypeOK'
  BY <1>1 DEF MachineTypeOK
<1>3. SlotIsHighest'
  BY <1>1 DEF SlotIsHighest
<1>4. Lists'
  BY <1>1 DEF Lists
<1>5. Masked'
  BY <1>1 DEF Masked
<1> QED BY <1>1, <1>2, <1>3, <1>4, <1>5 DEF InSlot, InFrame

\* init_ide() registers the two handlers.
LEMMA InitIdeStep == ASSUME IInv, InitTimer \/ InitDisk PROVE IInv'
<1>1. /\ frames = <<>> /\ turn' = "devices"
      /\ UNCHANGED <<slot, control, idle, device, has_ide_intr, cache, want, answer>>
      /\ pc \in {"init_ide_0", "init_ide_14"} /\ pc' \in {"init_ide_14", "read_byte"}
  BY DEF InitTimer, InitDisk, InitIde, Main, Instr
<1>2. /\ UNCHANGED <<i8259_intr_no, intr, requests, eflags_IF, is_nemu_hlt, frames, idle>>
      /\ UNCHANGED <<sector, word_cnt, port_sector, has_ide_intr, cache, want, answer>>
  BY <1>1 DEF slot, control, device
<1>3. TypeOK /\ MachineTypeOK /\ SlotIsHighest /\ Lists /\ Masked /\ Token /\ Copying /\ CacheCorrect
  BY DEF IInv, TypeOK
<1>4. Lists'
  <2>1. CASE InitTimer
    <3>1. /\ pc = "init_ide_0" /\ pc' = "init_ide_14"
          /\ handles' = [handles EXCEPT ![0] = <<"ide_writeback">> \o @]
      BY <2>1 DEF InitTimer, InitIde, Main, AddIrqHandle
    <3>2. \A i \in HardIrqs : handles[i] = <<>>
      BY <1>3, <3>1 DEF Lists
    <3>3. <<"ide_writeback">> \o <<>> = <<"ide_writeback">>
      OBVIOUS
    <3> QED BY <1>3, <3>1, <3>2, <3>3 DEF Lists
  <2>2. CASE InitDisk
    <3>1. /\ pc = "init_ide_14" /\ pc' = "read_byte"
          /\ handles' = [handles EXCEPT ![14] = <<"ide_intr">> \o @]
      BY <2>2 DEF InitDisk, InitIde, Main, AddIrqHandle
    <3>2. handles[14] = <<>>
      BY <1>3, <3>1 DEF Lists
    <3>3. <<"ide_intr">> \o <<>> = <<"ide_intr">>
      OBVIOUS
    <3> QED BY <1>3, <3>1, <3>2, <3>3 DEF Lists
  <2> QED BY <2>1, <2>2
<1>5. MachineTypeOK'
  BY <1>1, <1>2, <1>3, <1>4, ListTypes DEF MachineTypeOK, Lists
<1>6. TypeOK'
  BY <1>1, <1>2, <1>3, <1>5 DEF TypeOK, Pcs
<1>7. SlotIsHighest' /\ Masked'
  BY <1>2, <1>3 DEF SlotIsHighest, Masked
<1>8. Token'
  BY <1>1, <1>2, <1>3 DEF Token, InSlot, InFrame
<1>9. Copying'
  BY <1>1, <1>2, <1>3 DEF Copying
<1>10. CacheCorrect'
  BY <1>1, <1>2, <1>3 DEF CacheCorrect
<1> QED BY <1>4, <1>6, <1>7, <1>8, <1>9, <1>10 DEF IInv

\* A sector is asked for.
LEMMA CacheFetchStep == ASSUME IInv, NEW s \in Sectors, CacheFetch(s) PROVE IInv'
<1>1. /\ turn' = "devices" /\ frames = <<>> /\ pc = "read_byte"
      /\ want' = s /\ answer' = None
      /\ pc' = IF Hit(s) THEN "return" ELSE "clear_ide_intr"
      /\ UNCHANGED <<slot, control, handles, idle>>
      /\ UNCHANGED <<sector, word_cnt, port_sector, has_ide_intr, cache>>
  BY DEF CacheFetch, Instr, device
<1>2. TypeOK /\ Token /\ Copying /\ CacheCorrect
  BY DEF IInv
<1>3. /\ MachineTypeOK' /\ SlotIsHighest' /\ Lists' /\ Masked'
      /\ InSlot' <=> InSlot
      /\ ~InFrame /\ ~InFrame'
  BY <1>1, QuietMachine
<1>4. TypeOK'
  BY <1>1, <1>2, <1>3 DEF TypeOK, Pcs
<1>5. Token'
  BY <1>1, <1>2, <1>3 DEF Token
<1>6. Copying'
  BY <1>1, <1>2 DEF Copying, Hit
<1>7. CacheCorrect'
  BY <1>1, <1>2 DEF CacheCorrect
<1> QED BY <1>3, <1>4, <1>5, <1>6, <1>7 DEF IInv

\* The byte is returned.
LEMMA ReturnStep == ASSUME IInv, Return PROVE IInv'
<1>1. /\ turn' = "devices" /\ frames = <<>> /\ pc = "return" /\ pc' = "read_byte"
      /\ want' = None /\ answer' = cache[Slot(want)].content
      /\ UNCHANGED <<slot, control, handles, idle>>
      /\ UNCHANGED <<sector, word_cnt, port_sector, has_ide_intr, cache>>
  BY DEF Return, Main, Instr, device
<1>2. TypeOK /\ Token /\ Copying /\ CacheCorrect
  BY DEF IInv
<1>3. /\ MachineTypeOK' /\ SlotIsHighest' /\ Lists' /\ Masked'
      /\ InSlot' <=> InSlot
      /\ ~InFrame /\ ~InFrame'
  BY <1>1, QuietMachine
<1>4. want \in Sectors /\ Slot(want) \in Slots
  BY <1>1, <1>2, SlotRange DEF Copying, TypeOK
<1>5. cache[Slot(want)].content \in [1 .. SectorWords -> Word]
  BY <1>2, <1>4 DEF TypeOK, Entry
<1>6. TypeOK'
  BY <1>1, <1>2, <1>3, <1>5 DEF TypeOK, Pcs
<1>7. Token'
  BY <1>1, <1>2, <1>3 DEF Token
<1>8. Copying'
  BY <1>1, <1>2 DEF Copying
<1>9. CacheCorrect'
  BY <1>1, <1>2 DEF CacheCorrect
<1> QED BY <1>3, <1>6, <1>7, <1>8, <1>9 DEF IInv
\* The steps between the request and the command.
LEMMA ClearIdeIntrStep == ASSUME IInv, ClearIdeIntr PROVE IInv'
<1>1. /\ turn' = "devices" /\ frames = <<>> /\ pc = "clear_ide_intr" /\ pc' = "ide_prepare"
      /\ has_ide_intr' = FALSE
      /\ UNCHANGED <<slot, control, handles, idle>>
      /\ UNCHANGED <<sector, word_cnt, port_sector, cache, want, answer>>
  BY DEF ClearIdeIntr, Main, Instr, device
<1>2. TypeOK /\ Token /\ Copying /\ CacheCorrect
  BY DEF IInv
<1>3. /\ MachineTypeOK' /\ SlotIsHighest' /\ Lists' /\ Masked'
      /\ InSlot' <=> InSlot
      /\ ~InFrame /\ ~InFrame'
  BY <1>1, QuietMachine
<1>4. TypeOK'
  BY <1>1, <1>2, <1>3 DEF TypeOK, Pcs
<1>5. Token'
  BY <1>1, <1>2, <1>3 DEF Token
<1>6. Copying'
  BY <1>1, <1>2 DEF Copying
<1>7. CacheCorrect'
  BY <1>1, <1>2 DEF CacheCorrect
<1> QED BY <1>3, <1>4, <1>5, <1>6, <1>7 DEF IInv

LEMMA IdePrepareStep == ASSUME IInv, IdePrepare PROVE IInv'
<1>1. /\ turn' = "devices" /\ frames = <<>> /\ pc = "ide_prepare" /\ pc' = "issue_read"
      /\ port_sector' = want
      /\ UNCHANGED <<slot, control, handles, idle>>
      /\ UNCHANGED <<sector, word_cnt, has_ide_intr, cache, want, answer>>
  BY DEF IdePrepare, Main, Instr
<1>2. TypeOK /\ Token /\ Copying /\ CacheCorrect
  BY DEF IInv
<1>3. /\ MachineTypeOK' /\ SlotIsHighest' /\ Lists' /\ Masked'
      /\ InSlot' <=> InSlot
      /\ ~InFrame /\ ~InFrame'
  BY <1>1, QuietMachine
<1>4. TypeOK'
  BY <1>1, <1>2, <1>3 DEF TypeOK, Pcs, Copying
<1>5. Token'
  BY <1>1, <1>2, <1>3 DEF Token
<1>6. Copying'
  BY <1>1, <1>2 DEF Copying
<1>7. CacheCorrect'
  BY <1>1, <1>2 DEF CacheCorrect
<1> QED BY <1>3, <1>4, <1>5, <1>6, <1>7 DEF IInv

\* The command: the device raises its request, and the token is in the slot.
LEMMA IssueReadStep == ASSUME IInv, IssueRead PROVE IInv'
<1>1. /\ turn' = "devices" /\ frames = <<>> /\ pc = "issue_read" /\ pc' = "wait_ide_intr"
      /\ sector' = port_sector /\ word_cnt' = 0
      /\ i8259_intr_no' = Raised(i8259_intr_no, IDE_IRQ)
      /\ intr' = TRUE /\ requests' = requests \cup {IDE_IRQ}
      /\ UNCHANGED <<control, handles, idle>>
      /\ UNCHANGED <<port_sector, has_ide_intr, cache, want, answer>>
  BY DEF IssueRead, Main, Instr, RaiseIntr, WordAfterCommand
<1>2. /\ TypeOK /\ MachineTypeOK /\ SlotIsHighest /\ Lists /\ Masked /\ Token /\ Copying
      /\ CacheCorrect
      /\ UNCHANGED <<eflags_IF, is_nemu_hlt, frames, handles, idle>>
  BY <1>1 DEF IInv, TypeOK, control
<1>3. i8259_intr_no' = IDE_IRQ
  BY <1>1, <1>2, RaisedFacts DEF MachineTypeOK
<1>4. MachineTypeOK'
  BY <1>1, <1>2, <1>3 DEF MachineTypeOK
<1>5. TypeOK'
  BY <1>1, <1>2, <1>4 DEF TypeOK, Pcs
<1>6. SlotIsHighest'
  BY <1>1, <1>2, <1>3 DEF SlotIsHighest, MachineTypeOK
<1>7. Lists' /\ Masked'
  BY <1>1, <1>2 DEF Lists, Masked
<1>8. Token'
  BY <1>1, <1>2, <1>3 DEF Token, InSlot, InFrame
<1>9. Copying'
  BY <1>1, <1>2 DEF Copying
<1>10. CacheCorrect'
  BY <1>1, <1>2 DEF CacheCorrect
<1> QED BY <1>5, <1>6, <1>7, <1>8, <1>9, <1>10 DEF IInv

\* The test of the flag: interrupts are on and no request waits, so the token
\* is the flag and the loop ends.
LEMMA TestIdeIntrStep == ASSUME IInv, TestIdeIntr PROVE IInv'
<1>1. /\ turn = "cpu" /\ turn' = "devices" /\ frames = <<>> /\ pc = "wait_ide_intr"
      /\ pc' = IF has_ide_intr THEN "clear_again" ELSE "wait_intr"
      /\ UNCHANGED <<slot, control, handles, idle>>
      /\ UNCHANGED <<sector, word_cnt, port_sector, has_ide_intr, cache, want, answer>>
  BY DEF TestIdeIntr, Instr, device
<1>2. TypeOK /\ Token /\ Copying /\ CacheCorrect
  BY DEF IInv
<1>3. /\ MachineTypeOK' /\ SlotIsHighest' /\ Lists' /\ Masked'
      /\ InSlot' <=> InSlot
      /\ ~InFrame /\ ~InFrame'
  BY <1>1, QuietMachine
<1>a. pc' = "clear_again" /\ ~InSlot
  BY <1>1, <1>2, <1>3 DEF Token
<1>4. TypeOK'
  BY <1>1, <1>a, <1>2, <1>3 DEF TypeOK, Pcs
<1>5. Token'
  BY <1>1, <1>a, <1>2, <1>3 DEF Token
<1>6. Copying'
  BY <1>1, <1>a, <1>2 DEF Copying
<1>7. CacheCorrect'
  BY <1>1, <1>a, <1>2 DEF CacheCorrect
<1> QED BY <1>3, <1>4, <1>5, <1>6, <1>7 DEF IInv

\* The flag is cleared, and the token is gone.
LEMMA ClearAgainStep == ASSUME IInv, ClearAgain PROVE IInv'
<1>1. /\ turn' = "devices" /\ frames = <<>> /\ pc = "clear_again" /\ pc' = "in_long"
      /\ has_ide_intr' = FALSE
      /\ UNCHANGED <<slot, control, handles, idle>>
      /\ UNCHANGED <<sector, word_cnt, port_sector, cache, want, answer>>
  BY DEF ClearAgain, Main, Instr, device, FlagAfterWait
<1>2. TypeOK /\ Token /\ Copying /\ CacheCorrect
  BY DEF IInv
<1>3. /\ MachineTypeOK' /\ SlotIsHighest' /\ Lists' /\ Masked'
      /\ InSlot' <=> InSlot
      /\ ~InFrame /\ ~InFrame'
  BY <1>1, QuietMachine
<1>4. TypeOK'
  BY <1>1, <1>2, <1>3 DEF TypeOK, Pcs
<1>5. Token'
  BY <1>1, <1>2, <1>3 DEF Token
<1>6. Copying'
  BY <1>1, <1>2 DEF Copying, Copied
<1>7. CacheCorrect'
  BY <1>1, <1>2 DEF CacheCorrect
<1> QED BY <1>3, <1>4, <1>5, <1>6, <1>7 DEF IInv

\* One word is copied; only the entry of the wanted sector changes.
LEMMA InLongStep == ASSUME IInv, InLong PROVE IInv'
<1> DEFINE w == word_cnt + 1
<1>1. /\ turn' = "devices" /\ frames = <<>> /\ pc = "in_long"
      /\ word_cnt' = w
      /\ cache' = [cache EXCEPT ![Slot(want)].content[w] = Disk[sector][w]]
      /\ pc' = IF w = SectorWords THEN "fetched" ELSE "in_long"
      /\ UNCHANGED <<slot, control, handles, idle>>
      /\ UNCHANGED <<sector, port_sector, has_ide_intr, want, answer>>
  BY DEF InLong, Instr, WordsRead
<1>2. TypeOK /\ Token /\ Copying /\ CacheCorrect
  BY DEF IInv
<1>3. /\ MachineTypeOK' /\ SlotIsHighest' /\ Lists' /\ Masked'
      /\ InSlot' <=> InSlot
      /\ ~InFrame /\ ~InFrame'
  BY <1>1, QuietMachine
<1>4. /\ want \in Sectors /\ Slot(want) \in Slots /\ sector = want
      /\ word_cnt \in Nat /\ w \in 1 .. SectorWords
      /\ Copied(word_cnt)
  BY <1>1, <1>2, SlotRange DEF Copying, TypeOK
<1>5. Disk[want][w] \in Word
  BY <1>4
<1>6. cache' \in [Slots -> Entry]
  BY <1>1, <1>2, <1>4, <1>5 DEF TypeOK, Entry
<1>7. TypeOK'
  BY <1>1, <1>2, <1>3, <1>4, <1>6 DEF TypeOK, Pcs
<1>8. Token'
  BY <1>1, <1>2, <1>3 DEF Token
<1>9. cache'[Slot(want)].content = [cache[Slot(want)].content EXCEPT ![w] = Disk[want][w]]
  BY <1>1, <1>2, <1>4 DEF TypeOK, Entry
<1>10. \A k \in 1 .. w : cache'[Slot(want)].content[k] = Disk[want][k]
  <2>1. cache[Slot(want)].content \in [1 .. SectorWords -> Word]
    BY <1>2, <1>4 DEF TypeOK, Entry
  <2> QED BY <1>4, <1>9, <2>1 DEF Copied
<1>11. Copying'
  BY <1>1, <1>2, <1>4, <1>10 DEF Copying, Copied
<1>12. CacheCorrect'
  <2>1. \A i \in Slots : i # Slot(want) => cache'[i] = cache[i]
    BY <1>1, <1>2, <1>4 DEF TypeOK
  <2>2. pc' \in {"in_long", "fetched"}
    BY <1>1
  <2> QED BY <1>1, <1>2, <2>1, <2>2 DEF CacheCorrect
<1> QED BY <1>3, <1>7, <1>8, <1>11, <1>12 DEF IInv

\* The entry that has been filled is given the name of its sector.
LEMMA FetchedStep == ASSUME IInv, Fetched PROVE IInv'
<1>1. /\ turn' = "devices" /\ frames = <<>> /\ pc = "fetched" /\ pc' = "return"
      /\ cache' = [cache EXCEPT ![Slot(want)].used = TRUE, ![Slot(want)].sector = want]
      /\ UNCHANGED <<slot, control, handles, idle>>
      /\ UNCHANGED <<sector, word_cnt, port_sector, has_ide_intr, want, answer>>
  BY DEF Fetched, Main, Instr, device
<1>2. TypeOK /\ Token /\ Copying /\ CacheCorrect
  BY DEF IInv
<1>3. /\ MachineTypeOK' /\ SlotIsHighest' /\ Lists' /\ Masked'
      /\ InSlot' <=> InSlot
      /\ ~InFrame /\ ~InFrame'
  BY <1>1, QuietMachine
<1>4. want \in Sectors /\ Slot(want) \in Slots /\ Copied(SectorWords)
  BY <1>1, <1>2, SlotRange DEF Copying, TypeOK
<1>5. /\ cache[Slot(want)] \in Entry
      /\ cache'[Slot(want)] = [cache[Slot(want)] EXCEPT !.used = TRUE, !.sector = want]
      /\ \A i \in Slots : i # Slot(want) => cache'[i] = cache[i]
  BY <1>1, <1>2, <1>4 DEF TypeOK
<1>6. cache' \in [Slots -> Entry]
  BY <1>1, <1>2, <1>4 DEF TypeOK, Entry
<1>7. TypeOK'
  BY <1>1, <1>2, <1>3, <1>6 DEF TypeOK, Pcs
<1>8. Token'
  BY <1>1, <1>2, <1>3 DEF Token
<1>9. /\ cache'[Slot(want)].used /\ cache'[Slot(want)].sector = want
      /\ cache'[Slot(want)].content = Disk[want]
  <2>1. cache[Slot(want)].content \in [1 .. SectorWords -> Word]
    BY <1>5 DEF Entry
  <2>2. Disk[want] \in [1 .. SectorWords -> Word]
    BY <1>4
  <2>3. cache[Slot(want)].content = Disk[want]
    BY <1>4, <2>1, <2>2 DEF Copied
  <2> QED BY <1>5, <2>3 DEF Entry
<1>10. Copying'
  BY <1>1, <1>2, <1>9 DEF Copying, Hit
<1>11. CacheCorrect'
  BY <1>1, <1>2, <1>5, <1>9 DEF CacheCorrect
<1> QED BY <1>3, <1>7, <1>8, <1>10, <1>11 DEF IInv
-----------------------------------------------------------------------------
(* The steps of the handlers.                                              *)

\* A handler runs in an entry of its own, with interrupts off, while the
\* token, if the kernel waits for it, is in the handler or in the flag.
LEMMA InHandlerFacts ==
  ASSUME IInv, frames # <<>>
  PROVE  \E fr \in HandlerFrame :
           /\ frames = <<fr>> /\ Head(frames) = fr /\ Tail(frames) = <<>> /\ frames[1] = fr
           /\ eflags_IF = FALSE /\ ~InSlot
<1>1. Masked /\ Token
  BY DEF IInv
<1>2. PICK fr \in HandlerFrame : frames = <<fr>> /\ eflags_IF = FALSE
  BY <1>1 DEF Masked
<1>3. ~InSlot
  BY <1>1 DEF Token
<1> QED BY <1>2, <1>3, FrameTypes

\* A routine is called.
LEMMA CalledFacts ==
  ASSUME IInv, NEW r, r \in {"ide_intr", "ide_writeback"}, InHandler(r), Called
  PROVE  /\ Masked' /\ frames' \in Seq(Frame) /\ ~InFrame' /\ ~InSlot
         /\ InFrame <=> r = "ide_intr"
<1>1. PICK fr \in HandlerFrame :
        /\ frames = <<fr>> /\ Head(frames) = fr /\ frames[1] = fr
        /\ eflags_IF = FALSE /\ ~InSlot
  BY InHandlerFacts DEF InHandler
<1>2. fr.f = <<r>> /\ Tail(fr.f) = <<>>
  <2>1. fr.f \in {<<>>, <<"ide_writeback">>, <<"ide_intr">>}
    BY DEF HandlerFrame
  <2>2. fr.f # <<>> /\ Head(fr.f) = r
    BY <1>1 DEF InHandler
  <2>3. /\ Head(<<"ide_writeback">>) = "ide_writeback" /\ Tail(<<"ide_writeback">>) = <<>>
        /\ Head(<<"ide_intr">>) = "ide_intr" /\ Tail(<<"ide_intr">>) = <<>>
    OBVIOUS
  <2> QED BY <2>1, <2>2, <2>3
<1> DEFINE called == [fr EXCEPT !.f = <<>>]
<1>3. frames' = <<called>>
  <2>1. [frames EXCEPT ![1] = [fr EXCEPT !.f = Tail(fr.f)]] = <<called>>
    BY <1>1, <1>2
  <2>2. frames' = [frames EXCEPT ![1].f = Tail(@)]
    BY DEF Called
  <2> QED BY <1>1, <2>1, <2>2
<1>4. called \in HandlerFrame
  BY <1>1 DEF HandlerFrame
<1>5. UNCHANGED <<eflags_IF, is_nemu_hlt>> /\ Masked
  BY DEF Called, IInv
<1>6. Masked' /\ frames' \in Seq(Frame)
  BY <1>1, <1>3, <1>4, <1>5, FrameTypes DEF Masked
<1>7. frames'[1].f = <<>>
  BY <1>3, <1>4 DEF HandlerFrame
<1> QED BY <1>1, <1>2, <1>6, <1>7 DEF InFrame

\* ide_intr(): the token goes from the handler to the flag.
LEMMA IdeIntrStep == ASSUME IInv, IdeIntr PROVE IInv'
<1>1. /\ turn' = "devices" /\ has_ide_intr' = TRUE
      /\ UNCHANGED <<slot, handles, idle, is_nemu_hlt, eflags_IF>>
      /\ UNCHANGED <<sector, word_cnt, port_sector, pc, cache, want, answer>>
  BY DEF IdeIntr, Instr, Called, device
<1>2. /\ UNCHANGED <<i8259_intr_no, intr, requests>>
      /\ TypeOK /\ MachineTypeOK /\ SlotIsHighest /\ Lists /\ Token /\ Copying /\ CacheCorrect
  BY <1>1 DEF slot, IInv, TypeOK
<1>3. Masked' /\ frames' \in Seq(Frame) /\ ~InFrame' /\ ~InSlot /\ InFrame
  BY CalledFacts DEF IdeIntr
<1>4. MachineTypeOK'
  BY <1>1, <1>2, <1>3 DEF MachineTypeOK
<1>5. TypeOK'
  BY <1>1, <1>2, <1>4 DEF TypeOK
<1>6. SlotIsHighest' /\ Lists'
  BY <1>1, <1>2 DEF SlotIsHighest, Lists
<1>7. Token'
  BY <1>1, <1>2, <1>3 DEF Token, InSlot
<1>8. Copying'
  BY <1>1, <1>2 DEF Copying, Copied, Hit
<1>9. CacheCorrect'
  BY <1>1, <1>2 DEF CacheCorrect
<1> QED BY <1>3, <1>5, <1>6, <1>7, <1>8, <1>9 DEF IInv

\* ide_writeback() and the return from the handler leave the token alone.
LEMMA IdeWritebackStep == ASSUME IInv, IdeWriteback PROVE IInv'
<1>1. /\ turn' = "devices"
      /\ UNCHANGED <<slot, handles, idle, is_nemu_hlt, eflags_IF>>
      /\ UNCHANGED <<sector, word_cnt, port_sector, pc, has_ide_intr, cache, want, answer>>
  BY DEF IdeWriteback, Instr, Called, device, kernel
<1>2. /\ UNCHANGED <<i8259_intr_no, intr, requests>>
      /\ TypeOK /\ MachineTypeOK /\ SlotIsHighest /\ Lists /\ Token /\ Copying /\ CacheCorrect
  BY <1>1 DEF slot, IInv, TypeOK
<1>3. Masked' /\ frames' \in Seq(Frame) /\ ~InFrame' /\ ~InSlot /\ ~InFrame
  BY CalledFacts DEF IdeWriteback
<1>4. MachineTypeOK'
  BY <1>1, <1>2, <1>3 DEF MachineTypeOK
<1>5. TypeOK'
  BY <1>1, <1>2, <1>4 DEF TypeOK
<1>6. SlotIsHighest' /\ Lists'
  BY <1>1, <1>2 DEF SlotIsHighest, Lists
<1>7. Token'
  BY <1>1, <1>2, <1>3 DEF Token, InSlot
<1>8. Copying'
  BY <1>1, <1>2 DEF Copying, Copied, Hit
<1>9. CacheCorrect'
  BY <1>1, <1>2 DEF CacheCorrect
<1> QED BY <1>3, <1>5, <1>6, <1>7, <1>8, <1>9 DEF IInv

LEMMA HandlerEndStep == ASSUME IInv, HandlerEnd PROVE IInv'
<1>1. PICK fr \in HandlerFrame :
        /\ frames = <<fr>> /\ Head(frames) = fr /\ Tail(frames) = <<>> /\ frames[1] = fr
        /\ eflags_IF = FALSE /\ ~InSlot
  BY InHandlerFacts DEF HandlerEnd, Iret
<1>2. /\ turn' = "devices" /\ frames' = <<>> /\ eflags_IF' = TRUE /\ fr.f = <<>>
      /\ UNCHANGED <<slot, handles, idle, is_nemu_hlt>>
      /\ UNCHANGED <<sector, word_cnt, port_sector, pc, has_ide_intr, cache, want, answer>>
  BY <1>1 DEF HandlerEnd, Iret, Instr, IFRestored, HandlerFrame, device, kernel
<1>3. /\ UNCHANGED <<i8259_intr_no, intr, requests>>
      /\ TypeOK /\ MachineTypeOK /\ SlotIsHighest /\ Lists /\ Token /\ Copying /\ CacheCorrect
      /\ Masked
  BY <1>2 DEF slot, IInv, TypeOK
<1>4. Masked'
  BY <1>2, <1>3 DEF Masked
<1>5. MachineTypeOK'
  BY <1>2, <1>3, FrameTypes DEF MachineTypeOK
<1>6. TypeOK'
  BY <1>2, <1>3, <1>5 DEF TypeOK
<1>7. SlotIsHighest' /\ Lists'
  BY <1>2, <1>3 DEF SlotIsHighest, Lists
<1>8. ~InFrame /\ ~InFrame'
  BY <1>1, <1>2 DEF InFrame
<1>9. Token'
  BY <1>1, <1>2, <1>3, <1>8 DEF Token, InSlot
<1>10. Copying'
  BY <1>2, <1>3 DEF Copying, Copied, Hit
<1>11. CacheCorrect'
  BY <1>2, <1>3 DEF CacheCorrect
<1> QED BY <1>4, <1>6, <1>7, <1>9, <1>10, <1>11 DEF IInv

-----------------------------------------------------------------------------
(* The devices and the entry of a handler.                                 *)

LEMMA DevicesStep ==
  ASSUME IInv, NEW timer \in BOOLEAN, NEW key \in BOOLEAN, Devices(timer, key)
  PROVE  IInv'
<1> DEFINE s1 == IF timer THEN Raised(i8259_intr_no, TIMER_IRQ) ELSE i8259_intr_no
           s2 == IF key THEN Raised(s1, KEYBOARD_IRQ) ELSE s1
           pending == intr \/ timer \/ key
           raised == requests \cup (IF timer THEN {TIMER_IRQ} ELSE {})
                              \cup (IF key THEN {KEYBOARD_IRQ} ELSE {})
           entry == [irq |-> s2, saved |-> eflags_IF, f |-> handles[s2]]
<1>1. /\ turn' = "cpu"
      /\ idle' = [d \in Polled |-> IdleAfter(d, IF d = TIMER_IRQ THEN timer ELSE key)]
      /\ UNCHANGED <<handles, sector, word_cnt, port_sector, pc, has_ide_intr, cache, want, answer>>
  BY DEF Devices, Turn, device, kernel
<1>2. /\ TypeOK /\ MachineTypeOK /\ SlotIsHighest /\ Lists /\ Masked /\ Token /\ Copying
      /\ CacheCorrect
  BY DEF IInv, TypeOK
<1>3. idle' \in [Polled -> 0 .. Gap]
  BY <1>1, <1>2 DEF MachineTypeOK, IdleAfter
<1>4. handles \in [HardIrqs -> Seq(Routines)]
  BY <1>2, ListTypes
<1>5. Copying'
  BY <1>1, <1>2 DEF Copying, Copied, Hit
<1>6. CacheCorrect'
  BY <1>1, <1>2 DEF CacheCorrect
<1>7. Lists'
  BY <1>1, <1>2 DEF Lists
<1>8. /\ s1 \in HardIrqs \cup {NoIntr} /\ s2 \in HardIrqs \cup {NoIntr}
      /\ s2 = IDE_IRQ <=> i8259_intr_no = IDE_IRQ
      /\ pending <=> s2 # NoIntr
      /\ IF raised = {} THEN s2 = NoIntr
         ELSE s2 \in raised /\ \A r \in raised : r <= s2
  <2>1. /\ i8259_intr_no \in HardIrqs \cup {NoIntr} /\ requests \subseteq HardIrqs
        /\ intr \in BOOLEAN
    BY <1>2 DEF MachineTypeOK
  <2> QED BY <1>2, <2>1 DEF SlotIsHighest, Raised
<1>9. CASE pending /\ eflags_IF
  <2>1. /\ i8259_intr_no' = NoIntr /\ intr' = FALSE /\ requests' = {} /\ is_nemu_hlt' = FALSE
        /\ frames' = <<entry>> \o frames /\ eflags_IF' = FALSE
    BY <1>9 DEF Devices, Turn, Halted, IFInHandler
  <2>2. frames = <<>> /\ eflags_IF = TRUE
    BY <1>2, <1>9 DEF Masked
  <2>3. s2 \in HardIrqs
    BY <1>8, <1>9
  <2>4. handles[s2] \in {<<>>, <<"ide_writeback">>, <<"ide_intr">>}
    BY <1>2, <2>3 DEF Lists
  <2>5. entry \in HandlerFrame
    BY <2>2, <2>3, <2>4 DEF HandlerFrame
  <2>6. frames' = <<entry>> /\ frames'[1] = entry
    <3> HIDE DEF entry
    <3> QED BY <2>1, <2>2
  <2>7. frames' \in Seq(Frame)
    BY <2>5, <2>6, FrameTypes
  <2>8. MachineTypeOK'
    BY <1>1, <1>3, <1>4, <2>1, <2>7 DEF MachineTypeOK
  <2>9. TypeOK'
    BY <1>1, <1>2, <2>8 DEF TypeOK
  <2>10. SlotIsHighest'
    BY <2>1 DEF SlotIsHighest
  <2>11. Masked'
    BY <2>1, <2>5, <2>6 DEF Masked
  <2>12. InFrame' => InSlot
    BY <1>2, <1>8, <2>3, <2>6 DEF InFrame, InSlot, Lists
  <2>13. pc = "wait_ide_intr" /\ InSlot => InFrame'
    BY <1>2, <1>8, <2>3, <2>6 DEF InFrame, InSlot, Lists
  <2>14. Token'
    BY <1>1, <1>2, <2>1, <2>2, <2>12, <2>13 DEF Token, InSlot, InFrame
  <2> QED BY <1>5, <1>6, <1>7, <2>9, <2>10, <2>11, <2>14 DEF IInv
<1>10. CASE ~(pending /\ eflags_IF)
  <2>1. /\ i8259_intr_no' = s2 /\ intr' = pending /\ requests' = raised
        /\ UNCHANGED <<eflags_IF, is_nemu_hlt, frames>>
    BY <1>10 DEF Devices, Turn, control
  <2>2. /\ intr \in BOOLEAN /\ requests \subseteq HardIrqs
    BY <1>2 DEF MachineTypeOK
  <2>3. MachineTypeOK'
    BY <1>1, <1>2, <1>3, <1>8, <2>1, <2>2 DEF MachineTypeOK
  <2>4. TypeOK'
    BY <1>1, <1>2, <2>3 DEF TypeOK
  <2>5. SlotIsHighest'
    BY <1>8, <2>1 DEF SlotIsHighest
  <2>6. Masked'
    BY <1>2, <2>1 DEF Masked
  <2>7. ~InSlot /\ ~InSlot'
    <3>1. SUFFICES ASSUME InSlot PROVE FALSE
      BY <1>8, <2>1 DEF InSlot
    <3>2. intr /\ frames = <<>>
      BY <1>2, <3>1 DEF InSlot, Token, SlotIsHighest
    <3> QED BY <1>2, <1>10, <3>2 DEF Masked
  <2>8. Token'
    BY <1>1, <1>2, <2>1, <2>7 DEF Token, InFrame
  <2> QED BY <1>5, <1>6, <1>7, <2>4, <2>5, <2>6, <2>8 DEF IInv
<1> QED BY <1>9, <1>10
-----------------------------------------------------------------------------
(* The theorems.                                                           *)

\* Every step preserves the invariant.
LEMMA NextInv == IInv /\ [Next]_vars => IInv'
<1> SUFFICES ASSUME IInv, [Next]_vars PROVE IInv'
  OBVIOUS
<1>1. CASE Driver
  BY <1>1, InitIdeStep, CacheFetchStep, ReturnStep, ClearIdeIntrStep, IdePrepareStep,
     IssueReadStep, TestIdeIntrStep, ClearAgainStep, InLongStep, FetchedStep DEF Driver
<1>2. CASE Handler
  BY <1>2, IdeIntrStep, IdeWritebackStep, HandlerEndStep DEF Handler
<1>3. CASE \E timer, key \in BOOLEAN : Devices(timer, key)
  BY <1>3, DevicesStep
<1>4. CASE UNCHANGED vars
  <2>1. /\ UNCHANGED <<i8259_intr_no, intr, requests, eflags_IF, is_nemu_hlt, frames, turn,
                       handles, idle>>
        /\ UNCHANGED <<sector, word_cnt, port_sector, pc, has_ide_intr, cache, want, answer>>
    BY <1>4 DEF vars, machine, slot, control, device, kernel
  <2>2. TypeOK' /\ SlotIsHighest'
    BY <2>1 DEF IInv, TypeOK, MachineTypeOK, SlotIsHighest
  <2>3. Lists' /\ Masked' /\ Token'
    BY <2>1 DEF IInv, Lists, Masked, Token, InSlot, InFrame
  <2>4. Copying' /\ CacheCorrect'
    BY <2>1 DEF IInv, Copying, Copied, Hit, CacheCorrect
  <2> QED BY <2>2, <2>3, <2>4 DEF IInv
<1> QED BY <1>1, <1>2, <1>3, <1>4 DEF Next

\* The invariant holds in every reachable state.
THEOREM Invariance == Spec => []IInv
BY InitInv, NextInv, PTL DEF Spec

\* The variables keep their types; the device is never asked for a word beyond
\* the sector.
THEOREM Typing == Spec => []TypeOK
<1>1. IInv => TypeOK
  BY DEF IInv
<1> QED BY <1>1, Invariance, PTL

\* The controller holds the highest of the requests not yet taken.
THEOREM Priority == Spec => []SlotIsHighest
<1>1. IInv => SlotIsHighest
  BY DEF IInv
<1> QED BY <1>1, Invariance, PTL

\* A handler is never interrupted by another.
THEOREM Masking == Spec => []HandlersMasked
<1>1. IInv => HandlersMasked
  BY DEF IInv, Masked, HandlersMasked
<1> QED BY <1>1, Invariance, PTL

\* wait_ide_intr() never gets to hlt, at whatever rate the timer and the
\* keyboard interrupt.
THEOREM NoSleep == Spec => []NeverSleeps
<1>1. IInv => NeverSleeps
  <2> SUFFICES ASSUME IInv PROVE NeverSleeps
    OBVIOUS
  <2>1. Token /\ Copying
    BY DEF IInv
  <2>2. pc = "wait_ide_intr" /\ turn = "cpu" /\ frames = <<>> => has_ide_intr
    BY <2>1 DEF Token, InFrame
  <2> QED BY <2>1, <2>2 DEF Copying, NeverSleeps
<1> QED BY <1>1, Invariance, PTL

\* No request of the disk outlives the wait it was meant for.
THEOREM NoStray == Spec => []NoStrayIdeIntr
<1>1. IInv => NoStrayIdeIntr
  <2> SUFFICES ASSUME IInv, pc \in {"in_long", "fetched", "return", "read_byte"}
               PROVE  /\ ~has_ide_intr
                      /\ i8259_intr_no # IDE_IRQ
                      /\ ~InHandler("ide_intr")
    BY DEF NoStrayIdeIntr
  <2>1. Token /\ Masked
    BY DEF IInv
  <2>2. ~has_ide_intr /\ i8259_intr_no # IDE_IRQ
    BY <2>1 DEF Token, InSlot
  <2>3. ASSUME InHandler("ide_intr") PROVE FALSE
    <3>1. PICK fr \in HandlerFrame : Head(frames) = fr /\ frames[1] = fr
      BY <2>3, InHandlerFacts DEF InHandler
    <3>2. fr.f # <<>> /\ Head(fr.f) = "ide_intr"
      BY <2>3, <3>1 DEF InHandler
    <3>3. Head(<<"ide_writeback">>) = "ide_writeback"
      OBVIOUS
    <3>4. fr.f \in {<<>>, <<"ide_writeback">>, <<"ide_intr">>}
      BY DEF HandlerFrame
    <3>5. fr.f = <<"ide_intr">>
      BY <3>2, <3>3, <3>4
    <3> QED BY <2>1, <2>3, <3>1, <3>5 DEF Token, InFrame, InHandler
  <2> QED BY <2>2, <2>3
<1> QED BY <1>1, Invariance, PTL

\* Every entry of the sector cache that is in use and not being filled holds
\* the sector it is named after.
THEOREM SectorCacheCorrect == Spec => []CacheCorrect
<1>1. IInv => CacheCorrect
  BY DEF IInv
<1> QED BY <1>1, Invariance, PTL

\* The driver implements the reader's promise of safety: whatever interrupts
\* it, an answer is the sector that was asked for.
THEOREM Refinement == Spec => Reader!Safety
<1>1. Init => Reader!Init
  BY DEF Init, Reader!Init
<1>2. IInv /\ [Next]_vars => [Reader!Next]_<<want, answer>>
  <2> SUFFICES ASSUME IInv, [Next]_vars
               PROVE  Reader!Next \/ UNCHANGED <<want, answer>>
    BY DEF Reader!Next
  <2>1. TypeOK /\ Copying /\ CacheCorrect
    BY DEF IInv
  <2>2. ASSUME NEW s \in Sectors, CacheFetch(s) PROVE Reader!Next
    BY <2>1, <2>2 DEF CacheFetch, Copying, Reader!Next, Reader!Ask
  <2>3. CASE Return
    <3>1. pc = "return" /\ want' = None /\ answer' = cache[Slot(want)].content
      BY <2>3 DEF Return, Main
    <3>2. want \in Sectors /\ Slot(want) \in Slots /\ Hit(want)
      BY <2>1, <3>1, SlotRange DEF Copying, TypeOK
    <3>3. cache[Slot(want)].content = Disk[want]
      BY <2>1, <3>1, <3>2 DEF CacheCorrect, Hit
    <3> QED BY <3>1, <3>2, <3>3 DEF Reader!Next, Reader!Answer
  <2>4. CASE UNCHANGED <<want, answer>>
    BY <2>4
  <2> QED
    BY <2>2, <2>3, <2>4
    DEF Next, Driver, Handler, Devices, InitTimer, InitDisk, InitIde, ClearIdeIntr, IdePrepare,
        IssueRead, TestIdeIntr, ClearAgain, InLong, Fetched, IdeIntr, IdeWriteback, HandlerEnd,
        vars, kernel
<1> QED BY <1>1, <1>2, Invariance, PTL DEF Spec, Reader!Safety
=============================================================================
