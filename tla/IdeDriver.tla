----------------------------- MODULE IdeDriver ------------------------------
(***************************************************************************)
(* Reading the disk: the IDE device of nemu/src/device/dev/ide.c, the      *)
(* kernel's driver kernel/src/driver/ide (disk.c, ide.c, cache.c) and the  *)
(* interrupts between them.                                                *)
(*                                                                         *)
(* The kernel asks for a sector, waits until the device's request has been *)
(* handled, and copies the sector word by word into its cache of sectors.  *)
(* The timer and the keyboard interrupt at any turn.  Only the loader      *)
(* reads the disk, with interrupts on: the file system's calls panic.      *)
(*                                                                         *)
(* Only reads occur: ide_write() of the kernel has no caller, so no sector *)
(* is ever dirty and ide_writeback(), which the timer calls, finds nothing *)
(* to write.  A sector has SectorWords words; the code has 128.            *)
(***************************************************************************)
EXTENDS Interrupts

CONSTANTS Sectors,       \* numbers of the sectors of the disk
          SectorWords,   \* 512 / 4
          Word,          \* values of a word
          Disk,          \* the words of each sector
          NR_SEC_CACHE,  \* entries of the sector cache
          None

ASSUME IdeAssumption ==
         /\ Sectors \subseteq Nat
         /\ SectorWords \in Nat \ {0}
         /\ Disk \in [Sectors -> [1 .. SectorWords -> Word]]
         /\ 0 \in Word
         /\ NR_SEC_CACHE \in Nat \ {0}
         /\ None \notin Sectors
         /\ {"ide_writeback", "ide_intr"} \subseteq Routines

VARIABLES
  \* the device: the sector of the last command, the words passed since
  sector, word_cnt,
  \* the ports the kernel has written the number of a sector to
  port_sector,
  \* the kernel
  pc,              \* where its main thread is
  has_ide_intr,
  cache,           \* the sector cache
  want, answer     \* the request being served and the last answer

device == <<sector, word_cnt, port_sector>>
kernel == <<pc, has_ide_intr, cache, want, answer>>
vars   == <<machine, device, kernel>>

Slot(s) == s % NR_SEC_CACHE
Slots == 0 .. NR_SEC_CACHE - 1
\* struct SectorCache, without the field dirty, which is always false.
Entry == [used : BOOLEAN, sector : Sectors \cup {0}, content : [1 .. SectorWords -> Word]]
Blank == [i \in 1 .. SectorWords |-> 0]

-----------------------------------------------------------------------------
(* The main thread runs when no handler does.                              *)

\* An instruction of the main thread, at the label from, that goes on at to.
Main(from, to) == Instr /\ frames = <<>> /\ pc = from /\ pc' = to

\* ide_intr() and ide_writeback() are registered one after the other, with
\* interrupts already enabled.
InitIde(from, to, irq, r) ==
  /\ Main(from, to)
  /\ AddIrqHandle(irq, r)
  /\ UNCHANGED <<slot, control, idle, device, has_ide_intr, cache, want, answer>>

\* read_byte() asks for sector s: cache_fetch() finds it or not.
Hit(s) == cache[Slot(s)].used /\ cache[Slot(s)].sector = s
CacheFetch(s) ==
  /\ Instr /\ frames = <<>> /\ pc = "read_byte"
  /\ want' = s
  /\ answer' = None
  /\ pc' = IF Hit(s) THEN "return" ELSE "clear_ide_intr"
  /\ UNCHANGED <<slot, control, handles, idle, device, has_ide_intr, cache>>

\* The byte is returned from the entry of the sector cache.
Return ==
  /\ Main("return", "read_byte")
  /\ answer' = cache[Slot(want)].content
  /\ want' = None
  /\ UNCHANGED <<slot, control, handles, idle, device, has_ide_intr, cache>>

\* clear_ide_intr() at the start of disk_do_read(), then ide_prepare():
\* waitdisk() finds the device ready, as it is whenever nothing is written.
ClearIdeIntr ==
  /\ Main("clear_ide_intr", "ide_prepare")
  /\ has_ide_intr' = FALSE
  /\ UNCHANGED <<slot, control, handles, idle, device, cache, want, answer>>

IdePrepare ==
  /\ Main("ide_prepare", "issue_read")
  /\ port_sector' = want
  /\ UNCHANGED <<slot, control, handles, idle, sector, word_cnt, has_ide_intr, cache,
                 want, answer>>

\* byte_cnt and the position of the file after the command.
WordAfterCommand == 0

\* issue_read() writes the command 0x20, and handler_ide() takes it at once.
IssueRead ==
  /\ Main("issue_read", "wait_ide_intr")
  /\ sector' = port_sector
  /\ word_cnt' = WordAfterCommand
  /\ RaiseIntr(IDE_IRQ)
  /\ UNCHANGED <<control, handles, idle, port_sector, has_ide_intr, cache, want, answer>>

\* wait_ide_intr() tests the flag.  The label wait_intr, where the processor
\* would be halted, has no action: NeverSleeps shows that it is not reached.
TestIdeIntr ==
  /\ Instr /\ frames = <<>> /\ pc = "wait_ide_intr"
  /\ pc' = IF has_ide_intr THEN "clear_again" ELSE "wait_intr"
  /\ UNCHANGED <<slot, control, handles, idle, device, has_ide_intr, cache, want, answer>>

\* Bug: the flag is not cleared after the wait.
StillSet == has_ide_intr

\* has_ide_intr after the wait.
FlagAfterWait == FALSE

ClearAgain ==
  /\ Main("clear_again", "in_long")
  /\ has_ide_intr' = FlagAfterWait
  /\ UNCHANGED <<slot, control, handles, idle, device, cache, want, answer>>

\* Bug: one word of the sector is not copied.
LastButOne == SectorWords - 1

\* The words disk_do_read() copies.
WordsRead == SectorWords

\* in_long() of the data port: handler_ide() passes the next word.  The entry
\* of the cache is overwritten while it still names the sector it held.
InLong ==
  /\ Instr /\ frames = <<>> /\ pc = "in_long"
  /\ word_cnt' = word_cnt + 1
  /\ cache' = [cache EXCEPT ![Slot(want)].content[word_cnt + 1] =
                 Disk[sector][word_cnt + 1]]
  /\ pc' = IF word_cnt + 1 = WordsRead THEN "fetched" ELSE "in_long"
  /\ UNCHANGED <<slot, control, handles, idle, sector, port_sector, has_ide_intr,
                 want, answer>>

\* The end of cache_fetch(): the entry is given its new name.
Fetched ==
  /\ Main("fetched", "return")
  /\ cache' = [cache EXCEPT ![Slot(want)].used = TRUE, ![Slot(want)].sector = want]
  /\ UNCHANGED <<slot, control, handles, idle, device, has_ide_intr, want, answer>>

-----------------------------------------------------------------------------
(* The handlers.                                                           *)

\* ide_intr()
IdeIntr ==
  /\ Instr /\ InHandler("ide_intr") /\ Called
  /\ has_ide_intr' = TRUE
  /\ UNCHANGED <<slot, handles, idle, device, pc, cache, want, answer>>

\* ide_writeback() counts ticks and, every second, looks for dirty sectors.
IdeWriteback ==
  /\ Instr /\ InHandler("ide_writeback") /\ Called
  /\ UNCHANGED <<slot, handles, idle, device, kernel>>

HandlerEnd == Iret /\ UNCHANGED <<device, kernel>>

Devices(timer, key) == Turn(timer, key) /\ UNCHANGED <<device, kernel>>

-----------------------------------------------------------------------------

Init ==
  /\ MachineInit([i \in HardIrqs |-> <<>>])
  /\ sector = 0 /\ word_cnt = 0 /\ port_sector = 0
  /\ pc = "init_ide_0"
  /\ has_ide_intr = FALSE
  /\ cache = [i \in Slots |-> [used |-> FALSE, sector |-> 0, content |-> Blank]]
  /\ want = None
  /\ answer = None

InitTimer == InitIde("init_ide_0", "init_ide_14", TIMER_IRQ, "ide_writeback")
InitDisk  == InitIde("init_ide_14", "read_byte", IDE_IRQ, "ide_intr")

Driver == \/ InitTimer \/ InitDisk
          \/ \E s \in Sectors : CacheFetch(s)
          \/ Return
          \/ ClearIdeIntr \/ IdePrepare \/ IssueRead
          \/ TestIdeIntr \/ ClearAgain
          \/ InLong \/ Fetched

Handler == IdeIntr \/ IdeWriteback \/ HandlerEnd

Next == \/ Driver
        \/ Handler
        \/ \E timer, key \in BOOLEAN : Devices(timer, key)

Spec == Init /\ [][Next]_vars

\* The loop of exec() never stops turning.
Fairness ==
  /\ WF_vars(InitTimer \/ InitDisk \/ Return \/ ClearIdeIntr \/ IdePrepare \/ IssueRead
             \/ TestIdeIntr \/ ClearAgain \/ InLong \/ Fetched)
  /\ WF_vars(Handler)
  /\ WF_vars(\E timer, key \in BOOLEAN : Devices(timer, key))

LiveSpec == Spec /\ Fairness

-----------------------------------------------------------------------------

Pcs == {"init_ide_0", "init_ide_14", "read_byte", "return", "clear_ide_intr",
        "ide_prepare", "issue_read", "wait_ide_intr", "wait_intr", "clear_again",
        "in_long", "fetched"}

\* Types of the variables.
TypeOK ==
  /\ MachineTypeOK
  /\ sector \in Sectors \cup {0} /\ port_sector \in Sectors \cup {0}
  /\ word_cnt \in 0 .. SectorWords
  /\ pc \in Pcs
  /\ has_ide_intr \in BOOLEAN
  /\ cache \in [Slots -> Entry]
  /\ want \in Sectors \cup {None}

\* The kernel never sleeps in hlt waiting for the disk: the device raises its
\* request at once, no request has a higher number, interrupts are on, and so
\* ide_intr() has run when the flag is first tested.
NeverSleeps ==
  /\ pc # "wait_intr"
  /\ pc = "wait_ide_intr" /\ turn = "cpu" /\ frames = <<>> => has_ide_intr

\* No other request stays behind once the wait is over: the flag cleared by
\* clear_again cannot be set again before the next command.
NoStrayIdeIntr ==
  pc \in {"in_long", "fetched", "return", "read_byte"} =>
    /\ ~has_ide_intr
    /\ i8259_intr_no # IDE_IRQ
    /\ ~InHandler("ide_intr")

\* Handlers run with interrupts off and are not interrupted.
HandlersMasked == frames # <<>> => Len(frames) = 1 /\ ~eflags_IF

\* An entry of the sector cache in use holds its sector, except the one the
\* driver is filling, whose old name is still on it.
CacheCorrect ==
  \A i \in Slots :
    cache[i].used /\ ~(pc \in {"in_long", "fetched"} /\ i = Slot(want))
      => cache[i].content = Disk[cache[i].sector]

\* The driver keeps its promise, whatever interrupts it, and keeps it at last.
Reader == INSTANCE DiskReader
ReaderSpec == Reader!Spec
=============================================================================
