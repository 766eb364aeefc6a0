# Verification of NEMU, its kernel and its games

The repository holds three programs that run on top of each other: **nemu**, an
IA-32 emulator written in C; a small **kernel** that the emulator boots; and
**games** and test programs that the kernel loads, the largest of which is
`nemu-pal`, a port of the engine of *Sword and Fairy* (the **Paladin port**).
This directory holds TLA+ modules translated from their source, TLC
configurations that check the modules on small instances, and theorems that
TLAPS proves for every instance.

Paths below are relative to `src/pa_nju/`.

1. [The system](#1-the-system)
2. [The modules and how they correspond to the code](#2-the-modules)
3. [The runs](#3-the-runs)
4. [Fairness](#4-fairness)
5. [What is proved](#5-what-is-proved)
6. [Disagreements between the code and what is said of it](#6-disagreements)
7. [What is only model-checked, and what is not modelled](#7-limits)
8. [Plan](#8-plan)

## 1. The system

Everything in the emulator happens in one thread, in the loop of `exec()`
(nemu/src/cpu/cpu.c). A **turn** of the loop is: one guest instruction, then a
poll of the devices (`do_devices()`), then a pending interrupt is taken
(`do_intr()`). Concurrency is that of the guest: an interrupt handler of the
kernel can run between any two instructions of the main thread while
interrupts are on.

| Part | State it keeps | Operations | Talks to |
|---|---|---|---|
| Physical memory and cache (`memory.c`, `mmu/cache.c`) | `hw_mem`, the lines of the cache | read and write of 1 to 4 bytes, load of the image, start | linear memory |
| Linear memory, paging, MMIO, screen (`memory.c`, `mmu/page.c`, `io/mm_io.c`, `dev/vga.c`) | cr0, cr3, the video memory, `line_dirty`, `vmem_dirty`, the pixels | split access, `page_translate`, callback of the device, refresh | cache, SDL |
| Segmentation (`mmu/segment.c`) | hidden part of segment registers | translate, `load_sreg` | linear memory; asserts the flat model |
| ALU and arithmetic instructions (`alu.c`, `instr/*.c`) | EFLAGS | add, adc, sub, sbb, logic, shifts, mul, div, conditions | registers, memory |
| FPU (`fpu.c`, `instr/x87.c`) | the stack of registers, the status word | load, store, arithmetic, comparison | memory |
| Interrupt controller (`i8259_pic.c`), entry and return (`intr.c`, `int_.c`, `iret.c`) | one slot for a request, `cpu.intr`, IF | raise, acknowledge, enter, return, hlt, sti, cli | devices, kernel |
| Timer, keyboard, disk, serial, VGA ports (`device/dev`) | clock of the host, `scan_code_buf`, position in the disk file | poll, port handlers | controller |
| Monitor (`monitor/*.c`, `cpu.c`) | breakpoints in use and free, `nemu_state`, `hit_break_rerun` | c, si, b, d; patching INT3 | guest's code, exec loop |
| Kernel interrupt entry (`kernel/src/irq`) | lists of handlers per request | register, walk the list | handlers |
| Kernel disk driver (`kernel/src/driver/ide`) | `has_ide_intr`, the sector cache | read, wait, handlers | disk device |
| Kernel memory (`kernel/src/memory`), loader (`elf.c`) | page directories and tables, `brk` | map, load, screen mapping | paging |
| System calls (`do_syscall.c`), file system (`fs.c`) | none of their own; every operation of the file system panics | register a handler, brk, write | handlers |
| Typing game (`game/src/typing`) | ticks, keys, letters in a list over a pool | handlers, main loop | kernel, controller |
| Paladin: belongings (`global/global.c`, `ui/uigame.c`, `ui/itemmenu.c`, `game/play.c`, `game/script.c`) | `rgInventory`, `rgwEquipment`, `rgEquipmentEffect`, `dwCash`, the open menu | give, take, use, wear, buy, sell, compress, save and load | scripts, roles |
| Paladin: condition of the party (`global/global.c`, `game/script.c`, `battle/*.c`) | `rgParty`, `rgwHP`, `rgPoisonStatus`, `rgPlayerStatus` | hurt, revive, poison, cure, statuses, join and leave, start and end of a battle, save and load | belongings, battle |
| Paladin: battle (`battle/fight.c`, `battle/battle.c`, `ui/uibattle.c`) | the frame, meters, commands and turn orders, `UIState`, `BattleResult` | a frame, the menu, validation and execution of a command, end of a turn | scripts, party |

(`nemu-pal` files are below `game/src/nemu-pal/`.)

**What is hard.** The controller has room for a single request: a lower one is
dropped, a higher one overwrites it. The driver tests a flag and then halts,
and the flag is set by a handler. The game counts ticks in a handler and
sleeps in `hlt`. A system call turns interrupts on before its `iret`. A
breakpoint is a byte patched into code that interrupt handlers also run
through. A cached copy can go stale, and the sector cache is overwritten while
it still carries its old name. Carries and borrows of limbs, comparisons by
flags that another instruction left, and splits of accesses at the borders of
lines, pages, the video window and the rows of the screen are a matter of one
byte or one bit. In the Paladin port the order of legal calls is what is hard:
one array of the condition of the party is indexed by the place in the party
and two by the role; equipment is accounted for by running its script again;
and in a battle the menu goes on taking commands while somebody acts, so a
command is validated long after it was given. PROJECT.json lists each of these hazards with its line and the
properties that would find it going wrong.

**What makes each part correct.**

- The cache is invisible: memory behaves as flat memory; no line is stale, no
  block is cached twice.
- A linear access is the accesses of its bytes, and what the program draws
  reaches the screen.
- Sums, differences and comparisons of numbers of any length, compiled to
  chains of instructions, are exact; products, quotients and shifts too. Floats
  are rounded once, to the nearest.
- A breakpoint stops the guest once per arrival and is not lost, and the
  program's code can always be recovered.
- A request for a sector is answered, and by that sector; the kernel never
  sleeps for an interrupt that has already been taken.
- The game never sleeps for ever, plays every tick, and never corrupts its
  list; its handlers never see a half-done change.
- No item of the party is hidden, made or lost by wearing it, and the effects
  accounted for are those of what is worn; nobody inherits a poison or a status,
  whoever joins, dies, is revived or is loaded.
- In a battle one player commands at a time, what is done is still possible
  when it is done, no loop waits for a target that does not exist, what is
  decided stays decided, and every player who has a turn order gets the turn.

## 2. The modules

`X` is the model of a part, `MCX` gives its constants values for TLC,
`XProofs` holds its theorems; MemoryProofs also those of Cache, and ArithProofs
those of Operate.

| Module | Models | Uses |
|---|---|---|
| FlatMemory | the promise of memory: a byte read is the byte last written | |
| Cache | hw_mem behind the cache | refines FlatMemory |
| Memory | linear accesses, mapping, video window, screen | |
| Alu | every function of alu.c, and the conditions of the branches | |
| Instr | sizes and values of operands, EFLAGS | Alu |
| Arith | chains of add/adc and sub/sbb: numbers longer than a word | Instr |
| Fpu | the arithmetic of fpu.c, with normalization and rounding | |
| Operate | single logical, shift, multiply, divide and floating-point instructions | Instr, Fpu |
| Debugger | breakpoints, commands, the exec loop with interrupts | |
| Interrupts | controller, turn, entry and iret, lists of handlers | |
| DiskReader | the promise of the disk driver | |
| IdeDriver | disk device, driver, sector cache, handlers | Interrupts; refines DiskReader |
| LinkList | a list over a pool (game/include/adt/linklist.h) | |
| TypingGame | the game, the keyboard, system call 0 | Interrupts, LinkList |
| PalItems | inventory, equipment, menus and scripts about them | |
| PalParty | members, hit points, poisons, statuses, and the equipment that sets them | |
| PalBattle | a battle frame by frame, with its menu | |

### Cache and FlatMemory

`hw_mem` and `cache` are the arrays of the code. `CacheRead` is a call of
`cache_read()`, with the filling of a line on a miss (`AfterRead`) and both
halves of a read that is split over two lines; the second half sees the cache
the first one left. `Victims` is `find_empty_line()` and then `rand()`: the
first empty way, or any way of a full group. `CacheWrite` writes memory and, on
a hit, the line, byte by byte as the loop does (`MemAfterWrite`,
`CacheAfterWrite`). `LoadExec` writes `hw_mem` behind the cache, as
`load_exec()` does, once and before the first instruction (`booted`; nemu's
main.c). The refinement mapping to FlatMemory is the identity on `hw_mem`,
`booted` and the answer of the last read: FlatMemory has no cache to tell it
about. There, too, memory is replaced as a whole only before it is booted, so
every later change must be a write of exactly the bytes named.

### Memory

The state is RAM (as Cache presents it), the video memory behind the window
0xa0000..0xbffff, whether paging is on, the mapping that the tables of cr3
compute, and the screen with its marks. `Parts` is the split of
`laddr_read()` and `laddr_write()` at the border of a page, the two being split
alike; `Place` is the choice that `paddr_write()` makes by the first byte of a
part. `Write` is the whole of `laddr_write()` with the callback of the device,
`vga_vmem_io_handler()`; a read changes nothing here (it changes the cache, which
is Cache's). `Fail` is an access that ends the emulator in an assertion: a page
that is not present, or a length of 3 given to the device. `LoadCr3` is a load
of cr3 with one of the mappings the kernel builds, and `DoVga` the refresh.
`tails` is a history variable computed from the accesses and not from the marks:
the pixels last written on a later line than the first byte of the part of an
access that wrote them (`LaterPixels`), until they are written again or drawn. The
handler looks at the first byte alone (vga.c:40), so they may stay undrawn.

The walk through directory and table is abstracted to its result. That is
right as long as nobody writes to the tables in use: the kernel builds a
mapping and then loads cr3. The sizes are constants; the code has pages of
4096 bytes, 200 lines of 320 bytes.

### Alu, Fpu, Arith and Operate

`Alu` has an operator per function of alu.c, from flags and operands to flags
and result; the width is a parameter, so that small widths can be checked
exhaustively and every width proved about. A shift by 0 shifts a second time by
`src - 1`, which C leaves undefined: `AluShl`, `AluShr` and `AluSar` are sets of
outcomes. `Arith` keeps EFLAGS and a `chain`, the number computed so far by a
sequence of add/adc or sub/sbb, with its operands; every instruction that does
not continue the chain ends it. `Operate` executes one instruction at a time on
every pair of operands, and remembers them (`last`) so that the result can be
compared with the operation's definition. `DestSize` and `SrcSize` are the sizes
that the macros of `instr_helper.h` and the instructions give to the ALU, which
are not always the sizes of the operands.

`Fpu` does the same for fpu.c: the bits of two floats to the bits of their sum,
difference, product or quotient, through the tables of corner cases, the
alignment with its sticky bit and `Normalize`, for any number of bits of
exponent and fraction. The loops that shift one place at a time are one `Jam` by
the number of their turns. `Operate` executes fadds, fsubs, fmuls and fdivs on
every pair of floats and compares them with `Nearest`, which searches the floats
in the order of their values and knows nothing of significands and rounding bits.
A comparison leaves EFLAGS at once (`Fucomi`) or, as code for the i386 does it,
over the status word: `FucomSahf` is fucom, fnstsw and sahf, with any top of the
stack between the bits that matter.

### Debugger

`mem` is the guest's code with INT3 patched in, `head` and `free_` the two
lists of breakpoint.c, `nemu_state`, `n` and `hit_break_rerun` those of
`exec()`. `pc` is where `exec()` is: `ExecInst`, `DoDevices` and `DoIntr` are
the three steps of a turn, the commands (`SetBreakpoint`, `DeleteBreakpoint`,
`DeleteAll`, `Exec`) happen between two calls of it. A breakpoint may be set at an
address that has one: it saves the INT3 it finds there, and `exec()` and the
commands meet the newest first. Two history variables name the addresses this
concerns: `doubled`, where one was set over another, and `lost`, where the oldest,
which alone has saved the program's byte, was deleted from under a newer one. The
guest is a loop with a handler, which only an interrupt enters and only `iret`
leaves, as in kernel/src/irq/do_irq.S (`Apart`). Watchpoints cannot exist: `set_watchpoint()` calls `expr()`, which
aborts.

### Interrupts

A library of actions, with no specification of its own. `Instr` is the
conjunct of every guest instruction and `Turn` is the rest of the turn, polls
and interrupt together, since nothing of the guest happens in between.
`frames` abstracts the stack to what matters of it: the IF that was saved and
the handlers left to call. `idle` counts the turns since a polled device raised
a request, and `Gap` is the smallest distance between two; with `Gap = 0` a
device may raise at every turn.

### IdeDriver and DiskReader

The main thread's position is `pc`, with a label for every place between two
effects that an interrupt can tell apart. `CacheFetch` is the test of
`cache_fetch()`; `ClearIdeIntr`, `IdePrepare`, `IssueRead`, `TestIdeIntr` and
`ClearAgain` are `disk_do_read()` up to the end of the wait; `InLong` copies one
word; `Fetched` and `Return` end the call. The device answers a command inside
the `out` instruction, in `handler_ide()`. `wait_intr`, the label at the `hlt`
of `wait_ide_intr()`, has no action that leaves it: `NeverSleeps` says that the
driver does not get there, so the model checks as a deadlock-free system too.
`DiskReader` is the promise to the loader, with `want` and `answer`; the
refinement is the identity on these two.

Only reads are modelled: `ide_write()` has no caller, so no entry of the
sector cache is ever dirty and the timer's handler finds nothing to write back.

### TypingGame and LinkList

`pc` is where the game is, from the system calls that register its handlers to
the rounds of `main_loop()`. One action per step between two instructions that
touch something a handler also touches (`cli`, `sti`, `tick`, `target`,
`letter_pressed`); the body of a round, which touches only the game's own
state, is an action per letter. `LinkList` has the operations that
`LINKLIST_IMPL` generates, with the links `next` and `prev` of every element
and `free_head`; `TypingGame` walks the list as `update_letter_pos()` does,
with the element it stands on removed under it. `Devices` polls the keyboard,
where several events of one poll overwrite the single scan code. History
variables (`created`, `shots`, `presses`, `timer_requests`, `events`) serve the
properties and the bounds.

### PalItems

`inv` is `rgInventory`, whose entries end at the first empty one: `Search` is
the loop all its users share, `AddItem`, `TakeItem` and `Compressed` the
functions of global.c. `WithWorn` is what `PAL_ItemSelectMenuInit()` appends for
worn items that can be used: entries of amount 0 of which -1 are in use, so that
they count as one. An instruction of a script runs to its end, so `ScriptAdd`,
`ScriptRemove`, `ScriptUnequip`, `ScriptCash` and `Buy` are one action each; a
menu waits for keys, so each of its answers is one, and `menu` and `hand` say
which menu waits and for which item. `effect` holds the item whose numbers
`rgEquipmentEffect` contains, for every role and part: `Wear` is the item's
script (remove the effects, swap by instruction 0x18, set them anew),
`UpdateEquipments` what loading does. What other numbers an item's script gives
is data of the game and left out.

### PalParty

`poison` is `rgPoisonStatus`, by place in the party; every entry remembers the
role it was given to, which the program does not and `NoInheritedPoison`
compares. `status` holds the rounds that are left, `Lasting` what stays because
equipment set it. `StartBattle`, `EndTurn` and `EndBattle` are the parts of
battle.c and fight.c that write these arrays; `SetParty` is instruction 0x75
with the updates that follow it; `SaveAndLoad` loses the poisons, as
`PAL_LoadGame_Common()` does. Two pieces of equipment are followed: the weapon
whose script sets the dual attack for good, and the garment whose script gives
the poison of level 99. Left out: MP, levels, the instruction 0x39 that drains
an enemy, statuses longer than 999 that no equipment set. Hit points are 16 bits
wide in the code; the maxima of the game do not reach a wrap.

### PalBattle

Built without PAL_CLASSIC, as the repository builds it: everybody has a meter.
A frame is cut where `PAL_BattleDelay()` lets the menu run: `StartFrame`,
`EnemyTurn` for each enemy in turn, `EnemyBlow` and `EnemyEnds` of one that
acts, `MenuOfFrame`, `Charge` (the loop over the players), `Elect` (the end of
the frame with `PAL_BattlePlayerValidateAction()`), `PlayerActs` and
`PlayerEnds`. `MenuInDelay` is the menu while somebody acts. `order` is
`sTurnOrder`, numbered from 1 without gaps (the code leaves gaps behind and looks
for the lowest and the highest only), 0 being its -1: those who stay in the order
keep their places relative to each other, and new ones come behind (`Lined`).

Several battles follow each other (`StartBattle`), since one leaves something to
the next: `PAL_StartBattle()` clears the slots up to the one behind the last enemy
only, and an enemy of a battle that was fled from stays in a slot further back.
`battle` holds what a battle brings with it: the size of its party, the last slot
of its team (`wMaxEnemyIndex`) and the slots that are filled. `enemy` has all the
slots of the array; `Here` are those of this battle.

Scripts run in almost every action, and an instruction of theirs may end the
battle (script.c:1509, 2491) or not: `result' \in Scripted(result)`. They run at the
start of an enemy's turn and when it is ready, in its magic and its blow, in the
poisons at the end of its round and of a player's, and in a player's magics and
items. `PAL_BattlePostActionCheck()` may undo what the action of an enemy has
decided (`EnemyEnds`; section 6).

Abstractions: a hit point count is being alive; of the statuses of a player the
one that takes commands away; the item and the magic submenu are one state
`menu`; a meter is full after `Full` frames and stops at `cap`, which a battle
brings with it as a bound, as it does the commands and troubles that occur in it.
Left out: MP and experience, hiding, stealing, summoning, division of enemies,
auto-battle and the key that repeats the last commands, the messages.

## 3. The runs

Each cfg's properties have a mutant in PROJECT.json: a plausible bug in one
definition (operators marked `Bug:` in the modules) under which TLC finds the
property violated in the same run.

| Run | Instance | Shows |
|---|---|---|
| cache | 2 groups of 2 ways, lines of 2 bytes, 5 blocks, bytes 0 and 1, at most 2 bytes set | replacement, tags that compete, hits in either way, split accesses: no stale or double line, `FlatSpec` |
| memory | 4 pages and 4 frames of 4 bytes, window in frames 1 and 2, 2 lines of 3 bytes, 2 mappings, 2 operands, at most one byte set | every access, over every kind of border: `ByteByByte`, `ScreenFresh` |
| arith_wide | words of 3 bits, bytes of 2, chains of 2 limbs | `SumExact`, `DifferenceExact`, and `FlagsDecide` (overflow and order), for every operand |
| operate_all | words of 4 bits, 16-bit operands of 3, bytes of 2, counts to 6; floats of 3 bits of exponent and 4 of fraction | results and flags against their definitions (`BitsExact`, `ProductExact`, `QuotientExact`), `FloatExact` |
| debugger_all | 5 instructions, breakpoints at 2 of them, several at one too, a pool of 3, si with 1 and 2 | `Recoverable`, `PoolPartition`, `OneStopPerArrival`, `RunThroughOnlyForgotten` |
| ide | 4 sectors of 2 words, sector cache of 2, `Gap` = 6 | safety of driver and interrupts, and `ReaderSpec` with its liveness |
| typing_play | 2 letters, a pool of 3, 5 ticks, 2 key events, `Gap` = 0 | safety of game, handlers and list |
| typing_live | 1 letter, 4 ticks, 1 key event, `Gap` = 8 | `KeepsUp` |
| debugger_step | the same guest, one address, a pool of 1, si with 1 | the violation of section 6 |
| pal_items | 3 kinds of item, an inventory of 3 entries of at most 2, 3 roles, 1 part | `NothingHidden`, `EffectsFollow`, `EquipConserves` |
| pal_party | 2 roles, parties of 1 and 2, 3 poisons in 2 slots, 4 statuses | who carries which poison and status: `NoInheritedPoison`, `CharmFollows`, `DualInBattle`, `PuppetIsDead`, `HasteOrSlow` |
| pal_battle | 3 slots; four battles in any order: 2 players and 1 item against an enemy, with five commands, confusion and puppets; 2 against 2; 3 against 1, confused in turn; 1 against an enemy in slot 3 who may move twice, with flight | `OneCommander`, `CoopAlone`, `TargetIsThere`, `SomebodyToHit`, `NothingFromNothing`, `DecidedStays`, `TurnComes` |

Why the bounds are enough. *cache*: three blocks compete for the two lines of a group, so hits, misses into empty ways and evictions happen in every
order; a set byte more only adds data. *memory*: pages as short as the longest
access make every split (1+3, 2+2, 3+1) occur, and the lines of 3 bytes end
inside a page, at its end and below the screen; with one byte set, operands
that set byte 0 or byte 1 have the set byte in either part of a split and on
either of two lines. *arith_wide,
operate_all*: the code treats all bits below the top alike, so 3 or 4 bits have
every case of carry, sign and overflow; two limbs have a first and a last. The
theorems remove the bounds of both runs. Floats of 8 bits have
denormals, every alignment and cancellation, ties, carries out of the fraction
and overflow; four bits of fraction are the fewest with which a product of two
normal numbers is shifted right, as in the code, and 15 bits for `Long` leave a
quotient, like the code's, fewer bits than exact rounding would need
(`FpuAssumption`). *debugger_all*: a pool of 3
is full, empty and between, and holds three breakpoints at one address or two
and one elsewhere, so that the oldest, the newest and the one between are deleted
in every order; of the 2 addresses one is the handler's entry. The theorems
remove both bounds.
*ide*: 4 sectors over 2 entries collide; 2 words have a first and a last.
*typing*: a screen three rows high and a pool just large enough
(`PoolAssumption`). `MaxTick` and
`MaxEvents` end the inputs; `Bottom` and the speeds are units of the model.
*pal_items*: an inventory as long as the list of items is full, empty and
anything between, and the worn items that a menu appends may fill it; an amount
of 2 reaches its cap and 0. *pal_party*: a party of one and of two, in either
order, with slots that run out; 2 hit points are none, some and all; `MaxRounds`
= 1 makes every status end at once or last. The theorems of section 5 remove
both bounds. *pal_battle* (some 860,000 states, the largest run): each of its
battles is there for a case. In the first, two players, the fewest who interrupt
each other and cast together, have every kind of command but throw, which shares
the path of item and magic, and defend, which has no effect here; `cap` = 2
`Full` leaves room for the raise of the key that switches players. In the second a
target falls between the command and its turn while another enemy is up, and the
meters are slow enough for two enemies to leave a player a turn (`TurnComes`).
The third has more players than enemies, so that the number of a mate is that of
no enemy of the battle: it may be a slot the fourth has left filled when it was
fled from. In the fourth the team begins behind empty slots, and its enemy has a
first and a second move. The theorems of section 5 remove the bounds for all but
`TurnComes`.

The other properties a reader may look for are parts of the listed ones (the
type invariants of Debugger, Operate and TypingGame are conjuncts of
`PoolPartition`, `BitsExact` and `PoolSound`) or theorems only (section 5).

`CHECK_DEADLOCK FALSE` appears where the program may stop: the emulator ended
by an assertion (memory), or the guest's trap, the closed window and the
exhausted pool (debugger). *cache* runs under a constraint on data only.

## 4. Fairness

The loop of `exec()` never stops turning while the emulator runs, so every
enabled instruction, handler or turn of the guest is eventually executed: WF of
the main thread (in parts: the choice of the next sector is not fair, a program
need not read), of the handlers and of the turn in IdeDriver; WF of `Next` in
TypingGame.

A handler needs turns to finish. `Gap` in *ide* and *typing_live* is longer than
one: the timer fires every 10 ms of the host's clock and a key takes longer,
while a handler takes microseconds. With `Gap = 0` an interrupt could follow
every `iret` and the main thread would never run; no such machine is meant, and
no liveness is claimed for it.

TypingGame also has SF of the turn in which the timer raises: `do_timer()` looks
at the host's clock at every turn and raises again when 10 ms have passed,
whatever happened to the last request. Without it a tick counted just before
`hlt` would sleep for ever, and that is the real dependence of the game: it
needs the next tick to play the last.

PalBattle has WF of `Frame`: `PAL_BattleMain()` asks for the next frame without
end, and `PAL_BattleDelay()` for the end of the action in progress. Nothing is
assumed of the keys: the menu may stay untouched for ever, or be left in a
submenu, where time stands still and the turn of a player still comes.

## 5. What is proved

TLAPS proves these for every value of the constants under the named
assumptions of the modules, which TLC evaluates in every run.

**MemoryProofs**, two parts that share nothing. *Cache* (`CacheAssumption`: sizes
are positive): the invariant `IInv` is types, coherence and uniqueness of the
cached blocks, and that nothing is cached before boot. Loading the image behind
the cache is harmless for the last reason only. Uniqueness is needed for
coherence, as a write changes only the first way that hits, and coherence for
the refinement. A split read passes through an intermediate cache, so the facts
are about any `Good(c)`. Theorems: Typing, Coherence, Uniqueness, Eviction (an
action property) and Refinement. *Memory* (`SizesAssumption`,
`WindowAssumption`, `ScreenAssumption`, `DataAssumption`, `MappingsAssumption`:
any page size, window, screen and set of mappings; the window is made of whole
frames and contains the screen): `ByteByByte` is no induction but arithmetic: a
part of an access stays in a page, and a frame is in the window whole or not at
all, so the first byte of a part decides for all. `ScreenFresh` is inductive
together with the types: what a write changes on the line its part begins on is
on the line that is marked, and the rest is in `LaterPixels`, which does not
mention the marks. Theorems: MemInvariance, MemTyping, Split, Screen.

**IdeProofs** (`InterruptsAssumption`, `IdeAssumption`: any disk, sector size,
cache size and `Gap`). `NeverSleeps` is not inductive; the invariant says where
the disk's request can be. *Masked*: IF is off exactly while a handler runs.
*Token*: between the command and the end of the wait the request is in exactly
one of the controller, the entry of the handler and the flag, and otherwise in
none. *Copying*: how far the sector has been copied, while the entry carries its
old name. Theorems: Typing, Priority, Masking, NoSleep, NoStray,
SectorCacheCorrect, and Refinement of the safety part of DiskReader.

**ArithProofs** (`SizesAssumption`, `LimbsAssumption`: any widths, any number
of limbs). The invariant is the exactness itself, with the limbs below the
chain's weight: `z + CF * w = x + y`. A limb wraps at most once, and the
comparisons in `set_CF_adc()` and `set_CF_sbb()` find out whether it did.
`FlagsDecide` needs a second one, *SInv*: OF and SF, which the ALU computes from
the top bits of one limb, are those of the whole numbers, and ZF is that of the
difference while it has one limb. A limb is in the upper half of its span exactly
if the number it tops is in the upper half of its weight; with the exactness the
rest is arithmetic by cases of the signs.
Theorems: Typing, Sum, Difference, Deciding.
Of Operate (`OperateAssumption`: no size is above `Word`; `PowersAssumption`:
2^(i+j) = 2^i * 2^j for the exponents that occur, which a proof cannot find out)
the invariant is `BitsExact`, `ProductExact` and `QuotientExact` themselves: what
an instruction leaves depends on its operands and, for the flags it does not
write, on their being bits. So the work is in the arithmetic. The halves of a
product are the digits of p mod Span^2 (`Halves`); C's quotient is put together
from the one of the absolute values (`Quotients`) and fits unless -h is divided
by -1 (`QuotientFits`); `cltd` repeats the sign (`CltdExtends`). A shift place by
place and the bits of a logical operation are recursive functions: that they exist
(`Recursion`) and what they are (`Reached`) is shown by induction over a set of
numbers, from the well-foundedness of < on Nat, and gives the closed forms
dest * 2^c, dest \div 2^c and its signed like (`LeftPlaces`, `RightPlaces`,
`SignedPlaces`), which are what the ALU computes up to the size of the operand;
past it nothing is left but zeros or copies of the sign (`LeftGone`, `HighPower`).
Theorems: OpInvariance, Bits, Products, Dividing.
Of the floats (`FpuAssumption`: four bits of fraction or more, and a quotient with
more bits than are rounded away; `FloatPowersAssumption`: powers of two double)
`FloatExact` holds for exponents and fractions of any size. What one
instruction leaves depends on its operands alone, so again the work is in the
arithmetic. *Tells* says of a significand with its three spare bits that it is
below, at or above a multiple of the rounding unit exactly when the number it
stands for is; the last bit may be sticky. `Jam` keeps that relation
when it shifts right (`JamIs`, `JamTells`), a sum or a cancellation keeps it
(`SummedIs`, `TellsCancelled`), and a significand that keeps it is rounded to the
nearest float (`NearestTold`), of which no other number need be known. The loops
of `internal_normalize()` are recursive functions: they exist
and end (`LoopExists`, `LoopEnds`), and each way through it (the lemmas
`Normalize...`) gives a result that is *Rightly* rounded. The loops of the
division leave the quotient of a dividend shifted left as far as it goes (`LeftIs`,
`RightIs`, `QuotientIs`) and drop the remainder, which is why a quotient may be the
lower neighbour. Comparisons follow from the order of magnitudes being the order of
values (`RankOrder`, `FlagsOrder`), and C0 and C3 survive their way through the
status word wherever the top of the stack is (`StatusBits`). Theorem:
FloatingExact.

**DebuggerProofs** (`DebuggerAssumption`: any code, breakpoints, size of the
pool and counts for `si`; the handler is left by `iret` alone). Two invariants
are about data. *Lists* says of the two lists that they share out the pool, and of
several breakpoints at one address that the oldest has saved the program's byte,
unless the address is `lost`; *Code* that nothing but INT3
is patched in, and only under a breakpoint or where the code is lost. None of the properties about stopping is inductive.
*Armed*: a breakpoint that is not patched in is the one of the latest stop, and
the state is still BREAK or STOP, or the next instruction patches it in, unless
`exec()` has forgotten. *Waiting*: since the stop nothing but a keyboard
interrupt has moved the guest; this needs that an interrupt left pending at the
end of a turn waits for an `iret`, hence *Machine*, which says that the guest is
in the handler's code exactly while a return address is kept. Theorems:
Invariance, Partition (with the types), Recover, StopsOnce, RunThrough. Any number
of breakpoints at one address is part of the model and of the proof; what goes
wrong there is named in the properties by `doubled` and `lost`.

**PalBattleProofs** (`PalBattleAssumption`: any sequence of battles of any
parties and teams, any meters and items in stock; of the sizes only that an array
of enemies has a slot for every player of a party, 5 and 3 in the game). No
property is inductive alone; the invariant has layers, each using the ones
before. *Types*: with them whose turn and whose menu it can be.
*Commanders*: whose menu is open. While a cooperative magic waits the user
interface is closed and nobody else commands (*CoopWaits*), and a player has a place
in the order only with a command (*Menus*). *Aims*: a command names an enemy's
slot of this battle until its validation names another, and the slot behind the
last is empty (*Edge*), which is why a stale slot is met only further back.
*Frames*: what a frame has left to do. *Course*: while the team has not moved there
are enemies left, and a decision means that it has. *Supplied*: the items that
the one who acts holds are in stock. *Bodies*: who has fallen is removed. That at
most one player commands and the order gives each a place of his own is shown over
cardinalities (`Lined`). The choices of code (the first in the order, the
fullest meter, the automatic target) are CHOOSEs over sets of numbers, and
exist by the least-number principle. Theorems: Typing, Invariance,
SingleCommander, CoopUndisturbed, Aiming, Drawing, ItemsUsed, Decisions.

**PalItemsProofs** (`PalItemsAssumption`: any items, flags, prices, roles,
parts, any size of inventory and amount). Three invariants, each on top of the
last. `IInv`: the types and `effect = equip`. `Apart(inv)`: an entry that counts
has no empty entry and none of its kind before it, which is `NothingHidden`
without the search; that `Compressed` and `WithWorn` keep it needs that what is
moved keeps its rank, and that below a position of one rank there are positions
of every lower rank (`RanksBelow`), which follows from the least-number
principle (`Least`, from the well-foundedness of < on Nat). `HandThere`: the menu
that equips starts from a list without used-up entries, and what is in hand is
in the inventory. Theorems: Typing, Effects, Visible, and Conserves under the
condition that the inventory has a place for every kind of item; without it the
item that comes off can be lost (section 6). The game has 256 places; how many
kinds of item there are is in its data files.

**PalPartyProofs** (`PalPartyAssumption`: any roles, size of the party, poisons,
slots, hit points, statuses). None of the properties is inductive alone:
`DualInBattle` needs that only the weapon sets the status for good
(`DualIsArmed`); `PuppetIsDead`, which is about members, needs that outside a
battle it is true of everyone who may join (`PuppetOutside`) and that no puppet
lasts for good (`PuppetEnds`), so that the end of a battle ends it. Theorems:
Typing, NoInherited, Charmless, Exclusive, DualWhileArmed, DeadPuppets.

**TypingProofs** (`InterruptsAssumption`, `LinkListAssumption`,
`TypingAssumption`: any letters, screen, speeds and `Gap`, and any pool; for
`Sound` also `PoolAssumption`, below). *Masked*: where the code of the kernel or
the game has interrupts off, nothing has been entered but the game's own system
call; elsewhere one handler may have been, with IF off and to be restored. After a hit `update_keypress()` is called again with
interrupts off, so at its `cli()` IF may be either. *Awake*: the processor is
halted only just after the `hlt` of the loop. *Charge*: the keys noted and not
yet used are shots still to come, so `shots` and their number together never
exceed `presses`. Theorems: Invariance, Excluded, Wakes, OneShot.

Whether the pool is used soundly is the longest proof. Its invariant (*Flights*)
gives the letters on the screen as a sequence S, the free elements as a sequence
F and for each letter the tick b at which it appeared: the links lead through S
and back, and through F, no element is in both, and once the pool is linked
together they are all of it. That the recursive `Step` finds just these
sequences is shown for any list of LinkList (`Walk`, by the least-number
principle; `Found`), and what new and free do to them as well (`NewSplits`,
`RemoveSplits`): an element comes from the front of F to the front of S, and from
any place of S to the front of F. The pool never runs out because a letter's
height tells how long it has flown (*Aged*: at most `Bottom \div Down` ticks down
and `Bottom \div Up` up, also when it is shot on its way), letters appear at
different multiples of `LetterPeriod`, and so the letters on the screen inject
into few numbers (`FewLetters`). `PoolAssumption` says that the pool is larger
than that; the game's numbers ask for 13 of its 1000 elements, and in a smaller
pool than the assumption asks for the assertion of `fly_new()` may fail. *Listed* and *Ticked* follow a
request of the timer from the slot to `tick`, for the type of `tick`. Theorems:
InOrder, Sound.

## 6. Disagreements

The run *debugger_step* shows that the code does not do what a message of the
repository says; PROJECT.json quotes the line. `si` that spends its last
instruction on meeting a breakpoint turns NEMU_BREAK into NEMU_READY
(nemu/src/cpu/cpu.c:120); the breakpoint stays listed and is run through.
`RunThroughOnlyForgotten` shows that there is no other way.

The others were met while modelling. The modules do what the code does; the
properties state what is right in spite of them, or are restricted as said.

*Emulator and kernel.*

- `sbb` of bytes computes its borrow on `data_size` bits
  (nemu/src/cpu/instr/sbb.c:12), against the comment at nemu/src/cpu/alu.c:249.
  `DifferenceExact` speaks of chains without it.
- `alu_div()` cuts the dividend to `data_size` bits (nemu/src/cpu/alu.c:509),
  `alu_mod()` does not (alu.c:474).
- A product whose `exp_res` is 0 is scaled by 2^-127 where
  `internal_normalize()` assumes 2^-126, and comes out doubled
  (nemu/src/cpu/fpu.c:104); one that should be rounded up from a denormal to
  2^-126 becomes 0 (fpu.c:122). `FloatExact` shows that only results below
  2^-126 are affected, and the first way only with a denormal factor.
- `and`, `or` and `xor` of bytes set ZF and SF from `data_size` bits
  (nemu/src/cpu/instr/xor.c:10), against the comments at alu.c:87 and 96.
- `fpu_cmp()` and `fpu_cmpi()` never set C2 and PF (nemu/src/cpu/fpu.c:612,
  634): a NaN compares as equal to everything. `FloatOrder` speaks of numbers and
  infinities.
- `sahf` writes the low half of EFLAGS (nemu/src/cpu/instr/flags.c:19) and so
  clears OF, DF and IF: after a comparison of floats compiled for the i386, as
  the test cases are (testcase/Makefile:5), no interrupt is taken until the next
  `sti`. The games' Makefile names no processor; `fucomi` leaves IF alone.
- A shift by 0 shifts by `src - 1` (alu.c:911), which C leaves undefined.
- A 4-byte access split 3 and 1 by a page inside the video memory fails the
  assertion of nemu/src/device/io/mm_io.c:67; `Fail` of Memory reaches it.
- A second breakpoint at one address saves INT3 as the program's byte
  (nemu/src/monitor/breakpoint.c:57), and the stop restores that, against the
  comment at nemu/src/cpu/cpu.c:84: the guest stays where it is. The program's byte
  comes back if the newest is deleted first; `d` without a number begins with the
  oldest (breakpoint.c:118) and leaves INT3 behind. `Recoverable` says when the
  byte is lost, `OneStopPerArrival` and `RunThroughOnlyForgotten` name the
  addresses where a second breakpoint was set.
- The pool of handlers has 32 entries and the assertion lets 33 pass
  (kernel/src/irq/irq_handle.c:24); the programs register three.
- `create_video_mapping()` clears the first entry of the directory after the
  loader has filled it (kernel/src/memory/vmem.c:27).
- The comment at game/src/typing/game.c:32 says that `tick` counts the
  interrupts of the timer; requests overwritten by the keyboard's are lost.

*Paladin port* (files below game/src/nemu-pal/).

- An item that finds the inventory full, or its amount at 99, is lost: no
  caller of `PAL_AddItemToInventory()` looks at its answer, and a purchase is
  paid all the same (ui/uigame.c:1578).
- Instruction 0x20, when the inventory has fewer than asked, empties the entry
  and then takes the full number off the roles (game/script.c:947).
- Removing poisons by level also shifts out entries behind a gap, whatever the
  comment at global/global.c:897 says of level 99; and loading a game forgets
  the poisons that saving stored (global/global.c:406).
- The loop of `PAL_StartBattle()` that clears the enemies ends at the first
  unused slot (battle/battle.c:1188); enemies of a battle that was fled from
  stay behind it, and `PAL_BattlePlayerValidateAction()` may take one for a
  target when an attack on a mate becomes an attack, as with three players against
  one enemy. The model does so; `TargetIsThere` excepts this case by name and so
  shows that it is the only one.
- Two calls pass kBattleActionCoopMagic where a value of the user interface's
  enumeration is meant (ui/uibattle.c:1425, 1579).
- `PAL_BattlePostActionCheck()` sets the result to going on after the script of a
  friend or of a dying player (battle/fight.c:792, 855). If the magic or the blow
  of the enemy who struck him has just decided the battle by a script of its own
  (fight.c:4387, 4771), the decision is lost. `DecidedStays` shows that no other
  is: nobody begins to act in a frame in which one was made.
- A player whose turn has come may wait for ever if the enemies are quick enough:
  in a frame they come first, and only one acts (battle/fight.c:1318). `TurnComes` is
  true where an enemy's meter takes longer to fill than all enemies take to act.
  An enemy keeps three frames of a round to itself; speeds are dexterities divided
  by four, the unit that of the first player (fight.c:388, 437), so that the meter
  of an enemy ten times as quick as he still takes forty frames.
- The cursor of the item menu may become -1 when the list is empty
  (ui/itemmenu.c:94).

## 7. Limits

Only model-checked: liveness (`ReaderSpec`'s fairness part, `KeepsUp`,
`TurnComes`), which is out of the prover's reach. Every safety property that a
passing run checks is also a theorem, `EquipConserves` under the condition of
section 5.

Proved and not run: the type invariants, `EvictOnlyWhenFull`, `SlotIsHighest` and
`HandlersMasked`. TLC found each of them true before it was proved.

Not modelled, with the reason; PROJECT.json has the complete list.

- Decoding and operands: tables and a function without history. (The index of
  `shr %cl` in nemu/src/cpu/decode/opcode.c:100 differs from opcode_ref.c.)
- The register stack of the FPU, and the conversions between
  floats, doubles and integers: planned.
- Data movement, stack, string instructions: planned.
- TLB, DMA, audio: compiled out. File system: every operation panics.
- VGA palette ports, page tables entry by entry, `mm_brk`, loader: planned.
  `mm_malloc` exists as an object file only and can be modelled only from its use.
- Serial line, printing, drawing, SDL: output without state.
- Of the Paladin port: event objects, scenes, maps and dialogs, whose behaviour
  is written in scripts that are data files and not in the repository; damage,
  MP, experience and spoils, which are arithmetic over the same data; pictures,
  text, sound and input, which are decoders without history.
- newlib and the reference emulator: vendored, as headers and archives.

The modules map some 7,900 lines of the source. Of the 108,000 lines of the
repository, 47,000 are two tables of glyphs (`include/big5font.h`,
`include/gbfont.h`); most others draw, decode, print, are headers of libraries
or tables of instructions. A definition over those would have no property to
serve, so the share of modelled lines stays low by nature and not by plan.

## 8. Plan

Done, in this order, the most important behaviour first: memory behind the
cache and its refinement; interrupts with the disk driver and its refinement;
the game on the machine; the monitor; the arithmetic; linear memory and screen;
the belongings, the condition and the battles of the Paladin port, the first two
with all their properties proved, as the monitor's are.

Next, as modules:

1. *KernelMemory*: `init_page`, `init_mm`, the loader's calls of `mm_malloc`
   (external), `create_video_mapping`, `mm_brk`, and the directories entry by
   entry, refining the mapping of Memory. Properties: the kernel's mapping
   survives in the program's directory, the screen is mapped identically, two
   pages of the program never share a frame, and the loader's mappings survive
   `create_video_mapping` (vmem.c:27 clears the first entry).
2. *SectorCache with writes*: the write-back the timer's handler would do to the
   driver it interrupts, latent as long as `ide_write()` has no caller.
3. *Strings*: `rep` as a loop over Memory with ECX, and the end on ZF.
4. *X87*: the register stack whose top wraps without a check, refining a stack
   of at most eight floats.
5. *Ports*: the dispatch of port_io.c and the colour pointer of the palette.
6. *PalBattle* with enemies that divide, and hiding; composed with PalParty,
   whose `EndTurn` abstracts it.

Next, as runs: the length-3 assertion of mm_io.c:67; two programs' mappings.

Next, as theorems: the safety properties of these modules.
