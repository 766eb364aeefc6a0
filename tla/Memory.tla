------------------------------- MODULE Memory -------------------------------
(***************************************************************************)
(* The guest's view of memory above the cache: laddr_read() and            *)
(* laddr_write() of nemu/src/memory/memory.c, which split an access that   *)
(* crosses a page; page_translate(); the window of the video memory among  *)
(* the physical addresses, nemu/src/device/io/mm_io.c; and the screen,     *)
(* nemu/src/device/dev/vga.c, which redraws the lines marked dirty.        *)
(*                                                                         *)
(* The memory outside the window is FlatMemory, which Cache implements.    *)
(* The walk through directory and table is abstracted to the mapping it    *)
(* computes: no write of the guest goes to the tables of a mapping in use; *)
(* the kernel builds one and loads cr3.  Segments are flat: their base is  *)
(* 0 and their limit the last address, as segment.c asserts.               *)
(***************************************************************************)
EXTENDS Integers

CONSTANTS PageSize,      \* bytes of a page
          NPages,        \* linear pages
          NFrames,       \* physical frames
          FirstFrame,    \* the frames of the window: 0xa0000 ...
          LastFrame,     \* ... to 0xbffff
          CTR_ROW,       \* visible lines
          CTR_COL,       \* bytes of a line
          Octet, Blank,    \* values of a byte; the one memory is cleared to
          Data,          \* the operands of writes, four bytes each, lowest first
          Mappings       \* the mappings the kernel builds

OperandLens == {1, 2, 4}
MaxLen == 4

Page == 0 .. NPages - 1
Frame == 0 .. NFrames - 1
NoFrame == NFrames       \* the entry of a page that is not present
Laddr == 0 .. NPages * PageSize - 1
Paddr == 0 .. NFrames * PageSize - 1

Low  == FirstFrame * PageSize                  \* 0xa0000
High == (LastFrame + 1) * PageSize - 1         \* 0xbffff

\* The space add_mmio_map() gave the device, and the bytes behind it that an
\* access beginning in the window can reach.
Space == 0 .. High - Low + MaxLen - 1

ASSUME SizesAssumption ==
         /\ PageSize \in Nat /\ PageSize >= MaxLen
         /\ NPages \in Nat \ {0} /\ NFrames \in Nat \ {0}
ASSUME WindowAssumption ==
         /\ FirstFrame \in Frame /\ LastFrame \in Frame
         /\ FirstFrame <= LastFrame
ASSUME ScreenAssumption ==
         /\ CTR_ROW \in Nat \ {0} /\ CTR_COL \in Nat \ {0}
         /\ CTR_ROW * CTR_COL <= High - Low + 1
ASSUME DataAssumption ==
         /\ Blank \in Octet
         /\ Data \subseteq [0 .. MaxLen - 1 -> Octet]
ASSUME MappingsAssumption == Mappings \subseteq [Page -> Frame \cup {NoFrame}]

VARIABLES ram,        \* RAM, as the cache presents it
          mmio_space,    \* the video memory
          paging,        \* cr0.pg
          mapping,       \* what the tables of cr3 say
          line_dirty,    \* the lines to be redrawn
          vmem_dirty,
          screen,        \* the pixels as they were last drawn
          failed         \* an assertion has ended the emulator

\* History, read by no action: the pixels last written by an access that began
\* on an earlier line and not drawn since.
VARIABLE tails

memory  == <<ram, mmio_space>>
display == <<line_dirty, vmem_dirty, screen, tails>>
memVars == <<memory, paging, mapping, display, failed>>

Row == 0 .. CTR_ROW - 1
Pixel == 0 .. CTR_ROW * CTR_COL - 1
LineOf(pixel) == pixel \div CTR_COL

-----------------------------------------------------------------------------
(* page.c, mm_io.c and the split of an access in memory.c                  *)

\* page_translate() of a present page.
Translate(laddr) == mapping[laddr \div PageSize] * PageSize + (laddr % PageSize)

Present(laddr) == mapping[laddr \div PageSize] # NoFrame

\* is_mmio()
IsMmio(paddr) == Low <= paddr /\ paddr <= High

Crosses(laddr, len) == laddr \div PageSize # (laddr + len - 1) \div PageSize

ToPageEnd(laddr) == (laddr \div PageSize + 1) * PageSize - laddr

\* Bug: the rest of the access is looked for behind the first part.
NextFrame(laddr, len1) == Translate(laddr) + len1

SecondPart(laddr, len1) == Translate(laddr + len1)

\* The physical accesses a linear one is made of: where each begins, its
\* length and the byte of the operand it begins with.
Parts(laddr, len) ==
  IF ~paging THEN {[paddr |-> laddr, len |-> len, from |-> 0]}
  ELSE IF ~Crosses(laddr, len)
  THEN {[paddr |-> Translate(laddr), len |-> len, from |-> 0]}
  ELSE LET len1 == ToPageEnd(laddr)
       IN  {[paddr |-> Translate(laddr), len |-> len1, from |-> 0],
            [paddr |-> SecondPart(laddr, len1), len |-> len - len1, from |-> len1]}

Bytes(part) == part.from .. part.from + part.len - 1

\* Where byte i of the operand goes: the first byte of its part decides
\* between RAM and device.
Place(part, i) == [mmio |-> IsMmio(part.paddr), addr |-> part.paddr + (i - part.from)]

\* page_translate() asserts that the pages are present, mmio_read() and
\* mmio_write() that the length is one of an operand.
Fails(laddr, len) ==
  \/ paging /\ ~(Present(laddr) /\ Present(laddr + len - 1))
  \/ \E part \in Parts(laddr, len) : IsMmio(part.paddr) /\ part.len \notin OperandLens

\* Where an access may begin: neither RAM nor the linear addresses wrap.
Reaches(laddr, len) == laddr + len - 1 \in IF paging THEN Laddr ELSE Paddr

-----------------------------------------------------------------------------
(* Accesses of the guest, and the refresh of the screen.                   *)

\* The byte of the operand that a part takes to a place, if it does.
ByteFor(part, place) == part.from + (place.addr - part.paddr)
Reached(part, place) ==
  ByteFor(part, place) \in Bytes(part) /\ Place(part, ByteFor(part, place)) = place

\* What paddr_write() of every part leaves at a place that held old.
Written(parts, place, data, old) ==
  IF \E part \in parts : Reached(part, place)
  THEN data[ByteFor(CHOOSE part \in parts : Reached(part, place), place)]
  ELSE old

\* Bug: the line is that of the address, not of the place in the window.
MarkedByAddress(paddr) == {LineOf(paddr)} \cap Row

\* The lines vga_vmem_io_handler() marks after a write at paddr.
Marked(paddr) == {LineOf(paddr - Low)} \cap Row

MarkedBy(parts) == UNION {Marked(part.paddr) : part \in {p \in parts : IsMmio(p.paddr)}}

Ram(a) == [mmio |-> FALSE, addr |-> a]
Video(b) == [mmio |-> TRUE, addr |-> Low + b]

WrittenPixels(parts) == {p \in Pixel : \E part \in parts : Reached(part, Video(p))}

\* Those of them that lie on a later line than the first byte of their part.
LaterPixels(parts) ==
  {p \in Pixel : \E part \in parts :
     Reached(part, Video(p)) /\ LineOf(p) # LineOf(part.paddr - Low)}

Write(laddr, len, data) ==
  /\ ~failed /\ Reaches(laddr, len) /\ ~Fails(laddr, len)
  /\ LET parts  == Parts(laddr, len)
         marked == MarkedBy(parts)
     IN  /\ ram' = [a \in Paddr |-> Written(parts, Ram(a), data, ram[a])]
         /\ mmio_space' = [b \in Space |-> Written(parts, Video(b), data, mmio_space[b])]
         /\ line_dirty' = line_dirty \cup marked
         /\ vmem_dirty' = (vmem_dirty \/ marked # {})
         /\ tails' = (tails \ WrittenPixels(parts)) \cup LaterPixels(parts)
  /\ UNCHANGED <<paging, mapping, screen, failed>>

\* An access that fails an assertion.
Fail(laddr, len) ==
  /\ ~failed /\ Reaches(laddr, len) /\ Fails(laddr, len)
  /\ failed' = TRUE
  /\ UNCHANGED <<memory, paging, mapping, display>>

\* init_page() turns paging on, and it stays on; the kernel loads cr3 again
\* when it has mapped the program.
LoadCr3(m) ==
  /\ ~failed
  /\ paging' = TRUE
  /\ mapping' = m
  /\ UNCHANGED <<memory, display, failed>>

\* Bug: the lines are marked clean and the screen is not drawn.
NotDrawn == screen

Drawn == [p \in Pixel |-> IF LineOf(p) \in line_dirty THEN mmio_space[p] ELSE screen[p]]

\* do_vga() when the time has come: update_screen().
DoVga ==
  /\ ~failed /\ vmem_dirty
  /\ screen' = Drawn
  /\ line_dirty' = {}
  /\ vmem_dirty' = FALSE
  /\ tails' = {p \in tails : Drawn[p] # mmio_space[p]}
  /\ UNCHANGED <<memory, paging, mapping, failed>>

-----------------------------------------------------------------------------

MemInit ==
  /\ ram = [a \in Paddr |-> Blank]
  /\ mmio_space = [b \in Space |-> Blank]
  /\ paging = FALSE
  /\ mapping \in Mappings
  /\ line_dirty = {}
  /\ vmem_dirty = FALSE
  /\ screen = [p \in Pixel |-> Blank]
  /\ failed = FALSE
  /\ tails = {}

MemNext == \/ \E laddr \in Laddr, len \in OperandLens : Fail(laddr, len) \/ \E data \in Data : Write(laddr, len, data)
        \/ \E m \in Mappings : LoadCr3(m)
        \/ DoVga

MemSpec == MemInit /\ [][MemNext]_memVars

-----------------------------------------------------------------------------

\* Types of the variables.
MemTypeOK ==
  /\ ram \in [Paddr -> Octet]
  /\ mmio_space \in [Space -> Octet]
  /\ paging \in BOOLEAN
  /\ mapping \in Mappings
  /\ line_dirty \subseteq Row
  /\ vmem_dirty \in BOOLEAN
  /\ screen \in [Pixel -> Octet]
  /\ failed \in BOOLEAN
  /\ tails \subseteq Pixel

\* The place of one byte, on its own.
Home(laddr) == LET p == Translate(laddr) IN [mmio |-> IsMmio(p), addr |-> p]

\* With paging on, an access is the accesses of its bytes: each goes to the
\* frame of its own page, and to the device exactly if its own address lies in
\* the window, although is_mmio() looks at the first byte of each part only.
ByteByByte ==
  paging => \A laddr \in Laddr, len \in OperandLens :
    Reaches(laddr, len) /\ Present(laddr) /\ Present(laddr + len - 1) =>
      /\ \A part \in Parts(laddr, len) : \A i \in Bytes(part) : Place(part, i) = Home(laddr + i)
      /\ UNION {Bytes(part) : part \in Parts(laddr, len)} = 0 .. len - 1

\* A pixel that is not on the screen as the program wrote it is drawn at the
\* next refresh: its line is marked, whichever page the access went through and
\* whatever was marked and drawn before.  Excepted are the bytes an access wrote
\* behind the end of the line it began on, and only until they are written
\* again or drawn: vga_vmem_io_handler() marks the line of the first byte.
ScreenFresh ==
  \A p \in Pixel : screen[p] # mmio_space[p] =>
    p \in tails \/ (vmem_dirty /\ LineOf(p) \in line_dirty)
=============================================================================
