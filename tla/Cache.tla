------------------------------- MODULE Cache --------------------------------
(***************************************************************************)
(* The cache between the processor and the memory of the emulator:         *)
(* nemu/src/memory/mmu/cache.c and the functions of memory.c below it.     *)
(*                                                                         *)
(* It is set associative, write through and does not allocate on a write.  *)
(* A miss of a read fills an empty way of the group, or a way chosen by    *)
(* rand() when the group is full.  An access that crosses the end of a     *)
(* line is split in two accesses, low part first.                          *)
(*                                                                         *)
(* The code has NGroups = 128, NWays = 8 and LineSize = 64, and block b    *)
(* of memory has group b % 128 and tag b \div 128.                         *)
(***************************************************************************)
EXTENDS Integers

CONSTANTS NGroups,    \* CACHE_SIZE_GROUP
          NWays,      \* CACHE_GROUP_SIZE
          LineSize,   \* CACHE_LINE_SIZE
          NBlocks,    \* lines of memory: MEM_SIZE_B / LineSize
          Byte,       \* what a byte can hold
          Zero,       \* the byte init_mem clears the memory with
          Lens,       \* lengths of an access; the code uses 1 to 4
          Images      \* memory as load_exec may leave it

ASSUME CacheAssumption ==
         /\ NGroups \in Nat \ {0}
         /\ NWays \in Nat \ {0}
         /\ LineSize \in Nat \ {0}
         /\ NBlocks \in Nat \ {0}
         /\ Zero \in Byte
         /\ Images \subseteq [0 .. NBlocks * LineSize - 1 -> Byte]
         /\ Lens \subseteq 1 .. LineSize  \* so that an access is split at most once

VARIABLES hw_mem,     \* the memory
          cache,      \* cache[g][w] is the line at index g * NWays + w
          booted,     \* load_exec has put the image in memory
          resp        \* the answer of the latest access

vars == <<hw_mem, cache, booted, resp>>

-----------------------------------------------------------------------------

Blocks  == 0 .. NBlocks - 1
Addr    == 0 .. NBlocks * LineSize - 1
Groups  == 0 .. NGroups - 1
Ways    == 0 .. NWays - 1
Offsets == 0 .. LineSize - 1
Datum(n) == [0 .. n - 1 -> Byte]

\* The fields of a physical address.
BlockOf(p)  == p \div LineSize
OffsetOf(p) == p % LineSize
GroupOf(b)  == b % NGroups
Tags        == 0 .. (NBlocks - 1) \div NGroups
TagOf(b)    == b \div NGroups

Line == [valid : BOOLEAN, tag : Tags, data : [Offsets -> Byte]]

NoResp == <<>>

-----------------------------------------------------------------------------

\* Way w of c holds block b.
Holds(c, b, w) == /\ c[GroupOf(b)][w].valid
                  /\ c[GroupOf(b)][w].tag = TagOf(b)

\* Bug: only the first way of the group is compared.
HitFirstWay(c, b) == Holds(c, b, 0)

\* check_cache() finds the block.
Hit(c, b) == \E w \in Ways : Holds(c, b, w)

\* The way check_cache() returns: the lowest one that holds the block.
HitWay(c, b) == CHOOSE w \in Ways : /\ Holds(c, b, w)
                                    /\ \A v \in Ways : Holds(c, b, v) => w <= v

\* The ways a miss may fill: find_empty_line()'s, or any one if there is none.
Empty(c, b) == {w \in Ways : ~c[GroupOf(b)][w].valid}
Victims(c, b) == IF Empty(c, b) = {} THEN Ways
                 ELSE {w \in Empty(c, b) : \A v \in Empty(c, b) : w <= v}

\* The line a miss stores: block b as it is in memory.
Fetched(b) == [valid |-> TRUE, tag |-> TagOf(b),
               data |-> [o \in Offsets |-> hw_mem[b * LineSize + o]]]

\* The caches a read that stays in block b may leave, starting from c.
AfterRead(c, b) ==
  IF Hit(c, b) THEN {c}
  ELSE {[c EXCEPT ![GroupOf(b)][w] = Fetched(b)] : w \in Victims(c, b)}

\* The byte at p that a read answers when it finds the cache as c.
ByteRead(c, p) ==
  IF Hit(c, BlockOf(p))
  THEN c[GroupOf(BlockOf(p))][HitWay(c, BlockOf(p))].data[OffsetOf(p)]
  ELSE hw_mem[p]

Span(p, n) == p .. p + n - 1

\* Bug: an access over two lines writes the low part only.
MemLowPart(p, n, d) ==
  [a \in Addr |-> IF a \in Span(p, n) /\ BlockOf(a) = BlockOf(p)
                  THEN d[a - p] ELSE hw_mem[a]]

\* Memory after the n bytes of d have been written at p.
MemAfterWrite(p, n, d) ==
  [a \in Addr |-> IF a \in Span(p, n) THEN d[a - p] ELSE hw_mem[a]]

\* The block in way w of group g, and the address of its byte o.
BlockIn(g, w) == cache[g][w].tag * NGroups + g
ByteIn(g, w, o) == BlockIn(g, w) * LineSize + o

\* Bug: a write goes to memory only.
CacheNotWritten(p, n, d) == cache

\* The cache after that write: the lines that hit take the bytes written to
\* them, a line that is not there is not brought in.
CacheAfterWrite(p, n, d) ==
  [g \in Groups |-> [w \in Ways |-> [cache[g][w] EXCEPT !.data =
     [o \in Offsets |->
        IF /\ cache[g][w].valid
           /\ HitWay(cache, BlockIn(g, w)) = w
           /\ ByteIn(g, w, o) \in Span(p, n)
        THEN d[ByteIn(g, w, o) - p] ELSE cache[g][w].data[o]]]]]

-----------------------------------------------------------------------------

\* init_mem(): memory is cleared and every line is invalid; what an invalid
\* line still holds is not touched.
Init == /\ hw_mem = [a \in Addr |-> Zero]
        /\ cache \in [Groups -> [Ways -> {[valid |-> FALSE, tag |-> 0,
                                           data |-> [o \in Offsets |-> Zero]]}]]
        /\ booted = FALSE
        /\ resp = NoResp

\* load_exec() reads the image file straight into hw_mem, behind the cache.
LoadExec(img) == /\ ~booted
                 /\ hw_mem' = img
                 /\ booted' = TRUE
                 /\ resp' = NoResp
                 /\ UNCHANGED cache

\* cache_read()
CacheRead(p, n) ==
  /\ booted
  /\ Span(p, n) \subseteq Addr
  /\ LET low  == BlockOf(p)
         high == BlockOf(p + n - 1)
     IN  \E c \in AfterRead(cache, low) :
           /\ resp' = [i \in 0 .. n - 1 |->
                         ByteRead(IF BlockOf(p + i) = low THEN cache ELSE c, p + i)]
           /\ IF high = low THEN cache' = c ELSE cache' \in AfterRead(c, high)
  /\ UNCHANGED <<hw_mem, booted>>

\* cache_write()
CacheWrite(p, n, d) ==
  /\ booted
  /\ Span(p, n) \subseteq Addr
  /\ hw_mem' = MemAfterWrite(p, n, d)
  /\ cache' = CacheAfterWrite(p, n, d)
  /\ resp' = NoResp
  /\ UNCHANGED booted

Next == \/ \E img \in Images : LoadExec(img)
        \/ \E n \in Lens, p \in Addr :
             CacheRead(p, n) \/ \E d \in Datum(n) : CacheWrite(p, n, d)

Spec == Init /\ [][Next]_vars

-----------------------------------------------------------------------------

\* Types of the variables: the memory, the lines, the answer.
TypeOK == /\ hw_mem \in [Addr -> Byte]
          /\ cache \in [Groups -> [Ways -> Line]]
          /\ booted \in BOOLEAN
          /\ resp \in {NoResp} \cup UNION {Datum(n) : n \in Lens}

\* Every valid line holds, byte for byte, what memory holds.  cache_write
\* keeps it by writing both, cache_read by fetching the whole line; load_exec,
\* which writes memory only, relies on init_cache having emptied the cache.
CoherentIn(c) ==
  \A g \in Groups, w \in Ways : c[g][w].valid =>
    LET b == c[g][w].tag * NGroups + g
    IN  /\ b \in Blocks
        /\ \A o \in Offsets : c[g][w].data[o] = hw_mem[b * LineSize + o]
Coherent == CoherentIn(cache)

\* No block sits in two ways of its group.  check_cache stops at the first
\* way that matches, so a second copy would miss the writes and answer stale
\* bytes once the first one is replaced.
NoDuplicatesIn(c) ==
  \A g \in Groups : \A v, w \in Ways :
    /\ c[g][v].valid
    /\ c[g][w].valid
    /\ c[g][v].tag = c[g][w].tag
    => v = w
NoDuplicates == NoDuplicatesIn(cache)

\* Until the image is loaded nothing has been read into the cache.
ColdBeforeBoot == ~booted => \A g \in Groups, w \in Ways : ~cache[g][w].valid

\* The inductive invariant.
IInv == TypeOK /\ Coherent /\ NoDuplicates /\ ColdBeforeBoot

\* A block leaves the cache only when every way of its group is in use once
\* the access is done: find_empty_line is asked before rand().  (Not before
\* the access: a split read may fill the last empty way and then replace.)
EvictOnlyWhenFull ==
  [][\A g \in Groups, w \in Ways :
       cache[g][w].valid /\ cache'[g][w].tag # cache[g][w].tag
         => \A v \in Ways : cache'[g][v].valid]_vars

\* What the cache is for: from the moment the image is loaded, every access is
\* a read or a write of the flat memory of FlatMemory, which knows no cache:
\* a read answers what was written last, wherever it was found, and a write,
\* split over lines or not, leaves exactly its own bytes changed.
Flat == INSTANCE FlatMemory WITH mem <- hw_mem
FlatSpec == Flat!Spec
=============================================================================
