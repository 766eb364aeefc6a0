---------------------------- MODULE MemoryProofs ----------------------------
(***************************************************************************)
(* Proofs about the memory system: first Cache, for every geometry of the  *)
(* cache, every size of memory and every set of bytes, then Memory above   *)
(* it, for every size of page, memory, window and screen, and for every    *)
(* mapping.                                                                *)
(*                                                                         *)
(* The cache never holds a stale or a duplicate line, and no access can    *)
(* tell it from flat memory.  A read passes through an intermediate cache  *)
(* when it is split over two lines, so the facts are stated for any cache  *)
(* c that is Good, not only for the variable.                              *)
(*                                                                         *)
(* That a linear access is the accesses of its bytes is a fact about the   *)
(* arithmetic of laddr_read() and laddr_write(): a part of an access stays *)
(* in one page, and a frame is in the window whole or not at all.  That    *)
(* the screen is fresh is inductive together with the types.               *)
(***************************************************************************)
EXTENDS Cache, Memory, TLAPS

USE CacheAssumption

\* A cache that is well typed, coherent with memory and free of duplicates.
Good(c) == /\ c \in [Groups -> [Ways -> Line]]
           /\ CoherentIn(c)
           /\ NoDuplicatesIn(c)

-----------------------------------------------------------------------------
(* The cache.                                                              *)
(* Arithmetic of addresses.                                                *)

\* Quotient and remainder recompose the number.
LEMMA DivMod ==
  ASSUME NEW a \in Nat, NEW n \in Nat \ {0}
  PROVE  /\ a \div n \in Nat
         /\ a % n \in 0 .. n - 1
         /\ a = (a \div n) * n + (a % n)
OBVIOUS

\* A number in mixed radix has the quotient and remainder it was built from.
LEMMA MulDiv ==
  ASSUME NEW q \in Nat, NEW n \in Nat \ {0}, NEW r \in 0 .. n - 1
  PROVE  /\ q * n + r \in Nat
         /\ (q * n + r) \div n = q
         /\ (q * n + r) % n = r
OBVIOUS

\* ... and is below m * n exactly when its quotient is below m.
LEMMA MulBound ==
  ASSUME NEW q \in Nat, NEW m \in Nat, NEW n \in Nat \ {0}, NEW r \in 0 .. n - 1
  PROVE  q * n + r \in 0 .. m * n - 1 <=> q \in 0 .. m - 1
OBVIOUS

\* Division is monotonic.
LEMMA DivMono ==
  ASSUME NEW a \in Nat, NEW b \in Nat, a <= b, NEW n \in Nat \ {0}
  PROVE  a \div n <= b \div n
OBVIOUS

\* The block and the offset of an address recompose it.
LEMMA AddrFields ==
  ASSUME NEW p \in Addr
  PROVE  /\ p \in Nat
         /\ BlockOf(p) \in Blocks
         /\ OffsetOf(p) \in Offsets
         /\ p = BlockOf(p) * LineSize + OffsetOf(p)
<1>1. p \in Nat /\ NBlocks * LineSize \in Nat
  BY DEF Addr
<1>2. /\ BlockOf(p) \in Nat
      /\ OffsetOf(p) \in Offsets
      /\ p = BlockOf(p) * LineSize + OffsetOf(p)
  BY <1>1, DivMod DEF BlockOf, OffsetOf, Offsets
<1>3. BlockOf(p) \in Blocks
  BY <1>2, MulBound DEF Addr, Blocks, Offsets
<1> QED BY <1>1, <1>2, <1>3

\* Every byte of every block is an address.
LEMMA BlockByte ==
  ASSUME NEW b \in Blocks, NEW o \in Offsets
  PROVE  b * LineSize + o \in Addr
BY MulBound DEF Addr, Blocks, Offsets

\* The tag and the group of a block recompose it.
LEMMA BlockFields ==
  ASSUME NEW b \in Blocks
  PROVE  /\ GroupOf(b) \in Groups
         /\ TagOf(b) \in Tags
         /\ TagOf(b) * NGroups + GroupOf(b) = b
<1>1. b \in Nat
  BY DEF Blocks
<1>2. /\ b \div NGroups \in Nat
      /\ b % NGroups \in 0 .. NGroups - 1
      /\ b = (b \div NGroups) * NGroups + (b % NGroups)
  BY <1>1, DivMod
<1> DEFINE last == NBlocks - 1
<1>3. last \in Nat /\ b <= last
  BY <1>1 DEF Blocks
<1>4. last \div NGroups \in Nat /\ b \div NGroups <= last \div NGroups
  <2> HIDE DEF last
  <2> QED BY <1>1, <1>3, DivMod, DivMono
<1> QED BY <1>2, <1>3, <1>4 DEF Groups, GroupOf, TagOf, Tags

\* ... and a tag and a group are those of one number only.
LEMMA FieldsBlock ==
  ASSUME NEW t \in Tags, NEW g \in Groups
  PROVE  /\ GroupOf(t * NGroups + g) = g
         /\ TagOf(t * NGroups + g) = t
<1>1. t \in Nat
  BY DivMod DEF Tags
<1> QED BY <1>1, MulDiv DEF Groups, GroupOf, TagOf

-----------------------------------------------------------------------------
(* The lookup and the read of one line.                                    *)

\* In a good cache the lookup finds the only way that holds the block.
LEMMA HitWayUnique ==
  ASSUME NEW c, Good(c), NEW b \in Blocks, NEW w \in Ways, Holds(c, b, w)
  PROVE  HitWay(c, b) = w
<1>1. \A v \in Ways : Holds(c, b, v) => v = w
  BY BlockFields DEF Good, NoDuplicatesIn, Holds
<1>2. \A v \in Ways : Holds(c, b, v) => w <= v
  BY <1>1 DEF Ways
<1> QED BY <1>1, <1>2 DEF HitWay

\* Whether it hits or misses, a read of a byte answers what memory holds.
LEMMA ByteReadCorrect ==
  ASSUME NEW c, Good(c), NEW p \in Addr
  PROVE  ByteRead(c, p) = hw_mem[p]
<1> DEFINE b == BlockOf(p)
<1>1. b \in Blocks /\ OffsetOf(p) \in Offsets /\ p = b * LineSize + OffsetOf(p)
  BY AddrFields
<1>2. CASE Hit(c, b)
  <2>1. PICK w \in Ways : Holds(c, b, w)
    BY <1>2 DEF Hit
  <2>2. HitWay(c, b) = w
    BY <1>1, <2>1, HitWayUnique
  <2>3. c[GroupOf(b)][w].data[OffsetOf(p)] = hw_mem[b * LineSize + OffsetOf(p)]
    BY <1>1, <2>1, BlockFields DEF Good, CoherentIn, Holds
  <2> QED BY <1>1, <1>2, <2>2, <2>3 DEF ByteRead
<1>3. CASE ~Hit(c, b)
  BY <1>3 DEF ByteRead
<1> QED BY <1>2, <1>3

\* A line fetched by a miss is a line, and it holds the block.
LEMMA FetchedLine ==
  ASSUME hw_mem \in [Addr -> Byte], NEW b \in Blocks
  PROVE  /\ Fetched(b) \in Line
         /\ Fetched(b).valid
         /\ Fetched(b).tag = TagOf(b)
         /\ \A o \in Offsets : Fetched(b).data[o] = hw_mem[b * LineSize + o]
BY BlockByte, BlockFields DEF Fetched, Line

\* A read of a line leaves the cache good, keeps valid lines valid, and
\* changes the tag of a valid line only if the whole group is then in use.
LEMMA AfterReadGood ==
  ASSUME hw_mem \in [Addr -> Byte],
         NEW c, Good(c), NEW b \in Blocks, NEW d \in AfterRead(c, b)
  PROVE  /\ Good(d)
         /\ \A g \in Groups, w \in Ways : c[g][w].valid => d[g][w].valid
         /\ \A g \in Groups, w \in Ways :
              c[g][w].valid /\ d[g][w].tag # c[g][w].tag
                => \A v \in Ways : d[g][v].valid
<1>1. CASE Hit(c, b)
  BY <1>1 DEF AfterRead
<1>2. CASE ~Hit(c, b)
  <2> DEFINE k == GroupOf(b)
  <2>1. k \in Groups /\ TagOf(b) \in Tags /\ TagOf(b) * NGroups + k = b
    BY BlockFields
  <2>2. c \in [Groups -> [Ways -> Line]]
    BY DEF Good
  <2>3. PICK u \in Victims(c, b) : d = [c EXCEPT ![k][u] = Fetched(b)]
    BY <1>2 DEF AfterRead
  <2>4. u \in Ways
    BY <2>3 DEF Victims, Empty
  <2>5. /\ d[k][u] = Fetched(b)
        /\ \A g \in Groups, w \in Ways :
             (g # k \/ w # u) => d[g][w] = c[g][w]
    BY <2>1, <2>2, <2>3, <2>4
  <2>6. d \in [Groups -> [Ways -> Line]]
    BY <2>1, <2>2, <2>3, <2>4, FetchedLine
  <2>7. CoherentIn(d)
    <3> SUFFICES ASSUME NEW g \in Groups, NEW w \in Ways, d[g][w].valid
                 PROVE  LET x == d[g][w].tag * NGroups + g
                        IN  /\ x \in Blocks
                            /\ \A o \in Offsets :
                                 d[g][w].data[o] = hw_mem[x * LineSize + o]
      BY DEF CoherentIn
    <3>1. CASE g = k /\ w = u
      BY <2>1, <2>5, <3>1, FetchedLine
    <3>2. CASE g # k \/ w # u
      BY <2>5, <3>2 DEF Good, CoherentIn
    <3> QED BY <3>1, <3>2
  <2>8. NoDuplicatesIn(d)
    <3> SUFFICES ASSUME NEW g \in Groups, NEW v \in Ways, NEW w \in Ways,
                        d[g][v].valid, d[g][w].valid,
                        d[g][v].tag = d[g][w].tag, v # w
                 PROVE  FALSE
      BY DEF NoDuplicatesIn
    <3>1. CASE g = k /\ (v = u \/ w = u)
      BY <1>2, <2>5, <3>1, FetchedLine DEF Hit, Holds
    <3>2. CASE ~(g = k /\ (v = u \/ w = u))
      BY <2>5, <3>2 DEF Good, NoDuplicatesIn
    <3> QED BY <3>1, <3>2
  <2>9. \A g \in Groups, w \in Ways : c[g][w].valid => d[g][w].valid
    BY <2>5, FetchedLine
  <2>10. ASSUME NEW g \in Groups, NEW w \in Ways,
                c[g][w].valid, d[g][w].tag # c[g][w].tag
         PROVE  \A v \in Ways : d[g][v].valid
    <3>1. g = k /\ w = u
      BY <2>5, <2>10
    <3>2. Empty(c, b) = {}
      BY <2>3, <2>10, <3>1 DEF Victims, Empty
    <3> QED BY <2>9, <3>1, <3>2 DEF Empty
  <2> QED BY <2>6, <2>7, <2>8, <2>9, <2>10 DEF Good
<1> QED BY <1>1, <1>2

-----------------------------------------------------------------------------
(* The two accesses as steps.                                              *)

\* A read answers the bytes of memory and leaves a good cache; valid lines
\* stay valid and are replaced only in a group that is then full.
LEMMA ReadStep ==
  ASSUME TypeOK, Good(cache), NEW n \in Lens, NEW p \in Addr, CacheRead(p, n)
  PROVE  /\ resp' = [i \in 0 .. n - 1 |-> hw_mem[p + i]]
         /\ Good(cache')
         /\ \A g \in Groups, w \in Ways :
              cache[g][w].valid /\ cache'[g][w].tag # cache[g][w].tag
                => \A v \in Ways : cache'[g][v].valid
<1> DEFINE low  == BlockOf(p)
           high == BlockOf(p + n - 1)
<1>1. hw_mem \in [Addr -> Byte]
  BY DEF TypeOK
<1>2. n \in Nat /\ n >= 1 /\ p \in Nat
  BY AddrFields
<1>3. \A i \in 0 .. n - 1 : p + i \in Addr
  BY <1>2 DEF CacheRead, Span
<1>4. p + n - 1 \in Addr
  BY <1>2, <1>3
<1>5. low \in Blocks /\ high \in Blocks
  BY <1>4, AddrFields
<1>6. PICK c \in AfterRead(cache, low) :
        /\ resp' = [i \in 0 .. n - 1 |->
                      ByteRead(IF BlockOf(p + i) = low THEN cache ELSE c, p + i)]
        /\ IF high = low THEN cache' = c ELSE cache' \in AfterRead(c, high)
  BY DEF CacheRead
<1>7. /\ Good(c)
      /\ \A g \in Groups, w \in Ways : cache[g][w].valid => c[g][w].valid
      /\ \A g \in Groups, w \in Ways :
           cache[g][w].valid /\ c[g][w].tag # cache[g][w].tag
             => \A v \in Ways : c[g][v].valid
  BY <1>1, <1>5, <1>6, AfterReadGood
<1>8. \A i \in 0 .. n - 1 :
        ByteRead(IF BlockOf(p + i) = low THEN cache ELSE c, p + i) = hw_mem[p + i]
  BY <1>3, <1>7, ByteReadCorrect
<1>9. resp' = [i \in 0 .. n - 1 |-> hw_mem[p + i]]
  BY <1>6, <1>8
<1>10. CASE high = low
  BY <1>6, <1>7, <1>9, <1>10
<1>11. CASE high # low
  <2>1. cache' \in AfterRead(c, high)
    BY <1>6, <1>11
  <2>2. /\ Good(cache')
        /\ \A g \in Groups, w \in Ways : c[g][w].valid => cache'[g][w].valid
        /\ \A g \in Groups, w \in Ways :
             c[g][w].valid /\ cache'[g][w].tag # c[g][w].tag
               => \A v \in Ways : cache'[g][v].valid
    BY <1>1, <1>5, <1>7, <2>1, AfterReadGood
  <2>3. ASSUME NEW g \in Groups, NEW w \in Ways,
               cache[g][w].valid, cache'[g][w].tag # cache[g][w].tag
        PROVE  \A v \in Ways : cache'[g][v].valid
    <3>1. CASE c[g][w].tag # cache[g][w].tag
      BY <1>7, <2>2, <2>3, <3>1
    <3>2. CASE c[g][w].tag = cache[g][w].tag
      BY <1>7, <2>2, <2>3, <3>2
    <3> QED BY <3>1, <3>2
  <2> QED BY <1>9, <2>2, <2>3
<1> QED BY <1>10, <1>11

\* A write changes the bytes of memory it names and the same bytes of the
\* lines that hold them; no line changes its tag or its valid bit.
LEMMA WriteStep ==
  ASSUME TypeOK, Good(cache), NEW n \in Lens, NEW p \in Addr,
         NEW d \in Datum(n), CacheWrite(p, n, d)
  PROVE  /\ hw_mem' \in [Addr -> Byte]
         /\ Good(cache)'
         /\ \A g \in Groups, w \in Ways :
              /\ cache'[g][w].valid = cache[g][w].valid
              /\ cache'[g][w].tag = cache[g][w].tag
<1>1. hw_mem \in [Addr -> Byte] /\ cache \in [Groups -> [Ways -> Line]]
  BY DEF TypeOK
<1>2. n \in Nat /\ n >= 1 /\ p \in Nat
  BY AddrFields
<1>3. \A a \in Span(p, n) : a \in Addr /\ d[a - p] \in Byte
  <2>1. \A a \in Span(p, n) : a \in Addr /\ a - p \in 0 .. n - 1
    BY <1>2 DEF CacheWrite, Span
  <2> QED BY <2>1 DEF Datum
<1>4. hw_mem' = [a \in Addr |-> IF a \in Span(p, n) THEN d[a - p] ELSE hw_mem[a]]
  BY DEF CacheWrite, MemAfterWrite
<1>5. hw_mem' \in [Addr -> Byte]
  BY <1>1, <1>3, <1>4
<1>6. cache' = CacheAfterWrite(p, n, d)
  BY DEF CacheWrite
<1> DEFINE NewByte(g, w, o) ==
      IF /\ cache[g][w].valid
         /\ HitWay(cache, BlockIn(g, w)) = w
         /\ ByteIn(g, w, o) \in Span(p, n)
      THEN d[ByteIn(g, w, o) - p] ELSE cache[g][w].data[o]
<1>7. \A g \in Groups, w \in Ways :
        cache'[g][w] = [cache[g][w] EXCEPT !.data = [o \in Offsets |-> NewByte(g, w, o)]]
  BY <1>6 DEF CacheAfterWrite
<1>8. \A g \in Groups, w \in Ways :
        cache[g][w] \in Line /\ \A o \in Offsets : NewByte(g, w, o) \in Byte
  BY <1>1, <1>3 DEF Line
<1>9. \A g \in Groups, w \in Ways :
        /\ cache'[g][w] \in Line
        /\ cache'[g][w].valid = cache[g][w].valid
        /\ cache'[g][w].tag = cache[g][w].tag
        /\ cache'[g][w].data = [o \in Offsets |-> NewByte(g, w, o)]
  <2> SUFFICES ASSUME NEW g \in Groups, NEW w \in Ways
               PROVE  /\ cache'[g][w] \in Line
                      /\ cache'[g][w].valid = cache[g][w].valid
                      /\ cache'[g][w].tag = cache[g][w].tag
                      /\ cache'[g][w].data = [o \in Offsets |-> NewByte(g, w, o)]
    OBVIOUS
  <2> DEFINE nd == [o \in Offsets |-> NewByte(g, w, o)]
  <2>1. nd \in [Offsets -> Byte]
    BY <1>8
  <2>2. cache'[g][w] = [cache[g][w] EXCEPT !.data = nd] /\ cache[g][w] \in Line
    BY <1>7, <1>8
  <2> HIDE DEF nd, NewByte
  <2>3. /\ cache'[g][w] \in Line
        /\ cache'[g][w].valid = cache[g][w].valid
        /\ cache'[g][w].tag = cache[g][w].tag
        /\ cache'[g][w].data = nd
    BY <2>1, <2>2 DEF Line
  <2> QED BY <2>3 DEF nd
<1>10. cache' \in [Groups -> [Ways -> Line]]
  <2>1. cache' = [g \in Groups |-> [w \in Ways |-> cache'[g][w]]]
    BY <1>6 DEF CacheAfterWrite
  <2> QED BY <1>9, <2>1
<1>11. CoherentIn(cache)'
  <2> SUFFICES ASSUME NEW g \in Groups, NEW w \in Ways, cache'[g][w].valid
               PROVE  LET b == cache'[g][w].tag * NGroups + g
                      IN  /\ b \in Blocks
                          /\ \A o \in Offsets :
                               cache'[g][w].data[o] = hw_mem'[b * LineSize + o]
    BY DEF CoherentIn
  <2> DEFINE b == BlockIn(g, w)
  <2>1. cache[g][w].valid /\ b = cache'[g][w].tag * NGroups + g
    BY <1>9 DEF BlockIn
  <2>2. b \in Blocks /\ \A o \in Offsets : cache[g][w].data[o] = hw_mem[b * LineSize + o]
    BY <2>1 DEF Good, CoherentIn, BlockIn
  <2>3. HitWay(cache, b) = w
    <3>1. cache[g][w].tag \in Tags
      BY <1>8 DEF Line
    <3>2. Holds(cache, b, w)
      BY <2>1, <3>1, FieldsBlock DEF Holds, BlockIn
    <3> QED BY <2>2, <3>2, HitWayUnique
  <2>4. ASSUME NEW o \in Offsets
        PROVE  cache'[g][w].data[o] = hw_mem'[b * LineSize + o]
    <3>1. b * LineSize + o \in Addr /\ ByteIn(g, w, o) = b * LineSize + o
      BY <2>2, BlockByte DEF ByteIn
    <3>2. cache'[g][w].data[o] = NewByte(g, w, o)
      <4> DEFINE nd == [x \in Offsets |-> NewByte(g, w, x)]
      <4>1. cache'[g][w].data = nd
        BY <1>9
      <4>2. nd[o] = NewByte(g, w, o)
        OBVIOUS
      <4> QED BY <4>1, <4>2
    <3> QED BY <1>4, <2>1, <2>2, <2>3, <3>1, <3>2
  <2> QED BY <2>1, <2>2, <2>4
<1>12. NoDuplicatesIn(cache)'
  <2> HIDE DEF NewByte
  <2>1. \A g \in Groups, w \in Ways :
          /\ cache'[g][w].valid = cache[g][w].valid
          /\ cache'[g][w].tag = cache[g][w].tag
    BY <1>9
  <2> QED BY <2>1 DEF Good, NoDuplicatesIn
<1> HIDE DEF NewByte
<1> QED BY <1>5, <1>9, <1>10, <1>11, <1>12 DEF Good

-----------------------------------------------------------------------------
(* The theorems.                                                           *)

\* After init_mem the invariant holds.
LEMMA InitIInv == Init => IInv
<1> SUFFICES ASSUME Init PROVE IInv
  OBVIOUS
<1>1. TypeOK
  <2> DEFINE none == [valid |-> FALSE, tag |-> 0, data |-> [o \in Offsets |-> Zero]]
  <2>1. none \in Line
    <3>1. 0 \in Tags
      BY DivMod DEF Tags
    <3> QED BY <3>1 DEF Line
  <2>2. cache \in [Groups -> [Ways -> {none}]]
    BY DEF Init
  <2>3. cache \in [Groups -> [Ways -> Line]]
    <3> HIDE DEF none
    <3> QED BY <2>1, <2>2
  <2>4. hw_mem \in [Addr -> Byte]
    BY DEF Init
  <2> QED BY <2>3, <2>4 DEF Init, TypeOK
<1>2. \A g \in Groups, w \in Ways : ~cache[g][w].valid
  BY DEF Init
<1> QED
  BY <1>1, <1>2 DEF IInv, Coherent, CoherentIn, NoDuplicates, NoDuplicatesIn, ColdBeforeBoot

\* Every step of the memory system preserves it.
LEMMA NextIInv == IInv /\ [Next]_vars => IInv'
<1> SUFFICES ASSUME IInv, [Next]_vars PROVE IInv'
  OBVIOUS
<1> USE DEF Coherent, NoDuplicates
<1>1. TypeOK /\ Good(cache)
  BY DEF IInv, Good, TypeOK
<1>2. ASSUME NEW img \in Images, LoadExec(img) PROVE IInv'
  <2>1. TypeOK'
    BY <1>1, <1>2 DEF TypeOK, LoadExec, Addr
  <2>2. \A g \in Groups, w \in Ways : ~cache'[g][w].valid
    BY <1>2 DEF IInv, ColdBeforeBoot, LoadExec
  <2> QED
    BY <2>1, <2>2 DEF IInv, CoherentIn, NoDuplicatesIn, ColdBeforeBoot
<1>3. ASSUME NEW n \in Lens, NEW p \in Addr, CacheRead(p, n) PROVE IInv'
  <2>1. /\ resp' = [i \in 0 .. n - 1 |-> hw_mem[p + i]]
        /\ Good(cache')
    BY <1>1, <1>3, ReadStep
  <2>2. hw_mem' = hw_mem /\ booted' = TRUE
    BY <1>1, <1>3 DEF CacheRead, TypeOK
  <2>3. resp' \in Datum(n)
    <3>1. \A i \in 0 .. n - 1 : p + i \in Addr
      <4>1. n \in Nat /\ p \in Nat
        BY AddrFields
      <4> QED BY <1>3, <4>1 DEF CacheRead, Span
    <3>2. \A i \in 0 .. n - 1 : hw_mem[p + i] \in Byte
      BY <1>1, <3>1 DEF TypeOK
    <3> QED BY <2>1, <3>2 DEF Datum
  <2>4. CoherentIn(cache)'
    BY <2>1, <2>2 DEF Good, CoherentIn
  <2>5. TypeOK'
    BY <1>1, <2>1, <2>2, <2>3 DEF TypeOK, Good
  <2>6. NoDuplicatesIn(cache)' /\ ColdBeforeBoot'
    BY <2>1, <2>2 DEF Good, NoDuplicatesIn, ColdBeforeBoot
  <2> QED
    BY <2>4, <2>5, <2>6 DEF IInv
<1>4. ASSUME NEW n \in Lens, NEW p \in Addr, NEW d \in Datum(n), CacheWrite(p, n, d)
      PROVE  IInv'
  <2>1. hw_mem' \in [Addr -> Byte] /\ Good(cache)'
    BY <1>1, <1>4, WriteStep
  <2>2. resp' = NoResp /\ booted' = TRUE
    BY <1>1, <1>4 DEF CacheWrite, TypeOK
  <2>3. TypeOK'
    BY <2>1, <2>2 DEF TypeOK, Good
  <2> QED
    BY <2>1, <2>2, <2>3 DEF IInv, Good, ColdBeforeBoot
<1>5. CASE UNCHANGED vars
  BY <1>5 DEF IInv, TypeOK, CoherentIn, NoDuplicatesIn, ColdBeforeBoot, vars
<1> QED BY <1>2, <1>3, <1>4, <1>5 DEF Next

\* In every reachable state the types are right, every valid line agrees with
\* memory and no block is cached twice.
THEOREM Invariance == Spec => []IInv
<1>1. Init => IInv
  BY InitIInv
<1>2. IInv /\ [Next]_vars => IInv'
  BY NextIInv
<1> QED BY <1>1, <1>2, PTL DEF Spec

\* The type invariant, by itself.
THEOREM Typing == Spec => []TypeOK
BY Invariance, PTL DEF IInv

\* No valid line is ever stale (nemu/src/memory/mmu/cache.c).
THEOREM Coherence == Spec => []Coherent
BY Invariance, PTL DEF IInv

\* No block is ever in two ways of its group.
THEOREM Uniqueness == Spec => []NoDuplicates
BY Invariance, PTL DEF IInv

\* A block is evicted only from a group every way of which is in use.
THEOREM Eviction == Spec => EvictOnlyWhenFull
<1> DEFINE A == \A g \in Groups, w \in Ways :
                  cache[g][w].valid /\ cache'[g][w].tag # cache[g][w].tag
                    => \A v \in Ways : cache'[g][v].valid
<1>1. ASSUME IInv, [Next]_vars PROVE [A]_vars
  <2>1. TypeOK /\ Good(cache)
    BY <1>1 DEF IInv, Good, TypeOK, Coherent, NoDuplicates
  <2>2. ASSUME NEW img \in Images, LoadExec(img) PROVE A
    BY <2>2 DEF LoadExec
  <2>3. ASSUME NEW n \in Lens, NEW p \in Addr, CacheRead(p, n) PROVE A
    BY <2>1, <2>3, ReadStep
  <2>4. ASSUME NEW n \in Lens, NEW p \in Addr, NEW d \in Datum(n), CacheWrite(p, n, d)
        PROVE  A
    BY <2>1, <2>4, WriteStep
  <2>5. Next => A
    BY <2>2, <2>3, <2>4 DEF Next
  <2> HIDE DEF A
  <2> QED BY <1>1, <2>5
<1> QED BY <1>1, Invariance, PTL DEF Spec, EvictOnlyWhenFull

\* The cache implements flat memory: whatever the processor reads is what was
\* last written, whichever lines are cached and whatever rand() picks.
THEOREM Refinement == Spec => FlatSpec
<1>1. Init => Flat!Init
  <2> SUFFICES ASSUME Init PROVE Flat!Init
    OBVIOUS
  <2>1. hw_mem \in [Addr -> Byte] /\ booted = FALSE /\ resp = <<>>
    BY DEF Init, NoResp
  <2> QED BY <2>1 DEF Flat!Init, Flat!NoResp
<1>2. ASSUME IInv, [Next]_vars PROVE [Flat!Next]_<<hw_mem, booted, resp>>
  <2>1. TypeOK /\ Good(cache)
    BY <1>2 DEF IInv, Good, TypeOK, Coherent, NoDuplicates
  <2>2. ASSUME NEW img \in Images, LoadExec(img) PROVE Flat!Next
    BY <2>2 DEF LoadExec, Addr, Flat!Next, Flat!Load, Flat!NoResp, NoResp
  <2>3. ASSUME NEW n \in Lens, NEW p \in Addr, CacheRead(p, n) PROVE Flat!Next
    <3>1. Flat!Read(p, n)
      BY <2>1, <2>3, ReadStep DEF CacheRead, Flat!Read
    <3>2. Flat!Span(p, n) \subseteq Addr
      BY <2>3 DEF CacheRead, Span, Flat!Span
    <3> QED BY <3>1, <3>2 DEF Flat!Next
  <2>4. ASSUME NEW n \in Lens, NEW p \in Addr, NEW d \in Datum(n), CacheWrite(p, n, d)
        PROVE  Flat!Next
    <3>1. Flat!Write(p, n, d)
      BY <2>4 DEF CacheWrite, MemAfterWrite, Span, NoResp,
                  Flat!Write, Flat!Stored, Flat!Span, Flat!NoResp
    <3>2. Flat!Span(p, n) \subseteq Addr /\ d \in Flat!Datum(n)
      BY <2>4 DEF CacheWrite, Span, Datum, Flat!Span, Flat!Datum
    <3> QED BY <3>1, <3>2 DEF Flat!Next
  <2> QED BY <1>2, <2>2, <2>3, <2>4 DEF Next, vars
<1> QED BY <1>1, <1>2, Invariance, PTL DEF Spec, FlatSpec, Flat!Spec

-----------------------------------------------------------------------------
(* Linear memory and the screen.                                           *)

HIDE CacheAssumption

MemIInv == MemTypeOK /\ ScreenFresh

-----------------------------------------------------------------------------
(* Arithmetic of pages.                                                    *)

\* Where the bytes after a lie: in its page, or at the beginning of the next.
LEMMA NextBytes ==
  ASSUME NEW a \in Nat, NEW n \in Nat \ {0}, NEW i \in 0 .. n - 1
  PROVE  IF (a % n) + i < n
         THEN (a + i) \div n = a \div n /\ (a + i) % n = (a % n) + i
         ELSE (a + i) \div n = (a \div n) + 1 /\ (a + i) % n = (a % n) + i - n
<1> DEFINE q == a \div n
           r == a % n
<1>1. q \in Nat /\ r \in 0 .. n - 1 /\ a = q * n + r BY DivMod
<1>2. a % n = r /\ a \div n = q OBVIOUS
<1> HIDE DEF q, r
<1>3. CASE r + i < n
  <2>1. r + i \in 0 .. n - 1 BY <1>1, <1>3
  <2>2. a + i = q * n + (r + i) BY <1>1
  <2> QED BY <1>1, <1>2, <1>3, <2>1, <2>2, MulDiv
<1>4. CASE ~(r + i < n)
  <2>1. r + i - n \in 0 .. n - 1 BY <1>1, <1>4
  <2>2. a + i = (q + 1) * n + (r + i - n) BY <1>1
  <2> DEFINE s == q + 1
             t == r + i - n
  <2>3. s \in Nat /\ t \in 0 .. n - 1 /\ a + i = s * n + t BY <1>1, <2>1, <2>2
  <2> HIDE DEF s, t
  <2>4. (a + i) \div n = s /\ (a + i) % n = t BY <2>3, MulDiv
  <2> QED BY <1>2, <1>4, <2>4 DEF s, t
<1> QED BY <1>3, <1>4

\* An address is in the window exactly when its frame is.
LEMMA InWindow ==
  ASSUME NEW f \in Nat, NEW o \in 0 .. PageSize - 1
  PROVE  IsMmio(f * PageSize + o) <=> FirstFrame <= f /\ f <= LastFrame
<1> DEFINE P == PageSize
           A == FirstFrame
           B == LastFrame
<1>1. P \in Nat \ {0} /\ A \in Nat /\ B \in Nat
  BY SizesAssumption, WindowAssumption DEF Frame, MaxLen
<1>2. IsMmio(f * P + o) <=> A * P <= f * P + o /\ f * P + o <= (B + 1) * P - 1
  BY DEF IsMmio, Low, High
<1> HIDE DEF P, A, B
<1>3. A <= f => A * P <= f * P + o BY <1>1
<1>4. f < A => f * P + o < A * P
  <2>1. f < A => (f + 1) * P <= A * P BY <1>1
  <2> QED BY <1>1, <2>1 DEF P
<1>5. f <= B => f * P + o <= (B + 1) * P - 1
  <2>1. f <= B => (f + 1) * P <= (B + 1) * P BY <1>1
  <2> QED BY <1>1, <2>1 DEF P
<1>6. B < f => (B + 1) * P - 1 < f * P + o
  <2>1. B < f => (B + 1) * P <= f * P BY <1>1
  <2> QED BY <1>1, <2>1
<1>7. IsMmio(f * P + o) <=> A <= f /\ f <= B BY <1>1, <1>2, <1>3, <1>4, <1>5, <1>6
<1> QED BY <1>7 DEF P, A, B

-----------------------------------------------------------------------------
(* An access is the accesses of its bytes.                                 *)

\* Addresses are numbers, and pages that are present have frames.
LEMMA Addresses ==
  ASSUME MemTypeOK, NEW laddr \in Laddr
  PROVE  /\ laddr \in Nat
         /\ laddr \div PageSize \in Page
         /\ laddr % PageSize \in 0 .. PageSize - 1
         /\ Present(laddr) => mapping[laddr \div PageSize] \in Frame
         /\ Present(laddr) => mapping[laddr \div PageSize] \in Nat
<1>1. PageSize \in Nat \ {0} /\ NPages \in Nat /\ laddr \in Nat /\ laddr < NPages * PageSize
  BY SizesAssumption DEF Laddr, MaxLen
<1>2. /\ laddr \div PageSize \in Nat
      /\ laddr % PageSize \in 0 .. PageSize - 1
      /\ laddr = (laddr \div PageSize) * PageSize + (laddr % PageSize)
  BY <1>1, DivMod
<1>3. laddr \div PageSize \in Page
  <2> DEFINE q == laddr \div PageSize
             r == laddr % PageSize
  <2>1. q \in Nat /\ r \in Nat /\ q * PageSize + r < NPages * PageSize BY <1>1, <1>2
  <2> HIDE DEF q, r
  <2>2. q < NPages
    <3> SUFFICES ASSUME NPages <= q PROVE FALSE BY <1>1, <2>1
    <3>1. NPages * PageSize <= q * PageSize BY <1>1, <2>1
    <3> QED BY <1>1, <2>1, <3>1
  <2> QED BY <1>1, <2>1, <2>2 DEF Page, q
<1>4. mapping \in [Page -> Frame \cup {NoFrame}] BY MappingsAssumption DEF MemTypeOK
<1>5. Present(laddr) => mapping[laddr \div PageSize] \in Frame BY <1>3, <1>4 DEF Present
<1> QED BY <1>1, <1>2, <1>3, <1>5 DEF Frame

\* Bytes of one page are next to each other in its frame, on the same side of
\* the border of the window.
LEMMA SamePage ==
  ASSUME MemTypeOK, NEW laddr \in Laddr, Present(laddr), NEW i \in 0 .. PageSize - 1,
         laddr + i \in Laddr, (laddr % PageSize) + i < PageSize
  PROVE  /\ Translate(laddr) \in Nat
         /\ Translate(laddr + i) = Translate(laddr) + i
         /\ IsMmio(Translate(laddr)) <=> IsMmio(Translate(laddr + i))
<1> DEFINE q == laddr \div PageSize
           r == laddr % PageSize
           f == mapping[q]
<1>1. PageSize \in Nat \ {0} BY SizesAssumption DEF MaxLen
<1>2. laddr \in Nat /\ r \in 0 .. PageSize - 1 /\ f \in Nat BY Addresses
<1>3. (laddr + i) \div PageSize = q /\ (laddr + i) % PageSize = r + i BY <1>1, <1>2, NextBytes
<1>4. Translate(laddr) = f * PageSize + r /\ Translate(laddr + i) = f * PageSize + (r + i)
  BY <1>3 DEF Translate
<1>5. r + i \in 0 .. PageSize - 1 BY <1>1, <1>2
<1> HIDE DEF q, r, f
<1>6. IsMmio(f * PageSize + r) <=> IsMmio(f * PageSize + (r + i)) BY <1>2, <1>5, InWindow
<1> QED BY <1>1, <1>2, <1>4, <1>6

\* A part of an access that stays in the page it begins in takes its bytes
\* where they belong.
LEMMA PartInPage ==
  ASSUME MemTypeOK, NEW laddr \in Laddr, NEW from \in Nat, NEW len \in Nat,
         laddr + from \in Laddr, Present(laddr + from),
         ((laddr + from) % PageSize) + len <= PageSize,
         NEW i \in from .. from + len - 1, laddr + i \in Laddr
  PROVE  Place([paddr |-> Translate(laddr + from), len |-> len, from |-> from], i) = Home(laddr + i)
<1> DEFINE a == laddr + from
           k == i - from
<1>1. PageSize \in Nat BY SizesAssumption
<1>2. a \in Laddr /\ a % PageSize \in 0 .. PageSize - 1 BY Addresses
<1>3. laddr \in Nat BY Addresses
<1>4. a \in Nat /\ k \in Nat /\ k < len /\ a + k = laddr + i BY <1>3
<1>5. k \in 0 .. PageSize - 1 /\ (a % PageSize) + k < PageSize
  <2> DEFINE r == a % PageSize
  <2>1. r \in 0 .. PageSize - 1 /\ r + len <= PageSize BY <1>2
  <2> HIDE DEF r
  <2>2. k \in 0 .. PageSize - 1 /\ r + k < PageSize BY <1>1, <1>4, <2>1
  <2> QED BY <2>2 DEF r
<1>6. a + k \in Laddr BY <1>4
<1>7. Present(a) OBVIOUS
<1> HIDE DEF a, k
<1>8. /\ Translate(a + k) = Translate(a) + k
      /\ IsMmio(Translate(a)) <=> IsMmio(Translate(a + k))
  BY <1>2, <1>5, <1>6, <1>7, SamePage
<1>9. i - from = k BY DEF k
<1>10. Home(laddr + i) = [mmio |-> IsMmio(Translate(a + k)), addr |-> Translate(a + k)]
  BY <1>4 DEF Home
<1>11. Place([paddr |-> Translate(a), len |-> len, from |-> from], i)
         = [mmio |-> IsMmio(Translate(a)), addr |-> Translate(a) + k]
  BY <1>9 DEF Place
<1>12. IsMmio(Translate(a)) = IsMmio(Translate(a + k)) BY <1>8 DEF IsMmio
<1>13. Place([paddr |-> Translate(a), len |-> len, from |-> from], i) = Home(laddr + i)
  BY <1>8, <1>10, <1>11, <1>12, Zenon
<1> QED BY <1>13 DEF a

\* The parts of an access of one page, and of two.
LEMMA OnePart ==
  ASSUME paging, NEW laddr \in Laddr, NEW len \in OperandLens, ~Crosses(laddr, len)
  PROVE  Parts(laddr, len) = {[paddr |-> Translate(laddr), len |-> len, from |-> 0]}
BY DEF Parts

LEMMA TwoParts ==
  ASSUME paging, NEW laddr \in Laddr, NEW len \in OperandLens, Crosses(laddr, len)
  PROVE  Parts(laddr, len)
           = {[paddr |-> Translate(laddr), len |-> ToPageEnd(laddr), from |-> 0],
              [paddr |-> Translate(laddr + ToPageEnd(laddr)), len |-> len - ToPageEnd(laddr),
               from |-> ToPageEnd(laddr)]}
BY DEF Parts, SecondPart

\* Where the page of an access ends.
LEMMA PageEnd ==
  ASSUME MemTypeOK, NEW laddr \in Laddr, NEW len \in OperandLens, laddr + len - 1 \in Laddr
  PROVE  /\ ToPageEnd(laddr) = PageSize - (laddr % PageSize)
         /\ ToPageEnd(laddr) \in Nat \ {0}
         /\ ~Crosses(laddr, len) => (laddr % PageSize) + len <= PageSize
         /\ Crosses(laddr, len) => /\ ToPageEnd(laddr) < len
                                   /\ (laddr + ToPageEnd(laddr)) % PageSize = 0
                                   /\ (laddr + ToPageEnd(laddr)) \div PageSize
                                        = (laddr + len - 1) \div PageSize
<1> DEFINE q == laddr \div PageSize
           r == laddr % PageSize
           e == ToPageEnd(laddr)
           i == len - 1
<1>1. PageSize \in Nat \ {0} /\ PageSize >= 4 BY SizesAssumption DEF MaxLen
<1>2. laddr \in Nat /\ r \in 0 .. PageSize - 1 BY Addresses
<1>3. q \in Nat /\ laddr = q * PageSize + r BY <1>1, <1>2, DivMod
<1>4. e = (q + 1) * PageSize - laddr BY DEF ToPageEnd
<1>5. i \in 0 .. PageSize - 1 /\ len \in 1 .. 4 /\ laddr + len - 1 = laddr + i /\ len = i + 1
  BY <1>1, <1>2 DEF OperandLens
<1>6. Crosses(laddr, len) <=> q # (laddr + i) \div PageSize BY <1>5 DEF Crosses
<1>7. IF r + i < PageSize THEN (laddr + i) \div PageSize = q
                          ELSE (laddr + i) \div PageSize = q + 1
  BY <1>1, <1>2, <1>5, NextBytes
<1> HIDE DEF q, r, e, i
<1>8. e = PageSize - r
  <2>1. (q + 1) * PageSize = q * PageSize + PageSize BY <1>1, <1>3
  <2> QED BY <1>1, <1>2, <1>3, <1>4, <2>1
<1>9. e \in Nat \ {0} BY <1>1, <1>2, <1>8
<1>10. Crosses(laddr, len) <=> ~(r + i < PageSize) BY <1>3, <1>6, <1>7
<1>11. ~Crosses(laddr, len) => r + len <= PageSize BY <1>1, <1>2, <1>5, <1>10
<1>12. Crosses(laddr, len) => e < len BY <1>1, <1>2, <1>5, <1>8, <1>10
<1>13. ASSUME Crosses(laddr, len)
       PROVE  (laddr + e) % PageSize = 0 /\ (laddr + e) \div PageSize = (laddr + i) \div PageSize
  <2>1. e \in 0 .. PageSize - 1 BY <1>1, <1>2, <1>5, <1>8, <1>9, <1>12, <1>13
  <2>2. ~(r + e < PageSize) /\ r + e - PageSize = 0 BY <1>1, <1>2, <1>8
  <2>3. (laddr + e) \div PageSize = q + 1 /\ (laddr + e) % PageSize = r + e - PageSize
    BY <1>1, <1>2, <2>1, <2>2, NextBytes DEF q, r
  <2> QED BY <1>7, <1>10, <1>13, <2>2, <2>3
<1> QED BY <1>5, <1>8, <1>9, <1>11, <1>12, <1>13 DEF q, r, e, i

\* An access that finds its pages present is the accesses of its bytes.
LEMMA AccessBytes ==
  ASSUME MemTypeOK, paging, NEW laddr \in Laddr, NEW len \in OperandLens,
         Reaches(laddr, len), Present(laddr), Present(laddr + len - 1)
  PROVE  /\ \A part \in Parts(laddr, len) : \A i \in Bytes(part) : Place(part, i) = Home(laddr + i)
         /\ UNION {Bytes(part) : part \in Parts(laddr, len)} = 0 .. len - 1
<1> DEFINE e == ToPageEnd(laddr)
           first == [paddr |-> Translate(laddr), len |-> e, from |-> 0]
           rest  == [paddr |-> Translate(laddr + e), len |-> len - e, from |-> e]
           whole == [paddr |-> Translate(laddr), len |-> len, from |-> 0]
<1>1. laddr + len - 1 \in Laddr BY DEF Reaches
<1>2. laddr \in Nat /\ len \in 1 .. 4 BY Addresses DEF OperandLens
<1>3. \A i \in 0 .. len - 1 : laddr + i \in Laddr
  <2> DEFINE top == NPages * PageSize
  <2>1. Laddr = 0 .. top - 1 /\ top \in Nat BY SizesAssumption DEF Laddr
  <2> HIDE DEF top
  <2> QED BY <1>1, <1>2, <2>1
<1>4. /\ e = PageSize - (laddr % PageSize)
      /\ e \in Nat \ {0}
      /\ ~Crosses(laddr, len) => (laddr % PageSize) + len <= PageSize
      /\ Crosses(laddr, len) => /\ e < len
                                /\ (laddr + e) % PageSize = 0
                                /\ (laddr + e) \div PageSize = (laddr + len - 1) \div PageSize
  BY <1>1, PageEnd
<1>5. PageSize \in Nat /\ PageSize >= 4 /\ laddr % PageSize \in 0 .. PageSize - 1
  BY Addresses, SizesAssumption DEF MaxLen
<1>6. laddr + 0 = laddr /\ Translate(laddr + 0) = Translate(laddr) BY <1>2
<1>7. CASE ~Crosses(laddr, len)
  <2>1. Parts(laddr, len) = {whole} BY <1>7, OnePart
  <2>2. ((laddr + 0) % PageSize) + len <= PageSize BY <1>4, <1>6, <1>7
  <2>3. Bytes(whole) = 0 .. len - 1 BY <1>2 DEF Bytes
  <2>4. ASSUME NEW i \in 0 .. len - 1 PROVE Place(whole, i) = Home(laddr + i)
    <3>1. i \in 0 .. 0 + len - 1 /\ len \in Nat /\ laddr + i \in Laddr BY <1>2, <1>3
    <3>2. laddr + 0 \in Laddr /\ Present(laddr + 0) BY <1>6
    <3>3. Place([paddr |-> Translate(laddr + 0), len |-> len, from |-> 0], i) = Home(laddr + i)
      BY <2>2, <3>1, <3>2, PartInPage
    <3> QED BY <1>6, <3>3
  <2> QED BY <2>1, <2>3, <2>4
<1>8. CASE Crosses(laddr, len)
  <2>1. Parts(laddr, len) = {first, rest} BY <1>8, TwoParts
  <2>2. e \in 1 .. len - 1 BY <1>2, <1>4, <1>8
  <2>3. Bytes(first) = 0 .. e - 1 /\ Bytes(rest) = e .. len - 1
    BY <1>2, <2>2 DEF Bytes
  <2>4. ASSUME NEW i \in 0 .. e - 1 PROVE Place(first, i) = Home(laddr + i)
    <3>1. i \in 0 .. 0 + e - 1 /\ e \in Nat /\ laddr + i \in Laddr BY <1>2, <1>3, <2>2
    <3>2. laddr + 0 \in Laddr /\ Present(laddr + 0) BY <1>6
    <3>3. ((laddr + 0) % PageSize) + e <= PageSize BY <1>4, <1>5, <1>6
    <3>4. Place([paddr |-> Translate(laddr + 0), len |-> e, from |-> 0], i) = Home(laddr + i)
      BY <3>1, <3>2, <3>3, PartInPage
    <3> QED BY <1>6, <3>4
  <2>5. ASSUME NEW i \in e .. len - 1 PROVE Place(rest, i) = Home(laddr + i)
    <3>1. i \in e .. e + (len - e) - 1 /\ len - e \in Nat /\ laddr + i \in Laddr
      BY <1>2, <1>3, <2>2
    <3>2. laddr + e \in Laddr BY <1>2, <1>3, <2>2
    <3>3. Present(laddr + e) BY <1>4, <1>8 DEF Present
    <3>4. ((laddr + e) % PageSize) + (len - e) <= PageSize BY <1>2, <1>4, <1>5, <1>8, <2>2
    <3> QED BY <1>4, <3>1, <3>2, <3>3, <3>4, PartInPage
  <2>6. (0 .. e - 1) \cup (e .. len - 1) = 0 .. len - 1 BY <1>2, <2>2
  <2> HIDE DEF first, rest
  <2>7. UNION {Bytes(part) : part \in {first, rest}} = Bytes(first) \cup Bytes(rest) OBVIOUS
  <2> QED BY <2>1, <2>3, <2>4, <2>5, <2>6, <2>7
<1> QED BY <1>7, <1>8

\* An access takes no byte from outside its operand.
LEMMA BytesOfParts ==
  ASSUME MemTypeOK, NEW laddr \in Laddr, NEW len \in OperandLens, Reaches(laddr, len), ~Fails(laddr, len),
         NEW part \in Parts(laddr, len)
  PROVE  Bytes(part) \subseteq 0 .. MaxLen - 1
<1>1. len \in 1 .. 4 BY DEF OperandLens
<1>2. CASE ~paging
  <2>1. part = [paddr |-> laddr, len |-> len, from |-> 0] BY <1>2 DEF Parts
  <2>2. Bytes(part) = 0 .. len - 1 BY <1>1, <2>1 DEF Bytes
  <2> QED BY <1>1, <2>2 DEF MaxLen
<1>3. CASE paging
  <2>1. Present(laddr) /\ Present(laddr + len - 1) BY <1>3 DEF Fails
  <2>2. UNION {Bytes(p) : p \in Parts(laddr, len)} = 0 .. len - 1 BY <1>3, <2>1, AccessBytes
  <2>3. Bytes(part) \subseteq 0 .. len - 1 BY <2>2
  <2> QED BY <1>1, <2>3 DEF MaxLen
<1> QED BY <1>2, <1>3 DEF MemTypeOK

-----------------------------------------------------------------------------
(* The screen.                                                             *)

\* A pixel lies in the memory of the device, on a visible line.
LEMMA Pixels == ASSUME NEW p \in Pixel PROVE p \in Space /\ LineOf(p) \in Row
<1> DEFINE n == CTR_ROW * CTR_COL
           q == p \div CTR_COL
           r == p % CTR_COL
<1>1. CTR_ROW \in Nat /\ CTR_COL \in Nat \ {0} /\ n <= High - Low + 1
  BY ScreenAssumption
<1>2. PageSize \in Nat /\ FirstFrame \in Nat /\ LastFrame \in Nat
  BY SizesAssumption, WindowAssumption DEF Frame
<1>3. Low \in Int /\ High \in Int BY <1>2 DEF Low, High
<1>4. n \in Nat /\ p \in 0 .. n - 1 BY <1>1 DEF Pixel
<1>5. q \in Nat /\ r \in Nat /\ p = q * CTR_COL + r
  <2>1. p \in Nat BY <1>4
  <2>2. q \in Nat /\ r \in 0 .. CTR_COL - 1 /\ p = q * CTR_COL + r BY <1>1, <2>1, DivMod
  <2> HIDE DEF n, q, r
  <2> QED BY <1>1, <2>2
<1>6. p \in Space
  <2> HIDE DEF n
  <2> QED BY <1>1, <1>3, <1>4 DEF Space, MaxLen
<1>7. q \in Row
  <2> HIDE DEF q, r
  <2>1. q * CTR_COL + r < CTR_ROW * CTR_COL BY <1>4, <1>5
  <2>2. q < CTR_ROW
    <3> SUFFICES ASSUME CTR_ROW <= q PROVE FALSE BY <1>1, <1>5
    <3>1. CTR_ROW * CTR_COL <= q * CTR_COL BY <1>1, <1>5
    <3> QED BY <1>1, <1>5, <2>1, <3>1
  <2> QED BY <1>1, <1>5, <2>2 DEF Row
<1> QED BY <1>6, <1>7 DEF LineOf

\* What an access leaves at a place is a byte, and what was there unless one
\* of its parts reaches it.
LEMMA WrittenByte ==
  ASSUME MemTypeOK, NEW laddr \in Laddr, NEW len \in OperandLens, Reaches(laddr, len), ~Fails(laddr, len),
         NEW data \in Data, NEW place, NEW old \in Octet
  PROVE  /\ Written(Parts(laddr, len), place, data, old) \in Octet
         /\ (~\E part \in Parts(laddr, len) : Reached(part, place))
              => Written(Parts(laddr, len), place, data, old) = old
<1> DEFINE parts == Parts(laddr, len)
<1>1. CASE \E part \in parts : Reached(part, place)
  <2> DEFINE chosen == CHOOSE part \in parts : Reached(part, place)
  <2>1. chosen \in parts /\ Reached(chosen, place) BY <1>1
  <2> HIDE DEF chosen
  <2>2. ByteFor(chosen, place) \in Bytes(chosen) BY <2>1 DEF Reached
  <2>3. Bytes(chosen) \subseteq 0 .. MaxLen - 1 BY <2>1, BytesOfParts
  <2>4. data \in [0 .. MaxLen - 1 -> Octet] BY DataAssumption
  <2>5. data[ByteFor(chosen, place)] \in Octet BY <2>2, <2>3, <2>4
  <2>6. Written(parts, place, data, old) = data[ByteFor(chosen, place)]
    BY <1>1 DEF Written, chosen
  <2> QED BY <1>1, <2>5, <2>6
<1>2. CASE ~\E part \in parts : Reached(part, place)
  <2>1. Written(parts, place, data, old) = old BY <1>2 DEF Written
  <2> QED BY <2>1
<1> QED BY <1>1, <1>2

\* The screen stays fresh.
LEMMA WriteKeeps ==
  ASSUME MemIInv, NEW laddr \in Laddr, NEW len \in OperandLens, NEW data \in Data, Write(laddr, len, data)
  PROVE  MemIInv'
<1> DEFINE parts == Parts(laddr, len)
           marked == MarkedBy(parts)
<1>1. MemTypeOK /\ ScreenFresh BY DEF MemIInv
<1>2. Reaches(laddr, len) /\ ~Fails(laddr, len) BY DEF Write
<1>3. /\ ram' = [a \in Paddr |-> Written(parts, Ram(a), data, ram[a])]
      /\ mmio_space' = [b \in Space |-> Written(parts, Video(b), data, mmio_space[b])]
      /\ line_dirty' = line_dirty \cup marked
      /\ vmem_dirty' = (vmem_dirty \/ marked # {})
      /\ tails' = (tails \ WrittenPixels(parts)) \cup LaterPixels(parts)
      /\ paging' = paging /\ mapping' = mapping /\ screen' = screen /\ failed' = failed
  BY DEF Write
<1>4. marked \subseteq Row BY DEF MarkedBy, Marked
<1>5. LaterPixels(parts) \subseteq Pixel BY DEF LaterPixels
<1>6. ram' \in [Paddr -> Octet]
  <2> SUFFICES ASSUME NEW a \in Paddr PROVE Written(parts, Ram(a), data, ram[a]) \in Octet BY <1>3
  <2>1. ram[a] \in Octet BY <1>1 DEF MemTypeOK
  <2> QED BY <1>1, <1>2, <2>1, WrittenByte
<1>7. mmio_space' \in [Space -> Octet]
  <2> SUFFICES ASSUME NEW b \in Space PROVE Written(parts, Video(b), data, mmio_space[b]) \in Octet BY <1>3
  <2>1. mmio_space[b] \in Octet BY <1>1 DEF MemTypeOK
  <2> QED BY <1>1, <1>2, <2>1, WrittenByte
<1> HIDE DEF parts, marked
<1>8. MemTypeOK'
  <2>1. line_dirty' \subseteq Row BY <1>1, <1>3, <1>4 DEF MemTypeOK
  <2>2. vmem_dirty' \in BOOLEAN BY <1>3
  <2>3. tails' \subseteq Pixel BY <1>1, <1>3, <1>5 DEF MemTypeOK
  <2>4. /\ paging' \in BOOLEAN /\ mapping' \in Mappings /\ failed' \in BOOLEAN
        /\ screen' \in [Pixel -> Octet]
    BY <1>1, <1>3 DEF MemTypeOK
  <2> QED BY <1>6, <1>7, <2>1, <2>2, <2>3, <2>4 DEF MemTypeOK
<1>9. ASSUME NEW p \in Pixel, screen'[p] # mmio_space'[p]
      PROVE  p \in tails' \/ (vmem_dirty' /\ LineOf(p) \in line_dirty')
  <2>1. CASE p \in LaterPixels(parts) BY <1>3, <2>1
  <2>2. CASE p \in WrittenPixels(parts) /\ p \notin LaterPixels(parts)
    <3>1. PICK part \in parts : Reached(part, Video(p)) BY <2>2 DEF WrittenPixels
    <3>2. LineOf(p) = LineOf(part.paddr - Low) BY <2>2, <3>1 DEF LaterPixels
    <3>3. IsMmio(part.paddr) BY <3>1 DEF Reached, Place, Video
    <3>4. LineOf(p) \in Marked(part.paddr) BY <3>2, Pixels DEF Marked
    <3>5. LineOf(p) \in marked BY <3>1, <3>3, <3>4 DEF MarkedBy, marked
    <3> QED BY <1>3, <3>5
  <2>3. CASE p \notin WrittenPixels(parts)
    <3>1. p \in Space BY Pixels
    <3>2. mmio_space[p] \in Octet BY <1>1, <3>1 DEF MemTypeOK
    <3>3. ~\E part \in parts : Reached(part, Video(p)) BY <2>3 DEF WrittenPixels
    <3>4. Written(parts, Video(p), data, mmio_space[p]) = mmio_space[p]
      BY <1>1, <1>2, <3>2, <3>3, WrittenByte DEF parts
    <3>5. mmio_space'[p] = mmio_space[p] BY <1>3, <3>1, <3>4
    <3>6. p \in tails \/ (vmem_dirty /\ LineOf(p) \in line_dirty)
      BY <1>1, <1>3, <1>9, <3>5 DEF ScreenFresh
    <3> QED BY <1>3, <2>3, <3>6
  <2> QED BY <2>1, <2>2, <2>3
<1>10. ScreenFresh' BY <1>9 DEF ScreenFresh, Pixel, LineOf
<1> QED BY <1>8, <1>10 DEF MemIInv

LEMMA DoVgaKeeps == ASSUME MemIInv, DoVga PROVE MemIInv'
<1>1. MemTypeOK /\ ScreenFresh BY DEF MemIInv
<1>2. /\ screen' = Drawn /\ line_dirty' = {} /\ vmem_dirty' = FALSE
      /\ tails' = {p \in tails : Drawn[p] # mmio_space[p]}
      /\ UNCHANGED <<ram, mmio_space, paging, mapping, failed>>
  BY DEF DoVga, memory
<1>3. \A p \in Pixel : mmio_space[p] \in Octet BY <1>1, Pixels DEF MemTypeOK
<1>4. Drawn \in [Pixel -> Octet] BY <1>1, <1>3 DEF Drawn, MemTypeOK
<1>5. MemTypeOK' BY <1>1, <1>2, <1>4 DEF MemTypeOK
<1>6. ASSUME NEW p \in Pixel, screen'[p] # mmio_space'[p] PROVE p \in tails'
  <2>1. LineOf(p) \notin line_dirty /\ screen'[p] = screen[p] BY <1>2, <1>6 DEF Drawn
  <2>2. p \in tails BY <1>1, <1>2, <1>6, <2>1 DEF ScreenFresh
  <2>3. Drawn[p] # mmio_space[p] BY <1>2, <1>6
  <2> QED BY <1>2, <2>2, <2>3
<1>7. ScreenFresh' BY <1>6 DEF ScreenFresh, Pixel, LineOf
<1> QED BY <1>5, <1>7 DEF MemIInv

\* Types and a fresh screen in every reachable state.
THEOREM MemInvariance == MemSpec => []MemIInv
<1>1. MemInit => MemIInv
  <2> SUFFICES ASSUME MemInit PROVE MemIInv OBVIOUS
  <2>1. \A p \in Pixel : p \in Space BY Pixels
  <2>2. MemTypeOK BY DataAssumption DEF MemInit, MemTypeOK
  <2>3. ScreenFresh BY <2>1 DEF MemInit, ScreenFresh
  <2> QED BY <2>2, <2>3 DEF MemIInv
<1>2. MemIInv /\ [MemNext]_memVars => MemIInv'
  <2> SUFFICES ASSUME MemIInv, [MemNext]_memVars PROVE MemIInv' OBVIOUS
  <2>1. ASSUME NEW laddr \in Laddr, NEW len \in OperandLens, Fail(laddr, len) PROVE MemIInv'
    BY <2>1 DEF Fail, memory, display, MemIInv, MemTypeOK, ScreenFresh, Pixel, LineOf
  <2>2. ASSUME NEW laddr \in Laddr, NEW len \in OperandLens, NEW data \in Data, Write(laddr, len, data)
        PROVE  MemIInv'
    BY <2>2, WriteKeeps
  <2>3. ASSUME NEW m \in Mappings, LoadCr3(m) PROVE MemIInv'
    BY <2>3 DEF LoadCr3, memory, display, MemIInv, MemTypeOK, ScreenFresh, Pixel, LineOf
  <2>4. CASE DoVga BY <2>4, DoVgaKeeps
  <2>5. CASE UNCHANGED memVars
    BY <2>5 DEF memVars, memory, display, MemIInv, MemTypeOK, ScreenFresh, Pixel, LineOf
  <2> QED BY <2>1, <2>2, <2>3, <2>4, <2>5 DEF MemNext
<1> QED BY <1>1, <1>2, PTL DEF MemSpec

\* The variables keep their types.
THEOREM MemTyping == MemSpec => []MemTypeOK
<1>1. MemIInv => MemTypeOK BY DEF MemIInv
<1> QED BY <1>1, MemInvariance, PTL

\* vga_vmem_io_handler() marks, and update_screen() draws, every pixel written
\* on the line its access began on.
THEOREM Screen == MemSpec => []ScreenFresh
<1>1. MemIInv => ScreenFresh BY DEF MemIInv
<1> QED BY <1>1, MemInvariance, PTL

\* Whatever the mapping, laddr_write() takes each byte where its own address
\* belongs.
THEOREM Split == MemSpec => []ByteByByte
<1>1. MemIInv => ByteByByte BY AccessBytes DEF MemIInv, ByteByByte
<1> QED BY <1>1, MemInvariance, PTL

=============================================================================
