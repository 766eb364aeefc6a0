----------------------------- MODULE ArithProofs -----------------------------
(* What the runs find for small widths holds for every width.  For Arith: the sums *)
(* and differences computed limb by limb are exact, in chains of every length.    *)
(* For Operate: every product, quotient and remainder is the right one, a shift by *)
(* any count is that many shifts by one place, and the flags that are left let the *)
(* branches compare the value that was written with 0; the arithmetic of floats,   *)
(* whatever the sizes of exponent and fraction, is exact but for one rounding.    *)
EXTENDS Arith, Operate, WellFoundedInduction, TLAPS

----------------------------------------------------------------------------
\* Facts about numbers below a power of two.

\* The remainder of a division is below the divisor, and a number below it is its own remainder.
LEMMA Remainders ==
  ASSUME NEW s \in Nat \ {0}, NEW x \in Int
  PROVE  /\ (x % s) \in 0..(s - 1)
         /\ x \in 0..(s - 1) => (x % s) = x
  OBVIOUS

\* The sum of two numbers below s and a carry wraps once or not at all.
LEMMA Wraps ==
  ASSUME NEW s \in Nat \ {0}, NEW t \in 0..(2 * s - 1)
  PROVE  (t % s) = IF t < s THEN t ELSE t - s
<1>1. CASE t < s
  BY <1>1
<1>2. CASE t >= s
  <2>1. t - s \in 0..(s - 1) BY <1>2
  <2>2. ((t - s) % s) = t - s BY <2>1
  <2>3. (t % s) = ((t - s) % s) BY <1>2
  <2> QED BY <1>2, <2>2, <2>3
<1> QED BY <1>1, <1>2

\* One limb of a difference: the comparison of the operands finds the borrow.
LEMMA LimbDifference ==
  ASSUME NEW s \in Nat \ {0}, NEW x \in 0..(s - 1), NEW y \in 0..(s - 1), NEW c \in 0..1,
         NEW r \in Int, r = ((x - (y + c)) % s),
         NEW d, d = IF (IF c = 0 THEN y > x ELSE y >= x) THEN 1 ELSE 0
  PROVE  r - d * s = x - y - c
<1>1. CASE x - y - c >= 0
  <2>1. r = x - y - c BY <1>1
  <2> QED BY <2>1
<1>2. CASE x - y - c < 0
  <2>1. x - (y + c) + s \in 0..(s - 1) BY <1>2
  <2>2. ((x - (y + c) + s) % s) = x - (y + c) + s BY <2>1
  <2>3. ((x - (y + c)) % s) = ((x - (y + c) + s) % s) BY <1>2
  <2>4. r = x - y - c + s BY <2>2, <2>3
  <2> QED BY <2>4
<1> QED BY <1>1, <1>2

\* A number below w with one more limb, below s, is below w * s.
LEMMA GrownBelow ==
  ASSUME NEW w \in Nat \ {0}, NEW s \in Nat \ {0}, NEW z \in 0..(w - 1), NEW r \in 0..(s - 1)
  PROVE  /\ w * s \in Nat \ {0}
         /\ z + w * r \in 0..(w * s - 1)
<1>1. w * s \in Nat \ {0} OBVIOUS
<1>2. w * r \in Nat OBVIOUS
<1>3. w * (r + 1) <= w * s OBVIOUS
<1>4. w * (r + 1) = w * r + w OBVIOUS
<1> QED BY <1>1, <1>2, <1>3, <1>4


----------------------------------------------------------------------------
\* The Alu's operators, for the sizes of Arith.

LEMMA Spans ==
  ASSUME NEW n \in Sizes
  PROVE  Span(n) \in Nat \ {0}
  BY SizesAssumption DEF SizesAssumption, Span

LEMMA Lows ==
  ASSUME NEW n \in Sizes, NEW x \in Int
  PROVE  /\ Low(x, n) \in 0..(Span(n) - 1)
         /\ x \in 0..(Span(n) - 1) => Low(x, n) = x
  BY Spans, Remainders DEF Low

LEMMA FlagsAreBits ==
  ASSUME NEW b \in BOOLEAN
  PROVE  Flag(b) \in 0..1 /\ Flag(b) = IF b THEN 1 ELSE 0
  BY DEF Flag

\* The top bit is a bit: a number below twice h, divided by h.
LEMMA Tops ==
  ASSUME NEW n \in Sizes, NEW x \in Int
  PROVE  Top(x, n) \in 0..1
<1> DEFINE h == 2^(n - 1)
<1>1. h \in Nat \ {0} /\ Span(n) = 2 * h BY SizesAssumption DEF SizesAssumption, Span
<1>2. Low(x, n) \in 0..(2 * h - 1) BY <1>1, Lows
<1> HIDE DEF h
<1>3. (Low(x, n) \div h) \in 0..1
  <2> DEFINE l == Low(x, n)
  <2>1. l \in 0..(2 * h - 1) BY <1>2
  <2> HIDE DEF l
  <2>2. (l \div h) \in 0..1 BY <1>1, <2>1
  <2> QED BY <2>2 DEF l
<1> QED BY <1>3 DEF Top, h

\* A sum of n bits and the carry out of it are the sum of the operands and the carry in.
LEMMA Sums ==
  ASSUME NEW f \in Flags, NEW n \in Sizes, NEW src \in Int, NEW dest \in 0..(Span(n) - 1),
         NEW cf \in 0..1
  PROVE  LET out == AddWith(f, src, dest, cf, n)
         IN  /\ out.flags \in Flags
             /\ out.res \in 0..(Span(n) - 1)
             /\ out.res + out.flags.CF * Span(n) = dest + Low(src, n) + cf
<1> DEFINE r == Low(Low(dest, n) + Low(src, n) + cf, n)
           c == CFAdc(r, src, cf, n)
           o == OFAdx(r, src, dest, n)
           out == AddWith(f, src, dest, cf, n)
<1>1. Span(n) \in Nat \ {0} BY Spans
<1>2. Low(dest, n) = dest BY <1>1, Lows
<1>3. Low(src, n) \in 0..(Span(n) - 1) BY Lows
<1>4. r = ((dest + Low(src, n) + cf) % Span(n)) BY <1>2 DEF Low
<1>5. r \in 0..(Span(n) - 1) /\ Low(r, n) = r
  <2>1. dest + Low(src, n) + cf \in Int BY <1>1, <1>3
  <2>2. r \in 0..(Span(n) - 1) BY <2>1, <1>2, Lows
  <2> QED BY <2>2, <1>1, Lows
<1>6. c = IF (IF cf = 0 THEN r < Low(src, n) ELSE r <= Low(src, n)) THEN 1 ELSE 0
  BY <1>5 DEF CFAdc, Flag
<1>7. c \in 0..1 /\ o \in 0..1 BY <1>6 DEF OFAdx, Flag
<1>8. out.res = r /\ out.flags \in Flags /\ out.flags.CF = c
  <2> DEFINE p == Parity(r)
             z == Flag(Low(r, n) = 0)
             s == Top(r, n)
             g == [[f EXCEPT !.PF = p, !.ZF = z, !.SF = s] EXCEPT !.CF = c, !.OF = o]
  <2>1. p \in 0..1 /\ z \in 0..1 BY DEF Parity, Flag
  <2>2. s \in 0..1 BY <1>5, <1>1, Tops
  <2>3. out = [res |-> r, flags |-> g] BY DEF AddWith, SetPZS
  <2>4. g \in Flags /\ g.CF = c
    <3> HIDE DEF p, z, s, r, c, o, out
    <3> QED BY <2>1, <2>2, <1>7 DEF Flags
  <2> HIDE DEF g, r, c, out
  <2> QED BY <2>3, <2>4
<1> HIDE DEF r, c, o, out
<1>9. r + c * Span(n) = dest + Low(src, n) + cf
  <2> DEFINE w == Span(n)
             y == Low(src, n)
  <2>1. /\ w \in Nat \ {0} /\ dest \in 0..(w - 1) /\ y \in 0..(w - 1)
        /\ r \in Int /\ r = ((dest + (y + cf)) % w)
        /\ c = IF (IF cf = 0 THEN r < y ELSE r <= y) THEN 1 ELSE 0
    BY <1>1, <1>3, <1>4, <1>5, <1>6
  <2> DEFINE t == dest + y + cf
  <2>2. t \in Int /\ t = dest + y + cf /\ r = (t % w) BY <2>1
  <2> HIDE DEF w, y, t
  <2>3. t \in 0..(2 * w - 1) BY <2>1, <2>2
  <2>4. r = IF t < w THEN t ELSE t - w BY <2>1, <2>2, <2>3, Wraps
  <2>5. c = IF t < w THEN 0 ELSE 1 BY <2>1, <2>2, <2>4
  <2>6. r + c * w = t BY <2>1, <2>3, <2>4, <2>5
  <2> QED BY <2>6 DEF w, y, t
<1> QED BY <1>5, <1>8, <1>9 DEF out

\* A difference of n bits less the borrow is the difference of the operands and the borrow in.
LEMMA Differences ==
  ASSUME NEW f \in Flags, NEW n \in Sizes, NEW src \in Int, NEW dest \in Int,
         NEW cf \in 0..1
  PROVE  LET out == SubWith(f, src, dest, cf, n)
         IN  /\ out.flags \in Flags
             /\ out.res \in 0..(Span(n) - 1)
             /\ out.res - out.flags.CF * Span(n) = Low(dest, n) - Low(src, n) - cf
<1> DEFINE r == Low(Low(dest, n) - (Low(src, n) + cf), n)
           c == CFSbb(src, dest, cf, n)
           o == OFSux(r, src, dest, n)
           out == SubWith(f, src, dest, cf, n)
<1>1. Span(n) \in Nat \ {0} BY Spans
<1>2. Low(dest, n) \in 0..(Span(n) - 1) BY Lows
<1>3. Low(src, n) \in 0..(Span(n) - 1) BY Lows
<1>4. r = ((Low(dest, n) - (Low(src, n) + cf)) % Span(n)) BY DEF Low
<1>5. r \in 0..(Span(n) - 1)
  <2>1. Low(dest, n) - (Low(src, n) + cf) \in Int BY <1>1, <1>2, <1>3
  <2> QED BY <2>1, <1>2, Lows
<1>6. c = IF (IF cf = 0 THEN Low(src, n) > Low(dest, n) ELSE Low(src, n) >= Low(dest, n)) THEN 1 ELSE 0
  BY DEF CFSbb, Flag
<1>7. c \in 0..1 /\ o \in 0..1 BY <1>6 DEF OFSux, Flag
<1>8. out.res = r /\ out.flags \in Flags /\ out.flags.CF = c
  <2> DEFINE p == Parity(r)
             z == Flag(Low(r, n) = 0)
             s == Top(r, n)
             g == [[f EXCEPT !.PF = p, !.ZF = z, !.SF = s] EXCEPT !.CF = c, !.OF = o]
  <2>1. p \in 0..1 /\ z \in 0..1 BY DEF Parity, Flag
  <2>2. s \in 0..1 BY <1>5, <1>1, Tops
  <2>3. out = [res |-> r, flags |-> g] BY DEF SubWith, SetPZS
  <2>4. g \in Flags /\ g.CF = c
    <3> HIDE DEF p, z, s, r, c, o, out
    <3> QED BY <2>1, <2>2, <1>7 DEF Flags
  <2> HIDE DEF g, r, c, out
  <2> QED BY <2>3, <2>4
<1> HIDE DEF r, c, o, out
<1>9. r - c * Span(n) = Low(dest, n) - Low(src, n) - cf
  <2> DEFINE w == Span(n)
             x == Low(dest, n)
             y == Low(src, n)
  <2>1. /\ w \in Nat \ {0} /\ x \in 0..(w - 1) /\ y \in 0..(w - 1)
        /\ r \in Int /\ r = ((x - (y + cf)) % w)
        /\ c = IF (IF cf = 0 THEN y > x ELSE y >= x) THEN 1 ELSE 0
    BY <1>1, <1>2, <1>3, <1>4, <1>5, <1>6
  <2> HIDE DEF w, x, y
  <2>2. r - c * w = x - y - cf BY <2>1, LimbDifference
  <2> QED BY <2>2 DEF w, x, y
<1> QED BY <1>5, <1>8, <1>9 DEF out

----------------------------------------------------------------------------
\* Chains: the invariant relates the numbers of a chain to CF.

IInv == TypeOK /\ SumExact /\ DifferenceExact

Below(c) == {c.x, c.y, c.z} \subseteq 0..(c.w - 1)

LEMMA NoChainFits == NoChain \in Chains /\ Below(NoChain) /\ NoChain.kind = "none"
<1>1. Byte \in Sizes BY DEF Sizes
<1> QED BY <1>1, LimbsAssumption DEF NoChain, Empty, Chains, Below, LimbsAssumption

\* One limb more leaves a chain of the same kind.
LEMMA GrownFits ==
  ASSUME NEW c \in Chains, Below(c), c.limbs < MaxLimbs, NEW n \in Sizes,
         NEW x \in 0..(Span(n) - 1), NEW y \in 0..(Span(n) - 1), NEW r \in 0..(Span(n) - 1)
  PROVE  LET g == Grown(c, n, x, y, r)
         IN  /\ g \in Chains /\ Below(g) /\ g.kind = c.kind /\ g.narrow = c.narrow
             /\ g.x = c.x + c.w * x /\ g.y = c.y + c.w * y /\ g.z = c.z + c.w * r
             /\ g.w = c.w * Span(n)
<1> DEFINE g == Grown(c, n, x, y, r)
           s == Span(n)
<1>1. s \in Nat \ {0} BY Spans
<1>2. /\ c.w \in Nat \ {0} /\ c.x \in 0..(c.w - 1) /\ c.y \in 0..(c.w - 1) /\ c.z \in 0..(c.w - 1)
      /\ c.limbs \in 0..MaxLimbs
  BY DEF Chains, Below
<1>3. /\ x \in 0..(s - 1) /\ y \in 0..(s - 1) /\ r \in 0..(s - 1)
  OBVIOUS
<1>4. g = [kind |-> c.kind, limbs |-> c.limbs + 1, n |-> n, x |-> c.x + c.w * x,
           y |-> c.y + c.w * y, z |-> c.z + c.w * r, w |-> c.w * s, narrow |-> c.narrow]
  BY DEF Grown, Chains
<1> HIDE DEF g, s
<1>5. /\ c.w * s \in Nat \ {0} /\ c.x + c.w * x \in 0..(c.w * s - 1)
      /\ c.y + c.w * y \in 0..(c.w * s - 1) /\ c.z + c.w * r \in 0..(c.w * s - 1)
  BY <1>1, <1>2, <1>3, GrownBelow
<1>6. c.limbs + 1 \in 0..MaxLimbs BY <1>2, LimbsAssumption DEF LimbsAssumption
<1>7. g \in Chains
  <2> DEFINE W == c.w * s
             X == c.x + c.w * x
             Y == c.y + c.w * y
             Z == c.z + c.w * r
  <2>1. W \in Nat \ {0} /\ X \in Nat /\ Y \in Nat /\ Z \in Nat BY <1>5
  <2>2. g = [kind |-> c.kind, limbs |-> c.limbs + 1, n |-> n, x |-> X, y |-> Y, z |-> Z,
             w |-> W, narrow |-> c.narrow]
    BY <1>4
  <2> HIDE DEF W, X, Y, Z
  <2> QED BY <2>1, <2>2, <1>6 DEF Chains
<1> QED BY <1>4, <1>5, <1>7 DEF g, s, Below

LEMMA Starts ==
  ASSUME NEW k \in {"sum", "difference"}
  PROVE  LET c == Empty(k)
         IN  /\ c \in Chains /\ Below(c) /\ c.limbs < MaxLimbs /\ c.kind = k /\ c.narrow = FALSE
             /\ c.x = 0 /\ c.y = 0 /\ c.z = 0 /\ c.w = 1
<1>1. Byte \in Sizes BY DEF Sizes
<1>2. Empty(k) \in Chains BY <1>1, LimbsAssumption DEF Empty, Chains, LimbsAssumption
<1>3. Empty(k).limbs < MaxLimbs BY LimbsAssumption DEF Empty, LimbsAssumption
<1>4. Below(Empty(k)) BY DEF Empty, Below
<1> QED BY <1>2, <1>3, <1>4 DEF Empty

----------------------------------------------------------------------------
\* One step of each kind.

\* A chain of a sum and CF, or of a difference and the borrow, hold what they should.
Holds(c, cf) ==
  /\ c \in Chains /\ Below(c)
  /\ c.kind = "sum" => c.z + cf * c.w = c.x + c.y
  /\ c.kind = "difference" /\ ~c.narrow => c.z - cf * c.w = c.x - c.y

LEMMA OfInv ==
  ASSUME IInv
  PROVE  Holds(chain, eflags.CF) /\ eflags \in Flags /\ eflags.CF \in 0..1
  BY DEF Holds, IInv, TypeOK, SumExact, DifferenceExact, Below, Flags

LEMMA KeptIf ==
  ASSUME eflags' \in Flags, Holds(chain', eflags'.CF)
  PROVE  IInv'
  BY DEF Holds, IInv, TypeOK, SumExact, DifferenceExact, Below

LEMMA NoChainHolds ==
  ASSUME NEW cf
  PROVE  Holds(NoChain, cf)
  BY NoChainFits DEF Holds

\* An equation of limbs, of weight w, added to the equation of a chain of that weight: p is the
\* sign of the carry.
LEMMA LimbAdded ==
  ASSUME NEW p \in {1, -1}, NEW w \in Int, NEW s \in Int, NEW ci \in Int, NEW co \in Int,
         NEW x \in Int, NEW y \in Int, NEW z \in Int, NEW dx \in Int, NEW dy \in Int, NEW dz \in Int,
         z + p * (ci * w) = x + p * y, dz + p * (co * s) = dx + p * (dy + ci)
  PROVE  (z + w * dz) + p * (co * (w * s)) = (x + w * dx) + p * (y + w * dy)
<1>1. w * (dz + p * (co * s)) = w * (dx + p * (dy + ci)) OBVIOUS
<1>2. CASE p = 1
  <2>1. w * dz + co * (w * s) = w * dx + w * dy + ci * w BY <1>1, <1>2
  <2> QED BY <2>1, <1>2
<1>3. CASE p = -1
  <2>1. w * dz - co * (w * s) = w * dx - w * dy - ci * w BY <1>1, <1>3
  <2> QED BY <2>1, <1>3
<1> QED BY <1>2, <1>3

\* A limb whose carry out is co extends a sum whose carry was ci.
LEMMA SumGrows ==
  ASSUME NEW c \in Chains, Below(c), c.limbs < MaxLimbs, c.kind = "sum", NEW ci \in 0..1,
         c.z + ci * c.w = c.x + c.y,
         NEW n \in Sizes, NEW x \in 0..(Span(n) - 1), NEW y \in 0..(Span(n) - 1),
         NEW r \in 0..(Span(n) - 1), NEW co \in 0..1, r + co * Span(n) = x + y + ci
  PROVE  Holds(Grown(c, n, x, y, r), co)
<1> DEFINE g == Grown(c, n, x, y, r)
           s == Span(n)
<1>1. /\ g \in Chains /\ Below(g) /\ g.kind = "sum"
      /\ g.x = c.x + c.w * x /\ g.y = c.y + c.w * y /\ g.z = c.z + c.w * r /\ g.w = c.w * s
  BY GrownFits
<1>2. s \in Nat \ {0} /\ r + co * s = x + y + ci BY Spans
<1>3. c.x \in Nat /\ c.y \in Nat /\ c.z \in Nat /\ c.w \in Nat \ {0} BY DEF Chains
<1>4. x \in Int /\ y \in Int /\ r \in Int BY <1>2
<1> HIDE DEF g, s
<1>5. (c.z + c.w * r) + co * (c.w * s) = (c.x + c.w * x) + (c.y + c.w * y)
  <2> DEFINE cx == c.x
             cy == c.y
             cz == c.z
             cw == c.w
  <2>1. /\ cx \in Int /\ cy \in Int /\ cz \in Int /\ cw \in Int
        /\ cz + ci * cw = cx + cy
    BY <1>3
  <2> HIDE DEF cx, cy, cz, cw
  <2>2. cz + 1 * (ci * cw) = cx + 1 * cy /\ r + 1 * (co * s) = x + 1 * (y + ci)
    BY <1>2, <1>4, <2>1
  <2>3. (cz + cw * r) + 1 * (co * (cw * s)) = (cx + cw * x) + 1 * (cy + cw * y)
    BY <1>2, <1>4, <2>1, <2>2, LimbAdded
  <2>4. (cz + cw * r) + co * (cw * s) = (cx + cw * x) + (cy + cw * y)
    BY <1>2, <1>4, <2>1, <2>3
  <2> QED BY <2>4 DEF cx, cy, cz, cw
<1>6. g.z + co * g.w = g.x + g.y BY <1>1, <1>5
<1> QED BY <1>1, <1>6 DEF g, Holds

\* A limb whose borrow out is co extends a difference whose borrow was ci.
LEMMA DifferenceGrows ==
  ASSUME NEW c \in Chains, Below(c), c.limbs < MaxLimbs, c.kind = "difference", NEW ci \in 0..1,
         ~c.narrow => c.z - ci * c.w = c.x - c.y,
         NEW n \in Sizes, NEW x \in 0..(Span(n) - 1), NEW y \in 0..(Span(n) - 1),
         NEW r \in 0..(Span(n) - 1), NEW co \in 0..1, r - co * Span(n) = x - y - ci
  PROVE  Holds(Grown(c, n, x, y, r), co)
<1> DEFINE g == Grown(c, n, x, y, r)
           s == Span(n)
<1>1. /\ g \in Chains /\ Below(g) /\ g.kind = "difference" /\ g.narrow = c.narrow
      /\ g.x = c.x + c.w * x /\ g.y = c.y + c.w * y /\ g.z = c.z + c.w * r /\ g.w = c.w * s
  BY GrownFits
<1>2. s \in Nat \ {0} /\ r - co * s = x - y - ci BY Spans
<1>3. c.x \in Nat /\ c.y \in Nat /\ c.z \in Nat /\ c.w \in Nat \ {0} BY DEF Chains
<1>4. x \in Int /\ y \in Int /\ r \in Int BY <1>2
<1> HIDE DEF g, s
<1>5. ~c.narrow => (c.z + c.w * r) - co * (c.w * s) = (c.x + c.w * x) - (c.y + c.w * y)
  <2> SUFFICES ASSUME ~c.narrow
               PROVE  (c.z + c.w * r) - co * (c.w * s) = (c.x + c.w * x) - (c.y + c.w * y)
    OBVIOUS
  <2> DEFINE cx == c.x
             cy == c.y
             cz == c.z
             cw == c.w
  <2>1. /\ cx \in Int /\ cy \in Int /\ cz \in Int /\ cw \in Int
        /\ cz - ci * cw = cx - cy
    BY <1>3
  <2> HIDE DEF cx, cy, cz, cw
  <2>2. cz + (-1) * (ci * cw) = cx + (-1) * cy /\ r + (-1) * (co * s) = x + (-1) * (y + ci)
    BY <1>2, <1>4, <2>1
  <2>3. (cz + cw * r) + (-1) * (co * (cw * s)) = (cx + cw * x) + (-1) * (cy + cw * y)
    BY <1>2, <1>4, <2>1, <2>2, LimbAdded
  <2>4. (cz + cw * r) - co * (cw * s) = (cx + cw * x) - (cy + cw * y)
    BY <1>2, <1>4, <2>1, <2>3
  <2> QED BY <2>4 DEF cx, cy, cz, cw
<1>6. ~g.narrow => g.z - co * g.w = g.x - g.y BY <1>1, <1>5
<1> QED BY <1>1, <1>6 DEF g, Holds

LEMMA AddKeeps ==
  ASSUME IInv, NEW n \in Sizes, NEW src \in Int, NEW dest \in 0..(Span(n) - 1), Add(n, src, dest)
  PROVE  IInv'
<1> DEFINE out == AluAdd(eflags, src, dest, n)
           y == Low(src, n)
           e == Empty("sum")
<1>1. /\ out.flags \in Flags /\ out.res \in 0..(Span(n) - 1)
      /\ out.res + out.flags.CF * Span(n) = dest + y + 0
  <2>1. eflags \in Flags /\ 0 \in 0..1 BY OfInv
  <2> DEFINE o == AddWith(eflags, src, dest, 0, n)
  <2>2. /\ o.flags \in Flags /\ o.res \in 0..(Span(n) - 1)
        /\ o.res + o.flags.CF * Span(n) = dest + Low(src, n) + 0
    BY <2>1, Sums, Zenon
  <2> QED BY <2>2 DEF AluAdd
<1>2. y \in 0..(Span(n) - 1) BY Lows
<1>3. /\ e \in Chains /\ Below(e) /\ e.limbs < MaxLimbs /\ e.kind = "sum"
      /\ e.z + 0 * e.w = e.x + e.y
  BY Starts
<1>4. out.flags.CF \in 0..1 BY <1>1 DEF Flags
<1>5. eflags' = out.flags /\ chain' = Grown(e, n, dest, y, out.res) BY DEF Add, Started
<1> HIDE DEF out, y, e
<1>6. Holds(chain', eflags'.CF) BY <1>1, <1>2, <1>3, <1>4, <1>5, SumGrows
<1>7. eflags' \in Flags BY <1>1, <1>5
<1> QED BY <1>6, <1>7, KeptIf

LEMMA AdcKeeps ==
  ASSUME IInv, NEW n \in Sizes, NEW src \in Int, NEW dest \in 0..(Span(n) - 1), Adc(n, src, dest)
  PROVE  IInv'
<1> DEFINE out == AluAdc(eflags, src, dest, n)
           y == Low(src, n)
           ci == eflags.CF
<1>1. eflags \in Flags /\ ci \in 0..1 BY OfInv
<1>2. /\ out.flags \in Flags /\ out.res \in 0..(Span(n) - 1)
      /\ out.res + out.flags.CF * Span(n) = dest + y + ci
  <2> DEFINE o == AddWith(eflags, src, dest, ci, n)
  <2>1. /\ o.flags \in Flags /\ o.res \in 0..(Span(n) - 1)
        /\ o.res + o.flags.CF * Span(n) = dest + Low(src, n) + ci
    BY <1>1, Sums, Zenon
  <2> QED BY <2>1 DEF AluAdc
<1>3. y \in 0..(Span(n) - 1) BY Lows
<1>4. out.flags.CF \in 0..1 BY <1>2 DEF Flags
<1>5. eflags' = out.flags /\ chain' = Continued("sum", n, dest, y, out.res) BY DEF Adc
<1>6. Holds(chain, ci) BY OfInv
<1> HIDE DEF out, y, ci
<1>7. Holds(chain', out.flags.CF)
  <2>1. CASE chain.kind = "sum" /\ chain.limbs < MaxLimbs
    <3>1. chain' = Grown(chain, n, dest, y, out.res) BY <2>1, <1>5 DEF Continued
    <3>2. /\ chain \in Chains /\ Below(chain) /\ chain.z + ci * chain.w = chain.x + chain.y
      BY <1>6, <2>1 DEF Holds
    <3> QED BY <3>1, <3>2, <2>1, <1>1, <1>2, <1>3, <1>4, SumGrows
  <2>2. CASE ~(chain.kind = "sum" /\ chain.limbs < MaxLimbs)
    BY <2>2, <1>5, NoChainHolds DEF Continued
  <2> QED BY <2>1, <2>2
<1> QED BY <1>2, <1>5, <1>7, KeptIf

LEMMA SubKeeps ==
  ASSUME IInv, NEW n \in Sizes, NEW src \in Int, NEW dest \in 0..(Span(n) - 1), Sub(n, src, dest)
  PROVE  IInv'
<1> DEFINE out == AluSub(eflags, src, dest, n)
           y == Low(src, n)
           e == Empty("difference")
<1>1. /\ out.flags \in Flags /\ out.res \in 0..(Span(n) - 1)
      /\ out.res - out.flags.CF * Span(n) = dest - y - 0
  <2>1. dest \in Int /\ Low(dest, n) = dest BY Spans, Lows
  <2>2. eflags \in Flags /\ 0 \in 0..1 BY OfInv
  <2> DEFINE o == SubWith(eflags, src, dest, 0, n)
  <2>3. /\ o.flags \in Flags /\ o.res \in 0..(Span(n) - 1)
        /\ o.res - o.flags.CF * Span(n) = Low(dest, n) - Low(src, n) - 0
    BY <2>1, <2>2, Differences, Zenon
  <2> QED BY <2>1, <2>3 DEF AluSub
<1>2. y \in 0..(Span(n) - 1) BY Lows
<1>3. /\ e \in Chains /\ Below(e) /\ e.limbs < MaxLimbs /\ e.kind = "difference"
      /\ ~e.narrow => e.z - 0 * e.w = e.x - e.y
  BY Starts
<1>4. out.flags.CF \in 0..1 BY <1>1 DEF Flags
<1>5. eflags' = out.flags /\ chain' = Grown(e, n, dest, y, out.res) BY DEF Sub, Started
<1> HIDE DEF out, y, e
<1>6. Holds(chain', eflags'.CF) BY <1>1, <1>2, <1>3, <1>4, <1>5, DifferenceGrows
<1>7. eflags' \in Flags BY <1>1, <1>5
<1> QED BY <1>6, <1>7, KeptIf

\* A byte that sbb gives to the Alu as data_size bits leaves bits in the flags, and the chain is
\* marked narrow.
LEMMA SbbKeeps ==
  ASSUME IInv, NEW ds \in DataSizes, NEW n \in {ds, Byte}, NEW src \in Int,
         NEW dest \in 0..(Span(n) - 1), Sbb(ds, n, src, dest)
  PROVE  IInv'
<1> DEFINE v == IF n = Byte THEN SignExt(src, Byte) ELSE src
           out == AluSbb(eflags, v, dest, ds)
           y == Low(src, n)
           c == Continued("difference", n, dest, y, Low(out.res, n))
           ci == eflags.CF
<1>1. eflags \in Flags /\ ci \in 0..1 /\ Holds(chain, ci) BY OfInv
<1>2. ds \in Sizes /\ Byte \in Sizes /\ n \in Sizes BY DEF Sizes
<1>3. dest \in Int BY <1>2, Spans
<1>4. v \in Int
  <2>1. Top(src, Byte) \in 0..1 /\ Low(src, Byte) \in Int /\ Span(Byte) \in Int
    BY <1>2, Tops, Lows, Spans
  <2> QED BY <2>1 DEF SignExt, Signed
<1>5. /\ out.flags \in Flags /\ out.res \in 0..(Span(ds) - 1)
      /\ out.res - out.flags.CF * Span(ds) = Low(dest, ds) - Low(v, ds) - ci
  <2> DEFINE o == SubWith(eflags, v, dest, ci, ds)
  <2>1. eflags \in Flags /\ ds \in Sizes /\ v \in Int /\ dest \in Int /\ ci \in 0..1
    BY <1>1, <1>2, <1>3, <1>4
  <2>2. /\ o.flags \in Flags /\ o.res \in 0..(Span(ds) - 1)
        /\ o.res - o.flags.CF * Span(ds) = Low(dest, ds) - Low(v, ds) - ci
    <3> HIDE DEF v, ci
    <3> QED BY <2>1, Differences, Zenon
  <2> QED BY <2>2 DEF AluSbb
<1>6. y \in 0..(Span(n) - 1) /\ Low(out.res, n) \in 0..(Span(n) - 1)
  <2>1. out.res \in Int BY <1>2, <1>5, Spans
  <2> HIDE DEF out
  <2> QED BY <2>1, <1>2, Lows
<1>7. out.flags.CF \in 0..1 BY <1>5 DEF Flags
<1>8. eflags' = out.flags /\ chain' = IF c = NoChain THEN c ELSE [c EXCEPT !.narrow = @ \/ n = Byte]
  BY DEF Sbb
<1>9. Holds(chain', out.flags.CF)
  <2>1. CASE ~(chain.kind = "difference" /\ chain.limbs < MaxLimbs)
    BY <2>1, <1>8, NoChainHolds DEF Continued
  <2>2. CASE chain.kind = "difference" /\ chain.limbs < MaxLimbs
    <3>1. c = Grown(chain, n, dest, y, Low(out.res, n)) BY <2>2 DEF Continued
    <3>2. /\ chain \in Chains /\ Below(chain)
          /\ ~chain.narrow => chain.z - ci * chain.w = chain.x - chain.y
      BY <1>1, <2>2 DEF Holds
    <3> HIDE DEF out, y, ci, v
    <3>3. c \in Chains /\ Below(c) /\ c.kind = "difference" /\ c # NoChain
      BY <3>1, <3>2, <2>2, <1>2, <1>6, GrownFits, NoChainFits
    <3>4. CASE n = Byte
      <4> HIDE DEF c
      <4>1. chain' = [c EXCEPT !.narrow = TRUE] BY <3>3, <3>4, <1>8 DEF Chains
      <4>2. chain' \in Chains /\ chain'.kind = "difference" /\ chain'.narrow = TRUE
            /\ chain'.x = c.x /\ chain'.y = c.y /\ chain'.z = c.z /\ chain'.w = c.w
        BY <3>3, <4>1 DEF Chains
      <4>3. Below(chain') BY <3>3, <4>2 DEF Below
      <4> QED BY <4>2, <4>3 DEF Holds
    <3>5. CASE n # Byte
      <4>1. chain' = c
        <5> HIDE DEF c
        <5>1. c.narrow \in BOOLEAN /\ chain' = [c EXCEPT !.narrow = c.narrow]
          BY <3>3, <3>5, <1>8 DEF Chains
        <5> QED BY <3>3, <5>1 DEF Chains
      <4>2. n = ds BY <3>5
      <4>3. Low(dest, n) = dest BY <1>2, <1>3, Lows
      <4>4. v = src BY <3>5 DEF v
      <4>5. Low(out.res, n) = out.res BY <1>2, <1>5, <4>2, Lows, Spans
      <4>6. out.res - out.flags.CF * Span(n) = dest - y - ci
        BY <1>5, <4>2, <4>3, <4>4 DEF y
      <4>7. chain' = Grown(chain, n, dest, y, out.res) BY <3>1, <4>1, <4>5
      <4>8. out.res \in 0..(Span(n) - 1) BY <1>5, <4>2
      <4> HIDE DEF c
      <4> QED BY <1>1, <1>2, <1>6, <1>7, <2>2, <3>2, <4>6, <4>7, <4>8, DifferenceGrows
    <3> QED BY <3>4, <3>5
  <2> QED BY <2>1, <2>2
<1> QED BY <1>5, <1>8, <1>9, KeptIf

\* inc, dec and every other instruction end the chain.
LEMMA EndKeeps ==
  ASSUME eflags' \in Flags, chain' = NoChain
  PROVE  IInv'
  BY NoChainHolds, KeptIf

LEMMA IncDecKeeps ==
  ASSUME IInv, NEW n \in Sizes, NEW dest \in 0..(Span(n) - 1), Inc(n, dest) \/ Dec(n, dest)
  PROVE  IInv'
<1>1. eflags \in Flags /\ dest \in Int BY OfInv, Spans
<1>2. AluAdd(eflags, 1, dest, n).flags \in Flags
  <2>1. 1 \in Int /\ 0 \in 0..1 OBVIOUS
  <2>2. AddWith(eflags, 1, dest, 0, n).flags \in Flags BY <1>1, <2>1, Sums, Zenon
  <2> QED BY <2>2 DEF AluAdd
<1>3. AluSub(eflags, 1, dest, n).flags \in Flags
  <2>1. 1 \in Int /\ 0 \in 0..1 OBVIOUS
  <2>2. SubWith(eflags, 1, dest, 0, n).flags \in Flags BY <1>1, <2>1, Differences, Zenon
  <2> QED BY <2>2 DEF AluSub
<1> QED BY <1>2, <1>3, EndKeeps DEF Inc, Dec

----------------------------------------------------------------------------
\* The theorems.

\* Every instruction keeps the invariant.
LEMMA StepKeeps == IInv /\ [Next]_vars => IInv'
<1> SUFFICES ASSUME IInv, [Next]_vars PROVE IInv'
  OBVIOUS
<1>1. ASSUME NEW ds \in DataSizes, NEW form \in Forms,
             NEW src \in Values(SrcSize(form, ds)), NEW dest \in Values(DestSize(form, ds)),
             Binary(ds, DestSize(form, ds), IF form = "bv" THEN SignExt(src, Byte) ELSE src, dest)
      PROVE  IInv'
  <2> DEFINE n == DestSize(form, ds)
             v == IF form = "bv" THEN SignExt(src, Byte) ELSE src
  <2>1. n \in {ds, Byte} /\ n \in Sizes BY DEF DestSize, Sizes
  <2>2. dest \in 0..(Span(n) - 1) BY DEF Values
  <2>3. src \in Int /\ v \in Int
    <3>1. SrcSize(form, ds) \in Sizes /\ Byte \in Sizes BY DEF SrcSize, Sizes
    <3>2. src \in Int BY <3>1, Spans DEF Values
    <3>3. Top(src, Byte) \in 0..1 /\ Low(src, Byte) \in Int /\ Span(Byte) \in Int
      BY <3>1, <3>2, Tops, Lows, Spans
    <3>4. SignExt(src, Byte) \in Int BY <3>3 DEF SignExt, Signed
    <3> QED BY <3>2, <3>4
  <2>4. Binary(ds, n, v, dest) BY <1>1
  <2> HIDE DEF n, v
  <2>5. CASE Add(n, v, dest) BY <2>1, <2>2, <2>3, <2>5, AddKeeps
  <2>6. CASE Adc(n, v, dest) BY <2>1, <2>2, <2>3, <2>6, AdcKeeps
  <2>7. CASE Sub(n, v, dest) BY <2>1, <2>2, <2>3, <2>7, SubKeeps
  <2>8. CASE Sbb(ds, n, v, dest) BY <2>1, <2>2, <2>3, <2>8, SbbKeeps
  <2> QED BY <2>4, <2>5, <2>6, <2>7, <2>8 DEF Binary
<1>2. ASSUME NEW n \in Sizes, NEW dest \in Values(n), Inc(n, dest) \/ Dec(n, dest)
      PROVE  IInv'
  BY <1>2, IncDecKeeps DEF Values
<1>3. CASE Other
  BY <1>3, EndKeeps DEF Other
<1>4. CASE UNCHANGED vars
  BY <1>4 DEF vars, IInv, TypeOK, SumExact, DifferenceExact
<1> QED BY <1>1, <1>2, <1>3, <1>4 DEF Next

LEMMA InitHolds == Init => IInv
<1> SUFFICES ASSUME Init PROVE IInv
  OBVIOUS
<1>1. eflags = NoFlags /\ chain = NoChain BY DEF Init
<1>2. eflags \in Flags BY <1>1 DEF NoFlags, Flags
<1>3. chain \in Chains /\ Below(chain) /\ chain.kind = "none" BY <1>1, NoChainFits
<1> QED BY <1>2, <1>3 DEF IInv, TypeOK, SumExact, DifferenceExact, Below

\* The chain and the flags stay what the code computes of them: the invariant holds always.
THEOREM Invariance == Spec => []IInv
<1>1. Init => IInv BY InitHolds
<1>2. IInv /\ [Next]_vars => IInv' BY StepKeeps
<1> QED BY <1>1, <1>2, PTL DEF Spec

\* The flags are bits, whatever runs, and the limbs of a chain fit its weight.
THEOREM Typing == Spec => []TypeOK
<1>1. IInv => TypeOK BY DEF IInv
<1> QED BY <1>1, Invariance, PTL

\* add and a run of adc, of limbs of any sizes and in any number, leave the sum in the registers
\* and the carry of the whole in CF: what set_CF_adc() compares is enough.
THEOREM Sum == Spec => []SumExact
<1>1. IInv => SumExact BY DEF IInv
<1> QED BY <1>1, Invariance, PTL

\* sub and a run of sbb, but for bytes that sbb subtracts, leave the difference and the borrow.
THEOREM Difference == Spec => []DifferenceExact
<1>1. IInv => DifferenceExact BY DEF IInv
<1> QED BY <1>1, Invariance, PTL

----------------------------------------------------------------------------
\* The flags of signs.  What adc and sbb say of the highest limb, they say of the whole number.

\* A number below w is negative, read as a signed one.
Minus(v, w) == 2 * v >= w

\* ZF is that of the last limb only.
SignsOf(c, f) ==
  /\ c.kind = "sum" =>
       (f.OF = 1 <=> (Minus(c.x, c.w) <=> Minus(c.y, c.w)) /\ ~(Minus(c.z, c.w) <=> Minus(c.x, c.w)))
  /\ c.kind = "difference" /\ ~c.narrow =>
       /\ f.SF = 1 <=> Minus(c.z, c.w)
       /\ f.OF = 1 <=> ~(Minus(c.x, c.w) <=> Minus(c.y, c.w)) /\ ~(Minus(c.z, c.w) <=> Minus(c.x, c.w))
       /\ c.limbs = 1 => (f.ZF = 1 <=> c.z = 0)
  /\ c.kind # "none" => c.limbs >= 1

SInv == SignsOf(chain, eflags)

\* The top bit says whether a number is in the upper half.
LEMMA TopIsMinus ==
  ASSUME NEW n \in Sizes, NEW x \in Int
  PROVE  /\ Top(x, n) \in 0..1
         /\ Top(x, n) = 1 <=> Minus(Low(x, n), Span(n))
<1> DEFINE h == 2^(n - 1)
           l == Low(x, n)
<1>1. h \in Nat \ {0} /\ Span(n) = 2 * h BY SizesAssumption DEF SizesAssumption, Span
<1>2. l \in 0..(2 * h - 1) BY <1>1, Lows
<1>3. Top(x, n) = l \div h BY DEF Top
<1> HIDE DEF h, l
<1>4. CASE l < h
  <2>1. (l \div h) = 0 BY <1>1, <1>2, <1>4
  <2> QED BY <1>1, <1>2, <1>3, <1>4, <2>1 DEF Minus, l
<1>5. CASE l >= h
  <2>1. (l \div h) = 1 BY <1>1, <1>2, <1>5
  <2> QED BY <1>1, <1>2, <1>3, <1>5, <2>1 DEF Minus, l
<1> QED BY <1>1, <1>2, <1>4, <1>5

\* A number with one limb more is negative if that limb is.
LEMMA LimbIsMinus ==
  ASSUME NEW w \in Nat \ {0}, NEW n \in Sizes, NEW v \in 0..(w - 1), NEW a \in 0..(Span(n) - 1)
  PROVE  Minus(v + w * a, w * Span(n)) <=> Minus(a, Span(n))
<1> DEFINE h == 2^(n - 1)
<1>1. h \in Nat \ {0} /\ Span(n) = 2 * h BY SizesAssumption DEF SizesAssumption, Span
<1> HIDE DEF h
<1>2. a \in 0..(2 * h - 1) BY <1>1
<1>3. w * (2 * h) = 2 * (w * h) /\ w * a \in Int /\ w * h \in Int BY <1>1, <1>2
<1>4. CASE a >= h
  <2>1. w * a >= w * h BY <1>1, <1>2, <1>4
  <2> QED BY <1>1, <1>2, <1>3, <1>4, <2>1 DEF Minus
<1>5. CASE a < h
  <2>1. w * (a + 1) <= w * h BY <1>1, <1>2, <1>5
  <2>2. w * (a + 1) = w * a + w BY <1>2
  <2>3. v + w * a < w * h BY <1>3, <2>1, <2>2
  <2> QED BY <1>1, <1>2, <1>3, <1>5, <2>3 DEF Minus
<1> QED BY <1>1, <1>2, <1>4, <1>5

\* What a sum leaves in OF.
LEMMA SumSigns ==
  ASSUME NEW f \in Flags, NEW n \in Sizes, NEW src \in Int, NEW dest \in 0..(Span(n) - 1),
         NEW cf \in 0..1
  PROVE  LET out == AddWith(f, src, dest, cf, n)
             s == Span(n)
         IN  out.flags.OF = 1 <=> /\ Minus(dest, s) <=> Minus(Low(src, n), s)
                                  /\ ~(Minus(out.res, s) <=> Minus(dest, s))
<1> DEFINE out == AddWith(f, src, dest, cf, n)
           r == out.res
<1>1. dest \in Int /\ Low(dest, n) = dest BY Spans, Lows
<1>2. r \in 0..(Span(n) - 1) BY Sums, Zenon
<1>3. r \in Int /\ Low(r, n) = r
  <2> HIDE DEF r
  <2> QED BY <1>2, Spans, Lows
<1>4. out.flags.OF = OFAdx(r, src, dest, n) BY DEF AddWith, SetPZS, Flags
<1> HIDE DEF out, r
<1>5. /\ Top(src, n) \in 0..1 /\ (Top(src, n) = 1 <=> Minus(Low(src, n), Span(n)))
      /\ Top(dest, n) \in 0..1 /\ (Top(dest, n) = 1 <=> Minus(dest, Span(n)))
      /\ Top(r, n) \in 0..1 /\ (Top(r, n) = 1 <=> Minus(r, Span(n)))
  BY <1>1, <1>3, TopIsMinus
<1>6. out.flags.OF = 1 <=> Top(src, n) = Top(dest, n) /\ Top(r, n) # Top(src, n)
  BY <1>4 DEF OFAdx, Flag
<1> QED BY <1>5, <1>6 DEF r, out

\* What a difference leaves in SF, OF and ZF.
LEMMA DifferenceSigns ==
  ASSUME NEW f \in Flags, NEW n \in Sizes, NEW src \in Int, NEW dest \in 0..(Span(n) - 1),
         NEW cf \in 0..1
  PROVE  LET out == SubWith(f, src, dest, cf, n)
             s == Span(n)
         IN  /\ out.flags.SF = 1 <=> Minus(out.res, s)
             /\ out.flags.OF = 1 <=> /\ ~(Minus(dest, s) <=> Minus(Low(src, n), s))
                                     /\ ~(Minus(out.res, s) <=> Minus(dest, s))
             /\ out.flags.ZF = 1 <=> out.res = 0
<1> DEFINE out == SubWith(f, src, dest, cf, n)
           r == out.res
<1>1. dest \in Int /\ Low(dest, n) = dest BY Spans, Lows
<1>2. r \in 0..(Span(n) - 1) BY <1>1, Differences, Zenon
<1>3. r \in Int /\ Low(r, n) = r
  <2> HIDE DEF r
  <2> QED BY <1>2, Spans, Lows
<1>4. /\ out.flags.OF = OFSux(r, src, dest, n)
      /\ out.flags.SF = Top(r, n)
      /\ out.flags.ZF = Flag(Low(r, n) = 0)
  BY DEF SubWith, SetPZS, Flags
<1> HIDE DEF out, r
<1>5. /\ Top(src, n) \in 0..1 /\ (Top(src, n) = 1 <=> Minus(Low(src, n), Span(n)))
      /\ Top(dest, n) \in 0..1 /\ (Top(dest, n) = 1 <=> Minus(dest, Span(n)))
      /\ Top(r, n) \in 0..1 /\ (Top(r, n) = 1 <=> Minus(r, Span(n)))
  BY <1>1, <1>3, TopIsMinus
<1>6. /\ out.flags.OF = 1 <=> Top(src, n) # Top(dest, n) /\ Top(r, n) # Top(dest, n)
      /\ out.flags.ZF = 1 <=> r = 0
  BY <1>3, <1>4 DEF OFSux, Flag
<1> QED BY <1>4, <1>5, <1>6 DEF r, out

\* The signs of a chain with one limb more are those of the limb.
LEMMA GrownSigns ==
  ASSUME NEW c \in Chains, Below(c), c.limbs < MaxLimbs, NEW n \in Sizes,
         NEW x \in 0..(Span(n) - 1), NEW y \in 0..(Span(n) - 1), NEW r \in 0..(Span(n) - 1)
  PROVE  LET g == Grown(c, n, x, y, r)
             s == Span(n)
         IN  /\ Minus(g.x, g.w) <=> Minus(x, s)
             /\ Minus(g.y, g.w) <=> Minus(y, s)
             /\ Minus(g.z, g.w) <=> Minus(r, s)
             /\ g.kind = c.kind /\ g.limbs = c.limbs + 1 /\ g.narrow = c.narrow
             /\ c.w = 1 => g.z = r
<1>1. /\ c.w \in Nat \ {0} /\ c.x \in 0..(c.w - 1) /\ c.y \in 0..(c.w - 1) /\ c.z \in 0..(c.w - 1)
      /\ c.limbs \in 0..MaxLimbs
  BY DEF Chains, Below
<1> DEFINE g == Grown(c, n, x, y, r)
<1>2. /\ g.x = c.x + c.w * x /\ g.y = c.y + c.w * y /\ g.z = c.z + c.w * r /\ g.w = c.w * Span(n)
      /\ g.kind = c.kind /\ g.narrow = c.narrow /\ g.limbs = c.limbs + 1
  BY DEF Grown
<1> HIDE DEF g
<1>3. /\ Minus(g.x, g.w) <=> Minus(x, Span(n))
      /\ Minus(g.y, g.w) <=> Minus(y, Span(n))
      /\ Minus(g.z, g.w) <=> Minus(r, Span(n))
  BY <1>1, <1>2, LimbIsMinus
<1>4. c.w = 1 => g.z = r BY <1>1, <1>2, Spans
<1> QED BY <1>2, <1>3, <1>4 DEF g

LEMMA NoChainSigns ==
  ASSUME NEW f
  PROVE  SignsOf(NoChain, f)
  BY NoChainFits DEF SignsOf

LEMMA AddSigns ==
  ASSUME IInv, NEW n \in Sizes, NEW src \in Int, NEW dest \in 0..(Span(n) - 1), Add(n, src, dest)
  PROVE  SInv'
<1> DEFINE out == AluAdd(eflags, src, dest, n)
           y == Low(src, n)
           e == Empty("sum")
<1>1. eflags \in Flags /\ 0 \in 0..1 BY OfInv
<1>2. out.res \in 0..(Span(n) - 1)
  <2>1. AddWith(eflags, src, dest, 0, n).res \in 0..(Span(n) - 1) BY <1>1, Sums, Zenon
  <2> QED BY <2>1 DEF AluAdd
<1>3. out.flags.OF = 1 <=> /\ Minus(dest, Span(n)) <=> Minus(y, Span(n))
                           /\ ~(Minus(out.res, Span(n)) <=> Minus(dest, Span(n)))
  BY <1>1, SumSigns DEF AluAdd
<1>4. y \in 0..(Span(n) - 1) BY Lows
<1>5. e \in Chains /\ Below(e) /\ e.limbs < MaxLimbs /\ e.kind = "sum" BY Starts
<1>6. eflags' = out.flags /\ chain' = Grown(e, n, dest, y, out.res) BY DEF Add, Started
<1>7. e.limbs = 0 BY DEF Empty
<1> HIDE DEF out, y, e
<1>8. /\ Minus(chain'.x, chain'.w) <=> Minus(dest, Span(n))
      /\ Minus(chain'.y, chain'.w) <=> Minus(y, Span(n))
      /\ Minus(chain'.z, chain'.w) <=> Minus(out.res, Span(n))
      /\ chain'.kind = "sum" /\ chain'.limbs = 1
  BY <1>2, <1>4, <1>5, <1>6, <1>7, GrownSigns
<1> QED BY <1>3, <1>6, <1>8 DEF SInv, SignsOf

LEMMA AdcSigns ==
  ASSUME IInv, NEW n \in Sizes, NEW src \in Int, NEW dest \in 0..(Span(n) - 1), Adc(n, src, dest)
  PROVE  SInv'
<1> DEFINE out == AluAdc(eflags, src, dest, n)
           y == Low(src, n)
<1>1. eflags \in Flags /\ eflags.CF \in 0..1 /\ chain \in Chains /\ Below(chain)
  BY OfInv DEF Holds
<1>2. out.res \in 0..(Span(n) - 1)
  <2>1. AddWith(eflags, src, dest, eflags.CF, n).res \in 0..(Span(n) - 1) BY <1>1, Sums, Zenon
  <2> QED BY <2>1 DEF AluAdc
<1>3. out.flags.OF = 1 <=> /\ Minus(dest, Span(n)) <=> Minus(y, Span(n))
                           /\ ~(Minus(out.res, Span(n)) <=> Minus(dest, Span(n)))
  BY <1>1, SumSigns DEF AluAdc
<1>4. y \in 0..(Span(n) - 1) BY Lows
<1>5. eflags' = out.flags /\ chain' = Continued("sum", n, dest, y, out.res) BY DEF Adc
<1> HIDE DEF out, y
<1>6. CASE chain.kind = "sum" /\ chain.limbs < MaxLimbs
  <2>1. chain' = Grown(chain, n, dest, y, out.res) BY <1>5, <1>6 DEF Continued
  <2>2. /\ Minus(chain'.x, chain'.w) <=> Minus(dest, Span(n))
        /\ Minus(chain'.y, chain'.w) <=> Minus(y, Span(n))
        /\ Minus(chain'.z, chain'.w) <=> Minus(out.res, Span(n))
        /\ chain'.kind = "sum" /\ chain'.limbs = chain.limbs + 1
    BY <1>1, <1>2, <1>4, <1>6, <2>1, GrownSigns
  <2>3. chain'.limbs >= 1 BY <1>1, <2>2 DEF Chains
  <2> QED BY <1>3, <1>5, <2>2, <2>3 DEF SInv, SignsOf
<1>7. CASE ~(chain.kind = "sum" /\ chain.limbs < MaxLimbs)
  BY <1>5, <1>7, NoChainSigns DEF Continued, SInv
<1> QED BY <1>6, <1>7

LEMMA SubSigns ==
  ASSUME IInv, NEW n \in Sizes, NEW src \in Int, NEW dest \in 0..(Span(n) - 1), Sub(n, src, dest)
  PROVE  SInv'
<1> DEFINE out == AluSub(eflags, src, dest, n)
           y == Low(src, n)
           e == Empty("difference")
<1>1. eflags \in Flags /\ 0 \in 0..1 /\ dest \in Int BY OfInv, Spans
<1>2. out.res \in 0..(Span(n) - 1)
  <2>1. SubWith(eflags, src, dest, 0, n).res \in 0..(Span(n) - 1) BY <1>1, Differences, Zenon
  <2> QED BY <2>1 DEF AluSub
<1>3. /\ out.flags.SF = 1 <=> Minus(out.res, Span(n))
      /\ out.flags.OF = 1 <=> /\ ~(Minus(dest, Span(n)) <=> Minus(y, Span(n)))
                              /\ ~(Minus(out.res, Span(n)) <=> Minus(dest, Span(n)))
      /\ out.flags.ZF = 1 <=> out.res = 0
  BY <1>1, DifferenceSigns DEF AluSub
<1>4. y \in 0..(Span(n) - 1) BY Lows
<1>5. e \in Chains /\ Below(e) /\ e.limbs < MaxLimbs /\ e.kind = "difference" /\ e.w = 1 BY Starts
<1>6. eflags' = out.flags /\ chain' = Grown(e, n, dest, y, out.res) BY DEF Sub, Started
<1>7. e.limbs = 0 BY DEF Empty
<1> HIDE DEF out, y, e
<1>8. /\ Minus(chain'.x, chain'.w) <=> Minus(dest, Span(n))
      /\ Minus(chain'.y, chain'.w) <=> Minus(y, Span(n))
      /\ Minus(chain'.z, chain'.w) <=> Minus(out.res, Span(n))
      /\ chain'.kind = "difference" /\ chain'.limbs = 1 /\ chain'.z = out.res
  BY <1>2, <1>4, <1>5, <1>6, <1>7, GrownSigns
<1> QED BY <1>3, <1>6, <1>8 DEF SInv, SignsOf

\* With a byte in it the chain is narrow, and nothing is said of its flags.
LEMMA SbbSigns ==
  ASSUME IInv, SInv, NEW ds \in DataSizes, NEW n \in {ds, Byte}, NEW src \in Int,
         NEW dest \in 0..(Span(n) - 1), Sbb(ds, n, src, dest)
  PROVE  SInv'
<1> DEFINE v == IF n = Byte THEN SignExt(src, Byte) ELSE src
           out == AluSbb(eflags, v, dest, ds)
           y == Low(src, n)
           r == Low(out.res, n)
           c == Continued("difference", n, dest, y, r)
<1>1. /\ eflags \in Flags /\ eflags.CF \in 0..1 /\ chain \in Chains /\ Below(chain)
      /\ ds \in Sizes /\ n \in Sizes /\ Byte \in Sizes
  BY OfInv DEF Holds, Sizes
<1>2. dest \in Int BY <1>1, Spans
<1>3. v \in Int
  <2>1. Top(src, Byte) \in 0..1 /\ Low(src, Byte) \in Int /\ Span(Byte) \in Int
    BY <1>1, Tops, Lows, Spans
  <2> QED BY <2>1 DEF SignExt, Signed
<1>4. out.res \in 0..(Span(ds) - 1)
  <2> HIDE DEF v
  <2>1. SubWith(eflags, v, dest, eflags.CF, ds).res \in 0..(Span(ds) - 1)
    BY <1>1, <1>2, <1>3, Differences, Zenon
  <2> QED BY <2>1 DEF AluSbb
<1>5. n # Byte =>
      /\ out.flags.SF = 1 <=> Minus(out.res, Span(n))
      /\ out.flags.OF = 1 <=> /\ ~(Minus(dest, Span(n)) <=> Minus(y, Span(n)))
                              /\ ~(Minus(out.res, Span(n)) <=> Minus(dest, Span(n)))
  BY <1>1, DifferenceSigns DEF AluSbb
<1>6. y \in 0..(Span(n) - 1) /\ r \in 0..(Span(n) - 1) /\ (n # Byte => r = out.res)
  <2>1. out.res \in Int BY <1>1, <1>4, Spans
  <2> HIDE DEF out
  <2>2. y \in 0..(Span(n) - 1) /\ r \in 0..(Span(n) - 1) BY <2>1, <1>1, Lows
  <2>3. ASSUME n # Byte PROVE r = out.res
    BY <2>1, <2>3, <1>1, <1>4, Lows
  <2> QED BY <2>2, <2>3
<1>7. /\ eflags' = out.flags
      /\ chain' = IF c = NoChain THEN c ELSE [c EXCEPT !.narrow = @ \/ n = Byte]
  BY DEF Sbb
<1> HIDE DEF v, out, y, r
<1>8. CASE ~(chain.kind = "difference" /\ chain.limbs < MaxLimbs)
  BY <1>7, <1>8, NoChainSigns DEF Continued, SInv
<1>9. CASE chain.kind = "difference" /\ chain.limbs < MaxLimbs
  <2>1. c = Grown(chain, n, dest, y, r) BY <1>9 DEF Continued
  <2>2. /\ Minus(c.x, c.w) <=> Minus(dest, Span(n))
        /\ Minus(c.y, c.w) <=> Minus(y, Span(n))
        /\ Minus(c.z, c.w) <=> Minus(r, Span(n))
        /\ c.kind = "difference" /\ c.limbs = chain.limbs + 1 /\ c.narrow = chain.narrow
    BY <1>1, <1>6, <1>9, <2>1, GrownSigns
  <2>3. c \in Chains /\ c # NoChain BY <1>1, <1>6, <1>9, <2>1, <2>2, GrownFits, NoChainFits
  <2> HIDE DEF c
  <2>4. /\ chain'.x = c.x /\ chain'.y = c.y /\ chain'.z = c.z /\ chain'.w = c.w
        /\ chain'.kind = c.kind /\ chain'.limbs = c.limbs /\ (n = Byte => chain'.narrow)
    BY <1>7, <2>3 DEF Chains
  <2>5. chain.limbs >= 1 /\ chain.limbs \in Nat BY <1>1, <1>9 DEF SInv, SignsOf, Chains
  <2>6. chain'.limbs >= 1 /\ chain'.limbs # 1 BY <2>2, <2>4, <2>5
  <2>7. CASE n = Byte
    BY <2>2, <2>4, <2>6, <2>7 DEF SInv, SignsOf
  <2>8. CASE n # Byte
    BY <1>5, <1>6, <1>7, <2>2, <2>4, <2>6, <2>8 DEF SInv, SignsOf
  <2> QED BY <2>7, <2>8
<1> QED BY <1>8, <1>9

\* Every instruction keeps what the flags of signs say.
LEMMA StepSigns == IInv /\ SInv /\ [Next]_vars => SInv'
<1> SUFFICES ASSUME IInv, SInv, [Next]_vars PROVE SInv'
  OBVIOUS
<1>1. ASSUME NEW ds \in DataSizes, NEW form \in Forms,
             NEW src \in Values(SrcSize(form, ds)), NEW dest \in Values(DestSize(form, ds)),
             Binary(ds, DestSize(form, ds), IF form = "bv" THEN SignExt(src, Byte) ELSE src, dest)
      PROVE  SInv'
  <2> DEFINE n == DestSize(form, ds)
             v == IF form = "bv" THEN SignExt(src, Byte) ELSE src
  <2>1. n \in {ds, Byte} /\ n \in Sizes BY DEF DestSize, Sizes
  <2>2. dest \in 0..(Span(n) - 1) BY DEF Values
  <2>3. v \in Int
    <3>1. SrcSize(form, ds) \in Sizes /\ Byte \in Sizes BY DEF SrcSize, Sizes
    <3>2. src \in Int BY <3>1, Spans DEF Values
    <3>3. Top(src, Byte) \in 0..1 /\ Low(src, Byte) \in Int /\ Span(Byte) \in Int
      BY <3>1, <3>2, Tops, Lows, Spans
    <3>4. SignExt(src, Byte) \in Int BY <3>3 DEF SignExt, Signed
    <3> QED BY <3>2, <3>4
  <2>4. Binary(ds, n, v, dest) BY <1>1
  <2> HIDE DEF n, v
  <2>5. CASE Add(n, v, dest) BY <2>1, <2>2, <2>3, <2>5, AddSigns
  <2>6. CASE Adc(n, v, dest) BY <2>1, <2>2, <2>3, <2>6, AdcSigns
  <2>7. CASE Sub(n, v, dest) BY <2>1, <2>2, <2>3, <2>7, SubSigns
  <2>8. CASE Sbb(ds, n, v, dest) BY <2>1, <2>2, <2>3, <2>8, SbbSigns
  <2> QED BY <2>4, <2>5, <2>6, <2>7, <2>8 DEF Binary
<1>2. CASE \E n \in Sizes : \E dest \in Values(n) : Inc(n, dest) \/ Dec(n, dest)
  BY <1>2, NoChainSigns DEF Inc, Dec, SInv
<1>3. CASE Other
  BY <1>3, NoChainSigns DEF Other, SInv
<1>4. CASE UNCHANGED vars
  BY <1>4 DEF vars, SInv
<1> QED BY <1>1, <1>2, <1>3, <1>4 DEF Next

\* Exact sums and differences and the signs of their highest limbs decide overflow and order.
LEMMA Decided == IInv /\ SInv => FlagsDecide
<1> SUFFICES ASSUME IInv, SInv PROVE FlagsDecide
  OBVIOUS
<1> DEFINE w == chain.w
           x == chain.x
           y == chain.y
           z == chain.z
           cf == eflags.CF
<1>1. /\ w \in Nat \ {0} /\ x \in 0..(w - 1) /\ y \in 0..(w - 1) /\ z \in 0..(w - 1)
      /\ eflags \in Flags
  BY DEF IInv, TypeOK, Chains
<1>2. /\ cf \in 0..1 /\ eflags.SF \in 0..1 /\ eflags.OF \in 0..1 /\ eflags.ZF \in 0..1
  BY <1>1 DEF Flags
<1>3. ASSUME chain.kind = "sum"
      PROVE  eflags.OF = 1 <=> AsSigned(z) # AsSigned(x) + AsSigned(y)
  <2>1. z + cf * w = x + y BY <1>3 DEF IInv, SumExact
  <2>2. eflags.OF = 1 <=> (2 * x >= w <=> 2 * y >= w) /\ ~(2 * z >= w <=> 2 * x >= w)
    BY <1>3 DEF SInv, SignsOf, Minus
  <2>3. /\ AsSigned(z) = IF 2 * z >= w THEN z - w ELSE z
        /\ AsSigned(x) = IF 2 * x >= w THEN x - w ELSE x
        /\ AsSigned(y) = IF 2 * y >= w THEN y - w ELSE y
    BY DEF AsSigned
  <2> HIDE DEF w, x, y, z, cf
  <2>4. CASE cf = 0 BY <1>1, <2>1, <2>2, <2>3, <2>4
  <2>5. CASE cf = 1 BY <1>1, <2>1, <2>2, <2>3, <2>5
  <2> QED BY <1>2, <2>4, <2>5
<1>4. ASSUME chain.kind = "difference", ~chain.narrow
      PROVE  /\ cf = 1 <=> x < y
             /\ eflags.SF # eflags.OF <=> AsSigned(x) < AsSigned(y)
             /\ chain.limbs = 1 => (eflags.ZF = 1 <=> x = y)
  <2>1. z - cf * w = x - y BY <1>4 DEF IInv, DifferenceExact
  <2>2. /\ eflags.SF = 1 <=> 2 * z >= w
        /\ eflags.OF = 1 <=> ~(2 * x >= w <=> 2 * y >= w) /\ ~(2 * z >= w <=> 2 * x >= w)
        /\ chain.limbs = 1 => (eflags.ZF = 1 <=> z = 0)
    BY <1>4 DEF SInv, SignsOf, Minus
  <2>3. /\ AsSigned(x) = IF 2 * x >= w THEN x - w ELSE x
        /\ AsSigned(y) = IF 2 * y >= w THEN y - w ELSE y
    BY DEF AsSigned
  <2> HIDE DEF w, x, y, z, cf
  <2>4. cf = 1 <=> x < y
    <3>1. CASE cf = 0 BY <1>1, <2>1, <3>1
    <3>2. CASE cf = 1 BY <1>1, <2>1, <3>2
    <3> QED BY <1>2, <3>1, <3>2
  <2>5. z = IF x < y THEN x - y + w ELSE x - y
    <3>1. CASE cf = 0 BY <1>1, <2>1, <2>4, <3>1
    <3>2. CASE cf = 1 BY <1>1, <2>1, <2>4, <3>2
    <3> QED BY <1>2, <3>1, <3>2
  <2>6. eflags.SF # eflags.OF <=> ~(eflags.SF = 1 <=> eflags.OF = 1) BY <1>2
  <2>7. ~(eflags.SF = 1 <=> eflags.OF = 1) <=> AsSigned(x) < AsSigned(y)
    BY <1>1, <2>2, <2>3, <2>5
  <2>8. z = 0 <=> x = y BY <1>1, <2>5
  <2> QED BY <2>2, <2>4, <2>6, <2>7, <2>8
<1>5. AsSigned(x) = AsSigned(y) <=> x = y
  <2>1. /\ AsSigned(x) = IF 2 * x >= w THEN x - w ELSE x
        /\ AsSigned(y) = IF 2 * y >= w THEN y - w ELSE y
    BY DEF AsSigned
  <2> HIDE DEF w, x, y
  <2> QED BY <1>1, <2>1
<1>6. AsSigned(x) \in Int /\ AsSigned(y) \in Int
  <2> HIDE DEF x, y
  <2> QED BY <1>1 DEF AsSigned
<1>7. SumOverflow BY <1>3 DEF SumOverflow
<1>8. OrderDecided
  <2> SUFFICES ASSUME chain.kind = "difference", ~chain.narrow
               PROVE  /\ ConditionB(eflags) <=> x < y
                      /\ ConditionAe(eflags) <=> x >= y
                      /\ ConditionL(eflags) <=> AsSigned(x) < AsSigned(y)
                      /\ ConditionGe(eflags) <=> AsSigned(x) >= AsSigned(y)
                      /\ chain.limbs = 1 =>
                           /\ ConditionE(eflags) <=> x = y
                           /\ ConditionA(eflags) <=> x > y
                           /\ ConditionBe(eflags) <=> x <= y
                           /\ ConditionG(eflags) <=> AsSigned(x) > AsSigned(y)
                           /\ ConditionLe(eflags) <=> AsSigned(x) <= AsSigned(y)
    BY DEF OrderDecided
  <2> DEFINE sx == AsSigned(x)
             sy == AsSigned(y)
  <2>1. /\ cf = 1 <=> x < y
        /\ eflags.SF # eflags.OF <=> sx < sy
        /\ chain.limbs = 1 => (eflags.ZF = 1 <=> x = y)
    BY <1>4
  <2>2. x \in Int /\ y \in Int /\ sx \in Int /\ sy \in Int /\ (sx = sy <=> x = y)
    BY <1>1, <1>5, <1>6
  <2>3. eflags.CF = cf OBVIOUS
  <2> HIDE DEF x, y, cf, sx, sy
  <2>4. /\ ConditionB(eflags) <=> x < y
        /\ ConditionAe(eflags) <=> x >= y
        /\ ConditionL(eflags) <=> sx < sy
        /\ ConditionGe(eflags) <=> sx >= sy
    BY <1>2, <2>1, <2>2, <2>3 DEF ConditionB, ConditionAe, ConditionL, ConditionGe
  <2>5. ASSUME chain.limbs = 1
        PROVE  /\ ConditionE(eflags) <=> x = y
               /\ ConditionA(eflags) <=> x > y
               /\ ConditionBe(eflags) <=> x <= y
               /\ ConditionG(eflags) <=> sx > sy
               /\ ConditionLe(eflags) <=> sx <= sy
    BY <1>2, <2>1, <2>2, <2>3, <2>5 DEF ConditionE, ConditionA, ConditionBe, ConditionG, ConditionLe
  <2> QED BY <2>4, <2>5 DEF sx, sy
<1> QED BY <1>7, <1>8 DEF FlagsDecide

\* The flags that add and a run of adc leave tell the overflow of the signed sum, and those of sub
\* and a run of sbb the order of the numbers, signed and unsigned, as jcc reads it.
THEOREM Deciding == Spec => []FlagsDecide
<1>1. Init => SInv BY NoChainSigns DEF Init, SInv
<1>2. IInv /\ SInv /\ [Next]_vars => SInv' BY StepSigns
<1>3. IInv /\ SInv => FlagsDecide BY Decided
<1> QED BY <1>1, <1>2, <1>3, Invariance, PTL DEF Spec

----------------------------------------------------------------------------
(* Operate: numbers of a width, and their signs.                             *)

\* A power of a sum of exponents that occur.
LEMMA Powers ==
  ASSUME NEW i \in Nat, NEW j \in Nat, i + j <= MaxPower
  PROVE  2^i \in Nat \ {0} /\ 2^j \in Nat \ {0} /\ 2^(i + j) = 2^i * 2^j
<1>1. i \in 0..MaxPower /\ j \in 0..MaxPower /\ j \in 0..(MaxPower - i)
  <2>1. MaxPower \in Int BY OperateAssumption, SizesAssumption DEF SizesAssumption, Sizes, MaxPower
  <2> QED BY <2>1
<1> QED BY <1>1, PowersAssumption DEF PowersAssumption

\* The span of a width, its half, and the span of twice the width.
LEMMA Widths ==
  ASSUME NEW n \in Sizes
  PROVE  /\ n \in Nat \ {0} /\ Word \in Nat /\ n <= Word /\ MaxCount \in Nat
         /\ 2^(n - 1) \in Nat \ {0} /\ Span(n) = 2 * 2^(n - 1) /\ Span(n) \in Nat \ {0}
         /\ Span(2 * n) = Span(n) * Span(n) /\ 2^(2 * n - 1) = 2^(n - 1) * Span(n)
<1>1. n \in Nat \ {0} /\ Word \in Nat /\ n <= Word /\ MaxCount \in Nat
  BY OperateAssumption, SizesAssumption DEF SizesAssumption, Sizes
<1>2. 2^(n - 1) \in Nat \ {0} /\ Span(n) = 2 * 2^(n - 1) /\ Span(n) \in Nat \ {0}
  BY SizesAssumption DEF SizesAssumption, Span
<1>3. n + n <= MaxPower /\ (n - 1) + n <= MaxPower BY <1>1 DEF MaxPower
<1>4. 2^(n + n) = 2^n * 2^n BY <1>1, <1>3, Powers
<1>5. 2^((n - 1) + n) = 2^(n - 1) * 2^n BY <1>1, <1>3, Powers
<1>6. n + n = 2 * n /\ (n - 1) + n = 2 * n - 1 BY <1>1
<1> QED BY <1>1, <1>2, <1>4, <1>5, <1>6 DEF Span

\* Quotient and remainder are unique, also for integers.
LEMMA Division ==
  ASSUME NEW q \in Int, NEW s \in Nat \ {0}, NEW r \in 0..(s - 1)
  PROVE  (q * s + r) \div s = q /\ (q * s + r) % s = r
OBVIOUS

LEMMA Euclid ==
  ASSUME NEW x \in Int, NEW s \in Nat \ {0}
  PROVE  x \div s \in Int /\ x % s \in 0..(s - 1) /\ x = (x \div s) * s + (x % s)
OBVIOUS

\* A multiple of the divisor leaves the remainder alone.
LEMMA Shifting ==
  ASSUME NEW q \in Int, NEW x \in Int, NEW s \in Nat \ {0}
  PROVE  (q * s + x) % s = x % s
<1> DEFINE y == x \div s
           r == x % s
<1>1. y \in Int /\ r \in 0..(s - 1) /\ x = y * s + r BY Euclid
<1> HIDE DEF y, r
<1>2. q * s + x = (q + y) * s + r BY <1>1
<1> DEFINE z == q + y
<1>3. z \in Int BY <1>1
<1> HIDE DEF z
<1>4. (z * s + r) % s = r BY <1>1, <1>3, Division
<1>5. q * s + x = z * s + r BY <1>2 DEF z
<1> QED BY <1>4, <1>5 DEF r

\* The top bit of a number of m bits, and the integer it stands for.
LEMMA Complement ==
  ASSUME NEW m, NEW x \in Int, 2^(m - 1) \in Nat \ {0}, Span(m) = 2 * 2^(m - 1)
  PROVE  /\ Top(x, m) \in 0..1 /\ Signed(x, m) \in -(2^(m - 1))..(2^(m - 1) - 1)
         /\ Top(x, m) = 1 <=> Signed(x, m) < 0
         /\ Low(x, m) = IF Signed(x, m) < 0 THEN Signed(x, m) + Span(m) ELSE Signed(x, m)
         /\ x \in -(2^(m - 1))..(2^(m - 1) - 1) => Signed(x, m) = x
<1> DEFINE h == 2^(m - 1)
           s == Span(m)
           t == Top(x, m)
           v == Signed(x, m)
           r == x % s
<1>1. h \in Nat \ {0} /\ s = 2 * h /\ s \in Nat \ {0} OBVIOUS
<1>2. Low(x, m) = r /\ t = r \div h /\ v = r - t * s BY DEF Low, Top, Signed
<1> HIDE DEF h, s, t, v
<1>3. r \in 0..(s - 1) BY <1>1, Remainders
<1> HIDE DEF r
<1>4. r < h => t = 0
  <2> SUFFICES ASSUME r < h PROVE t = 0 OBVIOUS
  <2> DEFINE q == 0
  <2>1. q \in Int /\ r \in 0..(h - 1) BY <1>1, <1>3
  <2> HIDE DEF q
  <2>2. (q * h + r) \div h = q BY <1>1, <2>1, Division
  <2>3. q * h + r = r BY <1>1, <1>3 DEF q
  <2> QED BY <1>2, <2>2, <2>3 DEF q
<1>5. r >= h => t = 1
  <2> SUFFICES ASSUME r >= h PROVE t = 1 OBVIOUS
  <2> DEFINE q == 1
             u == r - h
  <2>1. q \in Int /\ u \in 0..(h - 1) BY <1>1, <1>3
  <2> HIDE DEF q, u
  <2>2. (q * h + u) \div h = q BY <1>1, <2>1, Division
  <2>3. q * h + u = r BY <1>1, <1>3 DEF q, u
  <2> QED BY <1>2, <2>2, <2>3 DEF q
<1>6. /\ t \in 0..1 /\ v \in -h..(h - 1)
      /\ t = 1 <=> v < 0
      /\ r = IF v < 0 THEN v + s ELSE v
  <2>1. CASE r < h
    <3>1. t = 0 BY <1>4, <2>1
    <3>2. v = r BY <1>1, <1>2, <1>3, <3>1
    <3> QED BY <1>1, <1>3, <2>1, <3>1, <3>2
  <2>2. CASE r >= h
    <3>1. t = 1 BY <1>5, <2>2
    <3>2. v = r - s BY <1>1, <1>2, <1>3, <3>1
    <3> QED BY <1>1, <1>3, <2>2, <3>1, <3>2
  <2> QED BY <1>1, <1>3, <2>1, <2>2
<1>7. ASSUME x \in -h..(h - 1) PROVE v = x
  <2>1. CASE x >= 0
    <3>1. x \in 0..(s - 1) BY <1>1, <1>7, <2>1
    <3>2. r = x BY <1>1, <3>1, Remainders DEF r
    <3> QED BY <1>1, <1>6, <1>7, <2>1, <3>2
  <2>2. CASE x < 0
    <3> DEFINE u == x + s
               q == -1
    <3>1. u \in 0..(s - 1) /\ q \in Int BY <1>1, <1>7, <2>2
    <3> HIDE DEF u, q
    <3>2. (q * s + u) % s = u BY <1>1, <3>1, Division
    <3>3. q * s + u = x BY <1>1 DEF u, q
    <3>4. r = x + s BY <3>2, <3>3 DEF u, r
    <3> QED BY <1>1, <1>6, <1>7, <2>2, <3>4
  <2> QED BY <1>1, <2>1, <2>2
<1> QED BY <1>2, <1>6, <1>7 DEF h, s, t, v

\* The sign of a number of n bits.
LEMMA Signs ==
  ASSUME NEW n \in Sizes, NEW x \in Int
  PROVE  /\ Top(x, n) \in 0..1 /\ Signed(x, n) \in -(2^(n - 1))..(2^(n - 1) - 1)
         /\ Top(x, n) = 1 <=> Signed(x, n) < 0
         /\ Low(x, n) = IF Signed(x, n) < 0 THEN Signed(x, n) + Span(n) ELSE Signed(x, n)
         /\ x \in -(2^(n - 1))..(2^(n - 1) - 1) => Signed(x, n) = x
BY Widths, Complement

\* The sign of a number of twice n bits.
LEMMA DoubleSigns ==
  ASSUME NEW n \in Sizes, NEW x \in Int, NEW g, g = 2^(n - 1) * Span(n)
  PROVE  /\ Signed(x, 2 * n) \in -g..(g - 1)
         /\ Low(x, 2 * n) = IF Signed(x, 2 * n) < 0 THEN Signed(x, 2 * n) + Span(2 * n) ELSE Signed(x, 2 * n)
         /\ x \in -g..(g - 1) => Signed(x, 2 * n) = x
         /\ Signed(Low(x, 2 * n), 2 * n) = Signed(x, 2 * n)
<1> DEFINE m == 2 * n
<1>1. 2^(m - 1) = g /\ 2^(n - 1) \in Nat \ {0} /\ Span(n) \in Nat \ {0} /\ Span(n) = 2 * 2^(n - 1) BY Widths
<1>2. g \in Nat \ {0} BY <1>1
<1>3. Span(m) = 2 * g
  <2>1. Span(m) = Span(n) * Span(n) BY Widths
  <2> QED BY <1>1, <2>1
<1> HIDE DEF m
<1>4. 2^(m - 1) \in Nat \ {0} /\ Span(m) = 2 * 2^(m - 1) BY <1>1, <1>2, <1>3
<1>5. /\ Signed(x, m) \in -g..(g - 1)
      /\ Low(x, m) = IF Signed(x, m) < 0 THEN Signed(x, m) + Span(m) ELSE Signed(x, m)
      /\ x \in -g..(g - 1) => Signed(x, m) = x
  BY <1>1, <1>4, Complement
<1>6. Low(x, m) \in Int /\ Low(Low(x, m), m) = Low(x, m)
  <2>1. Span(m) \in Nat \ {0} BY <1>1, <1>4
  <2>2. Low(x, m) \in 0..(Span(m) - 1) BY <2>1, Remainders DEF Low
  <2> QED BY <2>1, <2>2, Remainders DEF Low
<1>7. Signed(Low(x, m), m) = Signed(x, m) BY <1>6 DEF Signed, Top
<1> QED BY <1>5, <1>7 DEF m

\* What is cut to a width keeps its sign, and twice the width its lower half.
LEMMA SignedLow ==
  ASSUME NEW n \in Sizes, NEW x \in Int
  PROVE  /\ Low(x, n) \in Values(n) /\ Low(Low(x, n), n) = Low(x, n)
         /\ Signed(Low(x, n), n) = Signed(x, n) /\ Top(Low(x, n), n) = Top(x, n)
<1>1. Low(x, n) \in 0..(Span(n) - 1) BY Lows
<1>2. Span(n) \in Nat \ {0} BY Widths
<1>3. Low(x, n) \in Int BY <1>1, <1>2
<1>4. Low(Low(x, n), n) = Low(x, n) BY <1>1, <1>3, Lows
<1> QED BY <1>1, <1>4 DEF Signed, Top, Values

----------------------------------------------------------------------------
(* The two halves of a product.                                              *)

\* The halves of a number of twice a width make up the number.
LEMMA Halves ==
  ASSUME NEW n \in Sizes, NEW p \in Int
  PROVE  /\ High(p, n) \in Values(n) /\ Low(p, n) \in Values(n)
         /\ High(p, n) * Span(n) + Low(p, n) = Low(p, 2 * n)
         /\ p \in 0..(Span(n) * Span(n) - 1) => High(p, n) * Span(n) + Low(p, n) = p
<1> DEFINE s == Span(n)
           y == p \div s
           hi == y % s
           lo == p % s
           z == y \div s
           b == hi * s + lo
           ss == s * s
<1>1. s \in Nat \ {0} /\ Span(2 * n) = s * s BY Widths
<1>2. High(p, n) = hi /\ Low(p, n) = lo /\ Low(p, 2 * n) = p % (s * s) BY <1>1 DEF High, Low
<1> HIDE DEF s
<1>3. y \in Int /\ lo \in 0..(s - 1) /\ p = y * s + lo BY <1>1, Euclid
<1>4. hi = y % s OBVIOUS
<1> HIDE DEF y, hi, lo
<1>5. z \in Int /\ hi \in 0..(s - 1) /\ y = z * s + hi BY <1>1, <1>3, <1>4, Euclid
<1> HIDE DEF z
<1>6. ss \in Nat \ {0} /\ b \in Int BY <1>1, <1>3, <1>5
<1>7. b \in 0..(ss - 1)
  <2>1. hi * s + lo >= 0 BY <1>1, <1>3, <1>5
  <2>2. hi * s <= (s - 1) * s BY <1>1, <1>5
  <2>3. (s - 1) * s = s * s - s BY <1>1
  <2>4. hi * s \in Int BY <1>1, <1>5
  <2> QED BY <1>1, <1>3, <2>1, <2>2, <2>3, <2>4
<1>8. p = z * ss + b
  <2>1. (z * s + hi) * s = z * (s * s) + hi * s BY <1>1, <1>5
  <2> QED BY <1>1, <1>3, <1>5, <2>1
<1> HIDE DEF ss, b
<1>9. p % ss = b
  <2>1. (z * ss + b) % ss = b BY <1>5, <1>6, <1>7, Division
  <2> QED BY <1>8, <2>1
<1>10. p \in 0..(ss - 1) => p % ss = p BY <1>6, Remainders
<1> QED BY <1>2, <1>3, <1>5, <1>9, <1>10 DEF b, ss, s, Values

\* What the last instruction leaves is what the properties read.
LEMMA Leaves ==
  ASSUME NEW f, NEW op, NEW n, NEW src, NEW dest, NEW lo, NEW hi, Done(f, op, n, src, dest, lo, hi)
  PROVE  /\ eflags' = f /\ last'.op = op /\ last'.n = n /\ last'.src = src /\ last'.dest = dest
         /\ last'.lo = lo /\ last'.hi = hi
BY DEF Done

OpIInv == BitsExact /\ ProductExact /\ QuotientExact

Multiplications == {"mul", "imul"}
Divisions == {"div", "idiv", "cltd idiv"}

\* Of an instruction of one kind only the properties of its kind are to be shown.
LEMMA OfProduct ==
  ASSUME OpTypeOK', last'.op \in Multiplications, ProductExact'
  PROVE  OpIInv'
BY DEF OpIInv, BitsExact, SignDecided, ShiftExact, QuotientExact, Multiplications, Shifts, Logics

LEMMA OfQuotient ==
  ASSUME OpTypeOK', last'.op \in Divisions, QuotientExact'
  PROVE  OpIInv'
BY DEF OpIInv, BitsExact, SignDecided, ShiftExact, ProductExact, Divisions, Shifts, Logics

LEMMA OfFloat ==
  ASSUME OpTypeOK', last'.op \in FloatOps
  PROVE  OpIInv'
BY DEF OpIInv, BitsExact, SignDecided, ShiftExact, ProductExact, QuotientExact, FloatOps, Shifts, Logics

LEMMA OfBits ==
  ASSUME OpTypeOK', last'.op \in Shifts \cup Logics \cup {"test"}, SignDecided', ShiftExact'
  PROVE  OpIInv'
BY DEF OpIInv, BitsExact, ProductExact, QuotientExact, Shifts, Logics

LEMMA MulKeeps ==
  ASSUME eflags \in Flags, NEW n \in Sizes, NEW src \in Values(n), NEW dest \in Values(n), Mul(n, src, dest)
  PROVE  OpIInv'
<1> DEFINE s == Span(n)
           p == src * dest
           out == AluMul(eflags, src, dest, n)
           hi == High(p, n)
           lo == Low(p, n)
           f == MulFlags(out.flags, hi = 0)
<1>1. s \in Nat \ {0} BY Widths
<1>2. src \in 0..(s - 1) /\ dest \in 0..(s - 1) BY DEF Values
<1>3. Low(src, n) = src /\ Low(dest, n) = dest BY <1>1, <1>2, Lows
<1>4. p \in 0..(s * s - 1)
  <2>1. p \in Nat BY <1>1, <1>2
  <2>2. src * dest <= (s - 1) * (s - 1) BY <1>1, <1>2
  <2>3. (s - 1) * (s - 1) < s * s BY <1>1
  <2> HIDE DEF s
  <2> QED BY <1>1, <2>1, <2>2, <2>3
<1>5. hi \in Values(n) /\ lo \in Values(n) /\ hi * s + lo = p BY <1>1, <1>4, Halves
<1>6. hi = 0 <=> ~(p >= s)
  <2>1. hi \in 0..(s - 1) /\ lo \in 0..(s - 1) BY <1>5 DEF Values
  <2> HIDE DEF s, hi, lo, p
  <2>2. hi = 0 => p < s BY <1>1, <1>5, <2>1
  <2>3. hi >= 1 => hi * s >= s BY <1>1, <2>1
  <2> QED BY <1>1, <1>5, <2>1, <2>2, <2>3
<1>7. out.res = p BY <1>3 DEF AluMul
<1>8. Done(f, "mul", n, src, dest, lo, hi) BY <1>7 DEF Mul
<1>9. out.flags \in Flags BY FlagsAreBits DEF AluMul, MulFlags, Flags
<1> HIDE DEF out, hi, lo, p, s
<1>10. f \in Flags /\ f.CF = Flag(p >= s) /\ f.OF = f.CF
  <2>1. Flag(~(hi = 0)) = Flag(p >= s) BY <1>6 DEF Flag
  <2>2. Flag(~(hi = 0)) \in 0..1 BY DEF Flag
  <2> QED BY <1>9, <2>1, <2>2 DEF MulFlags, Flags
<1> HIDE DEF f
<1>11. /\ eflags' = f /\ last'.op = "mul" /\ last'.n = n /\ last'.src = src /\ last'.dest = dest
       /\ last'.lo = lo /\ last'.hi = hi
  BY <1>8, Leaves
<1>12. OpTypeOK' BY <1>5, <1>10, <1>11 DEF OpTypeOK, FloatOps
<1>13. ProductExact' BY <1>5, <1>10, <1>11 DEF ProductExact, s, p
<1> QED BY <1>11, <1>12, <1>13, OfProduct DEF Multiplications

LEMMA ImulKeeps ==
  ASSUME eflags \in Flags, NEW n \in Sizes, NEW src \in Int, NEW dest \in Int, Imul(n, src, dest)
  PROVE  OpIInv'
<1> DEFINE s == Span(n)
           h == 2^(n - 1)
           a == Signed(src, n)
           b == Signed(dest, n)
           p == a * b
           out == AluImul(eflags, src, dest, n)
           hi == High(p, n)
           lo == Low(p, n)
           f == out.flags
<1>1. s \in Nat \ {0} /\ h \in Nat \ {0} /\ s = 2 * h BY Widths
<1>2. a \in -h..(h - 1) /\ b \in -h..(h - 1) BY Signs
<1> HIDE DEF a, b, h
<1>3. p \in Int /\ p <= h * h /\ -(h * h) <= p
  <2>1. a \in Int /\ b \in Int BY <1>1, <1>2
  <2>2. \A x, y \in Int : x \in -h..h /\ y \in -h..h => x * y <= h * h /\ -(h * h) <= x * y
    <3> SUFFICES ASSUME NEW x \in -h..h, NEW y \in -h..h
                 PROVE  x * y <= h * h /\ -(h * h) <= x * y OBVIOUS
    <3>1. (h - x) * (h + y) >= 0 /\ (h + x) * (h - y) >= 0 BY <1>1
    <3>2. (h - x) * (h - y) >= 0 /\ (h + x) * (h + y) >= 0 BY <1>1
    <3>3. /\ (h - x) * (h + y) = h * h + h * y - x * h - x * y
          /\ (h + x) * (h - y) = h * h - h * y + x * h - x * y
          /\ (h - x) * (h - y) = h * h - h * y - x * h + x * y
          /\ (h + x) * (h + y) = h * h + h * y + x * h + x * y
      BY <1>1
    <3> DEFINE xy == x * y
               hh == h * h
               hy == h * y
               xh == x * h
    <3>4. xy \in Int /\ hh \in Int /\ hy \in Int /\ xh \in Int BY <1>1
    <3>5. /\ hh + hy - xh - xy >= 0 /\ hh - hy + xh - xy >= 0
          /\ hh - hy - xh + xy >= 0 /\ hh + hy + xh + xy >= 0
      BY <3>1, <3>2, <3>3
    <3> HIDE DEF xy, hh, hy, xh
    <3>6. xy <= hh /\ -hh <= xy BY <3>4, <3>5
    <3> QED BY <3>6 DEF xy, hh
  <2> QED BY <1>1, <1>2, <2>1, <2>2
<1> HIDE DEF p
<1>4. p \in -(h * s)..(h * s - 1)
  <2>1. h * s = h * h + h * h /\ h * h >= 1 BY <1>1
  <2> QED BY <1>1, <1>3, <2>1
<1>5. hi \in Values(n) /\ lo \in Values(n) /\ hi * s + lo = Low(p, 2 * n) BY <1>3, Halves
<1>6. Signed(hi * s + lo, 2 * n) = p BY <1>3, <1>4, <1>5, DoubleSigns DEF h, s
<1>7. Signed(lo, n) = Signed(p, n) BY <1>3, SignedLow
<1>8. out.res = p /\ out.flags = MulFlags(eflags, Fits(p, n)) BY DEF AluImul, a, b, p
<1>9. Done(f, "imul", n, src, dest, lo, hi) BY <1>8 DEF Imul
<1> HIDE DEF out, hi, lo, s
<1>10. f \in Flags /\ f.CF = Flag(Signed(lo, n) # p) /\ f.OF = f.CF
  <2>1. Flag(~Fits(p, n)) = Flag(Signed(lo, n) # p) BY <1>7 DEF Fits
  <2>2. Flag(~Fits(p, n)) \in 0..1 BY DEF Flag
  <2> QED BY <1>8, <2>1, <2>2 DEF MulFlags, Flags
<1> HIDE DEF f
<1>11. /\ eflags' = f /\ last'.op = "imul" /\ last'.n = n /\ last'.src = src /\ last'.dest = dest
       /\ last'.lo = lo /\ last'.hi = hi
  BY <1>9, Leaves
<1>12. OpTypeOK' BY <1>5, <1>10, <1>11 DEF OpTypeOK, FloatOps
<1>13. ProductExact' BY <1>6, <1>10, <1>11 DEF ProductExact, s, p, a, b
<1> QED BY <1>11, <1>12, <1>13, OfProduct DEF Multiplications

----------------------------------------------------------------------------
(* Quotient and remainder of a division.                                     *)

\* C's division: the remainder has the sign of the dividend and is nearer to 0 than the divisor.
LEMMA Quotients ==
  ASSUME NEW a \in Int, NEW b \in Int, b # 0
  PROVE  /\ Quotient(a, b) \in Int /\ Remainder(a, b) \in Int
         /\ Divides(Quotient(a, b), Remainder(a, b), a, b)
         /\ b > 0 => Remainder(a, b) < b /\ -b < Remainder(a, b)
         /\ b < 0 => Remainder(a, b) < -b /\ b < Remainder(a, b)
         /\ Remainder(a, b) \in IF a < 0 THEN a..0 ELSE 0..a
         /\ a >= 0 /\ b > 0 => Quotient(a, b) \in 0..a /\ Remainder(a, b) >= 0
<1> DEFINE A == IF a < 0 THEN -a ELSE a
           B == IF b < 0 THEN -b ELSE b
           q == A \div B
           r == A % B
           qq == Quotient(a, b)
           rr == Remainder(a, b)
<1>1. /\ A \in Nat /\ B \in Nat \ {0} /\ (a < 0 => a = -A) /\ (~(a < 0) => a = A)
      /\ (b < 0 => b = -B) /\ (~(b < 0) => b = B)
  OBVIOUS
<1>2. qq = IF (a < 0) = (b < 0) THEN q ELSE -q BY DEF Quotient
<1>3. rr = a - b * qq BY DEF Remainder
<1> HIDE DEF A, B, qq, rr
<1>4. q \in Int /\ r \in 0..(B - 1) /\ A = q * B + r BY <1>1, Euclid
<1> HIDE DEF q, r
<1>5. q >= 0
  <2> SUFFICES ASSUME q <= -1 PROVE FALSE BY <1>4
  <2>1. q * B <= -B BY <1>1, <1>4
  <2>2. q * B \in Int BY <1>1, <1>4
  <2> QED BY <1>1, <1>4, <2>1, <2>2
<1> DEFINE Bq == B * q
<1>6. Bq \in Nat /\ A = Bq + r BY <1>1, <1>4, <1>5
<1>7. qq \in Int /\ b * qq = IF a < 0 THEN -Bq ELSE Bq
  <2>1. CASE a < 0 /\ b < 0
    <3>1. qq = q BY <1>2, <2>1
    <3> QED BY <1>1, <1>4, <2>1, <3>1
  <2>2. CASE a < 0 /\ ~(b < 0)
    <3>1. qq = -q BY <1>2, <2>2
    <3> QED BY <1>1, <1>4, <2>2, <3>1
  <2>3. CASE ~(a < 0) /\ b < 0
    <3>1. qq = -q BY <1>2, <2>3
    <3> QED BY <1>1, <1>4, <2>3, <3>1
  <2>4. CASE ~(a < 0) /\ ~(b < 0)
    <3>1. qq = q BY <1>2, <2>4
    <3> QED BY <1>1, <1>4, <2>4, <3>1
  <2> QED BY <2>1, <2>2, <2>3, <2>4
<1> HIDE DEF Bq
<1>8. rr = IF a < 0 THEN -r ELSE r BY <1>1, <1>3, <1>4, <1>6, <1>7
<1>9. a = qq * b + rr
  <2>1. qq * b = b * qq BY <1>7
  <2>2. b * qq \in Int BY <1>7
  <2> QED BY <1>1, <1>3, <2>1, <2>2
<1>10. rr = 0 \/ (rr > 0) = (a > 0)
  <2>1. CASE r = 0 BY <1>8, <2>1
  <2>2. CASE r > 0 BY <1>1, <1>4, <1>6, <1>8, <2>2
  <2> QED BY <1>4, <2>1, <2>2
<1>11. rr * rr < b * b
  <2>1. r * r <= (B - 1) * (B - 1) BY <1>1, <1>4
  <2>2. (B - 1) * (B - 1) < B * B BY <1>1
  <2>3. rr * rr = r * r BY <1>4, <1>8
  <2>4. b * b = B * B BY <1>1
  <2>5. r * r \in Int /\ (B - 1) * (B - 1) \in Int /\ B * B \in Int BY <1>1, <1>4
  <2> QED BY <2>1, <2>2, <2>3, <2>4, <2>5
<1>12. /\ b > 0 => rr < b /\ -b < rr
       /\ b < 0 => rr < -b /\ b < rr
  BY <1>1, <1>4, <1>8
<1>13. a >= 0 /\ b > 0 => qq \in 0..a /\ rr >= 0
  <2> SUFFICES ASSUME a >= 0, b > 0 PROVE qq \in 0..a /\ rr >= 0 OBVIOUS
  <2>1. qq = q BY <1>2
  <2>2. B * q >= q BY <1>1, <1>4, <1>5
  <2> QED BY <1>1, <1>4, <1>5, <1>6, <1>8, <2>1, <2>2 DEF Bq
<1>14. rr \in Int /\ rr \in IF a < 0 THEN a..0 ELSE 0..a BY <1>1, <1>4, <1>6, <1>8
<1>15. Divides(qq, rr, a, b) BY <1>9, <1>10, <1>11 DEF Divides
<1> QED BY <1>7, <1>12, <1>13, <1>14, <1>15 DEF qq, rr

\* The quotient of a number of a width fits the width, but for that of the least one by -1.
LEMMA QuotientFits ==
  ASSUME NEW h \in Nat \ {0}, NEW a \in -h..(h - 1), NEW b \in Int, b # 0, ~(b = -1 /\ a = -h)
  PROVE  Quotient(a, b) \in -h..(h - 1)
<1> DEFINE q == Quotient(a, b)
           r == Remainder(a, b)
<1>1. /\ q \in Int /\ r \in Int /\ a = q * b + r
      /\ b > 0 => r < b /\ -b < r
      /\ b < 0 => r < -b /\ b < r
      /\ r \in IF a < 0 THEN a..0 ELSE 0..a
  <2>1. a \in Int OBVIOUS
  <2> QED BY <2>1, Quotients DEF Divides
<1> HIDE DEF q, r
<1>2. CASE b = 1
  <2>1. a = q + r BY <1>1, <1>2
  <2>2. r = 0 BY <1>1, <1>2
  <2> QED BY <1>1, <2>1, <2>2 DEF q
<1>3. CASE b = -1
  <2>1. a = r - q BY <1>1, <1>3
  <2>2. r = 0 BY <1>1, <1>3
  <2> QED BY <1>1, <1>3, <2>1, <2>2 DEF q
<1>4. CASE b >= 2 \/ b <= -2
  <2>1. SUFFICES ASSUME q > h - 1 \/ q < -h PROVE FALSE
    <3>1. q \in -h..(h - 1) => Quotient(a, b) \in -h..(h - 1) BY DEF q
    <3> QED BY <1>1, <3>1
  <2>2. q >= h \/ q <= -h BY <1>1, <2>1
  <2> DEFINE p == q * b
  <2>3. p \in Int BY <1>1
  <2>4. p >= 2 * h \/ p <= -(2 * h)
    <3>1. CASE q >= h /\ b >= 2
      <4>1. q * b >= h * 2 BY <1>1, <3>1
      <4> QED BY <4>1
    <3>2. CASE q >= h /\ b <= -2
      <4>1. q * (-b) >= h * 2 BY <1>1, <3>2
      <4>2. q * (-b) = -(q * b) BY <1>1
      <4> QED BY <2>3, <4>1, <4>2
    <3>3. CASE q <= -h /\ b >= 2
      <4>1. (-q) * b >= h * 2 BY <1>1, <3>3
      <4>2. (-q) * b = -(q * b) BY <1>1
      <4> QED BY <2>3, <4>1, <4>2
    <3>4. CASE q <= -h /\ b <= -2
      <4>1. (-q) * (-b) >= h * 2 BY <1>1, <3>4
      <4>2. (-q) * (-b) = q * b BY <1>1
      <4> QED BY <2>3, <4>1, <4>2
    <3> QED BY <1>4, <2>2, <3>1, <3>2, <3>3, <3>4
  <2>5. a = p + r BY <1>1
  <2> HIDE DEF p
  <2> QED BY <1>1, <2>3, <2>4, <2>5
<1> QED BY <1>2, <1>3, <1>4

LEMMA DivKeeps ==
  ASSUME eflags \in Flags, NEW n \in Sizes, NEW src \in Values(n), NEW dest \in Values(2 * n), Div(n, src, dest)
  PROVE  OpIInv'
<1> DEFINE s == Span(n)
           lo == Low(AluDiv(src, dest, n), n)
           hi == Low(AluMod(src, dest), n)
<1>1. s \in Nat \ {0} /\ Span(2 * n) = s * s BY Widths
<1>2. src \in 0..(s - 1) /\ src # 0 BY DEF Values, Div
<1>3. dest \in Nat
  <2>1. Span(2 * n) \in Int BY <1>1
  <2> QED BY <2>1 DEF Values
<1>4. Done(eflags, "div", n, src, dest, lo, hi) BY DEF Div
<1>5. Low(src, n) = src BY <1>1, <1>2, Lows
<1>6. Low(dest, n) \in Int BY <1>1, <1>3, Lows
<1>7. lo \in Values(n) /\ hi \in Values(n)
  <2>1. AluDiv(src, dest, n) \in Int BY <1>1, <1>2, <1>5, <1>6, Quotients DEF AluDiv
  <2>2. AluMod(src, dest) \in Int BY <1>1, <1>2, <1>3, Quotients DEF AluMod
  <2> QED BY <2>1, <2>2, SignedLow
<1>8. ASSUME dest < s PROVE Divides(lo, hi, dest, src)
  <2> DEFINE q == Quotient(dest, src)
             r == Remainder(dest, src)
  <2>1. Low(dest, n) = dest BY <1>1, <1>3, <1>8, Lows
  <2>2. q \in 0..dest /\ r \in 0..dest /\ Divides(q, r, dest, src)
    <3>1. dest \in Int /\ src \in Int /\ src > 0 /\ dest >= 0 BY <1>1, <1>2, <1>3
    <3> QED BY <3>1, Quotients
  <2>3. AluDiv(src, dest, n) = q /\ AluMod(src, dest) = r BY <1>5, <2>1 DEF AluDiv, AluMod
  <2> HIDE DEF q, r, s
  <2>4. q \in 0..(s - 1) /\ r \in 0..(s - 1) BY <1>1, <1>3, <1>8, <2>2
  <2>5. Low(q, n) = q /\ Low(r, n) = r BY <2>4, Lows DEF s
  <2> QED BY <2>2, <2>3, <2>5
<1> HIDE DEF lo, hi, s
<1>9. /\ eflags' = eflags /\ last'.op = "div" /\ last'.n = n /\ last'.src = src /\ last'.dest = dest
      /\ last'.lo = lo /\ last'.hi = hi
  BY <1>4, Leaves
<1>10. OpTypeOK' BY <1>7, <1>9 DEF OpTypeOK, FloatOps
<1>11. QuotientExact' BY <1>8, <1>9 DEF QuotientExact, s
<1> QED BY <1>9, <1>10, <1>11, OfQuotient DEF Divisions

\* What idiv leaves of a dividend d and a divisor s: a remainder that fits always.
LEMMA IdivLeaves ==
  ASSUME NEW n \in Sizes, NEW src \in Values(n), src # 0, NEW d \in Int
  PROVE  LET s == Signed(src, n)
             q == Quotient(d, s)
             r == Remainder(d, s)
         IN  /\ s \in -(2^(n - 1))..(2^(n - 1) - 1) /\ s # 0 /\ q \in Int /\ r \in Int
             /\ Signed(Low(r, n), n) = r
             /\ Signed(Low(q, n), n) = q <=> Fits(q, n)
             /\ Divides(q, r, d, s)
<1> DEFINE h == 2^(n - 1)
           s == Signed(src, n)
           q == Quotient(d, s)
           r == Remainder(d, s)
<1>1. h \in Nat \ {0} /\ Span(n) = 2 * h /\ Span(n) \in Nat \ {0} BY Widths
<1>2. src \in 0..(Span(n) - 1) BY DEF Values
<1>3. Low(src, n) = src /\ src \in Int BY <1>1, <1>2, Lows
<1>4. s \in -h..(h - 1) /\ (src = IF s < 0 THEN s + Span(n) ELSE s) BY <1>3, Signs
<1> HIDE DEF s, h
<1>5. s # 0 BY <1>4
<1>6. s \in Int BY <1>1, <1>4
<1>7. /\ q \in Int /\ r \in Int /\ Divides(q, r, d, s)
      /\ s > 0 => r < s /\ -s < r
      /\ s < 0 => r < -s /\ s < r
  BY <1>5, <1>6, Quotients
<1> HIDE DEF q, r
<1>8. r \in -h..(h - 1) BY <1>1, <1>4, <1>5, <1>7
<1>9. Signed(r, n) = r BY <1>7, <1>8, Signs DEF h
<1>10. Signed(Low(r, n), n) = r /\ Signed(Low(q, n), n) = Signed(q, n) BY <1>7, <1>9, SignedLow
<1> QED BY <1>4, <1>5, <1>7, <1>10 DEF Fits, h, s, q, r

LEMMA IdivKeeps ==
  ASSUME eflags \in Flags, NEW n \in Sizes, NEW src \in Values(n), NEW dest \in Int, Idiv("idiv", n, src, dest)
  PROVE  OpIInv'
<1> DEFINE s == Signed(src, n)
           d == Signed(dest, 2 * n)
           q == Quotient(d, s)
           r == Remainder(d, s)
           lo == Low(q, n)
           hi == Low(r, n)
<1>1. src # 0 /\ Done(eflags, "idiv", n, src, dest, lo, hi) BY DEF Idiv, AluIdiv, AluImod
<1>2. d \in Int
  <2> DEFINE g == 2^(n - 1) * Span(n)
  <2>1. g \in Nat BY Widths
  <2>2. d \in -g..(g - 1) BY DoubleSigns
  <2> HIDE DEF g, d
  <2> QED BY <2>1, <2>2
<1> HIDE DEF d
<1>3. q \in Int /\ r \in Int /\ Signed(hi, n) = r /\ (Fits(q, n) => Signed(lo, n) = q) /\ Divides(q, r, d, s)
  BY <1>1, <1>2, IdivLeaves
<1>4. lo \in Values(n) /\ hi \in Values(n) BY <1>3, SignedLow
<1> HIDE DEF lo, hi, q, r, s
<1>5. /\ eflags' = eflags /\ last'.op = "idiv" /\ last'.n = n /\ last'.src = src /\ last'.dest = dest
      /\ last'.lo = lo /\ last'.hi = hi
  BY <1>1, Leaves
<1>6. OpTypeOK' BY <1>4, <1>5 DEF OpTypeOK, FloatOps
<1>7. QuotientExact' BY <1>3, <1>5 DEF QuotientExact, q, s, d
<1> QED BY <1>5, <1>6, <1>7, OfQuotient DEF Divisions

\* cltd: a word and the copies of its sign before it have the value of the word.
LEMMA CltdExtends ==
  ASSUME NEW a \in Values(Word)
  PROVE  /\ Cltd(Word, a) * Span(Word) + a \in Int
         /\ Signed(Cltd(Word, a) * Span(Word) + a, 2 * Word) = Signed(a, Word)
         /\ Signed(Cltd(Word, a) * Span(Word) + a, Word) = Signed(a, Word)
<1> DEFINE n == Word
           S == Span(n)
           h == 2^(n - 1)
           v == Signed(a, n)
           t == Top(a, n)
           c == Cltd(n, a)
           x == c * S + a
<1>1. n \in Sizes BY OperateAssumption DEF Sizes
<1>2. /\ h \in Nat \ {0} /\ S = 2 * h /\ S \in Nat \ {0} /\ Span(2 * n) = S * S
  BY <1>1, Widths
<1>3. a \in 0..(S - 1) BY DEF Values
<1>4. a \in Int /\ Low(a, n) = a BY <1>1, <1>2, <1>3, Lows
<1>5. t \in 0..1 /\ (t = 1 <=> v < 0) /\ v \in -h..(h - 1) /\ (a = IF v < 0 THEN v + S ELSE v)
  BY <1>1, <1>4, Signs
<1>6. c = IF t = 1 THEN S - 1 ELSE 0 BY DEF Cltd
<1> HIDE DEF S, h, v, t, c
<1>7. c \in Int /\ x \in Int BY <1>2, <1>4, <1>6
<1>8. Signed(x, n) = v
  <2>1. (c * S + a) % S = a % S BY <1>2, <1>4, <1>7, Shifting
  <2>2. Low(x, n) = Low(a, n) BY <2>1 DEF Low, S
  <2> QED BY <2>2 DEF Signed, Top, v
<1>9. Signed(x, 2 * n) = v
  <2> DEFINE g == h * S
             ss == S * S
  <2>1. g \in Nat \ {0} /\ ss = 2 * g /\ h <= g BY <1>2
  <2>2. v \in Int /\ v \in -g..(g - 1)
    <3> HIDE DEF g
    <3> QED BY <1>2, <1>5, <2>1
  <2>3. Signed(v, 2 * n) = v BY <1>1, <2>2, DoubleSigns DEF h, S
  <2>4. x % ss = v % ss
    <3>1. CASE v < 0
      <4>1. x = (S - 1) * S + (v + S) BY <1>5, <1>6, <3>1
      <4>2. (S - 1) * S = ss - S BY <1>2
      <4> DEFINE one == 1
      <4>3. one \in Int /\ x = one * ss + v
        <5> HIDE DEF ss, x
        <5> QED BY <1>2, <1>5, <2>1, <4>1, <4>2
      <4> HIDE DEF one, ss, x, g
      <4>4. ss \in Nat \ {0} /\ v \in Int BY <2>1, <2>2
      <4>5. (one * ss + v) % ss = v % ss BY <4>3, <4>4, Shifting
      <4> QED BY <4>3, <4>5
    <3>2. CASE ~(v < 0)
      <4>1. c = 0 /\ a = v BY <1>5, <1>6, <3>2
      <4>2. x = v BY <1>2, <2>2, <4>1
      <4> QED BY <4>2
    <3> QED BY <3>1, <3>2
  <2>5. Low(x, 2 * n) = Low(v, 2 * n) BY <1>2, <2>4 DEF Low
  <2>6. Signed(x, 2 * n) = Signed(v, 2 * n) BY <2>5 DEF Signed, Top
  <2> QED BY <2>3, <2>6
<1> QED BY <1>7, <1>8, <1>9 DEF c, S, v

LEMMA CltdIdivKeeps ==
  ASSUME eflags \in Flags, NEW n \in DataSizes, NEW src \in Values(n), NEW a \in Values(n), CltdIdiv(n, src, a)
  PROVE  OpIInv'
<1> DEFINE dest == Cltd(n, a) * Span(n) + a
           s == Signed(src, n)
           d == Signed(dest, 2 * n)
           q == Quotient(d, s)
           r == Remainder(d, s)
           lo == Low(q, n)
           hi == Low(r, n)
<1>1. n \in Sizes /\ Span(n) \in Nat \ {0} BY Widths DEF Sizes
<1>2. src # 0 /\ Done(eflags, "cltd idiv", n, src, dest, lo, hi) BY DEF CltdIdiv, Idiv, AluIdiv, AluImod
<1>3. dest \in Int
  <2>1. Cltd(n, a) \in Int BY <1>1 DEF Cltd
  <2>2. a \in Int BY <1>1 DEF Values
  <2> QED BY <1>1, <2>1, <2>2
<1>4. ASSUME n = Word
      PROVE  d = Signed(a, n) /\ Signed(dest, n) = Signed(a, n)
  BY <1>4, CltdExtends
<1> HIDE DEF dest
<1>5. d \in Int
  <2> DEFINE g == 2^(n - 1) * Span(n)
  <2>1. g \in Nat BY <1>1, Widths
  <2>2. d \in -g..(g - 1) BY <1>1, <1>3, DoubleSigns
  <2> HIDE DEF g, d
  <2> QED BY <2>1, <2>2
<1> HIDE DEF d
<1>6. /\ s \in -(2^(n - 1))..(2^(n - 1) - 1) /\ s # 0 /\ q \in Int /\ r \in Int
      /\ Signed(hi, n) = r /\ (Fits(q, n) => Signed(lo, n) = q) /\ Divides(q, r, d, s)
  BY <1>1, <1>2, <1>5, IdivLeaves
<1>7. lo \in Values(n) /\ hi \in Values(n) BY <1>1, <1>6, SignedLow
<1> HIDE DEF lo, hi, q, r, s
<1>8. ASSUME n = Word, ~(s = -1 /\ Signed(dest, n) = -(2^(n - 1)))
      PROVE  Divides(Signed(lo, n), Signed(hi, n), Signed(dest, n), s)
  <2> DEFINE h == 2^(n - 1)
  <2>1. d = Signed(dest, n) /\ d \in -h..(h - 1) /\ h \in Nat \ {0} BY <1>1, <1>3, <1>4, <1>8, Signs, Widths
  <2> HIDE DEF h
  <2>2. s \in Int /\ s # 0 /\ ~(s = -1 /\ d = -h) BY <1>6, <1>8, <2>1 DEF h
  <2>3. q \in -h..(h - 1) BY <2>1, <2>2, QuotientFits DEF q
  <2>4. Fits(q, n) BY <1>1, <1>6, <2>3, Signs DEF Fits, h
  <2> QED BY <1>6, <2>1, <2>4
<1>9. /\ eflags' = eflags /\ last'.op = "cltd idiv" /\ last'.n = n /\ last'.src = src /\ last'.dest = dest
      /\ last'.lo = lo /\ last'.hi = hi
  BY <1>2, Leaves
<1>10. OpTypeOK' BY <1>1, <1>7, <1>9 DEF OpTypeOK, FloatOps
<1>11. QuotientExact'
  <2>1. Span(n - 1) = 2^(n - 1) BY DEF Span
  <2> QED BY <1>8, <1>9, <2>1 DEF QuotientExact, s
<1> QED BY <1>9, <1>10, <1>11, OfQuotient DEF Divisions

----------------------------------------------------------------------------
(* Functions that are defined by recursion over numbers.                     *)

LEMMA Least ==
  ASSUME NEW T, T \subseteq Nat, T # {}
  PROVE  \E x \in T : \A y \in T : x <= y
<1> DEFINE R == OpToRel(<, Nat)
<1>1. IsWellFoundedOn(R, Nat) BY NatLessThanWellFounded
<1> HIDE DEF R
<1>2. PICK x \in T : \A y \in T : ~(<<y, x>> \in R) BY <1>1, WFMin
<1>3. \A a, b \in Nat : a < b => <<a, b>> \in R BY DEF R, OpToRel
<1>4. ASSUME NEW y \in T PROVE x <= y
  <2>1. x \in Nat /\ y \in Nat OBVIOUS
  <2>2. ~(y < x) BY <1>2, <1>3, <2>1
  <2> QED BY <2>1, <2>2
<1> QED BY <1>4

\* Induction, for a set of numbers.
LEMMA Reached ==
  ASSUME NEW N \in Nat, NEW T, 0 \in T, \A k \in 1..N : k - 1 \in T => k \in T
  PROVE  \A k \in 0..N : k \in T
<1> DEFINE F == {k \in 0..N : k \notin T}
<1>1. SUFFICES ASSUME F # {} PROVE FALSE OBVIOUS
<1>2. F \subseteq Nat OBVIOUS
<1>3. PICK x \in F : \A y \in F : x <= y
  <2> HIDE DEF F
  <2> QED BY <1>1, <1>2, Least
<1>4. x \in 1..N /\ x - 1 \in 0..N /\ ~(x <= x - 1) OBVIOUS
<1>5. x - 1 \in T BY <1>3, <1>4
<1> QED BY <1>4, <1>5

\* A function with a first value and the others given, each, by the one before.
Computes(f, N, D, base, G) ==
  f \in [0..N -> D] /\ f[0] = base /\ \A k \in 1..N : f[k] = G[k][f[k - 1]]

\* There is one.
LEMMA Recursion ==
  ASSUME NEW N \in Nat, NEW D, NEW base \in D, NEW G \in [1..N -> [D -> D]]
  PROVE  \E f : Computes(f, N, D, base, G)
<1> DEFINE T == {j \in 0..N : \E f \in [0..j -> D] : f[0] = base /\ \A k \in 1..j : f[k] = G[k][f[k - 1]]}
<1>1. 0 \in T
  <2> DEFINE g == [k \in 0..0 |-> base]
  <2>1. g \in [0..0 -> D] /\ g[0] = base OBVIOUS
  <2>2. \A k \in 1..0 : g[k] = G[k][g[k - 1]] OBVIOUS
  <2>3. 0 \in 0..N OBVIOUS
  <2> HIDE DEF g
  <2>4. \E f \in [0..0 -> D] : f[0] = base /\ \A k \in 1..0 : f[k] = G[k][f[k - 1]] BY <2>1, <2>2
  <2> QED BY <2>3, <2>4
<1>2. ASSUME NEW j \in 1..N, j - 1 \in T PROVE j \in T
  <2>1. PICK f \in [0..(j - 1) -> D] : f[0] = base /\ \A k \in 1..(j - 1) : f[k] = G[k][f[k - 1]]
    BY <1>2
  <2> DEFINE g == [k \in 0..j |-> IF k = j THEN G[j][f[j - 1]] ELSE f[k]]
  <2>2. f[j - 1] \in D /\ G[j] \in [D -> D] OBVIOUS
  <2>3. G[j][f[j - 1]] \in D BY <2>2
  <2>4. g \in [0..j -> D] BY <2>3
  <2>5. g[0] = base BY <2>1
  <2>6. ASSUME NEW k \in 1..j PROVE g[k] = G[k][g[k - 1]]
    <3>1. g[k - 1] = f[k - 1] OBVIOUS
    <3>2. CASE k = j
      <4>1. g[j] = G[j][f[j - 1]] OBVIOUS
      <4> HIDE DEF g
      <4> QED BY <3>1, <3>2, <4>1
    <3>3. CASE k # j
      <4>1. k \in 1..(j - 1) /\ g[k] = f[k] BY <3>3
      <4> QED BY <2>1, <3>1, <4>1
    <3> QED BY <3>2, <3>3
  <2> HIDE DEF g
  <2> QED BY <2>4, <2>5, <2>6
<1> HIDE DEF T
<1>3. \A k \in 0..N : k \in T BY <1>1, <1>2, Reached
<1>4. N \in T BY <1>3
<1> QED BY <1>4 DEF T, Computes

----------------------------------------------------------------------------
(* The bitwise operations, taken bit by bit.                                 *)

LEMMA PowersOfBits ==
  ASSUME NEW n \in Sizes, NEW k \in 0..(n + MaxCount)
  PROVE  2^k \in Nat \ {0} /\ (k >= 1 => 2^k = 2 * 2^(k - 1))
<1>1. n \in Nat /\ MaxCount \in Nat /\ n <= Word /\ Word \in Nat BY Widths
<1>2. k + 0 <= MaxPower /\ k \in Nat BY <1>1 DEF MaxPower
<1>3. 2^k \in Nat \ {0} BY <1>2, Powers
<1>4. ASSUME k >= 1 PROVE 2^k = 2 * 2^(k - 1)
  <2>1. 1 \in Nat /\ k - 1 \in Nat /\ 1 + (k - 1) <= MaxPower /\ 1 + (k - 1) = k BY <1>2, <1>4 DEF MaxPower
  <2>2. 2^(1 + (k - 1)) = 2^1 * 2^(k - 1) BY <2>1, Powers
  <2>3. 2^1 = 2 OBVIOUS
  <2> QED BY <2>1, <2>2, <2>3
<1> QED BY <1>3, <1>4

\* Each value of LowBits is the one before and the next bit.
LEMMA LowBitsStep ==
  ASSUME NEW ones, NEW x, NEW y, NEW n \in Sizes
  PROVE  LET bits == LowBits(ones, x, y, n)
         IN  /\ bits[0] = 0
             /\ \A k \in 1..n :
                  bits[k] = bits[k - 1] + (IF <<Bit(x, k - 1), Bit(y, k - 1)>> \in ones THEN 2^(k - 1) ELSE 0)
<1> DEFINE bits == LowBits(ones, x, y, n)
           Next1(k) == IF <<Bit(x, k - 1), Bit(y, k - 1)>> \in ones THEN 2^(k - 1) ELSE 0
           G == [k \in 1..n |-> [i \in Int |-> i + Next1(k)]]
<1>1. n \in Nat BY Widths
<1>2. \A k \in 1..n : Next1(k) \in Int
  <2> SUFFICES ASSUME NEW k \in 1..n PROVE Next1(k) \in Int OBVIOUS
  <2>1. k - 1 \in 0..(n + MaxCount) BY <1>1, Widths
  <2>2. 2^(k - 1) \in Nat BY <2>1, PowersOfBits
  <2> QED BY <2>2
<1> HIDE DEF Next1
<1>3. G \in [1..n -> [Int -> Int]] BY <1>2
<1>4. \A k \in 1..n, i \in Int : G[k][i] = i + Next1(k) OBVIOUS
<1> HIDE DEF G
<1>5. PICK f \in [0..n -> Int] : f[0] = 0 /\ \A k \in 1..n : f[k] = G[k][f[k - 1]]
  <2> DEFINE D == Int
             base == 0
  <2>1. G \in [1..n -> [D -> D]] /\ base \in D BY <1>3
  <2> HIDE DEF D, base
  <2>2. PICK f : Computes(f, n, D, base, G) BY <1>1, <2>1, Recursion
  <2> QED BY <2>2 DEF D, base, Computes
<1>6. f = [k \in 0..n |-> IF k = 0 THEN 0 ELSE f[k - 1] + Next1(k)]
  <2>1. ASSUME NEW k \in 0..n PROVE f[k] = IF k = 0 THEN 0 ELSE f[k - 1] + Next1(k)
    <3>1. CASE k = 0 BY <1>5, <3>1
    <3>2. CASE k # 0
      <4>1. k \in 1..n /\ f[k - 1] \in Int BY <1>1, <3>2
      <4> QED BY <1>4, <1>5, <3>2, <4>1
    <3> QED BY <3>1, <3>2
  <2> QED BY <2>1
<1>7. bits = [k \in 0..n |-> IF k = 0 THEN 0 ELSE bits[k - 1] + Next1(k)]
  BY <1>6, Zenon DEF LowBits, Next1
<1> HIDE DEF bits
<1>8. bits[0] = 0 /\ \A k \in 1..n : bits[k] = bits[k - 1] + Next1(k) BY <1>1, <1>7
<1> QED BY <1>8, Zenon DEF bits, Next1

LEMMA BitByBitFits ==
  ASSUME NEW ones, NEW x, NEW y, NEW n \in Sizes
  PROVE  BitByBit(ones, x, y, n) \in Values(n)
<1> DEFINE bits == LowBits(ones, x, y, n)
           Set(k) == <<Bit(x, k - 1), Bit(y, k - 1)>> \in ones
           T == {k \in 0..n : bits[k] \in 0..(2^k - 1)}
<1>1. /\ bits[0] = 0
      /\ \A k \in 1..n : bits[k] = bits[k - 1] + (IF Set(k) THEN 2^(k - 1) ELSE 0)
  BY LowBitsStep
<1> HIDE DEF bits, Set
<1>2. n \in Nat /\ MaxCount \in Nat BY Widths
<1>3. 0 \in T
  <2>1. 2^0 = 1 OBVIOUS
  <2> QED BY <1>1, <1>2, <2>1
<1>4. ASSUME NEW k \in 1..n, k - 1 \in T PROVE k \in T
  <2>1. k \in 0..(n + MaxCount) /\ k - 1 \in 0..(n + MaxCount) BY <1>2
  <2> DEFINE p == 2^(k - 1)
  <2>2. p \in Nat \ {0} /\ 2^k = 2 * p BY <2>1, PowersOfBits
  <2> HIDE DEF p
  <2>3. bits[k - 1] \in 0..(p - 1) /\ bits[k] = bits[k - 1] + (IF Set(k) THEN p ELSE 0) BY <1>1, <1>4 DEF p
  <2>4. bits[k] \in 0..(2^k - 1) BY <2>2, <2>3
  <2> QED BY <1>2, <2>4
<1> HIDE DEF T
<1>5. n \in T BY <1>2, <1>3, <1>4, Reached
<1> QED BY <1>5 DEF T, bits, BitByBit, Values, Span

\* The number of its lowest bits, and what is left of a number without them, one bit further.
LEMMA NextBit ==
  ASSUME NEW x \in Int, NEW p \in Nat \ {0}
  PROVE  /\ x \div p \in Int /\ (x \div p) % 2 \in 0..1
         /\ x % (2 * p) = (x % p) + ((x \div p) % 2) * p
         /\ x \div (2 * p) = (x \div p) \div 2
<1> DEFINE q == x \div p
           r == x % p
           b == q % 2
           u == q \div 2
           pp == 2 * p
           rr == b * p + r
<1>1. q \in Int /\ r \in 0..(p - 1) /\ x = q * p + r BY Euclid
<1> HIDE DEF q, r
<1>2. u \in Int /\ b \in 0..1 /\ q = u * 2 + b BY <1>1
<1> HIDE DEF u, b
<1>3. pp \in Nat \ {0} OBVIOUS
<1>4. rr \in 0..(pp - 1) BY <1>1, <1>2
<1>5. x = u * pp + rr BY <1>1, <1>2
<1> HIDE DEF pp, rr
<1>6. (u * pp + rr) \div pp = u /\ (u * pp + rr) % pp = rr BY <1>2, <1>3, <1>4, Division
<1>7. x \div pp = u /\ x % pp = rr BY <1>5, <1>6
<1>8. rr = r + b * p BY <1>1, <1>2 DEF rr
<1> QED BY <1>1, <1>2, <1>7, <1>8 DEF q, r, b, u, pp

\* A number and itself is the number.
LEMMA AndItself ==
  ASSUME NEW n \in Sizes, NEW x \in Values(n)
  PROVE  BitByBit(BitAnd, x, x, n) = x
<1> DEFINE bits == LowBits(BitAnd, x, x, n)
           T == {k \in 0..n : bits[k] = x % 2^k}
<1>1. n \in Nat /\ MaxCount \in Nat /\ Span(n) \in Nat \ {0} BY Widths
<1>2. x \in 0..(Span(n) - 1) /\ x \in Int BY <1>1 DEF Values
<1>3. \A k \in 1..n : <<Bit(x, k - 1), Bit(x, k - 1)>> \in BitAnd <=> Bit(x, k - 1) = 1
  BY DEF BitAnd
<1>4. /\ bits[0] = 0
      /\ \A k \in 1..n : bits[k] = bits[k - 1] + (IF Bit(x, k - 1) = 1 THEN 2^(k - 1) ELSE 0)
  <2>1. /\ bits[0] = 0
        /\ \A k \in 1..n :
             bits[k] = bits[k - 1] + (IF <<Bit(x, k - 1), Bit(x, k - 1)>> \in BitAnd THEN 2^(k - 1) ELSE 0)
    BY LowBitsStep
  <2> HIDE DEF bits
  <2> QED BY <1>3, <2>1
<1> HIDE DEF bits
<1>5. 0 \in T
  <2>1. 2^0 = 1 /\ x % 1 = 0 BY <1>2
  <2> QED BY <1>1, <1>4, <2>1
<1>6. ASSUME NEW k \in 1..n, k - 1 \in T PROVE k \in T
  <2>1. k \in 0..(n + MaxCount) /\ k - 1 \in 0..(n + MaxCount) BY <1>1
  <2> DEFINE p == 2^(k - 1)
             b == Bit(x, k - 1)
  <2>2. p \in Nat \ {0} /\ 2^k = 2 * p BY <2>1, PowersOfBits
  <2>3. b = (x \div p) % 2 BY DEF Bit
  <2>4. bits[k - 1] = x % p /\ bits[k] = bits[k - 1] + (IF b = 1 THEN p ELSE 0) BY <1>4, <1>6
  <2> HIDE DEF p, b
  <2>5. b \in 0..1 /\ x % (2 * p) = (x % p) + b * p BY <1>2, <2>2, <2>3, NextBit
  <2>6. (x % p) \in Int BY <1>2, <2>2
  <2> DEFINE l == x % p
             m == x % (2 * p)
  <2>7. bits[k] = m
    <3>1. l \in Int /\ bits[k] = l + (IF b = 1 THEN p ELSE 0) /\ m = l + b * p BY <2>4, <2>5, <2>6
    <3> HIDE DEF l, m
    <3> QED BY <2>2, <2>5, <3>1
  <2>8. bits[k] = x % 2^k BY <2>2, <2>7
  <2> QED BY <1>1, <2>8
<1> HIDE DEF T
<1>7. \A k \in 0..n : k \in T BY <1>1, <1>5, <1>6, Reached
<1>8. n \in T BY <1>1, <1>7
<1>9. bits[n] = Low(x, n) BY <1>8 DEF T, Low, Span
<1>10. Low(x, n) = x BY <1>2, Lows
<1> QED BY <1>9, <1>10 DEF bits, BitByBit

----------------------------------------------------------------------------
(* The flags after an instruction of bits.                                   *)

\* PF, ZF and SF of a result: the value that was written compared with 0.
LEMMA Described ==
  ASSUME NEW f \in Flags, NEW n \in Sizes, NEW r \in Int
  PROVE  LET g == SetPZS(f, r, n)
         IN  /\ g \in Flags /\ g.CF = f.CF /\ g.OF = f.OF
             /\ g.ZF = 1 <=> Signed(r, n) = 0
             /\ g.SF = 1 <=> Signed(r, n) < 0
<1> DEFINE p == Parity(r)
           z == Flag(Low(r, n) = 0)
           t == Top(r, n)
           v == Signed(r, n)
           g == SetPZS(f, r, n)
<1>1. p \in 0..1 /\ z \in 0..1 BY DEF Parity, Flag
<1>2. t \in 0..1 /\ (t = 1 <=> v < 0) BY Signs
<1>3. z = 1 <=> v = 0
  <2> DEFINE h == 2^(n - 1)
  <2>1. z = 1 <=> Low(r, n) = 0 BY DEF Flag
  <2>2. h \in Nat \ {0} /\ Span(n) = 2 * h BY Widths
  <2>3. v \in -h..(h - 1) /\ Low(r, n) = IF v < 0 THEN v + Span(n) ELSE v BY Signs
  <2> HIDE DEF h, v, z
  <2> QED BY <2>1, <2>2, <2>3
<1>4. g = [f EXCEPT !.PF = p, !.ZF = z, !.SF = t] BY DEF SetPZS
<1> HIDE DEF p, z, t, v, g
<1>5. g \in Flags /\ g.CF = f.CF /\ g.OF = f.OF /\ g.ZF = z /\ g.SF = t BY <1>1, <1>2, <1>4 DEF Flags
<1> QED BY <1>2, <1>3, <1>5 DEF g, v

\* A logical operation: a number of the size, the flags of its value, and OF and CF cleared.
LEMMA LogicLeaves ==
  ASSUME NEW f \in Flags, NEW ones, NEW src, NEW dest, NEW n \in Sizes
  PROVE  LET out == Logic(f, ones, src, dest, n)
         IN  /\ out.res = BitByBit(ones, Low(dest, n), Low(src, n), n)
             /\ out.res \in Values(n) /\ out.flags \in Flags
             /\ out.flags.CF = 0 /\ out.flags.OF = 0
             /\ out.flags.ZF = 1 <=> Signed(out.res, n) = 0
             /\ out.flags.SF = 1 <=> Signed(out.res, n) < 0
<1> DEFINE r == BitByBit(ones, Low(dest, n), Low(src, n), n)
           g == SetPZS(f, r, n)
           e == [g EXCEPT !.CF = 0, !.OF = 0]
           out == Logic(f, ones, src, dest, n)
<1>1. out = [res |-> r, flags |-> e] BY DEF Logic
<1>2. r \in Values(n) BY BitByBitFits
<1> HIDE DEF r
<1>3. r \in Int
  <2>1. Span(n) \in Int BY Widths
  <2> QED BY <1>2, <2>1 DEF Values
<1>4. /\ g \in Flags
      /\ g.ZF = 1 <=> Signed(r, n) = 0
      /\ g.SF = 1 <=> Signed(r, n) < 0
  BY <1>3, Described
<1> HIDE DEF g
<1>5. e \in Flags /\ e.CF = 0 /\ e.OF = 0 /\ e.ZF = g.ZF /\ e.SF = g.SF
  <2>1. g \in Flags BY <1>4
  <2> HIDE DEF e
  <2>2. e = [g EXCEPT !.CF = 0, !.OF = 0] BY DEF e
  <2>3. /\ e = [b \in DOMAIN g |-> IF b \in {"CF", "OF"} THEN 0 ELSE g[b]]
        /\ DOMAIN g = {"CF", "PF", "ZF", "SF", "OF"}
    BY <2>1, <2>2 DEF Flags
  <2> QED BY <2>1, <2>3 DEF Flags
<1> HIDE DEF e, out
<1>6. out.res = r /\ out.flags = e BY <1>1
<1> QED BY <1>2, <1>4, <1>5, <1>6 DEF out, r

\* The branches that read the flags of a value with OF and CF cleared compare the value with 0.
LEMMA Branches ==
  ASSUME NEW f \in Flags, f.CF = 0, f.OF = 0, NEW v \in Int, f.ZF = 1 <=> v = 0, f.SF = 1 <=> v < 0
  PROVE  /\ ConditionE(f) <=> v = 0
         /\ ConditionL(f) <=> v < 0
         /\ ConditionLe(f) <=> v <= 0
         /\ ConditionG(f) <=> v > 0
         /\ ConditionA(f) <=> v # 0
<1>1. f.SF \in 0..1 /\ f.ZF \in 0..1 BY DEF Flags
<1>2. f.SF = f.OF <=> ~(v < 0) BY <1>1
<1>3. f.ZF = 0 <=> ~(v = 0) BY <1>1
<1> QED BY <1>2, <1>3 DEF ConditionE, ConditionL, ConditionLe, ConditionG, ConditionA

LEMMA FormSizes ==
  ASSUME NEW ds \in DataSizes, NEW form \in Forms
  PROVE  /\ ds \in Sizes /\ DestSize(form, ds) \in Sizes /\ SrcSize(form, ds) \in Sizes
         /\ DestSize(form, ds) # Byte => DestSize(form, ds) = ds
BY DEF Sizes, DestSize, SrcSize

LEMMA ZeroFits ==
  ASSUME NEW n \in Sizes
  PROVE  0 \in Values(n)
<1>1. Span(n) \in Nat \ {0} BY Widths
<1> QED BY <1>1 DEF Values

LEMMA LogicKeeps ==
  ASSUME eflags \in Flags, NEW ds \in DataSizes, NEW form \in Forms, NEW op \in Logics,
         NEW ones, NEW x, NEW src, NEW dest,
         Done(Logic(eflags, ones, x, dest, ds).flags, op, DestSize(form, ds), src, dest,
              Low(Logic(eflags, ones, x, dest, ds).res, DestSize(form, ds)), 0)
  PROVE  OpIInv'
<1> DEFINE out == Logic(eflags, ones, x, dest, ds)
           n == DestSize(form, ds)
           res == out.res
           f == out.flags
           lo == Low(res, n)
           v == Signed(lo, n)
<1>1. ds \in Sizes /\ n \in Sizes /\ (n # Byte => n = ds) BY FormSizes
<1>2. /\ res \in Values(ds) /\ f \in Flags /\ f.CF = 0 /\ f.OF = 0
      /\ f.ZF = 1 <=> Signed(res, ds) = 0
      /\ f.SF = 1 <=> Signed(res, ds) < 0
  BY <1>1, LogicLeaves
<1>3. /\ eflags' = f /\ last'.op = op /\ last'.n = n /\ last'.src = src /\ last'.dest = dest
      /\ last'.lo = lo /\ last'.hi = 0
  BY Leaves
<1> HIDE DEF out, n
<1>4. res \in Int
  <2>1. Span(ds) \in Int BY <1>1, Widths
  <2> QED BY <1>2, <2>1 DEF Values
<1> HIDE DEF res, f
<1>5. lo \in Values(n) /\ 0 \in Values(n) /\ v = Signed(res, n) /\ v \in Int
  <2>1. Low(res, n) \in Values(n) /\ Signed(Low(res, n), n) = Signed(res, n) BY <1>1, <1>4, SignedLow
  <2>2. Signed(res, n) \in Int
    <3>1. Signed(res, n) \in -(2^(n - 1))..(2^(n - 1) - 1) /\ 2^(n - 1) \in Nat BY <1>1, <1>4, Signs, Widths
    <3> QED BY <3>1
  <2> QED BY <1>1, <2>1, <2>2, ZeroFits
<1> HIDE DEF lo, v
<1>6. OpTypeOK' BY <1>1, <1>2, <1>3, <1>5 DEF OpTypeOK, FloatOps, Logics
<1>7. n # Byte => /\ ConditionE(f) <=> v = 0
                  /\ f.SF = 1 <=> v < 0
                  /\ ConditionL(f) <=> v < 0
                  /\ ConditionLe(f) <=> v <= 0
                  /\ ConditionG(f) <=> v > 0
                  /\ ConditionA(f) <=> v # 0
  BY <1>1, <1>2, <1>5, Branches
<1>8. SignDecided'
  <2>1. Signed(lo, n) = v BY DEF v
  <2> QED BY <1>3, <1>7, <2>1 DEF SignDecided, Logics, Shifts, ConditionE, ConditionL, ConditionLe, ConditionG, ConditionA
<1>9. ShiftExact' BY <1>3 DEF ShiftExact, Logics, Shifts
<1> QED BY <1>3, <1>6, <1>8, <1>9, OfBits

LEMMA AndKeeps ==
  ASSUME eflags \in Flags, NEW ds \in DataSizes, NEW form \in Forms, NEW src, NEW dest, And(ds, form, src, dest)
  PROVE  OpIInv'
<1>1. "and" \in Logics BY DEF Logics
<1> QED BY <1>1, LogicKeeps DEF And, AluAnd

LEMMA OrKeeps ==
  ASSUME eflags \in Flags, NEW ds \in DataSizes, NEW form \in Forms, NEW src, NEW dest, Or(ds, form, src, dest)
  PROVE  OpIInv'
<1>1. "or" \in Logics BY DEF Logics
<1> QED BY <1>1, LogicKeeps DEF Or, AluOr

LEMMA XorKeeps ==
  ASSUME eflags \in Flags, NEW ds \in DataSizes, NEW form \in Forms, NEW src, NEW dest, Xor(ds, form, src, dest)
  PROVE  OpIInv'
<1>1. "xor" \in Logics BY DEF Logics
<1> QED BY <1>1, LogicKeeps DEF Xor, AluXor

LEMMA TestKeeps ==
  ASSUME eflags \in Flags, NEW ds \in DataSizes, NEW form \in Forms, NEW src,
         NEW dest \in Values(DestSize(form, ds)), Test(ds, form, src, dest)
  PROVE  OpIInv'
<1> DEFINE n == DestSize(form, ds)
           out == Logic(eflags, BitAnd, src, dest, n)
           res == out.res
           f == out.flags
           v == Signed(dest, n)
<1>1. n \in Sizes BY FormSizes
<1>2. /\ res = BitByBit(BitAnd, Low(dest, n), Low(src, n), n)
      /\ f \in Flags /\ f.CF = 0 /\ f.OF = 0
      /\ f.ZF = 1 <=> Signed(res, n) = 0
      /\ f.SF = 1 <=> Signed(res, n) < 0
  BY <1>1, LogicLeaves
<1>3. Done(f, "test", n, src, dest, dest, 0) BY DEF Test, AluAnd
<1> HIDE DEF n, out, res, f
<1>4. /\ eflags' = f /\ last'.op = "test" /\ last'.n = n /\ last'.src = src /\ last'.dest = dest
      /\ last'.lo = dest /\ last'.hi = 0
  BY <1>3, Leaves
<1>5. dest \in Values(n) /\ 0 \in Values(n) BY <1>1, ZeroFits DEF n
<1>6. dest \in Int /\ Low(dest, n) = dest
  <2>1. Span(n) \in Int BY <1>1, Widths
  <2>2. dest \in Int BY <1>5, <2>1 DEF Values
  <2> QED BY <1>1, <1>5, <2>2, Lows DEF Values
<1>7. src = dest => res = dest BY <1>1, <1>2, <1>5, <1>6, AndItself
<1>8. v \in Int
  <2>1. Signed(dest, n) \in -(2^(n - 1))..(2^(n - 1) - 1) /\ 2^(n - 1) \in Nat BY <1>1, <1>6, Signs, Widths
  <2> QED BY <2>1
<1> HIDE DEF v
<1>9. src = dest => /\ ConditionL(f) <=> v < 0
                    /\ ConditionLe(f) <=> v <= 0
                    /\ ConditionG(f) <=> v > 0
                    /\ ConditionA(f) <=> v # 0
  <2>1. Signed(dest, n) = v BY DEF v
  <2> QED BY <1>2, <1>7, <1>8, <2>1, Branches
<1>10. OpTypeOK' BY <1>1, <1>2, <1>4, <1>5 DEF OpTypeOK, FloatOps
<1>11. SignDecided'
  <2>1. Signed(dest, n) = v BY DEF v
  <2> QED BY <1>4, <1>9, <2>1 DEF SignDecided, Logics, Shifts, ConditionL, ConditionLe, ConditionG, ConditionA
<1>12. ShiftExact' BY <1>4 DEF ShiftExact, Shifts
<1> QED BY <1>4, <1>10, <1>11, <1>12, OfBits

----------------------------------------------------------------------------
(* Shifts, place by place.                                                   *)

LEMMA TopsAreNumbers ==
  ASSUME NEW n \in Sizes, NEW r \in Int, NEW op \in Shifts
  PROVE  Step(op, r, n).out \in Int /\ Step(op, r, n).r \in Int
<1>1. Top(r, n) \in 0..1 /\ Low(r, n) \in Int /\ Low(2 * r, n) \in Int
  <2>1. Low(r, n) \in 0..(Span(n) - 1) /\ Low(2 * r, n) \in 0..(Span(n) - 1) /\ Span(n) \in Int BY Lows, Widths
  <2> QED BY <2>1, Signs
<1>2. r % 2 \in Int /\ r \div 2 \in Int OBVIOUS
<1>3. Span(n - 1) \in Int BY Widths DEF Span
<1>4. CASE op = "shl"
  <2>1. Step(op, r, n) = [out |-> Top(r, n), r |-> Low(2 * r, n)] BY <1>4 DEF Step
  <2> QED BY <1>1, <2>1
<1>5. CASE op = "shr"
  <2>1. Step(op, r, n) = [out |-> r % 2, r |-> r \div 2] BY <1>5 DEF Step
  <2> QED BY <1>2, <2>1
<1>6. CASE op = "sar"
  <2>1. Step(op, r, n) = [out |-> r % 2, r |-> r \div 2 + Top(r, n) * Span(n - 1)] BY <1>6 DEF Step
  <2> DEFINE s == Span(n - 1)
             t == Top(r, n)
  <2>2. r \div 2 + t * s \in Int
    <3> HIDE DEF s, t
    <3> QED BY <1>1, <1>2, <1>3 DEF s, t
  <2> QED BY <1>2, <2>1, <2>2
<1> QED BY <1>4, <1>5, <1>6 DEF Shifts

\* Each place of Places is a step from the one before.
LEMMA PlacesStep ==
  ASSUME NEW op \in Shifts, NEW n \in Sizes, NEW dest \in Int
  PROVE  /\ Places(op, dest, n)[0] = [out |-> 0, r |-> dest]
         /\ \A k \in 1..MaxCount : Places(op, dest, n)[k] = Step(op, Places(op, dest, n)[k - 1].r, n)
<1> DEFINE D == {z \in [out : Int, r : Int] : TRUE}
           base == [out |-> 0, r |-> dest]
           S(z) == Step(op, z.r, n)
           G == [k \in 1..MaxCount |-> [z \in D |-> S(z)]]
           places == Places(op, dest, n)
<1>1. MaxCount \in Nat BY OperateAssumption
<1>2. base \in D OBVIOUS
<1>3. \A z \in D : S(z) \in D
  <2> SUFFICES ASSUME NEW z \in D PROVE S(z) \in D OBVIOUS
  <2>1. z.r \in Int OBVIOUS
  <2>2. S(z).out \in Int /\ S(z).r \in Int BY <2>1, TopsAreNumbers
  <2>3. S(z) = [out |-> S(z).out, r |-> S(z).r] BY DEF Step, Shifts
  <2> HIDE DEF S
  <2> QED BY <2>2, <2>3
<1> HIDE DEF S, D
<1>4. G \in [1..MaxCount -> [D -> D]] /\ \A k \in 1..MaxCount : \A z \in D : G[k][z] = S(z) BY <1>3
<1> HIDE DEF G, base
<1>5. PICK f : Computes(f, MaxCount, D, base, G) BY <1>1, <1>2, <1>4, Recursion
<1>6. f = [k \in 0..MaxCount |-> IF k = 0 THEN base ELSE S(f[k - 1])]
  <2>1. f \in [0..MaxCount -> D] /\ f[0] = base /\ \A k \in 1..MaxCount : f[k] = G[k][f[k - 1]] BY <1>5 DEF Computes
  <2>2. ASSUME NEW k \in 0..MaxCount PROVE f[k] = IF k = 0 THEN base ELSE S(f[k - 1])
    <3>1. CASE k = 0 BY <2>1, <3>1
    <3>2. CASE k # 0
      <4>1. k \in 1..MaxCount /\ k - 1 \in 0..MaxCount BY <1>1, <3>2
      <4>2. f[k - 1] \in D BY <2>1, <4>1
      <4> QED BY <1>4, <2>1, <3>2, <4>1, <4>2
    <3> QED BY <3>1, <3>2
  <2> QED BY <2>1, <2>2
<1>7. places = [k \in 0..MaxCount |-> IF k = 0 THEN base ELSE S(places[k - 1])]
  BY <1>6, Zenon DEF Places, S, base
<1> HIDE DEF places
<1>8. places[0] = base /\ \A k \in 1..MaxCount : places[k] = S(places[k - 1]) BY <1>1, <1>7
<1> QED BY <1>8, Zenon DEF places, S, base

LEMMA LeftPlaces ==
  ASSUME NEW n \in Sizes, NEW dest \in Values(n), NEW c \in 1..MaxCount
  PROVE  /\ Places("shl", dest, n)[c].r = Low(dest * 2^c, n)
         /\ Places("shl", dest, n)[c].out = Top(dest * 2^(c - 1), n)
<1> DEFINE f == Places("shl", dest, n)
           T == {k \in 0..MaxCount : f[k].r = Low(dest * 2^k, n)}
           s == Span(n)
<1>1. n \in Nat \ {0} /\ s \in Nat \ {0} /\ MaxCount \in Nat BY Widths
<1>2. dest \in Int /\ dest \in 0..(s - 1) BY <1>1 DEF Values
<1>3. f[0] = [out |-> 0, r |-> dest] /\ \A k \in 1..MaxCount : f[k] = Step("shl", f[k - 1].r, n)
  <2>1. "shl" \in Shifts BY DEF Shifts
  <2> QED BY <1>2, <2>1, PlacesStep
<1> HIDE DEF f, s
<1>4. \A k \in 1..MaxCount : f[k].r = Low(2 * f[k - 1].r, n) /\ f[k].out = Top(f[k - 1].r, n)
  <2>1. \A r : Step("shl", r, n) = [out |-> Top(r, n), r |-> Low(2 * r, n)] BY DEF Step
  <2> QED BY <1>3, <2>1
<1>5. 0 \in T
  <2>1. f[0].r = dest BY <1>3
  <2>2. 2^0 = 1 /\ dest * 1 = dest BY <1>2
  <2>3. Low(dest, n) = dest BY <1>2, Lows DEF s
  <2> QED BY <1>1, <2>1, <2>2, <2>3
<1>6. ASSUME NEW k \in 1..MaxCount, k - 1 \in T PROVE k \in T
  <2> DEFINE p == 2^(k - 1)
             x == dest * p
             q == x \div s
             r == x % s
  <2>1. p \in Nat \ {0} /\ 2^k = 2 * p
    <3>1. k \in 0..(n + MaxCount) /\ k >= 1 BY <1>1
    <3> QED BY <3>1, PowersOfBits
  <2>2. f[k].r = Low(2 * Low(x, n), n) BY <1>4, <1>6
  <2>3. dest * (2 * p) = 2 * x BY <1>2, <2>1
  <2>4. x \in Int BY <1>2, <2>1
  <2> HIDE DEF p, x
  <2>5. q \in Int /\ r \in 0..(s - 1) /\ x = q * s + r BY <1>1, <2>4, Euclid
  <2> HIDE DEF q, r
  <2> DEFINE qq == 2 * q
             rr == 2 * r
  <2>6. qq \in Int /\ rr \in Int /\ 2 * x = qq * s + rr BY <1>1, <2>5
  <2> HIDE DEF qq, rr
  <2>7. (qq * s + rr) % s = rr % s BY <1>1, <2>6, Shifting
  <2>8. Low(x, n) = r BY DEF Low, s, r
  <2>9. f[k].r = rr % s BY <2>2, <2>8 DEF Low, s, rr
  <2>10. Low(dest * 2^k, n) = (qq * s + rr) % s
    <3>1. dest * 2^k = qq * s + rr BY <2>1, <2>3, <2>6
    <3> QED BY <3>1 DEF Low, s
  <2> QED BY <2>7, <2>9, <2>10
<1> HIDE DEF T
<1>7. c \in T /\ c - 1 \in T
  <2>1. \A k \in 0..MaxCount : k \in T BY <1>1, <1>5, <1>6, Reached
  <2> QED BY <1>1, <2>1
<1>8. f[c].r = Low(dest * 2^c, n) /\ f[c - 1].r = Low(dest * 2^(c - 1), n) BY <1>7 DEF T
<1>9. Top(Low(dest * 2^(c - 1), n), n) = Top(dest * 2^(c - 1), n)
  <2> DEFINE x == dest * 2^(c - 1)
  <2>1. x \in Int
    <3>1. c - 1 \in 0..(n + MaxCount) BY <1>1
    <3>2. 2^(c - 1) \in Nat BY <3>1, PowersOfBits
    <3> QED BY <1>2, <3>2
  <2> HIDE DEF x
  <2>2. Top(Low(x, n), n) = Top(x, n) BY <2>1, SignedLow
  <2> QED BY <2>2 DEF x
<1> QED BY <1>4, <1>8, <1>9 DEF f

LEMMA RightPlaces ==
  ASSUME NEW n \in Sizes, NEW dest \in Int, NEW c \in 1..MaxCount
  PROVE  /\ Places("shr", dest, n)[c].r = dest \div 2^c
         /\ Places("shr", dest, n)[c].out = Bit(dest, c - 1)
<1> DEFINE f == Places("shr", dest, n)
           T == {k \in 0..MaxCount : f[k].r = dest \div 2^k}
<1>1. n \in Nat /\ MaxCount \in Nat BY Widths
<1>2. f[0] = [out |-> 0, r |-> dest] /\ \A k \in 1..MaxCount : f[k] = Step("shr", f[k - 1].r, n)
  <2>1. "shr" \in Shifts BY DEF Shifts
  <2> QED BY <2>1, PlacesStep
<1> HIDE DEF f
<1>3. \A k \in 1..MaxCount : f[k].r = f[k - 1].r \div 2 /\ f[k].out = f[k - 1].r % 2
  <2>1. \A r : Step("shr", r, n) = [out |-> r % 2, r |-> r \div 2] BY DEF Step
  <2> QED BY <1>2, <2>1
<1>4. 0 \in T
  <2>1. f[0].r = dest BY <1>2
  <2>2. 2^0 = 1 /\ dest \div 1 = dest OBVIOUS
  <2> QED BY <1>1, <2>1, <2>2
<1>5. ASSUME NEW k \in 1..MaxCount, k - 1 \in T PROVE k \in T
  <2> DEFINE p == 2^(k - 1)
  <2>1. p \in Nat \ {0} /\ 2^k = 2 * p
    <3>1. k \in 0..(n + MaxCount) /\ k >= 1 BY <1>1
    <3> QED BY <3>1, PowersOfBits
  <2>2. f[k].r = (dest \div p) \div 2 BY <1>3, <1>5
  <2> HIDE DEF p
  <2>3. dest \div (2 * p) = (dest \div p) \div 2 BY <2>1, NextBit
  <2>4. f[k].r = dest \div 2^k BY <2>1, <2>2, <2>3
  <2> QED BY <1>1, <2>4
<1> HIDE DEF T
<1>6. c \in T /\ c - 1 \in T
  <2>1. \A k \in 0..MaxCount : k \in T BY <1>1, <1>4, <1>5, Reached
  <2> QED BY <1>1, <2>1
<1>7. f[c].r = dest \div 2^c /\ f[c - 1].r = dest \div 2^(c - 1) BY <1>6 DEF T
<1>8. f[c].out = Bit(dest, c - 1) BY <1>3, <1>7 DEF Bit
<1> QED BY <1>7, <1>8 DEF f

\* One place of sar is half the integer that the number stands for.
LEMMA SignedStep ==
  ASSUME NEW n \in Sizes, NEW w \in Int, w \in -(2^(n - 1))..(2^(n - 1) - 1)
  PROVE  LET z == Step("sar", Low(w, n), n)
         IN  /\ z.r = Low(w \div 2, n) /\ z.out = w % 2
             /\ w \div 2 \in -(2^(n - 1))..(2^(n - 1) - 1)
<1> DEFINE h == 2^(n - 1)
           s == Span(n)
           l == Low(w, n)
           t == Top(l, n)
           u == w \div 2
           m == Low(u, n)
           z == Step("sar", l, n)
<1>1. h \in Nat \ {0} /\ s = 2 * h BY Widths
<1>2. l \in Int /\ Signed(l, n) = w
  <2>1. Signed(l, n) = Signed(w, n) /\ Signed(w, n) = w BY SignedLow, Signs
  <2>2. l \in 0..(s - 1) BY Lows
  <2> HIDE DEF l, s
  <2> QED BY <1>1, <2>1, <2>2
<1>3. t \in 0..1 /\ (t = 1 <=> w < 0) BY <1>2, Signs
<1>4. l = IF w < 0 THEN w + s ELSE w
  <2>1. Signed(w, n) = w BY Signs
  <2> QED BY <2>1, Signs
<1>5. z = [out |-> l % 2, r |-> l \div 2 + t * h] BY DEF Step, Span
<1> DEFINE b == w % 2
<1>6. u \in Int /\ b \in 0..1 /\ w = u * 2 + b OBVIOUS
<1>7. u \in -h..(h - 1) BY <1>1, <1>6
<1>8. m = IF u < 0 THEN u + s ELSE u
  <2>1. Signed(u, n) = u BY <1>6, <1>7, Signs
  <2> QED BY <1>6, <2>1, Signs
<1> HIDE DEF h, s, l, t, u, m, z, b
<1>9. l \div 2 = (IF w < 0 THEN u + h ELSE u) /\ l % 2 = b
  <2> DEFINE q == IF w < 0 THEN u + h ELSE u
  <2>1. q \in Int /\ l = q * 2 + b BY <1>1, <1>4, <1>6
  <2> HIDE DEF q
  <2>2. l \div 2 = q /\ l % 2 = b BY <1>6, <2>1
  <2> QED BY <2>2 DEF q
<1>10. z.out = b /\ z.r = (IF w < 0 THEN u + h ELSE u) + t * h BY <1>5, <1>9
<1>11. z.r = m
  <2>1. CASE w < 0
    <3>1. t = 1 /\ u < 0 BY <1>3, <1>6, <2>1
    <3>2. z.r = u + h + 1 * h BY <1>10, <2>1, <3>1
    <3> QED BY <1>1, <1>6, <1>8, <3>1, <3>2
  <2>2. CASE ~(w < 0)
    <3>1. t = 0 /\ ~(u < 0) BY <1>3, <1>6, <2>2
    <3>2. z.r = u + 0 * h BY <1>10, <2>2, <3>1
    <3> QED BY <1>1, <1>6, <1>8, <3>1, <3>2
  <2> QED BY <2>1, <2>2
<1> QED BY <1>7, <1>10, <1>11 DEF h, l, u, m, z, b

LEMMA SignedPlaces ==
  ASSUME NEW n \in Sizes, NEW dest \in Values(n), NEW c \in 1..MaxCount
  PROVE  LET v == Signed(dest, n)
         IN  /\ Places("sar", dest, n)[c].r = Low(v \div 2^c, n)
             /\ Places("sar", dest, n)[c].out = Bit(v, c - 1)
<1> DEFINE f == Places("sar", dest, n)
           h == 2^(n - 1)
           v == Signed(dest, n)
           T == {k \in 0..MaxCount : f[k].r = Low(v \div 2^k, n) /\ v \div 2^k \in -h..(h - 1)}
<1>1. n \in Nat /\ MaxCount \in Nat /\ h \in Nat \ {0} /\ Span(n) \in Nat \ {0} BY Widths
<1>2. dest \in Int /\ dest \in 0..(Span(n) - 1) BY <1>1 DEF Values
<1>3. v \in -h..(h - 1) /\ Low(v, n) = dest
  <2>1. Low(dest, n) = dest BY <1>2, Lows
  <2>2. v \in -h..(h - 1) /\ (dest = IF v < 0 THEN v + Span(n) ELSE v) BY <1>2, <2>1, Signs
  <2> HIDE DEF v, h
  <2>3. v \in Int BY <1>1, <2>2
  <2>4. Signed(v, n) = v BY <2>2, <2>3, Signs DEF h
  <2>5. Low(v, n) = IF v < 0 THEN v + Span(n) ELSE v BY <2>3, <2>4, Signs
  <2> QED BY <2>2, <2>5
<1>4. f[0] = [out |-> 0, r |-> dest] /\ \A k \in 1..MaxCount : f[k] = Step("sar", f[k - 1].r, n)
  <2>1. "sar" \in Shifts BY DEF Shifts
  <2> QED BY <1>2, <2>1, PlacesStep
<1> HIDE DEF f, v, h
<1>5. v \in Int BY <1>1, <1>3
<1>6. 0 \in T
  <2>1. f[0].r = dest BY <1>4
  <2>2. 2^0 = 1 /\ v \div 1 = v BY <1>5
  <2> QED BY <1>1, <1>3, <2>1, <2>2
<1>7. ASSUME NEW k \in 1..MaxCount, k - 1 \in T
      PROVE  k \in T /\ f[k].out = Bit(v, k - 1)
  <2> DEFINE p == 2^(k - 1)
             w == v \div p
  <2>1. p \in Nat \ {0} /\ 2^k = 2 * p
    <3>1. k \in 0..(n + MaxCount) /\ k >= 1 BY <1>1
    <3> QED BY <3>1, PowersOfBits
  <2>2. f[k] = Step("sar", Low(w, n), n) /\ w \in -h..(h - 1) BY <1>4, <1>7
  <2>3. Bit(v, k - 1) = w % 2 BY DEF Bit
  <2> HIDE DEF p
  <2>4. v \div (2 * p) = w \div 2 BY <1>5, <2>1, NextBit
  <2> HIDE DEF w
  <2>5. w \in Int BY <1>1, <2>2
  <2>6. f[k].r = Low(w \div 2, n) /\ f[k].out = w % 2 /\ w \div 2 \in -h..(h - 1)
    BY <2>2, <2>5, SignedStep DEF h
  <2>7. f[k].r = Low(v \div 2^k, n) /\ v \div 2^k \in -h..(h - 1) BY <2>1, <2>4, <2>6
  <2> QED BY <1>1, <2>3, <2>6, <2>7
<1> HIDE DEF T
<1>8. c \in T /\ c - 1 \in T
  <2>1. \A k \in 0..MaxCount : k \in T BY <1>1, <1>6, <1>7, Reached
  <2> QED BY <1>1, <2>1
<1>9. f[c].r = Low(v \div 2^c, n) BY <1>8 DEF T
<1>10. f[c].out = Bit(v, c - 1) BY <1>7, <1>8
<1> QED BY <1>9, <1>10 DEF f, v

\* A number smaller than the divisor.
LEMMA SmallQuotients ==
  ASSUME NEW p \in Nat \ {0}, NEW x \in -p..(p - 1)
  PROVE  x \div p = IF x < 0 THEN -1 ELSE 0
<1> DEFINE q == IF x < 0 THEN -1 ELSE 0
           r == IF x < 0 THEN x + p ELSE x
<1>1. q \in Int /\ r \in 0..(p - 1) /\ x = q * p + r OBVIOUS
<1> HIDE DEF q, r
<1>2. (q * p + r) \div p = q BY <1>1, Division
<1>3. x \div p = q BY <1>1, <1>2
<1> QED BY <1>3 DEF q

LEMMA BitsAreBits ==
  ASSUME NEW x \in Int, NEW i, 2^i \in Nat \ {0}
  PROVE  Bit(x, i) \in 0..1
BY NextBit DEF Bit

\* What an outcome of a shift must be: a number and the flags of its value, and what as many
\* shifts by one place leave.
ShiftLeaves(out, op, n, count, dest) ==
  /\ out.res \in Values(n) /\ out.flags \in Flags
  /\ out.flags.ZF = 1 <=> Signed(out.res, n) = 0
  /\ out.flags.SF = 1 <=> Signed(out.res, n) < 0
  /\ count > 0 => /\ out.res = Places(op, dest, n)[count].r
                  /\ out.flags.CF = Places(op, dest, n)[count].out

LEMMA OFIfOneKeeps ==
  ASSUME NEW f \in Flags, NEW src, NEW bit \in 0..1
  PROVE  OFIfOne(f, src, bit) \in Flags
BY DEF OFIfOne, Flags

LEMMA ShiftedLeaves ==
  ASSUME NEW f \in Flags, NEW n \in Sizes, NEW r \in Values(n), NEW cf \in 0..1,
         NEW op, NEW count, NEW dest,
         count > 0 => r = Places(op, dest, n)[count].r /\ cf = Places(op, dest, n)[count].out
  PROVE  ShiftLeaves(Shifted(f, r, cf, n), op, n, count, dest)
<1> DEFINE g == SetPZS(f, r, n)
           e == [g EXCEPT !.CF = cf]
           out == Shifted(f, r, cf, n)
<1>1. r \in Int
  <2>1. Span(n) \in Int BY Widths
  <2> QED BY <2>1 DEF Values
<1>2. /\ g \in Flags
      /\ g.ZF = 1 <=> Signed(r, n) = 0
      /\ g.SF = 1 <=> Signed(r, n) < 0
  BY <1>1, Described
<1>3. out = [res |-> r, flags |-> e] BY DEF Shifted
<1> HIDE DEF g
<1>4. e \in Flags /\ e.CF = cf /\ e.ZF = g.ZF /\ e.SF = g.SF
  <2>1. g \in Flags BY <1>2
  <2>2. DOMAIN g = {"CF", "PF", "ZF", "SF", "OF"} BY <2>1 DEF Flags
  <2> HIDE DEF e
  <2>3. e = [g EXCEPT !.CF = cf] BY DEF e
  <2>4. e = [b \in DOMAIN g |-> IF b = "CF" THEN cf ELSE g[b]] BY <2>2, <2>3
  <2> QED BY <2>1, <2>2, <2>4 DEF Flags
<1> HIDE DEF e, out
<1>5. out.res = r /\ out.flags = e BY <1>3
<1>6. ShiftLeaves(out, op, n, count, dest) BY <1>2, <1>4, <1>5 DEF ShiftLeaves
<1> QED BY <1>6 DEF out

LEMMA AllOutLeaves ==
  ASSUME NEW f \in Flags, NEW n \in Sizes, NEW bit \in 0..1, NEW op, NEW count, NEW dest,
         bit * (Span(n) - 1) = Places(op, dest, n)[count].r /\ bit = Places(op, dest, n)[count].out
  PROVE  ShiftLeaves(AllOut(f, bit, n), op, n, count, dest)
<1> DEFINE r == bit * (Span(n) - 1)
           z == 1 - bit
           e == [f EXCEPT !.CF = bit, !.PF = 1, !.ZF = z, !.SF = bit]
           out == AllOut(f, bit, n)
           h == 2^(n - 1)
           v == Signed(r, n)
<1>1. h \in Nat \ {0} /\ Span(n) = 2 * h BY Widths
<1>2. r \in Values(n) /\ r \in Int /\ (r = IF bit = 1 THEN Span(n) - 1 ELSE 0)
  <2> HIDE DEF h
  <2>1. bit = 0 \/ bit = 1 OBVIOUS
  <2> QED BY <1>1, <2>1 DEF Values
<1>3. out = [res |-> r, flags |-> e] BY DEF AllOut
<1>4. z \in 0..1 /\ (z = 1 <=> bit = 0) OBVIOUS
<1> HIDE DEF z
<1>5. e \in Flags /\ e.CF = bit /\ e.ZF = z /\ e.SF = bit
  <2>1. e = [f EXCEPT !.CF = bit, !.PF = 1, !.ZF = z, !.SF = bit] OBVIOUS
  <2> HIDE DEF e
  <2>2. e = [CF |-> bit, PF |-> 1, ZF |-> z, SF |-> bit, OF |-> f.OF] BY <2>1 DEF Flags
  <2>3. f.OF \in 0..1 /\ 1 \in 0..1 BY DEF Flags
  <2> QED BY <1>4, <2>2, <2>3 DEF Flags
<1>6. r = IF v < 0 THEN v + Span(n) ELSE v
  <2>1. Low(r, n) = r
    <3>1. r \in 0..(Span(n) - 1) BY <1>2 DEF Values
    <3> HIDE DEF r
    <3> QED BY <1>2, <3>1, Lows
  <2> HIDE DEF r
  <2> QED BY <1>2, <2>1, Signs
<1>7. v \in -h..(h - 1) BY <1>2, Signs
<1> HIDE DEF r, v, h, e, out
<1>8. (bit = 0 <=> v = 0) /\ (bit = 1 <=> v < 0) BY <1>1, <1>2, <1>6, <1>7
<1>9. out.res = r /\ out.flags = e BY <1>3
<1>10. ShiftLeaves(out, op, n, count, dest)
  <2>1. r = Places(op, dest, n)[count].r BY DEF r
  <2> QED BY <1>2, <1>4, <1>5, <1>8, <1>9, <2>1 DEF ShiftLeaves, v
<1> QED BY <1>10 DEF out

LEMMA ShiftKeeps ==
  ASSUME NEW op \in Shifts, NEW n \in Sizes, NEW count, NEW dest, NEW out,
         ShiftLeaves(out, op, n, count, dest), Done(out.flags, op, n, count, dest, out.res, 0)
  PROVE  OpIInv'
<1>1. /\ eflags' = out.flags /\ last'.op = op /\ last'.n = n /\ last'.src = count /\ last'.dest = dest
      /\ last'.lo = out.res /\ last'.hi = 0
  BY Leaves
<1>2. OpTypeOK' BY <1>1, ZeroFits DEF OpTypeOK, ShiftLeaves, FloatOps, Shifts
<1>3. SignDecided' BY <1>1 DEF SignDecided, ShiftLeaves, ConditionE, Shifts, Logics
<1>4. ShiftExact' BY <1>1 DEF ShiftExact, ShiftLeaves
<1> QED BY <1>1, <1>2, <1>3, <1>4, OfBits

\* The bit that a shift to the left moves out last is the one that c places move to the top.
LEMMA LeftOut ==
  ASSUME NEW n \in Sizes, NEW dest \in Int, NEW c \in 1..n
  PROVE  Bit(dest, n - c) = Top(dest * 2^(c - 1), n)
<1> DEFINE a == 2^(n - c)
           b == 2^(c - 1)
           h == 2^(n - 1)
           s == Span(n)
           q == dest \div a
           r == dest % a
           u == q \div 2
           t == q % 2
           rb == r * b
           th == t * h
           l == th + rb
           x == dest * b
<1>1. n \in Nat /\ MaxCount \in Nat /\ h \in Nat \ {0} /\ s = 2 * h /\ n <= Word /\ Word \in Nat BY Widths
<1>2. a \in Nat \ {0} /\ b \in Nat \ {0} /\ h = a * b
  <2>1. n - c \in Nat /\ c - 1 \in Nat /\ (n - c) + (c - 1) = n - 1 BY <1>1
  <2>2. (n - c) + (c - 1) <= MaxPower BY <1>1 DEF MaxPower
  <2> QED BY <2>1, <2>2, Powers
<1>3. Bit(dest, n - c) = t BY DEF Bit
<1>4. Top(x, n) = (x % s) \div h BY DEF Top, Low
<1> HIDE DEF a, b, h, s
<1>5. q \in Int /\ r \in 0..(a - 1) /\ dest = q * a + r BY <1>2, Euclid
<1> HIDE DEF q, r
<1>6. u \in Int /\ t \in 0..1 /\ q = u * 2 + t BY <1>5
<1> HIDE DEF u, t
<1>7. rb \in 0..(h - 1)
  <2>1. r * b >= 0 /\ r * b <= (a - 1) * b BY <1>2, <1>5
  <2>2. (a - 1) * b = a * b - b BY <1>2
  <2>3. r * b \in Int BY <1>2, <1>5
  <2> QED BY <1>1, <1>2, <2>1, <2>2, <2>3
<1>8. x = u * s + l
  <2>1. dest = u * (2 * a) + t * a + r BY <1>2, <1>5, <1>6
  <2>2. (u * (2 * a) + t * a + r) * b = u * (2 * (a * b)) + t * (a * b) + r * b BY <1>2, <1>5, <1>6
  <2>3. dest * b = u * (2 * (a * b)) + t * (a * b) + r * b BY <2>1, <2>2
  <2>4. dest * b = u * s + t * h + r * b BY <1>1, <1>2, <2>3
  <2>5. u * s \in Int /\ t * h \in Int /\ r * b \in Int BY <1>1, <1>2, <1>5, <1>6
  <2> QED BY <2>4, <2>5
<1> HIDE DEF rb, x
<1>9. th \in 0..h /\ (t = 0 => th = 0) /\ (t = 1 => th = h) BY <1>1, <1>6
<1> HIDE DEF th
<1>10. l \in 0..(s - 1) BY <1>1, <1>7, <1>9
<1> HIDE DEF l
<1>11. x % s = l
  <2>1. s \in Nat \ {0} BY <1>1
  <2>2. (u * s + l) % s = l BY <1>6, <1>10, <2>1, Division
  <2> QED BY <1>8, <2>2
<1>12. l \div h = t
  <2>1. (t * h + rb) \div h = t BY <1>1, <1>6, <1>7, Division
  <2>2. t * h + rb = l BY DEF l, th
  <2> QED BY <2>1, <2>2
<1> QED BY <1>3, <1>4, <1>11, <1>12 DEF x, b

\* Beyond the size nothing is left of a number that is shifted to the left.
LEMMA LeftGone ==
  ASSUME NEW n \in Sizes, NEW dest \in Int, NEW c \in n..(n + MaxCount)
  PROVE  Low(dest * 2^c, n) = 0 /\ Top(dest * 2^c, n) = 0
<1> DEFINE a == 2^(c - n)
           s == Span(n)
           q == dest * a
           zero == 0
<1>1. n \in Nat /\ MaxCount \in Nat /\ n <= Word /\ Word \in Nat /\ s \in Nat \ {0} BY Widths
<1>2. a \in Nat \ {0} /\ 2^c = a * s
  <2>1. c - n \in Nat /\ (c - n) + n = c BY <1>1
  <2>2. (c - n) + n <= MaxPower BY <1>1 DEF MaxPower
  <2> QED BY <1>1, <2>1, <2>2, Powers DEF Span
<1> HIDE DEF a, s
<1>3. q \in Int /\ dest * 2^c = q * s BY <1>1, <1>2
<1> HIDE DEF q
<1>4. zero \in 0..(s - 1) /\ zero \in Int /\ q * s + zero = q * s BY <1>1, <1>3
<1> HIDE DEF zero
<1>5. (q * s + zero) % s = zero BY <1>1, <1>3, <1>4, Division
<1>6. (dest * 2^c) % s = 0 BY <1>3, <1>4, <1>5 DEF zero
<1>7. Low(dest * 2^c, n) = 0 BY <1>6 DEF Low, s
<1>8. 0 \div 2^(n - 1) = 0
  <2>1. 2^(n - 1) \in Nat \ {0} BY Widths
  <2> DEFINE h == 2^(n - 1)
  <2> HIDE DEF h
  <2>2. h \in Nat \ {0} BY <2>1 DEF h
  <2>3. 0 \div h = 0 BY <2>2
  <2> QED BY <2>3 DEF h
<1> QED BY <1>7, <1>8 DEF Top

\* Beyond the size a power of two is no less than the span.
LEMMA HighPower ==
  ASSUME NEW n \in Sizes, NEW c \in n..(n + MaxCount)
  PROVE  2^c \in Nat \ {0} /\ 2^c >= Span(n)
<1> DEFINE a == 2^(c - n)
           s == Span(n)
<1>1. n \in Nat /\ MaxCount \in Nat /\ n <= Word /\ Word \in Nat /\ s \in Nat \ {0} BY Widths
<1>2. a \in Nat \ {0} /\ 2^c = a * s
  <2>1. c - n \in Nat /\ (c - n) + n = c BY <1>1
  <2>2. (c - n) + n <= MaxPower BY <1>1 DEF MaxPower
  <2> QED BY <1>1, <2>1, <2>2, Powers DEF Span
<1> HIDE DEF a, s
<1>3. a * s >= s /\ a * s \in Nat \ {0} BY <1>1, <1>2
<1> QED BY <1>2, <1>3 DEF s

LEMMA ShlKeeps ==
  ASSUME eflags \in Flags, NEW n \in Sizes, NEW count \in 0..MaxCount, NEW dest \in Values(n), Shl(n, count, dest)
  PROVE  OpIInv'
<1> DEFINE g == OFIfOne(eflags, count, Flag(Bit(dest, n - 1) # Bit(dest, n - 2)))
           r == Low(Low(dest, n) * 2^count, n)
<1>1. /\ n \in Nat \ {0} /\ MaxCount \in Nat /\ Span(n) \in Nat \ {0} BY Widths
<1>2. dest \in Int /\ Low(dest, n) = dest
  <2>1. dest \in 0..(Span(n) - 1) BY <1>1 DEF Values
  <2> QED BY <1>1, <2>1, Lows
<1>3. g \in Flags BY FlagsAreBits, OFIfOneKeeps
<1>4. PICK out \in AluShl(eflags, count, dest, n) : Done(out.flags, "shl", n, count, dest, out.res, 0) BY DEF Shl
<1>5. /\ count > n => out = AllOut(g, 0, n)
      /\ ~(count > n) => \E cf \in OutLeft(count, dest, n) : out = Shifted(g, r, cf, n)
  BY <1>4 DEF AluShl
<1> HIDE DEF g, r
<1>6. r = Low(dest * 2^count, n) /\ r \in Values(n)
  <2>1. 2^count \in Nat
    <3>1. count \in 0..(n + MaxCount) BY <1>1
    <3> QED BY <3>1, PowersOfBits
  <2> DEFINE x == dest * 2^count
  <2>2. r = Low(x, n) /\ x \in Int BY <1>2, <2>1 DEF r
  <2> HIDE DEF x
  <2>3. r \in Values(n) BY <2>2, SignedLow
  <2> QED BY <2>2, <2>3 DEF x
<1>7. "shl" \in Shifts BY DEF Shifts
<1>8. CASE count > n
  <2>1. count \in 1..MaxCount /\ count \in n..(n + MaxCount) /\ count - 1 \in n..(n + MaxCount) BY <1>1, <1>8
  <2>2. Places("shl", dest, n)[count].r = 0 /\ Places("shl", dest, n)[count].out = 0
    BY <1>2, <2>1, LeftPlaces, LeftGone
  <2>3. 0 * (Span(n) - 1) = 0 /\ 0 \in 0..1 BY <1>1
  <2>4. ShiftLeaves(AllOut(g, 0, n), "shl", n, count, dest) BY <1>3, <2>2, <2>3, AllOutLeaves
  <2>5. ShiftLeaves(out, "shl", n, count, dest) BY <1>5, <1>8, <2>4
  <2> QED BY <1>4, <1>7, <2>5, ShiftKeeps
<1>9. CASE ~(count > n)
  <2>1. PICK cf \in OutLeft(count, dest, n) : out = Shifted(g, r, cf, n) BY <1>5, <1>9
  <2>2. cf \in 0..1 /\ (count > 0 => cf = Top(dest * 2^(count - 1), n))
    <3>1. n - count \in 0..(n + MaxCount) BY <1>1, <1>9
    <3>2. Bit(dest, n - count) \in 0..1 BY <1>2, <3>1, PowersOfBits, BitsAreBits
    <3>3. cf \in 0..1 BY <3>2 DEF OutLeft
    <3>4. ASSUME count > 0 PROVE cf = Top(dest * 2^(count - 1), n)
      <4>1. count # 0 /\ count \in 1..n BY <1>1, <1>9, <3>4
      <4>2. cf = Bit(dest, n - count) BY <4>1 DEF OutLeft
      <4> QED BY <1>2, <4>1, <4>2, LeftOut
    <3> QED BY <3>3, <3>4
  <2>3. count > 0 => r = Places("shl", dest, n)[count].r /\ cf = Places("shl", dest, n)[count].out
    <3> SUFFICES ASSUME count > 0 PROVE r = Places("shl", dest, n)[count].r /\ cf = Places("shl", dest, n)[count].out
      OBVIOUS
    <3>1. count \in 1..MaxCount BY <1>1
    <3> QED BY <1>6, <2>2, <3>1, LeftPlaces
  <2>4. ShiftLeaves(Shifted(g, r, cf, n), "shl", n, count, dest) BY <1>3, <1>6, <2>2, <2>3, ShiftedLeaves
  <2>5. ShiftLeaves(out, "shl", n, count, dest) BY <2>1, <2>4
  <2> QED BY <1>4, <1>7, <2>5, ShiftKeeps
<1> QED BY <1>8, <1>9

LEMMA ShrKeeps ==
  ASSUME eflags \in Flags, NEW n \in Sizes, NEW count \in 0..MaxCount, NEW dest \in Values(n), Shr(n, count, dest)
  PROVE  OpIInv'
<1> DEFINE g == OFIfOne(eflags, count, Top(dest, n))
           r == Low(dest, n) \div 2^count
           p == 2^count
<1>1. /\ n \in Nat \ {0} /\ MaxCount \in Nat /\ Span(n) \in Nat \ {0} BY Widths
<1>2. dest \in Int /\ dest \in 0..(Span(n) - 1) /\ Low(dest, n) = dest
  <2>1. dest \in 0..(Span(n) - 1) BY <1>1 DEF Values
  <2> QED BY <1>1, <2>1, Lows
<1>3. g \in Flags BY <1>2, Tops, OFIfOneKeeps
<1>4. PICK out \in AluShr(eflags, count, dest, n) : Done(out.flags, "shr", n, count, dest, out.res, 0) BY DEF Shr
<1>5. /\ count > n => out = AllOut(g, 0, n)
      /\ ~(count > n) => \E cf \in OutRight(count, dest) : out = Shifted(g, r, cf, n)
  BY <1>4 DEF AluShr
<1> HIDE DEF g
<1>6. r = dest \div p BY <1>2
<1>7. p \in Nat \ {0}
  <2>1. count \in 0..(n + MaxCount) BY <1>1
  <2> QED BY <2>1, PowersOfBits
<1> HIDE DEF r, p
<1>8. r \in Values(n)
  <2> DEFINE s == Span(n)
             m == dest % p
  <2>1. r \in Int /\ m \in 0..(p - 1) /\ dest = r * p + m BY <1>2, <1>6, <1>7, Euclid
  <2>2. s \in Nat \ {0} /\ dest \in 0..(s - 1) BY <1>1, <1>2
  <2> HIDE DEF s, m
  <2>3. r >= 0
    <3> SUFFICES ASSUME r <= -1 PROVE FALSE BY <2>1
    <3>1. r * p <= -p BY <1>7, <2>1
    <3>2. r * p \in Int BY <1>7, <2>1
    <3> QED BY <1>7, <2>1, <2>2, <3>1, <3>2
  <2>4. r * p >= r /\ r * p \in Int BY <1>7, <2>1, <2>3
  <2>5. r \in 0..(s - 1) BY <2>1, <2>2, <2>3, <2>4
  <2> QED BY <2>5 DEF s, Values
<1>9. "shr" \in Shifts BY DEF Shifts
<1>10. CASE count > n
  <2>1. count \in 1..MaxCount /\ count \in n..(n + MaxCount) /\ count - 1 \in n..(n + MaxCount) BY <1>1, <1>10
  <2>2. dest \div 2^count = 0 /\ Bit(dest, count - 1) = 0
    <3>1. \A i \in n..(n + MaxCount) : dest \div 2^i = 0
      <4> SUFFICES ASSUME NEW i \in n..(n + MaxCount) PROVE dest \div 2^i = 0 OBVIOUS
      <4> DEFINE e == 2^i
      <4>1. e \in Nat \ {0} /\ e >= Span(n) BY HighPower
      <4> HIDE DEF e
      <4>2. dest \in -e..(e - 1) /\ ~(dest < 0) BY <1>1, <1>2, <4>1
      <4>3. dest \div e = 0 BY <4>1, <4>2, SmallQuotients
      <4> QED BY <4>3 DEF e
    <3>2. dest \div 2^count = 0 /\ dest \div 2^(count - 1) = 0 BY <2>1, <3>1
    <3>3. 0 % 2 = 0 OBVIOUS
    <3> QED BY <3>2, <3>3 DEF Bit
  <2>3. Places("shr", dest, n)[count].r = 0 /\ Places("shr", dest, n)[count].out = 0
    BY <1>2, <2>1, <2>2, RightPlaces
  <2>4. 0 * (Span(n) - 1) = 0 /\ 0 \in 0..1 BY <1>1
  <2>5. ShiftLeaves(AllOut(g, 0, n), "shr", n, count, dest) BY <1>3, <2>3, <2>4, AllOutLeaves
  <2>6. ShiftLeaves(out, "shr", n, count, dest) BY <1>5, <1>10, <2>5
  <2> QED BY <1>4, <1>9, <2>6, ShiftKeeps
<1>11. CASE ~(count > n)
  <2>1. PICK cf \in OutRight(count, dest) : out = Shifted(g, r, cf, n) BY <1>5, <1>11
  <2>2. cf \in 0..1 /\ (count > 0 => cf = Bit(dest, count - 1))
    <3>1. CASE count = 0 BY <3>1 DEF OutRight
    <3>2. CASE count # 0
      <4>1. count - 1 \in 0..(n + MaxCount) BY <1>1, <3>2
      <4>2. Bit(dest, count - 1) \in 0..1 BY <1>2, <4>1, PowersOfBits, BitsAreBits
      <4> QED BY <3>2, <4>2 DEF OutRight
    <3> QED BY <3>1, <3>2
  <2>3. count > 0 => r = Places("shr", dest, n)[count].r /\ cf = Places("shr", dest, n)[count].out
    <3> SUFFICES ASSUME count > 0 PROVE r = Places("shr", dest, n)[count].r /\ cf = Places("shr", dest, n)[count].out
      OBVIOUS
    <3>1. count \in 1..MaxCount BY <1>1
    <3> QED BY <1>2, <1>6, <2>2, <3>1, RightPlaces DEF p
  <2>4. ShiftLeaves(Shifted(g, r, cf, n), "shr", n, count, dest) BY <1>3, <1>8, <2>2, <2>3, ShiftedLeaves
  <2>5. ShiftLeaves(out, "shr", n, count, dest) BY <2>1, <2>4
  <2> QED BY <1>4, <1>9, <2>5, ShiftKeeps
<1> QED BY <1>10, <1>11

\* The bit that sar moves out is the same of a number and of the integer that it stands for.
LEMMA SignedOut ==
  ASSUME NEW n \in Sizes, NEW dest \in Values(n), NEW c \in 1..n
  PROVE  Bit(dest, c - 1) = Bit(Signed(dest, n), c - 1)
<1> DEFINE p == 2^(c - 1)
           e == 2^(n - c)
           h == 2^(n - 1)
           s == Span(n)
           v == Signed(dest, n)
           q == v \div p
           r == v % p
<1>1. n \in Nat /\ MaxCount \in Nat /\ h \in Nat \ {0} /\ s = 2 * h /\ s \in Nat \ {0} /\ n <= Word /\ Word \in Nat
  BY Widths
<1>2. p \in Nat \ {0} /\ e \in Nat \ {0} /\ h = p * e
  <2>1. c - 1 \in Nat /\ n - c \in Nat /\ (c - 1) + (n - c) = n - 1 BY <1>1
  <2>2. (c - 1) + (n - c) <= MaxPower BY <1>1 DEF MaxPower
  <2> QED BY <2>1, <2>2, Powers
<1>3. dest \in Int /\ (dest = IF v < 0 THEN v + s ELSE v) /\ v \in -h..(h - 1)
  <2>1. dest \in 0..(s - 1) BY DEF Values
  <2>2. dest \in Int BY <1>1, <2>1
  <2>3. Low(dest, n) = dest BY <2>1, <2>2, Lows
  <2> QED BY <2>2, <2>3, Signs
<1>4. Bit(dest, c - 1) = (dest \div p) % 2 /\ Bit(v, c - 1) = q % 2 BY DEF Bit
<1> HIDE DEF p, e, h, s, v
<1>5. v \in Int BY <1>1, <1>3
<1>6. q \in Int /\ r \in 0..(p - 1) /\ v = q * p + r BY <1>2, <1>5, Euclid
<1> HIDE DEF q, r
<1>7. (dest \div p) % 2 = q % 2
  <2>1. CASE v < 0
    <3> DEFINE y == e * 2 + q
    <3>1. y \in Int BY <1>2, <1>6
    <3>2. dest = y * p + r
      <4>1. dest = (q * p + r) + 2 * (p * e) BY <1>1, <1>2, <1>3, <1>6, <2>1
      <4>2. (e * 2 + q) * p = 2 * (p * e) + q * p BY <1>2, <1>6
      <4> DEFINE qp == q * p
                 pe == p * e
                 yp == y * p
      <4>3. qp \in Int /\ pe \in Int /\ yp = 2 * pe + qp /\ dest = (qp + r) + 2 * pe BY <1>2, <1>6, <4>1, <4>2
      <4> HIDE DEF qp, pe, yp, y
      <4>4. dest = yp + r BY <1>2, <1>6, <4>3
      <4> QED BY <4>4 DEF yp
    <3>3. y % 2 = q % 2
      <4> DEFINE two == 2
      <4>1. two \in Nat \ {0} /\ e \in Int BY <1>2
      <4> HIDE DEF two
      <4>2. (e * two + q) % two = q % two BY <1>6, <4>1, Shifting
      <4> QED BY <4>2 DEF two
    <3> HIDE DEF y
    <3>4. (y * p + r) \div p = y BY <1>2, <1>6, <3>1, Division
    <3> QED BY <3>2, <3>3, <3>4
  <2>2. CASE ~(v < 0)
    <3>1. dest = q * p + r BY <1>3, <1>6, <2>2
    <3>2. (q * p + r) \div p = q BY <1>2, <1>6, Division
    <3> QED BY <3>1, <3>2
  <2> QED BY <2>1, <2>2
<1> QED BY <1>4, <1>7 DEF v

LEMMA SarKeeps ==
  ASSUME eflags \in Flags, NEW n \in Sizes, NEW count \in 0..MaxCount, NEW dest \in Values(n), Sar(n, count, dest)
  PROVE  OpIInv'
<1> DEFINE g == OFIfOne(eflags, count, 0)
           h == 2^(n - 1)
           s == Span(n)
           v == Signed(dest, n)
           t == Top(dest, n)
           r == Low(v \div 2^count, n)
           wild == IF count = 0 /\ n = Word /\ t = 1 THEN {s - 1} ELSE {}
<1>1. /\ n \in Nat \ {0} /\ MaxCount \in Nat /\ h \in Nat \ {0} /\ s = 2 * h /\ s \in Nat \ {0} BY Widths
<1>2. dest \in Int
  <2>1. dest \in 0..(s - 1) BY DEF Values
  <2> QED BY <1>1, <2>1
<1>3. g \in Flags
  <2>1. 0 \in 0..1 OBVIOUS
  <2> QED BY <2>1, OFIfOneKeeps
<1>4. PICK out \in AluSar(eflags, count, dest, n) : Done(out.flags, "sar", n, count, dest, out.res, 0) BY DEF Sar
<1>5. /\ count > n => out = AllOut(g, t, n)
      /\ ~(count > n) => \E z \in {r} \cup wild, cf \in OutRight(count, dest) : out = Shifted(g, z, cf, n)
  BY <1>4 DEF AluSar
<1>6. t \in 0..1 /\ (t = 1 <=> v < 0) /\ v \in -h..(h - 1) BY <1>2, Signs
<1> HIDE DEF g, v, t
<1>7. v \in Int
  <2> HIDE DEF h
  <2> QED BY <1>1, <1>6
<1>8. r \in Values(n)
  <2>1. 2^count \in Nat \ {0}
    <3>1. count \in 0..(n + MaxCount) BY <1>1
    <3> QED BY <3>1, PowersOfBits
  <2> DEFINE x == v \div 2^count
  <2>2. x \in Int
    <3> DEFINE p == 2^count
    <3>1. p \in Nat \ {0} BY <2>1
    <3> HIDE DEF p
    <3>2. v \div p \in Int BY <1>7, <3>1, Euclid
    <3> QED BY <3>2 DEF p
  <2> HIDE DEF x
  <2>3. Low(x, n) \in Values(n) BY <2>2, SignedLow
  <2> QED BY <2>3 DEF x
<1>9. \A z \in {r} \cup wild : z \in Values(n) /\ (count > 0 => z = r)
  <2>1. s - 1 \in Values(n)
    <3> HIDE DEF h, s
    <3>1. s - 1 \in 0..(s - 1) BY <1>1
    <3> QED BY <3>1 DEF Values, s
  <2> QED BY <1>8, <2>1
<1> HIDE DEF r, wild
<1>10. "sar" \in Shifts BY DEF Shifts
<1>11. CASE count > n
  <2>1. count \in 1..MaxCount /\ count \in n..(n + MaxCount) /\ count - 1 \in n..(n + MaxCount) BY <1>1, <1>11
  <2> DEFINE m == IF v < 0 THEN -1 ELSE 0
  <2>2. \A i \in n..(n + MaxCount) : v \div 2^i = m
    <3> SUFFICES ASSUME NEW i \in n..(n + MaxCount) PROVE v \div 2^i = m OBVIOUS
    <3> DEFINE e == 2^i
    <3>1. e \in Nat \ {0} /\ e >= s BY HighPower
    <3> HIDE DEF e, s, h
    <3>2. v \in -e..(e - 1) BY <1>1, <1>6, <1>7, <3>1
    <3>3. v \div e = m BY <3>1, <3>2, SmallQuotients
    <3> QED BY <3>3 DEF e
  <2>3. v \div 2^count = m /\ v \div 2^(count - 1) = m BY <2>1, <2>2
  <2>4. Bit(v, count - 1) = t
    <3>1. m % 2 = t BY <1>6, <1>7
    <3> QED BY <2>3, <3>1 DEF Bit
  <2>5. Low(m, n) = t * (s - 1)
    <3>1. m \in Int /\ m \in -h..(h - 1)
      <4> HIDE DEF h
      <4> QED BY <1>1
    <3> HIDE DEF m
    <3>2. Signed(m, n) = m BY <3>1, Signs
    <3>3. Low(m, n) = IF m < 0 THEN m + s ELSE m BY <3>1, <3>2, Signs
    <3> HIDE DEF h, s
    <3>4. CASE v < 0
      <4>1. m = -1 /\ t = 1 BY <1>6, <3>4 DEF m
      <4> QED BY <1>1, <3>3, <4>1
    <3>5. CASE ~(v < 0)
      <4>1. m = 0 /\ t = 0 BY <1>6, <3>5 DEF m
      <4> QED BY <1>1, <3>3, <4>1
    <3> QED BY <3>4, <3>5
  <2>6. Places("sar", dest, n)[count].r = t * (s - 1) /\ Places("sar", dest, n)[count].out = t
    BY <2>1, <2>3, <2>4, <2>5, SignedPlaces DEF v
  <2>7. ShiftLeaves(AllOut(g, t, n), "sar", n, count, dest) BY <1>3, <1>6, <2>6, AllOutLeaves
  <2>8. ShiftLeaves(out, "sar", n, count, dest) BY <1>5, <1>11, <2>7
  <2> QED BY <1>4, <1>10, <2>8, ShiftKeeps
<1>12. CASE ~(count > n)
  <2>1. PICK z \in {r} \cup wild, cf \in OutRight(count, dest) : out = Shifted(g, z, cf, n) BY <1>5, <1>12
  <2>2. cf \in 0..1 /\ (count > 0 => cf = Bit(v, count - 1))
    <3>1. CASE count = 0 BY <3>1 DEF OutRight
    <3>2. CASE count # 0
      <4>1. count - 1 \in 0..(n + MaxCount) /\ count \in 1..n BY <1>1, <1>12, <3>2
      <4>2. Bit(dest, count - 1) \in 0..1 BY <1>2, <4>1, PowersOfBits, BitsAreBits
      <4>3. Bit(dest, count - 1) = Bit(v, count - 1) BY <4>1, SignedOut DEF v
      <4> QED BY <3>2, <4>2, <4>3 DEF OutRight
    <3> QED BY <3>1, <3>2
  <2>3. count > 0 => z = Places("sar", dest, n)[count].r /\ cf = Places("sar", dest, n)[count].out
    <3> SUFFICES ASSUME count > 0 PROVE z = Places("sar", dest, n)[count].r /\ cf = Places("sar", dest, n)[count].out
      OBVIOUS
    <3>1. count \in 1..MaxCount BY <1>1
    <3>2. z = r BY <1>9, <2>1
    <3> QED BY <2>2, <3>1, <3>2, SignedPlaces DEF r, v
  <2>4. z \in Values(n) BY <1>9, <2>1
  <2>5. ShiftLeaves(Shifted(g, z, cf, n), "sar", n, count, dest) BY <1>3, <2>2, <2>3, <2>4, ShiftedLeaves
  <2>6. ShiftLeaves(out, "sar", n, count, dest) BY <2>1, <2>5
  <2> QED BY <1>4, <1>10, <2>6, ShiftKeeps
<1> QED BY <1>11, <1>12

----------------------------------------------------------------------------
(* Every step of Operate.                                                    *)

\* An instruction of floats writes flags that are bits, and no integer.
LEMMA FloatKeeps ==
  ASSUME NEW f \in Flags, NEW op \in FloatOps, NEW src, NEW dest, NEW lo,
         Done(f, op, FloatBits, src, dest, lo, 0)
  PROVE  OpIInv'
<1>1. eflags' = f /\ last'.op = op /\ last'.n = FloatBits BY Leaves
<1>2. OpTypeOK' BY <1>1 DEF OpTypeOK
<1> QED BY <1>1, <1>2, OfFloat

LEMMA FloatingPointKeeps ==
  ASSUME eflags \in Flags, FloatingPoint
  PROVE  OpIInv'
<1>1. PICK src \in Floats, dest \in Floats :
        Fadds(src, dest) \/ Fsubs(src, dest) \/ Fmuls(src, dest) \/ Fdivs(src, dest)
          \/ Fucomi(src, dest) \/ FucomSahf(src, dest)
  BY DEF FloatingPoint
<1>2. C0(dest, src) \in 0..1 /\ C3(dest, src) \in 0..1 BY DEF C0, C3
<1>3. CASE Fadds(src, dest) BY <1>3, FloatKeeps DEF Fadds, FloatOps
<1>4. CASE Fsubs(src, dest) BY <1>4, FloatKeeps DEF Fsubs, FloatOps
<1>5. CASE Fmuls(src, dest) BY <1>5, FloatKeeps DEF Fmuls, FloatOps
<1>6. CASE Fdivs(src, dest) BY <1>6, FloatKeeps DEF Fdivs, FloatOps
<1>7. CASE Fucomi(src, dest)
  <2> DEFINE a == C0(dest, src)
             b == C3(dest, src)
             f == [eflags EXCEPT !.CF = a, !.PF = 0, !.ZF = b]
  <2>1. Done(f, "fucomi", FloatBits, src, dest, dest, 0) BY <1>7 DEF Fucomi
  <2> HIDE DEF a, b
  <2>2. f \in Flags
    <3>1. f = [eflags EXCEPT !.CF = a, !.PF = 0, !.ZF = b] OBVIOUS
    <3> HIDE DEF f
    <3>2. f = [CF |-> a, PF |-> 0, ZF |-> b, SF |-> eflags.SF, OF |-> eflags.OF] BY <3>1 DEF Flags
    <3>3. eflags.SF \in 0..1 /\ eflags.OF \in 0..1 /\ 0 \in 0..1 /\ a \in 0..1 /\ b \in 0..1 BY <1>2 DEF Flags, a, b
    <3> QED BY <3>2, <3>3 DEF Flags
  <2> HIDE DEF f
  <2> QED BY <2>1, <2>2, FloatKeeps DEF FloatOps
<1>8. CASE FucomSahf(src, dest)
  <2>1. PICK top \in 0..7 :
          Done(Sahf(StatusHigh(dest, src, top)), "fucom sahf", FloatBits, src, dest, dest, 0)
    BY <1>8 DEF FucomSahf
  <2> DEFINE ah == StatusHigh(dest, src, top)
  <2>2. ah \in Int BY <1>2 DEF StatusHigh
  <2> HIDE DEF ah
  <2>3. Bit(ah, 0) \in 0..1 /\ Bit(ah, 2) \in 0..1 /\ Bit(ah, 6) \in 0..1 /\ Bit(ah, 7) \in 0..1
    <3>1. 2^0 \in Nat \ {0} /\ 2^2 \in Nat \ {0} /\ 2^6 \in Nat \ {0} /\ 2^7 \in Nat \ {0} OBVIOUS
    <3> QED BY <2>2, <3>1, BitsAreBits
  <2>4. Sahf(ah) \in Flags
    <3>1. 0 \in 0..1 OBVIOUS
    <3> QED BY <2>3, <3>1 DEF Sahf, Flags
  <2> QED BY <2>1, <2>4, FloatKeeps DEF FloatOps, ah
<1> QED BY <1>1, <1>3, <1>4, <1>5, <1>6, <1>7, <1>8

LEMMA ExecuteKeeps ==
  ASSUME eflags \in Flags, Execute
  PROVE  OpIInv'
<1>1. PICK ds \in DataSizes, form \in Forms : \E dest \in Values(DestSize(form, ds)) :
        \/ \E src \in Values(SrcSize(form, ds)) :
             \/ And(ds, form, src, dest)
             \/ Or(ds, form, src, dest)
             \/ Xor(ds, form, src, dest)
             \/ form # "bv" /\ Test(ds, form, src, dest)
             \/ form # "bv" /\ Mul(DestSize(form, ds), src, dest)
             \/ Imul(DestSize(form, ds), IF form = "bv" THEN SignExt(src, Byte) ELSE src, dest)
             \/ form = "v" /\ CltdIdiv(ds, src, dest)
        \/ \E count \in 0..MaxCount :
             \/ Shl(DestSize(form, ds), count, dest)
             \/ Shr(DestSize(form, ds), count, dest)
             \/ Sar(DestSize(form, ds), count, dest)
  BY DEF Execute
<1>2. PICK dest \in Values(DestSize(form, ds)) :
        \/ \E src \in Values(SrcSize(form, ds)) :
             \/ And(ds, form, src, dest)
             \/ Or(ds, form, src, dest)
             \/ Xor(ds, form, src, dest)
             \/ form # "bv" /\ Test(ds, form, src, dest)
             \/ form # "bv" /\ Mul(DestSize(form, ds), src, dest)
             \/ Imul(DestSize(form, ds), IF form = "bv" THEN SignExt(src, Byte) ELSE src, dest)
             \/ form = "v" /\ CltdIdiv(ds, src, dest)
        \/ \E count \in 0..MaxCount :
             \/ Shl(DestSize(form, ds), count, dest)
             \/ Shr(DestSize(form, ds), count, dest)
             \/ Sar(DestSize(form, ds), count, dest)
  BY <1>1
<1> DEFINE n == DestSize(form, ds)
<1>3. n \in Sizes BY FormSizes
<1>4. ASSUME NEW src \in Values(SrcSize(form, ds)),
             \/ And(ds, form, src, dest)
             \/ Or(ds, form, src, dest)
             \/ Xor(ds, form, src, dest)
             \/ form # "bv" /\ Test(ds, form, src, dest)
             \/ form # "bv" /\ Mul(n, src, dest)
             \/ Imul(n, IF form = "bv" THEN SignExt(src, Byte) ELSE src, dest)
             \/ form = "v" /\ CltdIdiv(ds, src, dest)
      PROVE  OpIInv'
  <2>1. CASE And(ds, form, src, dest) BY <2>1, AndKeeps
  <2>2. CASE Or(ds, form, src, dest) BY <2>2, OrKeeps
  <2>3. CASE Xor(ds, form, src, dest) BY <2>3, XorKeeps
  <2>4. CASE form # "bv" /\ Test(ds, form, src, dest) BY <2>4, TestKeeps
  <2>5. CASE form # "bv" /\ Mul(n, src, dest)
    <3>1. SrcSize(form, ds) = n BY <2>5 DEF SrcSize, DestSize, Forms
    <3> QED BY <1>3, <2>5, <3>1, MulKeeps
  <2>6. CASE Imul(n, IF form = "bv" THEN SignExt(src, Byte) ELSE src, dest)
    <3> DEFINE x == IF form = "bv" THEN SignExt(src, Byte) ELSE src
    <3>1. src \in Int /\ dest \in Int
      <4>1. SrcSize(form, ds) \in Sizes BY FormSizes
      <4>2. Span(SrcSize(form, ds)) \in Int /\ Span(n) \in Int BY <1>3, <4>1, Widths
      <4> QED BY <4>2 DEF Values
    <3>2. SignExt(src, Byte) \in Int
      <4>1. Byte \in Sizes BY DEF Sizes
      <4>2. 2^(Byte - 1) \in Nat /\ Signed(src, Byte) \in -(2^(Byte - 1))..(2^(Byte - 1) - 1)
        BY <3>1, <4>1, Widths, Signs
      <4> QED BY <4>2 DEF SignExt
    <3>3. x \in Int BY <3>1, <3>2
    <3> HIDE DEF x, n
    <3>4. Imul(n, x, dest) BY <2>6 DEF x
    <3> QED BY <1>3, <3>1, <3>3, <3>4, ImulKeeps
  <2>7. CASE form = "v" /\ CltdIdiv(ds, src, dest)
    <3>1. SrcSize(form, ds) = ds /\ n = ds BY <2>7 DEF SrcSize, DestSize
    <3> QED BY <2>7, <3>1, CltdIdivKeeps
  <2> QED BY <1>4, <2>1, <2>2, <2>3, <2>4, <2>5, <2>6, <2>7
<1>5. ASSUME NEW count \in 0..MaxCount, Shl(n, count, dest) \/ Shr(n, count, dest) \/ Sar(n, count, dest)
      PROVE  OpIInv'
  <2>1. CASE Shl(n, count, dest) BY <1>3, <2>1, ShlKeeps
  <2>2. CASE Shr(n, count, dest) BY <1>3, <2>2, ShrKeeps
  <2>3. CASE Sar(n, count, dest) BY <1>3, <2>3, SarKeeps
  <2> QED BY <1>5, <2>1, <2>2, <2>3
<1> HIDE DEF n
<1> QED BY <1>2, <1>4, <1>5 DEF n

LEMMA DivideKeeps ==
  ASSUME eflags \in Flags, Divide
  PROVE  OpIInv'
<1>1. PICK n \in Sizes : \E src \in Values(n), dest \in Values(2 * n) : Div(n, src, dest) \/ Idiv("idiv", n, src, dest)
  BY DEF Divide, Sizes
<1>2. PICK src \in Values(n), dest \in Values(2 * n) : Div(n, src, dest) \/ Idiv("idiv", n, src, dest) BY <1>1
<1>3. dest \in Int
  <2>1. Span(n) \in Nat /\ Span(2 * n) = Span(n) * Span(n) BY Widths
  <2>2. Span(2 * n) \in Int BY <2>1
  <2> QED BY <2>2 DEF Values
<1>4. CASE Div(n, src, dest) BY <1>4, DivKeeps
<1>5. CASE Idiv("idiv", n, src, dest) BY <1>3, <1>5, IdivKeeps
<1> QED BY <1>2, <1>4, <1>5

LEMMA IdleHolds ==
  ASSUME NEW f \in Flags, eflags = f, last = Idle
  PROVE  OpIInv
<1>1. Byte \in Sizes /\ 0 \in Values(Byte) BY ZeroFits DEF Sizes
<1>2. last.op = "none" /\ last.n = Byte /\ last.lo = 0 /\ last.hi = 0 BY DEF Idle
<1>3. OpTypeOK BY <1>1, <1>2 DEF OpTypeOK, FloatOps
<1> QED BY <1>2, <1>3 DEF OpIInv, BitsExact, SignDecided, ShiftExact, ProductExact, QuotientExact, Shifts, Logics

LEMMA RetireKeeps ==
  ASSUME eflags \in Flags, Retire
  PROVE  OpIInv'
<1>1. eflags' = eflags /\ last' = Idle BY DEF Retire
<1>2. Byte \in Sizes /\ 0 \in Values(Byte) BY ZeroFits DEF Sizes
<1>3. last'.op = "none" /\ last'.n = Byte /\ last'.lo = 0 /\ last'.hi = 0 BY <1>1 DEF Idle
<1>4. OpTypeOK' BY <1>1, <1>2, <1>3 DEF OpTypeOK, FloatOps
<1> QED BY <1>3, <1>4 DEF OpIInv, BitsExact, SignDecided, ShiftExact, ProductExact, QuotientExact, Shifts, Logics

\* Whatever the machine has executed, each instruction leaves what it should, from any EFLAGS,
\* at every width, and however far it shifts.
THEOREM OpInvariance == OpSpec => []OpIInv
<1>1. OpInit => OpIInv
  <2> SUFFICES ASSUME OpInit PROVE OpIInv OBVIOUS
  <2>1. eflags \in Flags /\ last = Idle BY DEF OpInit, NoFlags, Flags
  <2> QED BY <2>1, IdleHolds
<1>2. OpIInv /\ [OpNext]_opVars => OpIInv'
  <2> SUFFICES ASSUME OpIInv, [OpNext]_opVars PROVE OpIInv' OBVIOUS
  <2>1. eflags \in Flags BY DEF OpIInv, BitsExact, OpTypeOK
  <2>2. CASE Execute BY <2>1, <2>2, ExecuteKeeps
  <2>3. CASE Divide BY <2>1, <2>3, DivideKeeps
  <2>4. CASE FloatingPoint BY <2>1, <2>4, FloatingPointKeeps
  <2>5. CASE Retire BY <2>1, <2>5, RetireKeeps
  <2>6. CASE UNCHANGED opVars
    <3>1. eflags' = eflags /\ last' = last BY <2>6 DEF opVars
    <3>2. OpTypeOK' = OpTypeOK BY <3>1 DEF OpTypeOK
    <3>3. SignDecided' = SignDecided BY <3>1 DEF SignDecided
    <3>4. ShiftExact' = ShiftExact BY <3>1 DEF ShiftExact
    <3>5. ProductExact' = ProductExact BY <3>1 DEF ProductExact
    <3>6. QuotientExact' = QuotientExact BY <3>1 DEF QuotientExact
    <3> QED BY <3>2, <3>3, <3>4, <3>5, <3>6 DEF OpIInv, BitsExact
  <2> QED BY <2>2, <2>3, <2>4, <2>5, <2>6 DEF OpNext
<1> QED BY <1>1, <1>2, PTL DEF OpSpec

\* and, or, xor, test and the shifts leave numbers of their size, and flags by which the branches
\* compare the value with 0; a shift by some places is that many shifts by one, also past the size
\* of the operand, where alu.c takes a path of its own.
THEOREM Bits == OpSpec => []BitsExact
<1>1. OpIInv => BitsExact BY DEF OpIInv
<1> QED BY <1>1, OpInvariance, PTL

\* The two halves that mul and imul leave are the product, and CF and OF say whether the low half
\* is enough.
THEOREM Products == OpSpec => []ProductExact
<1>1. OpIInv => ProductExact BY DEF OpIInv
<1> QED BY <1>1, OpInvariance, PTL

\* div and idiv, and C's division of two ints, compiled to cltd and idiv, leave the quotient and
\* the remainder, with the sign of the dividend, wherever the quotient fits.
THEOREM Dividing == OpSpec => []QuotientExact
<1>1. OpIInv => QuotientExact BY DEF OpIInv
<1> QED BY <1>1, OpInvariance, PTL

----------------------------------------------------------------------------
(* Floats.  Powers of two: 2^k, by recursion.                                *)

\* Powers of two, also those that only the proofs speak of.
Far == 4 * (EB + Long + MaxExp) + 8
Pow == CHOOSE f : Computes(f, Far, Nat, 1, [k \in 1..Far |-> [x \in Nat |-> 2 * x]])

\* Bounds on the sizes of a float, from the assumptions of Fpu.
LEMMA FloatSizes ==
  /\ EB \in Nat /\ EB >= 2 /\ FB \in Nat /\ FB >= 4 /\ Long \in Nat /\ Long >= 2 * FB + 6
  /\ MaxExp \in Int /\ 2^EB \in Nat
  /\ MaxExp >= 3 /\ MaxExp = 2 * Bias + 1 /\ Bias \in Nat /\ Bias >= 1
  /\ FloatPower \in Nat /\ Far \in Nat /\ Far = 4 * FloatPower + 8
<1>1. /\ EB \in Nat /\ EB >= 2 /\ FB \in Nat /\ FB >= 4 /\ Long \in Nat /\ Long >= 2 * FB + 6
  BY FpuAssumption
<1>2. 2^EB \in Nat BY FloatPowersAssumption DEF FloatPowersAssumption
<1>3. \A i \in 0..FloatPower : 2^i \in Nat /\ (i > 0 => 2^i = 2 * 2^(i - 1))
  BY FloatPowersAssumption DEF FloatPowersAssumption
<1> DEFINE e == 2^EB
           b == 2^(EB - 1)
           c == 2^(EB - 2)
<1>4. MaxExp = e - 1 /\ Bias = b - 1 BY DEF MaxExp, Bias
<1>5. e \in Nat BY <1>2
<1> HIDE DEF e
<1>6. FloatPower = EB + Long + (e - 1) BY <1>4 DEF FloatPower
<1>7. EB - 1 \in 0..FloatPower /\ EB \in 0..FloatPower /\ EB - 1 > 0 /\ (EB - 1) - 1 = EB - 2 /\ EB - 2 \in 0..FloatPower BY <1>1, <1>5, <1>6
<1>8. e = 2 * b /\ b \in Nat BY <1>1, <1>3, <1>7 DEF e
<1>9. 2^(EB - 1) = 2 * 2^((EB - 1) - 1) BY <1>3, <1>7
<1>10. b = 2 * c /\ c \in Nat BY <1>3, <1>7, <1>9
<1>11. c # 0
  <2> DEFINE T == {k \in 0..FloatPower : 2^k # 0}
  <2>1. FloatPower \in Nat BY <1>1, <1>5, <1>6, <1>8, <1>10
  <2>2. 0 \in T BY <2>1
  <2>3. ASSUME NEW k \in 1..FloatPower, k - 1 \in T PROVE k \in T
    <3>1. 2^k = 2 * 2^(k - 1) /\ 2^(k - 1) \in Nat
      <4>1. k \in 0..FloatPower /\ k > 0 /\ k - 1 \in 0..FloatPower BY <2>1
      <4> QED BY <1>3, <4>1
    <3>2. 2^(k - 1) # 0 BY <2>3
    <3> DEFINE u == 2^(k - 1)
               v == 2^k
    <3>3. v = 2 * u /\ u \in Nat /\ u # 0 BY <3>1, <3>2
    <3> HIDE DEF u, v
    <3>4. v # 0 BY <3>3
    <3> QED BY <2>1, <3>4 DEF v
  <2>4. \A k \in 0..FloatPower : k \in T
    <3> HIDE DEF T
    <3> QED BY <2>1, <2>2, <2>3, Reached
  <2> QED BY <1>7, <2>4
<1> HIDE DEF b, c
<1>12. b >= 2 /\ e >= 4 BY <1>8, <1>10, <1>11
<1>13. /\ MaxExp \in Int /\ MaxExp >= 3 /\ MaxExp = 2 * Bias + 1 /\ Bias \in Nat /\ Bias >= 1
  BY <1>4, <1>5, <1>8, <1>10, <1>12
<1> QED BY <1>1, <1>2, <1>13 DEF FloatPower, Far

\* Pow exists: it is defined by recursion up to Far.
LEMMA PowIs ==
  /\ Pow \in [0..Far -> Nat] /\ Pow[0] = 1
  /\ \A k \in 1..Far : Pow[k] = 2 * Pow[k - 1]
<1> DEFINE G == [k \in 1..Far |-> [x \in Nat |-> 2 * x]]
<1>1. G \in [1..Far -> [Nat -> Nat]] OBVIOUS
<1>2. Far \in Nat /\ 1 \in Nat BY FloatSizes
<1>3. Pow = CHOOSE f : Computes(f, Far, Nat, 1, G) BY DEF Pow
<1> HIDE DEF G
<1>4. \E f : Computes(f, Far, Nat, 1, G) BY <1>1, <1>2, Recursion
<1>5. Computes(Pow, Far, Nat, 1, G) BY <1>3, <1>4
<1>6. Pow \in [0..Far -> Nat] /\ Pow[0] = 1 /\ \A k \in 1..Far : Pow[k] = G[k][Pow[k - 1]] BY <1>5 DEF Computes
<1>7. ASSUME NEW k \in 1..Far PROVE Pow[k] = 2 * Pow[k - 1]
  <2>1. k - 1 \in 0..Far BY <1>2
  <2>2. Pow[k - 1] \in Nat BY <1>6, <2>1
  <2> QED BY <1>6, <2>2 DEF G
<1> QED BY <1>6, <1>7

\* A power of two is a positive number, the next one twice that, and they multiply by adding.
LEMMA PowNumber ==
  ASSUME NEW i \in Nat, i <= Far
  PROVE  Pow[i] \in Nat \ {0}
<1> DEFINE T == {k \in 0..Far : Pow[k] # 0}
<1>1. Far \in Nat BY FloatSizes
<1>2. 0 \in T BY <1>1, PowIs
<1>3. ASSUME NEW k \in 1..Far, k - 1 \in T PROVE k \in T
  <2>1. k - 1 \in 0..Far BY <1>1
  <2>2. Pow[k - 1] \in Nat /\ Pow[k - 1] # 0 /\ Pow[k] = 2 * Pow[k - 1] BY <1>3, <2>1, PowIs
  <2>3. Pow[k] # 0 BY <2>2
  <2> QED BY <1>1, <2>3
<1>4. \A k \in 0..Far : k \in T
  <2> HIDE DEF T
  <2> QED BY <1>1, <1>2, <1>3, Reached
<1>5. i \in 0..Far BY <1>1
<1> QED BY <1>4, <1>5, PowIs

LEMMA PowNext ==
  ASSUME NEW i \in Nat, i + 1 <= Far
  PROVE  Pow[i + 1] = 2 * Pow[i]
<1>1. i + 1 \in 1..Far /\ (i + 1) - 1 = i BY FloatSizes
<1> QED BY <1>1, PowIs

LEMMA PowAdd ==
  ASSUME NEW i \in Nat, NEW j \in Nat, i + j <= Far
  PROVE  Pow[i + j] = Pow[i] * Pow[j]
<1> DEFINE N == Far - i
           T == {k \in 0..N : Pow[i + k] = Pow[i] * Pow[k]}
<1>1. Far \in Nat /\ N \in Nat /\ j \in 0..N BY FloatSizes
<1>2. Pow[i] \in Nat BY <1>1, PowNumber
<1>3. 0 \in T
  <2>1. i + 0 = i /\ Pow[0] = 1 BY PowIs
  <2> QED BY <1>1, <1>2, <2>1
<1>4. ASSUME NEW k \in 1..N, k - 1 \in T PROVE k \in T
  <2>1. Pow[i + (k - 1)] = Pow[i] * Pow[k - 1] BY <1>4
  <2>2. Pow[k] = 2 * Pow[k - 1] /\ Pow[k - 1] \in Nat
    <3>1. k - 1 \in Nat /\ k - 1 <= Far /\ (k - 1) + 1 = k /\ (k - 1) + 1 <= Far BY <1>1
    <3> QED BY <3>1, PowNext, PowNumber
  <2>3. Pow[i + k] = 2 * Pow[i + (k - 1)]
    <3>1. i + (k - 1) \in Nat /\ (i + (k - 1)) + 1 = i + k /\ (i + (k - 1)) + 1 <= Far BY <1>1
    <3> QED BY <3>1, PowNext
  <2>4. 2 * (Pow[i] * Pow[k - 1]) = Pow[i] * (2 * Pow[k - 1]) BY <1>2, <2>2
  <2>5. Pow[i + k] = Pow[i] * Pow[k] BY <2>1, <2>2, <2>3, <2>4
  <2> QED BY <1>1, <2>5
<1>5. \A k \in 0..N : k \in T
  <2> HIDE DEF T, N
  <2> QED BY <1>1, <1>3, <1>4, Reached
<1> QED BY <1>1, <1>5

\* Products with a number that is not negative keep an order.
LEMMA Monotone ==
  ASSUME NEW x \in Int, NEW y \in Int, NEW k \in Nat, x <= y
  PROVE  x * k <= y * k /\ x * k \in Int /\ y * k \in Int
<1> DEFINE d == y - x
<1>1. d \in Nat /\ y = x + d OBVIOUS
<1> HIDE DEF d
<1>2. y * k = x * k + d * k /\ d * k \in Nat /\ x * k \in Int BY <1>1
<1> QED BY <1>2

\* Powers of two keep the order of their exponents.
LEMMA PowMonotone ==
  ASSUME NEW i \in Nat, NEW j \in Nat, i <= j, j <= Far
  PROVE  Pow[i] <= Pow[j]
<1> DEFINE d == j - i
<1>1. d \in Nat /\ i + d = j /\ d <= Far /\ i <= Far /\ Far \in Nat BY FloatSizes
<1> HIDE DEF d
<1>2. Pow[j] = Pow[i] * Pow[d] BY <1>1, PowAdd
<1>3. Pow[i] \in Nat \ {0} /\ Pow[d] \in Nat \ {0} BY <1>1, PowNumber
<1> DEFINE x == Pow[i]
           y == Pow[d]
<1>4. x \in Nat /\ y \in Nat /\ 1 <= y BY <1>3
<1> HIDE DEF x, y
<1>5. 1 * x <= y * x BY <1>4, Monotone
<1> QED BY <1>2, <1>4, <1>5 DEF x, y

\* The powers in the code are these.
LEMMA PowTwo ==
  ASSUME NEW i \in Nat, i <= FloatPower
  PROVE  2^i = Pow[i] /\ i <= Far /\ Pow[i] \in Nat \ {0}
<1> DEFINE T == {k \in 0..FloatPower : 2^k = Pow[k]}
<1>1. FloatPower \in Nat /\ FloatPower <= Far /\ Far \in Nat BY FloatSizes
<1>2. 0 \in T
  <2>1. 2^0 = 1 OBVIOUS
  <2> QED BY <1>1, <2>1, PowIs
<1>3. ASSUME NEW k \in 1..FloatPower, k - 1 \in T PROVE k \in T
  <2>1. k \in 0..FloatPower /\ k > 0 BY <1>1
  <2>2. 2^k = 2 * 2^(k - 1) BY <2>1, FloatPowersAssumption DEF FloatPowersAssumption
  <2>3. k \in 1..Far BY <1>1
  <2>4. Pow[k] = 2 * Pow[k - 1] BY <2>3, PowIs
  <2>5. 2^(k - 1) = Pow[k - 1] BY <1>3
  <2> QED BY <2>1, <2>2, <2>4, <2>5
<1>4. \A k \in 0..FloatPower : k \in T
  <2> HIDE DEF T
  <2> QED BY <1>1, <1>2, <1>3, Reached
<1>5. i \in 0..FloatPower /\ i <= Far BY <1>1
<1> QED BY <1>4, <1>5, PowNumber

----------------------------------------------------------------------------
(* A float as numbers: sign, magnitude, exponent, fraction.                  *)

\* The weight of a significand's hidden 1, and the number of exponents.
Hidden == Pow[FB]
Codes == Pow[EB]

\* The widths of a float, as powers.
LEMMA HiddenCodes ==
  /\ Hidden \in Nat /\ Hidden >= 16 /\ Hidden % 2 = 0 /\ 2^FB = Hidden
  /\ Codes \in Nat /\ Codes = MaxExp + 1 /\ Codes >= 4 /\ 2^EB = Codes
  /\ Codes * Hidden \in Nat /\ 2^(EB + FB) = Codes * Hidden
  /\ Span(FloatBits) = 2 * (Codes * Hidden)
  /\ 2^(FB - 1) \in Nat /\ 2 * 2^(FB - 1) = Hidden /\ 2^(FB + 3) = 8 * Hidden
<1>1. /\ FB \in Nat /\ FB >= 4 /\ EB \in Nat /\ FB <= FloatPower /\ EB <= FloatPower
      /\ EB + FB <= FloatPower /\ 1 + EB + FB <= FloatPower /\ FloatPower <= Far
      /\ FB - 1 \in Nat /\ FB - 1 <= FloatPower /\ FB + 3 \in Nat /\ FB + 3 <= FloatPower
      /\ EB + FB \in Nat /\ 1 + EB + FB \in Nat /\ FloatPower \in Nat /\ Far \in Nat
  BY FloatSizes DEF FloatPower
<1>2. 2^FB = Hidden /\ 2^EB = Codes /\ Hidden \in Nat /\ Codes \in Nat BY <1>1, PowTwo DEF Hidden, Codes
<1>3. Codes = MaxExp + 1 /\ Codes >= 4 BY <1>2, FloatSizes DEF MaxExp
<1>4. 2^(EB + FB) = Pow[EB + FB] /\ 2^(1 + EB + FB) = Pow[1 + EB + FB] BY <1>1, PowTwo
<1>5. Pow[EB + FB] = Codes * Hidden BY <1>1, PowAdd DEF Hidden, Codes
<1>6. Pow[(EB + FB) + 1] = 2 * Pow[EB + FB]
  <2>1. (EB + FB) + 1 <= Far BY <1>1
  <2> QED BY <1>1, <2>1, PowNext
<1>7. (EB + FB) + 1 = 1 + EB + FB BY <1>1
<1>8. Pow[FB - 1] \in Nat /\ 2^(FB - 1) = Pow[FB - 1] BY <1>1, PowTwo
<1>9. Pow[(FB - 1) + 1] = 2 * Pow[FB - 1] /\ (FB - 1) + 1 = FB
  <2>1. (FB - 1) + 1 <= Far /\ (FB - 1) + 1 = FB BY <1>1
  <2> QED BY <1>1, <2>1, PowNext
<1>10. Pow[FB + 3] = 8 * Hidden
  <2>1. Pow[3] = 8
    <3>1. 0 + 1 <= Far /\ 1 + 1 <= Far /\ 2 + 1 <= Far /\ 0 \in Nat /\ 1 \in Nat /\ 2 \in Nat BY <1>1
    <3>2. Pow[0 + 1] = 2 * Pow[0] /\ Pow[1 + 1] = 2 * Pow[1] /\ Pow[2 + 1] = 2 * Pow[2] BY <3>1, PowNext
    <3> QED BY <3>2, PowIs
  <2>2. FB + 3 <= Far /\ 3 \in Nat BY <1>1
  <2>3. Pow[FB + 3] = Pow[FB] * Pow[3] BY <1>1, <2>2, PowAdd
  <2> QED BY <1>2, <2>1, <2>3 DEF Hidden
<1>11. Hidden >= 16
  <2>1. Pow[4] = 16
    <3>1. 0 + 1 <= Far /\ 1 + 1 <= Far /\ 2 + 1 <= Far /\ 3 + 1 <= Far /\ 0 \in Nat /\ 1 \in Nat /\ 2 \in Nat /\ 3 \in Nat BY <1>1
    <3>2. Pow[0 + 1] = 2 * Pow[0] /\ Pow[1 + 1] = 2 * Pow[1] /\ Pow[2 + 1] = 2 * Pow[2] /\ Pow[3 + 1] = 2 * Pow[3] BY <3>1, PowNext
    <3> QED BY <3>2, PowIs
  <2>2. 4 \in Nat /\ 4 <= FB /\ FB <= Far BY <1>1
  <2>3. Pow[4] <= Pow[FB] BY <1>1, <2>2, PowMonotone
  <2> QED BY <2>1, <2>3 DEF Hidden
<1>12. Hidden = 2 * Pow[FB - 1] BY <1>9 DEF Hidden
<1>13. Hidden % 2 = 0
  <2> DEFINE x == Pow[FB - 1]
  <2>1. Hidden = 2 * x /\ x \in Nat BY <1>8, <1>12
  <2> HIDE DEF x
  <2> QED BY <2>1
<1>14. 2^(FB + 3) = 8 * Hidden BY <1>1, <1>10, PowTwo
<1>15. Codes * Hidden \in Nat BY <1>2
<1>16. Span(FloatBits) = 2 * (Codes * Hidden) BY <1>4, <1>5, <1>6, <1>7 DEF Span, FloatBits
<1> QED BY <1>2, <1>3, <1>4, <1>5, <1>8, <1>11, <1>12, <1>13, <1>14, <1>15, <1>16

\* A product below another.
LEMMA ProductBelow ==
  ASSUME NEW e \in Nat, NEW c \in Nat, NEW h \in Nat, NEW f \in Nat, e < c, f < h
  PROVE  e * h + f < c * h /\ e * h + f \in Nat /\ e * h \in Nat
<1>1. e + 1 \in Int /\ e + 1 <= c /\ c \in Int BY SMT
<1>2. (e + 1) * h <= c * h /\ c * h \in Int BY <1>1, Monotone
<1>3. (e + 1) * h = e * h + h /\ e * h \in Nat BY SMT
<1> QED BY <1>2, <1>3

\* A float is a sign and a magnitude, a magnitude an exponent and a fraction.
LEMMA Magnitudes ==
  ASSUME NEW e \in 0..MaxExp, NEW f \in 0..(Hidden - 1)
  PROVE  /\ e * Hidden + f \in 0..(Codes * Hidden - 1)
         /\ (e * Hidden + f) \div Hidden = e
         /\ (e * Hidden + f) % Hidden = f
<1>1. Hidden \in Nat /\ Hidden >= 16 /\ Codes \in Nat /\ Codes = MaxExp + 1 /\ MaxExp \in Int BY HiddenCodes, FloatSizes
<1>2. e \in Nat /\ f \in Nat /\ e < Codes /\ f < Hidden /\ e \in Int /\ Hidden \in Nat \ {0} BY <1>1
<1>3. e * Hidden + f < Codes * Hidden /\ e * Hidden + f \in Nat BY <1>1, <1>2, ProductBelow
<1>4. Codes * Hidden \in Nat BY HiddenCodes
<1>5. (e * Hidden + f) \div Hidden = e /\ (e * Hidden + f) % Hidden = f BY <1>2, Division
<1> QED BY <1>3, <1>4, <1>5

\* FLOAT puts a sign and a magnitude together, and the fields take them apart.
LEMMA Unpacked ==
  ASSUME NEW s \in {0, 1}, NEW m \in 0..(Codes * Hidden - 1)
  PROVE  /\ s * (Codes * Hidden) + m \in Values(FloatBits)
         /\ FLOAT(s, 0, m) = s * (Codes * Hidden) + m
         /\ Sign(FLOAT(s, 0, m)) = s
         /\ Magnitude(FLOAT(s, 0, m)) = m
         /\ Exponent(FLOAT(s, 0, m)) = m \div Hidden
         /\ Fraction(FLOAT(s, 0, m)) = m % Hidden
<1> DEFINE c == Codes
           h == Hidden
           t == c * h
           v == s * t + m
<1>1. /\ c \in Nat /\ h \in Nat /\ h >= 16 /\ t \in Nat /\ t > 0 /\ c >= 4 /\ Span(FloatBits) = 2 * t
      /\ 2^FB = h /\ 2^EB = c /\ 2^(EB + FB) = t /\ m \in 0..(t - 1)
  BY HiddenCodes
<1>2. FLOAT(s, 0, m) = (s * c + 0) * h + m BY <1>1 DEF FLOAT
<1> HIDE DEF c, h, t
<1>3. s \in Int /\ m \in Int /\ s * c \in Int BY <1>1
<1>4. (s * c + 0) * h = s * t
  <2>1. CASE s = 0 BY <1>1, <2>1
  <2>2. CASE s = 1 BY <1>1, <2>2 DEF t
  <2> QED BY <2>1, <2>2
<1>5. FLOAT(s, 0, m) = v BY <1>2, <1>4
<1>6. v \in 0..(2 * t - 1)
  <2>1. CASE s = 0 BY <1>1, <2>1
  <2>2. CASE s = 1 BY <1>1, <2>2
  <2> QED BY <2>1, <2>2
<1>7. v \div t = s /\ v % t = m
  <2>1. t \in Nat \ {0} BY <1>1
  <2> QED BY <1>1, <1>3, <2>1, Division
<1>8. v \div h = s * c + (m \div h) /\ v % h = m % h
  <2> DEFINE a == m \div h
             b == m % h
  <2>1. h \in Nat \ {0} BY <1>1
  <2>2. a \in Int /\ b \in 0..(h - 1) /\ m = a * h + b BY <1>3, <2>1, Euclid
  <2> HIDE DEF a, b
  <2>3. (s * c + a) * h = (s * c) * h + a * h BY <1>1, <1>3, <2>2
  <2>4. v = (s * c + a) * h + b
    <3>1. (s * c) * h = (s * c + 0) * h BY <1>1, <1>3
    <3>2. a * h \in Int /\ (s * c) * h \in Int BY <1>1, <1>3, <2>2
    <3> QED BY <1>1, <1>4, <2>2, <2>3, <3>1, <3>2
  <2>5. s * c + a \in Int BY <1>3, <2>2
  <2>6. v \div h = s * c + a /\ v % h = b BY <2>1, <2>2, <2>4, <2>5, Division
  <2> QED BY <2>6 DEF a, b
<1>9. m \div h \in 0..(c - 1)
  <2> DEFINE a == m \div h
             b == m % h
  <2>1. h \in Nat \ {0} BY <1>1
  <2>2. a \in Int /\ b \in 0..(h - 1) /\ m = a * h + b BY <1>3, <2>1, Euclid
  <2> HIDE DEF a, b
  <2>3. a >= 0
    <3>1. SUFFICES ASSUME a <= -1 PROVE FALSE BY <2>2
    <3>2. a * h <= (-1) * h /\ a * h \in Int BY <1>1, <2>2, <3>1, Monotone
    <3> QED BY <1>1, <2>2, <3>2
  <2>4. a < c
    <3>1. SUFFICES ASSUME c <= a PROVE FALSE BY <1>1, <2>2
    <3>2. c * h <= a * h /\ a * h \in Int BY <1>1, <2>2, <3>1, Monotone
    <3> QED BY <1>1, <2>2, <3>2 DEF t
  <2> QED BY <1>1, <2>2, <2>3, <2>4 DEF a
<1>10. (s * c + (m \div h)) % c = m \div h
  <2> DEFINE a == m \div h
  <2>1. c \in Nat \ {0} /\ a \in 0..(c - 1) BY <1>1, <1>9
  <2> HIDE DEF a
  <2>2. (s * c + a) % c = a BY <1>3, <2>1, Division
  <2> QED BY <2>2 DEF a
<1>11. Sign(v) = s /\ Magnitude(v) = m BY <1>1, <1>7 DEF Sign, Magnitude
<1>12. Exponent(v) = m \div h /\ Fraction(v) = m % h BY <1>1, <1>8, <1>10 DEF Exponent, Fraction
<1> QED BY <1>1, <1>5, <1>6, <1>11, <1>12 DEF Values, c, h, t

\* A float is its sign and its magnitude.
LEMMA FloatSides ==
  ASSUME NEW v \in Values(FloatBits)
  PROVE  /\ Sign(v) \in {0, 1}
         /\ Magnitude(v) \in 0..(Codes * Hidden - 1)
         /\ v = FLOAT(Sign(v), 0, Magnitude(v))
         /\ v = Sign(v) * (Codes * Hidden) + Magnitude(v)
<1> DEFINE t == Codes * Hidden
           a == v \div t
           b == v % t
<1>1. t \in Nat \ {0} /\ Span(FloatBits) = 2 * t /\ 2^(EB + FB) = t
  <2>1. Codes * Hidden # 0
    <3> DEFINE c == Codes
               h == Hidden
    <3>1. c \in Nat /\ h \in Nat /\ c >= 4 /\ h >= 16 BY HiddenCodes
    <3> HIDE DEF c, h
    <3>2. 4 * h <= c * h /\ c * h \in Int BY <3>1, Monotone
    <3>3. c * h # 0 BY <3>1, <3>2
    <3> QED BY <3>3 DEF c, h
  <2> QED BY <2>1, HiddenCodes
<1>2. v \in Int /\ v >= 0 /\ v < 2 * t BY <1>1 DEF Values
<1> HIDE DEF t
<1>3. a \in Int /\ b \in 0..(t - 1) /\ v = a * t + b BY <1>1, <1>2, Euclid
<1>4. Sign(v) = a /\ Magnitude(v) = b BY <1>1 DEF Sign, Magnitude
<1> HIDE DEF a, b
<1>5. a >= 0
  <2>1. SUFFICES ASSUME a <= -1 PROVE FALSE BY <1>3
  <2>2. a * t <= (-1) * t /\ a * t \in Int BY <1>1, <1>3, <2>1, Monotone
  <2> QED BY <1>1, <1>2, <1>3, <2>2
<1>6. a < 2
  <2>1. SUFFICES ASSUME 2 <= a PROVE FALSE BY <1>3
  <2>2. 2 * t <= a * t /\ a * t \in Int BY <1>1, <1>3, <2>1, Monotone
  <2> QED BY <1>1, <1>2, <1>3, <2>2
<1>7. a \in {0, 1} BY <1>3, <1>5, <1>6
<1>8. FLOAT(a, 0, b) = a * (Codes * Hidden) + b BY <1>3, <1>7, Unpacked DEF t
<1> QED BY <1>3, <1>4, <1>7, <1>8 DEF t

\* Two floats with the same sign and magnitude are one.
LEMMA SameFloat ==
  ASSUME NEW v \in Values(FloatBits), NEW s \in {0, 1}, NEW m \in 0..(Codes * Hidden - 1)
  PROVE  v = FLOAT(s, 0, m) <=> (Sign(v) = s /\ Magnitude(v) = m)
BY FloatSides, Unpacked

\* FLOAT of a sign, an exponent and a fraction, by the magnitude these spell.
LEMMA Packed ==
  ASSUME NEW s \in {0, 1}, NEW e \in 0..MaxExp, NEW f \in 0..(Hidden - 1)
  PROVE  FLOAT(s, e, f) = FLOAT(s, 0, e * Hidden + f) /\ FLOAT(s, e, f) \in Values(FloatBits)
<1> DEFINE c == Codes
           h == Hidden
<1>1. c \in Nat /\ h \in Nat /\ 2^FB = h /\ 2^EB = c /\ MaxExp \in Int BY HiddenCodes, FloatSizes
<1>2. FLOAT(s, e, f) = (s * c + e) * h + f /\ FLOAT(s, 0, e * h + f) = (s * c + 0) * h + (e * h + f) BY <1>1 DEF FLOAT
<1>3. e * Hidden + f \in 0..(Codes * Hidden - 1) BY Magnitudes
<1>4. FLOAT(s, 0, e * Hidden + f) \in Values(FloatBits) BY <1>3, Unpacked
<1> HIDE DEF c, h
<1>5. s * c \in Int /\ e \in Int /\ f \in Int
  <2>1. f \in Int BY <1>1 DEF h
  <2> QED BY <1>1, <2>1
<1> DEFINE a == s * c
<1>6. a \in Int BY <1>5
<1> HIDE DEF a
<1>7. (a + e) * h + f = (a + 0) * h + (e * h + f)
  <2>1. (a + e) * h = a * h + e * h /\ a * h \in Int /\ e * h \in Int BY <1>1, <1>5, <1>6
  <2> QED BY <1>5, <1>6, <2>1
<1>8. (s * c + e) * h + f = (s * c + 0) * h + (e * h + f) BY <1>7 DEF a
<1> QED BY <1>2, <1>4, <1>8 DEF h

\* The magnitude of infinity, and that of a NaN.
MaxMagnitude == MaxExp * Hidden
NanMagnitude == MaxExp * Hidden + 2^(FB - 1)

\* They fit, and are in this order.
LEMMA SpecialMagnitudes ==
  /\ MaxMagnitude \in Nat /\ MaxMagnitude >= 48 /\ MaxMagnitude <= Codes * Hidden - 1
  /\ NanMagnitude \in Nat /\ NanMagnitude > MaxMagnitude /\ NanMagnitude <= Codes * Hidden - 1
  /\ Hidden < MaxMagnitude /\ Codes * Hidden = MaxMagnitude + Hidden
<1> DEFINE h == Hidden
           p == 2^(FB - 1)
           m == MaxExp
<1>1. h \in Nat /\ h >= 16 /\ p \in Nat /\ 2 * p = h /\ m \in Int /\ m >= 3 /\ Codes = m + 1 BY HiddenCodes, FloatSizes
<1>2. MaxMagnitude = m * h /\ NanMagnitude = m * h + p /\ Codes * Hidden = (m + 1) * h BY <1>1 DEF MaxMagnitude, NanMagnitude
<1>8. h = Hidden OBVIOUS
<1> HIDE DEF h, p, m
<1>3. (m + 1) * h = m * h + h BY <1>1
<1>4. 3 * h <= m * h /\ m * h \in Int BY <1>1, Monotone
<1> QED BY <1>1, <1>2, <1>3, <1>4, <1>8

\* Zero, infinity and the NaN of a sign are its floats of these magnitudes.
LEMMA Specials ==
  ASSUME NEW s \in {0, 1}
  PROVE  /\ Zero(s) = FLOAT(s, 0, 0)
         /\ Inf(s) = FLOAT(s, 0, MaxMagnitude)
         /\ Nan(s) = FLOAT(s, 0, NanMagnitude)
<1>1. MaxExp \in 0..MaxExp /\ 0 \in 0..(Hidden - 1) /\ 2^(FB - 1) \in 0..(Hidden - 1) BY HiddenCodes, FloatSizes
<1>2. FLOAT(s, MaxExp, 0) = FLOAT(s, 0, MaxExp * Hidden + 0) BY <1>1, Packed
<1>3. FLOAT(s, MaxExp, 2^(FB - 1)) = FLOAT(s, 0, MaxExp * Hidden + 2^(FB - 1)) BY <1>1, Packed
<1>4. MaxExp * Hidden + 0 = MaxExp * Hidden BY SpecialMagnitudes DEF MaxMagnitude
<1> QED BY <1>2, <1>3, <1>4 DEF Zero, Inf, Nan, MaxMagnitude, NanMagnitude

\* As natural numbers.
LEMMA InfIs == Inf(0) = MaxMagnitude /\ Zero(0) = 0 /\ LeastNormal = Hidden
<1>1. 0 \in {0, 1} /\ MaxMagnitude \in 0..(Codes * Hidden - 1) /\ 0 \in 0..(Codes * Hidden - 1) BY SpecialMagnitudes, HiddenCodes
<1>2. FLOAT(0, 0, MaxMagnitude) = 0 * (Codes * Hidden) + MaxMagnitude BY <1>1, Unpacked
<1>3. FLOAT(0, 0, 0) = 0 * (Codes * Hidden) + 0 BY <1>1, Unpacked
<1>4. Codes * Hidden \in Nat BY HiddenCodes
<1>5. LeastNormal = Hidden
  <2> DEFINE h == Hidden
  <2>1. 1 \in 0..MaxExp /\ 0 \in 0..(h - 1) /\ h \in Nat /\ 2^FB = h BY HiddenCodes, FloatSizes
  <2>2. LeastNormal = (0 * 2^EB + 1) * h + 0 BY <2>1 DEF LeastNormal, FLOAT
  <2>3. 2^EB \in Nat BY FloatSizes
  <2>4. 0 * 2^EB = 0
    <3> DEFINE x == 2^EB
    <3>1. x \in Nat BY <2>3
    <3> HIDE DEF x
    <3>2. 0 * x = 0 BY <3>1
    <3> QED BY <3>2 DEF x
  <2> HIDE DEF h
  <2>5. (0 + 1) * h + 0 = h BY <2>1
  <2> QED BY <2>2, <2>4, <2>5 DEF h
<1> DEFINE t == Codes * Hidden
<1>6. t \in Nat /\ MaxMagnitude \in Nat BY <1>4, SpecialMagnitudes
<1> HIDE DEF t
<1>7. 0 * t + MaxMagnitude = MaxMagnitude /\ 0 * t + 0 = 0 BY <1>6
<1> QED BY <1>1, <1>2, <1>3, <1>5, <1>7, Specials DEF t

\* A float is of the kind its magnitude says.
LEMMA Kinds ==
  ASSUME NEW v \in Values(FloatBits)
  PROVE  /\ v \in Zeros <=> Magnitude(v) = 0
         /\ v \in Infs <=> Magnitude(v) = MaxMagnitude
         /\ v \in Nans <=> Magnitude(v) = NanMagnitude
<1>1. 0 \in 0..(Codes * Hidden - 1) /\ MaxMagnitude \in 0..(Codes * Hidden - 1) /\ NanMagnitude \in 0..(Codes * Hidden - 1)
  BY SpecialMagnitudes, HiddenCodes
<1>2. 0 \in {0, 1} /\ 1 \in {0, 1} /\ Sign(v) \in {0, 1} BY FloatSides
<1>3. v \in Zeros <=> Magnitude(v) = 0
  <2>1. v = FLOAT(0, 0, 0) <=> (Sign(v) = 0 /\ Magnitude(v) = 0) BY <1>1, <1>2, SameFloat
  <2>2. v = FLOAT(1, 0, 0) <=> (Sign(v) = 1 /\ Magnitude(v) = 0) BY <1>1, <1>2, SameFloat
  <2> QED BY <1>2, <2>1, <2>2 DEF Zeros, Zero
<1>4. v \in Infs <=> Magnitude(v) = MaxMagnitude
  <2>1. v = FLOAT(0, 0, MaxMagnitude) <=> (Sign(v) = 0 /\ Magnitude(v) = MaxMagnitude) BY <1>1, <1>2, SameFloat
  <2>2. v = FLOAT(1, 0, MaxMagnitude) <=> (Sign(v) = 1 /\ Magnitude(v) = MaxMagnitude) BY <1>1, <1>2, SameFloat
  <2>3. Inf(0) = FLOAT(0, 0, MaxMagnitude) /\ Inf(1) = FLOAT(1, 0, MaxMagnitude) BY <1>2, Specials
  <2> QED BY <1>2, <2>1, <2>2, <2>3 DEF Infs
<1>5. v \in Nans <=> Magnitude(v) = NanMagnitude
  <2>1. v = FLOAT(0, 0, NanMagnitude) <=> (Sign(v) = 0 /\ Magnitude(v) = NanMagnitude) BY <1>1, <1>2, SameFloat
  <2>2. v = FLOAT(1, 0, NanMagnitude) <=> (Sign(v) = 1 /\ Magnitude(v) = NanMagnitude) BY <1>1, <1>2, SameFloat
  <2>3. Nan(0) = FLOAT(0, 0, NanMagnitude) /\ Nan(1) = FLOAT(1, 0, NanMagnitude) BY <1>2, Specials
  <2> QED BY <1>2, <2>1, <2>2, <2>3 DEF Nans
<1> QED BY <1>3, <1>4, <1>5

\* The significand and the scale of a number are those of its magnitude.
LEMMA MagnitudeSame ==
  ASSUME NEW v \in Values(FloatBits)
  PROVE  /\ Magnitude(v) \in 0..(Codes * Hidden - 1)
         /\ Exponent(v) = Magnitude(v) \div Hidden
         /\ Fraction(v) = Magnitude(v) % Hidden
         /\ Exponent(Magnitude(v)) = Exponent(v)
         /\ Fraction(Magnitude(v)) = Fraction(v)
         /\ Significand(v) = Significand(Magnitude(v))
         /\ Scale(v) = Scale(Magnitude(v))
<1> DEFINE m == Magnitude(v)
<1>1. m \in 0..(Codes * Hidden - 1) /\ v = FLOAT(Sign(v), 0, m) /\ Sign(v) \in {0, 1} BY FloatSides
<1> HIDE DEF m
<1>2. Exponent(v) = m \div Hidden /\ Fraction(v) = m % Hidden BY <1>1, Unpacked
<1>3. 0 \in {0, 1} /\ m \in Int /\ Codes * Hidden \in Int BY <1>1, HiddenCodes
<1>4. FLOAT(0, 0, m) = 0 * (Codes * Hidden) + m BY <1>1, <1>3, Unpacked
<1>5. FLOAT(0, 0, m) = m
  <2> DEFINE t == Codes * Hidden
  <2>1. t \in Int BY <1>3
  <2> HIDE DEF t
  <2>2. 0 * t + m = m BY <1>3, <2>1
  <2> QED BY <1>4, <2>2 DEF t
<1>6. Exponent(m) = m \div Hidden /\ Fraction(m) = m % Hidden BY <1>1, <1>3, <1>5, Unpacked
<1>7. Exponent(m) = Exponent(v) /\ Fraction(m) = Fraction(v) BY <1>2, <1>6
<1>8. Significand(v) = Significand(m) /\ Scale(v) = Scale(m) BY <1>7 DEF Significand, Scale
<1> QED BY <1>1, <1>2, <1>7, <1>8 DEF m

\* A magnitude is the float without a sign that it spells.
LEMMA MagnitudeIsFloat ==
  ASSUME NEW m \in 0..(Codes * Hidden - 1)
  PROVE  m \in Values(FloatBits) /\ Magnitude(m) = m /\ Sign(m) = 0 /\ FLOAT(0, 0, m) = m
<1>1. 0 \in {0, 1} /\ m \in Int /\ Codes * Hidden \in Int BY HiddenCodes
<1>2. FLOAT(0, 0, m) = 0 * (Codes * Hidden) + m BY <1>1, Unpacked
<1>3. FLOAT(0, 0, m) = m
  <2> DEFINE t == Codes * Hidden
  <2>1. t \in Int BY <1>1
  <2> HIDE DEF t
  <2>2. 0 * t + m = m BY <1>1, <2>1
  <2> QED BY <1>2, <2>2 DEF t
<1> QED BY <1>1, <1>2, <1>3, Unpacked

----------------------------------------------------------------------------
(* The values of floats, and the nearest one to a fraction.                  *)

\* A magnitude below infinity's is a number of units of its binade.
LEMMA Binade ==
  ASSUME NEW m \in 0..(MaxMagnitude - 1)
  PROVE  /\ Scale(m) \in 1..(MaxExp - 1)
         /\ Significand(m) \in 0..(2 * Hidden - 1)
         /\ m = (Scale(m) - 1) * Hidden + Significand(m)
         /\ Scale(m) > 1 => Significand(m) >= Hidden
         /\ Exponent(m) = IF Significand(m) < Hidden THEN 0 ELSE Scale(m)
         /\ Exponent(m) < MaxExp
<1> DEFINE h == Hidden
           e == m \div h
           f == m % h
<1>1. h \in Nat /\ h >= 16 /\ 2^FB = h /\ m \in Int /\ m >= 0 /\ h \in Nat \ {0} /\ MaxExp \in Int /\ MaxExp >= 3
  BY HiddenCodes, FloatSizes, SpecialMagnitudes
<1>2. m \in 0..(Codes * Hidden - 1) /\ m < MaxExp * h BY SpecialMagnitudes, HiddenCodes DEF MaxMagnitude
<1>3. Exponent(m) = e /\ Fraction(m) = f BY <1>2, MagnitudeIsFloat, MagnitudeSame
<1>8. h = Hidden OBVIOUS
<1> HIDE DEF h
<1>4. e \in Int /\ f \in 0..(h - 1) /\ m = e * h + f BY <1>1, Euclid
<1> HIDE DEF e, f
<1>5. e >= 0
  <2>1. SUFFICES ASSUME e <= -1 PROVE FALSE BY <1>4
  <2>2. e * h <= (-1) * h /\ e * h \in Int BY <1>1, <1>4, <2>1, Monotone
  <2> QED BY <1>1, <1>4, <2>2
<1>6. e < MaxExp
  <2>1. SUFFICES ASSUME MaxExp <= e PROVE FALSE BY <1>1, <1>4
  <2>2. MaxExp * h <= e * h /\ e * h \in Int BY <1>1, <1>4, <2>1, Monotone
  <2>3. MaxExp * h \in Int BY <1>1
  <2> QED BY <1>1, <1>2, <1>4, <2>2, <2>3
<1>7. CASE e = 0
  <2>1. Scale(m) = 1 /\ Significand(m) = f BY <1>3, <1>7 DEF Scale, Significand
  <2>2. m = (1 - 1) * h + f BY <1>1, <1>4, <1>7
  <2> QED BY <1>1, <1>3, <1>4, <1>7, <1>8, <2>1, <2>2
<1>9. CASE e # 0
  <2>1. Scale(m) = e /\ Significand(m) = h + f BY <1>1, <1>3, <1>9 DEF Scale, Significand
  <2>2. e * h = (e - 1) * h + h /\ (e - 1) * h \in Int /\ e * h \in Int BY <1>1, <1>4
  <2>3. m = (e - 1) * h + (h + f) BY <1>1, <1>4, <2>2
  <2> QED BY <1>1, <1>3, <1>4, <1>5, <1>6, <1>8, <1>9, <2>1, <2>3
<1> QED BY <1>7, <1>9

\* The power of two that is the unit of a binade.
LEMMA Units ==
  ASSUME NEW c \in 1..MaxExp
  PROVE  2^(c - 1) = Pow[c - 1] /\ Pow[c - 1] \in Nat \ {0} /\ c - 1 \in Nat /\ c - 1 <= Far
<1>1. c - 1 \in Nat /\ c - 1 <= FloatPower /\ FloatPower <= Far BY FloatSizes DEF FloatPower
<1> QED BY <1>1, PowTwo, PowNumber, FloatSizes

\* So many units, also one more than the binade has, are the value of the magnitude they spell.
LEMMA ValueIs ==
  ASSUME NEW c \in 1..(MaxExp - 1), NEW q \in 0..(2 * Hidden), c > 1 => q >= Hidden
  PROVE  /\ (c - 1) * Hidden + q \in 0..MaxMagnitude
         /\ Value[(c - 1) * Hidden + q] = q * Pow[c - 1]
<1> DEFINE h == Hidden
           m == (c - 1) * h + q
<1>1. h \in Nat /\ h >= 16 /\ 2^FB = h /\ h \in Nat \ {0} /\ MaxExp \in Int /\ MaxExp >= 3 /\ q \in 0..(2 * h)
      /\ MaxMagnitude = MaxExp * h /\ (c > 1 => q >= h)
  BY HiddenCodes, FloatSizes DEF MaxMagnitude
<1>8. h = Hidden OBVIOUS
<1> HIDE DEF h
<1>2. m \in 0..MaxMagnitude
  <2>1. (c - 1) * h = c * h - h /\ c * h \in Int /\ MaxExp * h \in Int /\ (MaxExp - 1) * h = MaxExp * h - h BY <1>1
  <2>2. c * h <= (MaxExp - 1) * h /\ 1 * h <= c * h BY <1>1, Monotone
  <2> QED BY <1>1, <2>1, <2>2
<1>3. m \in 0..Inf(0) BY <1>2, InfIs
<1>4. Value[m] = Significand(m) * 2^(Scale(m) - 1) BY <1>3 DEF Value
<1>5. m \in 0..(Codes * Hidden - 1) BY <1>2, SpecialMagnitudes, HiddenCodes
<1>6. Exponent(m) = m \div h /\ Fraction(m) = m % h BY <1>5, <1>8, MagnitudeIsFloat, MagnitudeSame
<1>7. c - 1 \in Int /\ q \in Int /\ c \in Int BY <1>1
<1>9. CASE q < h
  <2>1. c = 1 /\ q \in 0..(h - 1) /\ 0 \in Int BY <1>1, <1>9
  <2>2. (0 * h + q) \div h = 0 /\ (0 * h + q) % h = q BY <1>1, <2>1, Division
  <2>3. m = 0 * h + q BY <1>1, <2>1
  <2>4. Exponent(m) = 0 /\ Fraction(m) = q BY <1>6, <2>2, <2>3
  <2>5. Significand(m) = q /\ Scale(m) = 1 BY <2>4 DEF Significand, Scale
  <2>6. 2^(1 - 1) = Pow[1 - 1]
    <3>1. 1 \in 1..MaxExp BY <1>1
    <3> QED BY <3>1, Units
  <2>7. Value[m] = q * Pow[1 - 1] BY <1>4, <2>5, <2>6
  <2> QED BY <1>2, <2>1, <2>7, <1>8
<1>10. CASE h <= q /\ q < 2 * h
  <2>1. q - h \in 0..(h - 1) BY <1>1, <1>10
  <2> DEFINE r == q - h
  <2>2. r \in 0..(h - 1) /\ q = h + r BY <1>1, <2>1
  <2> HIDE DEF r
  <2>3. (c * h + r) \div h = c /\ (c * h + r) % h = r BY <1>1, <1>7, <2>2, Division
  <2>4. (c - 1) * h = c * h - h /\ c * h \in Int BY <1>1, <1>7
  <2>5. m = c * h + r BY <1>1, <2>2, <2>4
  <2>6. Exponent(m) = c /\ Fraction(m) = r BY <1>6, <2>3, <2>5
  <2>7. Significand(m) = q /\ Scale(m) = c BY <1>1, <2>2, <2>6 DEF Significand, Scale
  <2>8. 2^(c - 1) = Pow[c - 1] BY <1>1, Units
  <2>9. Value[m] = q * Pow[c - 1] BY <1>4, <2>7, <2>8
  <2> QED BY <1>2, <2>9, <1>8
<1>11. CASE q = 2 * h
  <2>1. 0 \in 0..(h - 1) /\ c + 1 \in Int BY <1>1
  <2>3. ((c + 1) * h + 0) \div h = c + 1 /\ ((c + 1) * h + 0) % h = 0 BY <1>1, <2>1, Division
  <2>4. (c - 1) * h = c * h - h /\ (c + 1) * h = c * h + h /\ c * h \in Int BY <1>1, <1>7
  <2>5. m = (c + 1) * h + 0 BY <1>1, <1>11, <2>4
  <2>6. Exponent(m) = c + 1 /\ Fraction(m) = 0 BY <1>6, <2>3, <2>5
  <2>7. Significand(m) = h /\ Scale(m) = c + 1 BY <1>1, <2>6 DEF Significand, Scale
  <2>8. 2^((c + 1) - 1) = Pow[(c + 1) - 1] /\ (c + 1) - 1 = (c - 1) + 1
    <3> DEFINE d == c + 1
    <3>1. d \in 1..MaxExp /\ d - 1 = (c - 1) + 1 BY <1>1
    <3> HIDE DEF d
    <3>2. 2^(d - 1) = Pow[d - 1] BY <3>1, Units
    <3> QED BY <3>1, <3>2 DEF d
  <2>9. Pow[(c - 1) + 1] = 2 * Pow[c - 1] /\ Pow[c - 1] \in Nat
    <3>1. c - 1 \in Nat /\ (c - 1) + 1 <= Far BY <1>1, FloatSizes DEF FloatPower
    <3>2. c \in 1..MaxExp BY <1>1
    <3> QED BY <3>1, <3>2, PowNext, Units
  <2>10. Value[m] = h * (2 * Pow[c - 1]) BY <1>4, <2>7, <2>8, <2>9
  <2>11. h * (2 * Pow[c - 1]) = (2 * h) * Pow[c - 1] BY <1>1, <2>9
  <2>12. Value[m] = q * Pow[c - 1] BY <1>11, <2>10, <2>11
  <2> QED BY <1>2, <2>12, <1>8
<1> QED BY <1>1, <1>9, <1>10, <1>11

\* The next magnitude's value is one unit further.
LEMMA ValueNext ==
  ASSUME NEW m \in 0..(MaxMagnitude - 1)
  PROVE  /\ Value[m] = Significand(m) * Pow[Scale(m) - 1]
         /\ Value[m + 1] = (Significand(m) + 1) * Pow[Scale(m) - 1]
         /\ Pow[Scale(m) - 1] \in Nat \ {0}
         /\ Significand(m) \in Nat
         /\ Value[m] \in Nat /\ Value[m + 1] \in Nat /\ Value[m] < Value[m + 1]
<1> DEFINE c == Scale(m)
           q == Significand(m)
           h == Hidden
<1>1. c \in 1..(MaxExp - 1) /\ q \in 0..(2 * h - 1) /\ m = (c - 1) * h + q /\ (c > 1 => q >= h) BY Binade
<1>2. h \in Nat /\ MaxExp \in Int BY HiddenCodes, FloatSizes
<1>7. h = Hidden OBVIOUS
<1> HIDE DEF c, q, h
<1>3. q \in 0..(2 * h) /\ q + 1 \in 0..(2 * h) /\ (c > 1 => q + 1 >= h) /\ q \in Nat BY <1>1, <1>2
<1>4. Value[(c - 1) * h + q] = q * Pow[c - 1] BY <1>1, <1>3, <1>7, ValueIs
<1>5. Value[(c - 1) * h + (q + 1)] = (q + 1) * Pow[c - 1] BY <1>1, <1>3, <1>7, ValueIs
<1>6. m + 1 = (c - 1) * h + (q + 1)
  <2>1. (c - 1) * h \in Int BY <1>1, <1>2
  <2> QED BY <1>1, <1>3, <2>1
<1>8. Pow[c - 1] \in Nat \ {0}
  <2>1. c \in 1..MaxExp BY <1>1, <1>2
  <2> QED BY <2>1, Units
<1> DEFINE u == Pow[c - 1]
<1>9. u \in Nat /\ u > 0 BY <1>8
<1> HIDE DEF u
<1>10. (q + 1) * u = q * u + u /\ q * u \in Nat BY <1>3, <1>9
<1>11. Value[m] = q * u /\ Value[m + 1] = (q + 1) * u BY <1>1, <1>4, <1>5, <1>6 DEF u
<1>12. Value[m] \in Nat /\ Value[m + 1] \in Nat /\ Value[m] < Value[m + 1] BY <1>9, <1>10, <1>11
<1> QED BY <1>3, <1>8, <1>11, <1>12 DEF c, q, u

\* Numbers are in the order of their magnitudes.
LEMMA ValueGrows ==
  ASSUME NEW i \in 0..MaxMagnitude, NEW j \in 0..MaxMagnitude, i < j
  PROVE  Value[i] \in Nat /\ Value[j] \in Nat /\ Value[i] < Value[j]
<1> DEFINE N == j - (i + 1)
           T == {k \in 0..N : Value[i] < Value[(i + 1) + k] /\ Value[(i + 1) + k] \in Nat}
<1>1. MaxMagnitude \in Nat BY SpecialMagnitudes
<1>2. N \in Nat /\ N \in 0..N BY <1>1
<1>3. 0 \in T
  <2>1. i \in 0..(MaxMagnitude - 1) /\ (i + 1) + 0 = i + 1 /\ 0 \in 0..N BY <1>1, <1>2
  <2> QED BY <2>1, ValueNext
<1>4. ASSUME NEW k \in 1..N, k - 1 \in T PROVE k \in T
  <2> DEFINE x == (i + 1) + (k - 1)
  <2>1. x \in 0..(MaxMagnitude - 1) /\ x + 1 = (i + 1) + k /\ k \in 0..N BY <1>1, <1>2
  <2>2. Value[i] < Value[x] BY <1>4
  <2>5. Value[i] \in Nat
    <3>1. i \in 0..(MaxMagnitude - 1) BY <1>1
    <3> QED BY <3>1, ValueNext
  <2> HIDE DEF x
  <2>3. Value[x] < Value[x + 1] /\ Value[x] \in Nat /\ Value[x + 1] \in Nat BY <2>1, ValueNext
  <2>4. Value[i] < Value[x + 1] BY <2>2, <2>3, <2>5
  <2> QED BY <2>1, <2>3, <2>4
<1>5. \A k \in 0..N : k \in T
  <2> HIDE DEF T, N
  <2> QED BY <1>2, <1>3, <1>4, Reached
<1>6. N \in T BY <1>2, <1>5
<1>7. (i + 1) + N = j BY <1>1
<1>8. i \in 0..(MaxMagnitude - 1) BY <1>1
<1>9. Value[i] \in Nat BY <1>8, ValueNext
<1> QED BY <1>6, <1>7, <1>9

\* Values are numbers, and only 0 is worth 0.
LEMMA ValueNumber ==
  ASSUME NEW m \in 0..MaxMagnitude
  PROVE  Value[m] \in Nat /\ Value[0] = 0 /\ (m > 0 => Value[m] > 0)
<1>1. MaxMagnitude \in Nat /\ MaxMagnitude > 0 BY SpecialMagnitudes
<1>2. Value[0] = 0
  <2>1. 1 \in 1..(MaxExp - 1) /\ 0 \in 0..(2 * Hidden) BY HiddenCodes, FloatSizes
  <2>2. Value[(1 - 1) * Hidden + 0] = 0 * Pow[1 - 1] BY <2>1, ValueIs
  <2>3. (1 - 1) * Hidden + 0 = 0 BY HiddenCodes
  <2>4. 0 * Pow[1 - 1] = 0 BY PowIs
  <2> QED BY <2>2, <2>3, <2>4
<1>3. CASE m = 0 BY <1>2, <1>3
<1>4. CASE m > 0
  <2>1. 0 \in 0..MaxMagnitude /\ 0 < m BY <1>1, <1>4
  <2> QED BY <1>2, <2>1, ValueGrows
<1> QED BY <1>1, <1>3, <1>4

\* What Nearest chooses: the last magnitude whose value is not above the fraction.
Under(m, num, den) == Value[m] * den <= num /\ (m = Inf(0) \/ num < Value[m + 1] * den)

\* No two magnitudes are that,
LEMMA UnderOnce ==
  ASSUME NEW num \in Nat, NEW den \in Nat, NEW i \in 0..MaxMagnitude, NEW j \in 0..MaxMagnitude,
         Under(i, num, den), Under(j, num, den)
  PROVE  ~(i < j)
<1> SUFFICES ASSUME i < j PROVE FALSE OBVIOUS
<1>1. MaxMagnitude \in Nat /\ Inf(0) = MaxMagnitude BY SpecialMagnitudes, InfIs
<1>2. i + 1 \in 0..MaxMagnitude /\ i # MaxMagnitude BY <1>1
<1>3. num < Value[i + 1] * den BY <1>1, <1>2 DEF Under
<1>4. Value[j] * den <= num BY DEF Under
<1>5. Value[i + 1] <= Value[j] /\ Value[i + 1] \in Nat /\ Value[j] \in Nat
  <2>1. CASE i + 1 = j BY <1>2, <2>1, ValueNumber
  <2>2. CASE i + 1 < j BY <1>2, <2>2, ValueGrows
  <2> QED BY <1>1, <1>2, <2>1, <2>2
<1>6. Value[i + 1] * den <= Value[j] * den /\ Value[i + 1] * den \in Int /\ Value[j] * den \in Int
  <2>1. Value[i + 1] \in Int /\ Value[j] \in Int BY <1>5
  <2> QED BY <1>5, <2>1, Monotone
<1> DEFINE x == Value[i + 1] * den
           y == Value[j] * den
<1>7. num < x /\ y <= num /\ x <= y /\ x \in Int /\ y \in Int BY <1>3, <1>4, <1>6
<1> HIDE DEF x, y
<1> QED BY <1>7

\* so that one which is it decides what the nearest one is.
LEMMA UnderChosen ==
  ASSUME NEW num \in Nat, NEW den \in Nat, NEW m \in 0..MaxMagnitude, Under(m, num, den)
  PROVE  /\ m = MaxMagnitude => Nearest(num, den) = m
         /\ m < MaxMagnitude =>
              Nearest(num, den) = IF \/ 2 * num < (Value[m] + Value[m + 1]) * den
                                     \/ 2 * num = (Value[m] + Value[m + 1]) * den /\ m % 2 = 0 THEN m ELSE m + 1
<1>1. MaxMagnitude \in Nat /\ Inf(0) = MaxMagnitude BY SpecialMagnitudes, InfIs
<1> DEFINE P(i) == Value[i] * den <= num /\ (i = Inf(0) \/ num < Value[i + 1] * den)
           c == CHOOSE i \in 0..Inf(0) : P(i)
<1>2. m \in 0..Inf(0) /\ P(m) BY <1>1 DEF Under
<1>3. c \in 0..Inf(0) /\ P(c) BY <1>2
<1>4. c \in 0..MaxMagnitude /\ Under(c, num, den) BY <1>1, <1>3 DEF Under
<1> HIDE DEF c
<1>5. ~(c < m) /\ ~(m < c) BY <1>4, UnderOnce
<1>6. c = m BY <1>1, <1>4, <1>5
<1>7. Nearest(num, den) = LET half == (Value[c] + Value[c + 1]) * den
                          IN  IF c = Inf(0) \/ 2 * num < half \/ (2 * num = half /\ c % 2 = 0) THEN c ELSE c + 1
  BY DEF Nearest, c
<1>8. m < MaxMagnitude => m # Inf(0) BY <1>1
<1> QED BY <1>1, <1>6, <1>7, <1>8

\* What is not below infinity's value is nearest to infinity.
LEMMA NearestInf ==
  ASSUME NEW num \in Nat, NEW den \in Nat, Value[MaxMagnitude] * den <= num
  PROVE  Nearest(num, den) = MaxMagnitude
<1>1. MaxMagnitude \in 0..MaxMagnitude /\ Inf(0) = MaxMagnitude BY SpecialMagnitudes, InfIs
<1>2. Under(MaxMagnitude, num, den) BY <1>1 DEF Under
<1> QED BY <1>1, <1>2, UnderChosen

\* In a binade: the fraction lies between two multiples of its unit, next to each other.
InBinade(num, den, c, q) ==
  /\ (c - 1) * Hidden + q \in 0..(MaxMagnitude - 1)
  /\ Nearest(num, den) = IF \/ 2 * num < (2 * q + 1) * (den * Pow[c - 1])
                            \/ 2 * num = (2 * q + 1) * (den * Pow[c - 1]) /\ q % 2 = 0
                          THEN (c - 1) * Hidden + q ELSE (c - 1) * Hidden + q + 1

\* The nearest magnitude is one of the two multiples beside the fraction.
LEMMA NearestIn ==
  ASSUME NEW num \in Nat, NEW den \in Nat, NEW c \in 1..(MaxExp - 1), NEW q \in 0..(2 * Hidden - 1),
         c > 1 => q >= Hidden,
         q * (den * Pow[c - 1]) <= num, num < (q + 1) * (den * Pow[c - 1])
  PROVE  InBinade(num, den, c, q)
<1> DEFINE h == Hidden
           u == Pow[c - 1]
           m == (c - 1) * h + q
           d == den * u
<1>1. h \in Nat /\ h >= 16 /\ h % 2 = 0 /\ MaxExp \in Int /\ q \in 0..(2 * h - 1) BY HiddenCodes, FloatSizes
<1>2. u \in Nat \ {0}
  <2>1. c \in 1..MaxExp BY <1>1
  <2> QED BY <2>1, Units
<1>3. q \in 0..(2 * h) /\ q + 1 \in 0..(2 * h) /\ (c > 1 => q >= h) /\ (c > 1 => q + 1 >= h) /\ q \in Nat BY <1>1
<1>4. m \in 0..MaxMagnitude /\ Value[m] = q * u BY <1>3, ValueIs
<1>5. (c - 1) * h + (q + 1) \in 0..MaxMagnitude /\ Value[(c - 1) * h + (q + 1)] = (q + 1) * u BY <1>3, ValueIs
<1>12. h = Hidden /\ q * d <= num /\ num < (q + 1) * d BY <1>1
<1> HIDE DEF h, u
<1>6. m + 1 = (c - 1) * h + (q + 1)
  <2>1. (c - 1) * h \in Int BY <1>1
  <2> QED BY <1>3, <2>1
<1>7. m \in 0..(MaxMagnitude - 1)
  <2>1. MaxMagnitude \in Nat BY SpecialMagnitudes
  <2> QED BY <1>4, <1>5, <1>6, <2>1
<1>8. Value[m + 1] = (q + 1) * u BY <1>5, <1>6
<1>9. d \in Nat /\ (q * u) * den = q * d /\ ((q + 1) * u) * den = (q + 1) * d /\ (q * u + (q + 1) * u) * den = (2 * q + 1) * d
  <2>1. d \in Nat BY <1>2
  <2>2. (q * u) * den = q * d BY <1>2, <1>3
  <2> DEFINE p == q + 1
  <2>3. p \in Nat BY <1>3
  <2> HIDE DEF p
  <2>4. (p * u) * den = p * d BY <1>2, <2>3
  <2>5. (q * u + p * u) * den = q * d + p * d
    <3>1. q * u \in Int /\ p * u \in Int BY <1>2, <1>3, <2>3
    <3>2. (q * u + p * u) * den = (q * u) * den + (p * u) * den BY <3>1
    <3> QED BY <2>2, <2>4, <3>2
  <2> HIDE DEF d
  <2>6. q * d + (q + 1) * d = (2 * q + 1) * d BY <1>3, <2>1
  <2> QED BY <2>1, <2>2, <2>4, <2>5, <2>6 DEF p
<1>10. Under(m, num, den) BY <1>4, <1>8, <1>9, <1>12 DEF Under
<1>11. m % 2 = q % 2
  <2>1. PICK y \in Int : h = 2 * y
    <3>1. h = 2 * (h \div 2) /\ h \div 2 \in Int BY <1>1
    <3> QED BY <3>1
  <2> DEFINE z == (c - 1) * y
  <2>2. (c - 1) * h = 2 * z /\ z \in Int BY <2>1
  <2> HIDE DEF z
  <2>3. (z * 2 + q) % 2 = q % 2
    <3>1. 2 \in Nat \ {0} /\ q \in Int BY <1>3
    <3> QED BY <2>2, <3>1, Shifting
  <2>4. m = z * 2 + q BY <1>3, <2>2
  <2> QED BY <2>3, <2>4
<1>13. m < MaxMagnitude BY <1>7, SpecialMagnitudes
<1>14. Nearest(num, den) = IF \/ 2 * num < (Value[m] + Value[m + 1]) * den
                              \/ 2 * num = (Value[m] + Value[m + 1]) * den /\ m % 2 = 0 THEN m ELSE m + 1
  <2> HIDE DEF m, d
  <2> QED BY <1>4, <1>10, <1>13, UnderChosen
<1>15. (Value[m] + Value[m + 1]) * den = (2 * q + 1) * d BY <1>4, <1>8, <1>9
<1>16. Nearest(num, den) = IF 2 * num < (2 * q + 1) * d \/ (2 * num = (2 * q + 1) * d /\ q % 2 = 0) THEN m ELSE m + 1
  <2> HIDE DEF m, d
  <2> QED BY <1>11, <1>14, <1>15
<1> QED BY ONLY <1>7, <1>16, Zenon DEF u, h, m, d, InBinade

\* What is below half the least number is nearest to 0.
LEMMA NearestZero ==
  ASSUME NEW num \in Nat, NEW den \in Nat, 2 * num < den
  PROVE  Nearest(num, den) = 0
<1>1. 1 \in 1..(MaxExp - 1) /\ 0 \in 0..(2 * Hidden - 1) BY HiddenCodes, FloatSizes
<1>2. Pow[1 - 1] = 1 BY PowIs
<1>3. 0 * (den * Pow[1 - 1]) <= num /\ num < (0 + 1) * (den * Pow[1 - 1]) /\ 2 * num < (2 * 0 + 1) * (den * Pow[1 - 1]) BY <1>2
<1>4. Nearest(num, den) = IF \/ 2 * num < (2 * 0 + 1) * (den * Pow[1 - 1])
                             \/ 2 * num = (2 * 0 + 1) * (den * Pow[1 - 1]) /\ 0 % 2 = 0
                          THEN (1 - 1) * Hidden + 0 ELSE (1 - 1) * Hidden + 0 + 1
  <2>1. ~(1 > 1) OBVIOUS
  <2> QED BY <1>1, <1>3, <2>1, NearestIn DEF InBinade
<1>5. (1 - 1) * Hidden + 0 = 0 BY HiddenCodes
<1> QED BY <1>3, <1>4, <1>5

\* A number is nearest to itself.
LEMMA NearestSelf ==
  ASSUME NEW m \in 0..(MaxMagnitude - 1)
  PROVE  Nearest(Value[m], 1) = m
<1> DEFINE c == Scale(m)
           q == Significand(m)
           u == Pow[c - 1]
           num == Value[m]
           h == Hidden
<1>1. c \in 1..(MaxExp - 1) /\ q \in 0..(2 * h - 1) /\ m = (c - 1) * h + q /\ (c > 1 => q >= h) BY Binade
<1>2. num = q * u /\ u \in Nat \ {0} /\ num \in Nat /\ q \in Nat BY ValueNext
<1> HIDE DEF c, q, num
<1>3. 1 * u = u /\ (q + 1) * u = q * u + u /\ (2 * q + 1) * u = 2 * (q * u) + u /\ q * u \in Nat
  <2>1. u \in Nat /\ q \in Nat BY <1>2
  <2> HIDE DEF u
  <2>2. (2 * q + 1) * u = 2 * (q * u) + u BY <2>1
  <2> QED BY <2>1, <2>2
<1>4. q * (1 * u) <= num /\ num < (q + 1) * (1 * u) /\ 2 * num < (2 * q + 1) * (1 * u)
  <2> DEFINE p == q * u
  <2>1. p \in Nat /\ num = p /\ u \in Nat /\ u > 0 /\ (q + 1) * u = p + u /\ (2 * q + 1) * u = 2 * p + u BY <1>2, <1>3
  <2>2. 1 * u = u BY <1>3
  <2> HIDE DEF p, u
  <2>3. p <= num /\ num < p + u /\ 2 * num < 2 * p + u BY <2>1
  <2> QED BY <2>1, <2>2, <2>3 DEF p
<1>5. Nearest(num, 1) = IF \/ 2 * num < (2 * q + 1) * (1 * u)
                           \/ 2 * num = (2 * q + 1) * (1 * u) /\ q % 2 = 0
                        THEN (c - 1) * h + q ELSE (c - 1) * h + q + 1
  <2>1. 1 \in Nat OBVIOUS
  <2>2. InBinade(num, 1, c, q) BY <1>1, <1>2, <1>4, <2>1, NearestIn
  <2> QED BY ONLY <2>2, Zenon DEF InBinade, u, h
<1> QED BY <1>1, <1>4, <1>5 DEF num

----------------------------------------------------------------------------
(* Significands that tell where a fraction is, whatever was shifted out.     *)

\* s tells where N lies among the multiples of g * D as it lies itself among the multiples of g; where
\* it is one of these, it is N / D, or, when it is not exact, at most that.
Tells(s, N, D, exact, g) ==
  \A j \in Int : /\ g * j < s => (g * j) * D < N
                 /\ g * j = s => (g * j) * D <= N /\ (exact => (g * j) * D = N)
                 /\ s < g * j => N < (g * j) * D

\* A multiple of the unit tells exactly where it is.
LEMMA TellsExactly ==
  ASSUME NEW s \in Int, NEW D \in Nat \ {0}, NEW N, N = s * D, NEW g \in Nat
  PROVE  Tells(s, N, D, TRUE, g)
<1> SUFFICES ASSUME NEW j \in Int
             PROVE  /\ g * j < s => (g * j) * D < N
                    /\ g * j = s => (g * j) * D <= N /\ (TRUE => (g * j) * D = N)
                    /\ s < g * j => N < (g * j) * D
  BY DEF Tells
<1> DEFINE y == g * j
<1>1. y \in Int OBVIOUS
<1> HIDE DEF y
<1>2. y < s => y * D < N
  <2>1. SUFFICES ASSUME y < s PROVE y * D < N OBVIOUS
  <2>2. y + 1 <= s /\ y + 1 \in Int BY <1>1, <2>1
  <2>3. (y + 1) * D <= s * D BY <1>1, <2>2, Monotone
  <2>4. (y + 1) * D = y * D + D /\ y * D \in Int /\ s * D \in Int BY <1>1
  <2> QED BY <2>3, <2>4
<1>3. s < y => N < y * D
  <2>1. SUFFICES ASSUME s < y PROVE N < y * D OBVIOUS
  <2>2. s + 1 <= y /\ s + 1 \in Int BY <1>1, <2>1
  <2>3. (s + 1) * D <= y * D BY <1>1, <2>2, Monotone
  <2>4. (s + 1) * D = s * D + D /\ y * D \in Int /\ s * D \in Int BY <1>1
  <2> QED BY <2>3, <2>4
<1>4. y = s => y * D <= N /\ y * D = N BY <1>1
<1> QED BY <1>2, <1>3, <1>4 DEF y

\* The quotient of a division that drops the remainder.
LEMMA TellsFloor ==
  ASSUME NEW q \in Int, NEW D \in Nat \ {0}, NEW N \in Int, q * D <= N, N < (q + 1) * D, NEW g \in Nat
  PROVE  Tells(q, N, D, FALSE, g)
<1> SUFFICES ASSUME NEW j \in Int
             PROVE  /\ g * j < q => (g * j) * D < N
                    /\ g * j = q => (g * j) * D <= N /\ (FALSE => (g * j) * D = N)
                    /\ q < g * j => N < (g * j) * D
  BY DEF Tells
<1> DEFINE y == g * j
<1>1. y \in Int OBVIOUS
<1> HIDE DEF y
<1>2. y < q => y * D < N
  <2>1. SUFFICES ASSUME y < q PROVE y * D < N OBVIOUS
  <2>2. y + 1 <= q /\ y + 1 \in Int BY <1>1, <2>1
  <2>3. (y + 1) * D <= q * D BY <1>1, <2>2, Monotone
  <2>4. (y + 1) * D = y * D + D /\ y * D \in Int /\ q * D \in Int BY <1>1
  <2> QED BY <2>3, <2>4
<1>3. q < y => N < y * D
  <2>1. SUFFICES ASSUME q < y PROVE N < y * D OBVIOUS
  <2>2. q + 1 <= y /\ q + 1 \in Int BY <1>1, <2>1
  <2>3. (q + 1) * D <= y * D /\ (q + 1) * D \in Int /\ y * D \in Int BY <1>1, <2>2, Monotone
  <2> QED BY <2>3
<1>4. y = q => y * D <= N BY <1>1
<1> QED BY <1>2, <1>3, <1>4 DEF y

\* What tells among the multiples of 2 tells among those of 4.
LEMMA TellsFour ==
  ASSUME NEW s, NEW N, NEW D, NEW exact, Tells(s, N, D, exact, 2)
  PROVE  Tells(s, N, D, exact, 4)
<1> SUFFICES ASSUME NEW j \in Int
             PROVE  /\ 4 * j < s => (4 * j) * D < N
                    /\ 4 * j = s => (4 * j) * D <= N /\ (exact => (4 * j) * D = N)
                    /\ s < 4 * j => N < (4 * j) * D
  BY DEF Tells
<1> DEFINE i == 2 * j
<1>1. i \in Int /\ 2 * i = 4 * j OBVIOUS
<1> HIDE DEF i
<1>2. /\ 2 * i < s => (2 * i) * D < N
      /\ 2 * i = s => (2 * i) * D <= N /\ (exact => (2 * i) * D = N)
      /\ s < 2 * i => N < (2 * i) * D
  BY <1>1 DEF Tells
<1> QED BY <1>1, <1>2

\* Twice the number, half the unit.
LEMMA TellsDoubled ==
  ASSUME NEW s \in Int, NEW N \in Int, NEW D \in Int, NEW exact, Tells(s, N, 2 * D, exact, 2)
  PROVE  Tells(2 * s, N, D, exact, 4)
<1> SUFFICES ASSUME NEW j \in Int
             PROVE  /\ 4 * j < 2 * s => (4 * j) * D < N
                    /\ 4 * j = 2 * s => (4 * j) * D <= N /\ (exact => (4 * j) * D = N)
                    /\ 2 * s < 4 * j => N < (4 * j) * D
  BY DEF Tells
<1>1. (2 * j) * (2 * D) = (4 * j) * D OBVIOUS
<1>2. /\ 2 * j < s => (2 * j) * (2 * D) < N
      /\ 2 * j = s => (2 * j) * (2 * D) <= N /\ (exact => (2 * j) * (2 * D) = N)
      /\ s < 2 * j => N < (2 * j) * (2 * D)
  BY DEF Tells
<1>3. (4 * j < 2 * s <=> 2 * j < s) /\ (4 * j = 2 * s <=> 2 * j = s) /\ (2 * s < 4 * j <=> s < 2 * j) OBVIOUS
<1> QED BY <1>1, <1>2, <1>3

\* What t tells of s, and s of N, t tells of N.
LEMMA TellsThrough ==
  ASSUME NEW t \in Int, NEW s \in Int, NEW p \in Nat, NEW N \in Int, NEW D \in Int, NEW exact,
         Tells(t, s, p, TRUE, 2), Tells(s, N, D, exact, 2)
  PROVE  Tells(t, N, D * p, exact, 2)
<1> SUFFICES ASSUME NEW j \in Int
             PROVE  /\ 2 * j < t => (2 * j) * (D * p) < N
                    /\ 2 * j = t => (2 * j) * (D * p) <= N /\ (exact => (2 * j) * (D * p) = N)
                    /\ t < 2 * j => N < (2 * j) * (D * p)
  BY DEF Tells
<1> DEFINE i == j * p
<1>1. i \in Int /\ 2 * i = (2 * j) * p /\ (2 * i) * D = (2 * j) * (D * p)
  <2>1. i \in Int /\ 2 * i = (2 * j) * p OBVIOUS
  <2>2. ((2 * j) * p) * D = (2 * j) * (D * p) OBVIOUS
  <2> QED BY <2>1, <2>2
<1> HIDE DEF i
<1>2. /\ 2 * j < t => (2 * j) * p < s
      /\ 2 * j = t => (2 * j) * p = s
      /\ t < 2 * j => s < (2 * j) * p
  BY DEF Tells
<1>3. /\ 2 * i < s => (2 * i) * D < N
      /\ 2 * i = s => (2 * i) * D <= N /\ (exact => (2 * i) * D = N)
      /\ s < 2 * i => N < (2 * i) * D
  BY <1>1 DEF Tells
<1> QED BY <1>1, <1>2, <1>3

\* A factor that is not 0 cancels.
LEMMA Cancel ==
  ASSUME NEW x \in Int, NEW y \in Int, NEW k \in Nat \ {0}
  PROVE  /\ x * k < y * k <=> x < y
         /\ x * k = y * k <=> x = y
         /\ x * k <= y * k <=> x <= y
<1>1. x * k \in Int /\ y * k \in Int OBVIOUS
<1>2. ASSUME x < y PROVE x * k < y * k
  <2>1. x + 1 <= y /\ x + 1 \in Int BY <1>2
  <2>2. (x + 1) * k <= y * k BY <2>1, Monotone
  <2>3. (x + 1) * k = x * k + k OBVIOUS
  <2> QED BY <1>1, <2>2, <2>3
<1>3. ASSUME y < x PROVE y * k < x * k
  <2>1. y + 1 <= x /\ y + 1 \in Int BY <1>3
  <2>2. (y + 1) * k <= x * k BY <2>1, Monotone
  <2>3. (y + 1) * k = y * k + k OBVIOUS
  <2> QED BY <1>1, <2>2, <2>3
<1>4. ASSUME x = y PROVE x * k = y * k BY <1>4
<1> DEFINE a == x * k
           b == y * k
<1>5. a \in Int /\ b \in Int /\ (x < y => a < b) /\ (y < x => b < a) /\ (x = y => a = b) BY <1>1, <1>2, <1>3, <1>4
<1> HIDE DEF a, b
<1>6. (a < b <=> x < y) /\ (a = b <=> x = y) /\ (a <= b <=> x <= y) BY <1>5
<1> QED BY <1>6 DEF a, b

\* A common factor of the fraction does not matter.
LEMMA TellsCancelled ==
  ASSUME NEW s \in Int, NEW N \in Int, NEW D \in Int, NEW k \in Nat \ {0}, NEW exact, NEW g \in Nat
  PROVE  Tells(s, N * k, D * k, exact, g) <=> Tells(s, N, D, exact, g)
<1>1. ASSUME NEW j \in Int
      PROVE  /\ (g * j) * (D * k) < N * k <=> (g * j) * D < N
             /\ (g * j) * (D * k) = N * k <=> (g * j) * D = N
             /\ (g * j) * (D * k) <= N * k <=> (g * j) * D <= N
             /\ N * k < (g * j) * (D * k) <=> N < (g * j) * D
  <2> DEFINE y == g * j
  <2>1. y \in Int OBVIOUS
  <2> HIDE DEF y
  <2>2. y * (D * k) = (y * D) * k /\ y * D \in Int BY <2>1
  <2> DEFINE z == y * D
  <2>3. y * (D * k) = z * k /\ z \in Int BY <2>2
  <2> HIDE DEF z
  <2>4. /\ z * k < N * k <=> z < N
        /\ z * k = N * k <=> z = N
        /\ z * k <= N * k <=> z <= N
    BY <2>3, Cancel
  <2>5. N * k < z * k <=> N < z BY <2>3, Cancel
  <2> QED BY <2>3, <2>4, <2>5 DEF y, z
<1> QED BY <1>1 DEF Tells

\* A number of the other sign, and one moved by a multiple.
LEMMA TellsMinus ==
  ASSUME NEW s \in Int, NEW N \in Int, NEW D \in Int, NEW g \in Nat, Tells(s, N, D, TRUE, g)
  PROVE  Tells(-s, -N, D, TRUE, g)
<1> SUFFICES ASSUME NEW j \in Int
             PROVE  /\ g * j < -s => (g * j) * D < -N
                    /\ g * j = -s => (g * j) * D <= -N /\ (TRUE => (g * j) * D = -N)
                    /\ -s < g * j => -N < (g * j) * D
  BY DEF Tells
<1> DEFINE i == -j
           a == g * j
           b == a * D
<1>1. i \in Int /\ g * i = -a /\ (g * i) * D = -b /\ a \in Int /\ b \in Int
  <2>1. i \in Int /\ g * i = -a /\ a \in Int OBVIOUS
  <2> HIDE DEF a, i
  <2>2. (-a) * D = -(a * D) /\ a * D \in Int BY <2>1
  <2> QED BY <2>1, <2>2
<1>2. /\ g * i < s => (g * i) * D < N
      /\ g * i = s => (g * i) * D <= N /\ (g * i) * D = N
      /\ s < g * i => N < (g * i) * D
  <2>1. i \in Int BY <1>1
  <2> HIDE DEF i, a, b
  <2> QED BY <2>1 DEF Tells
<1> HIDE DEF a, b, i
<1>3. /\ -a < s => -b < N
      /\ -a = s => -b = N
      /\ s < -a => N < -b
  BY <1>1, <1>2
<1>4. /\ a < -s => b < -N
      /\ a = -s => b = -N
      /\ -s < a => -N < b
  BY <1>1, <1>3
<1> QED BY <1>1, <1>4 DEF a, b

LEMMA TellsMoved ==
  ASSUME NEW s \in Int, NEW N \in Int, NEW D \in Int, NEW g \in Nat, NEW i \in Int, Tells(s, N, D, TRUE, g)
  PROVE  Tells(s + g * i, N + (g * i) * D, D, TRUE, g)
<1> DEFINE c == g * i
<1>1. c \in Int OBVIOUS
<1> SUFFICES ASSUME NEW j \in Int
             PROVE  /\ g * j < s + c => (g * j) * D < N + c * D
                    /\ g * j = s + c => (g * j) * D <= N + c * D /\ (TRUE => (g * j) * D = N + c * D)
                    /\ s + c < g * j => N + c * D < (g * j) * D
  BY DEF Tells
<1> DEFINE l == j - i
           a == g * j
           b == a * D
           d == c * D
<1>2. l \in Int /\ g * l = a - c /\ a \in Int BY <1>1
<1>3. /\ g * l < s => (g * l) * D < N
      /\ g * l = s => (g * l) * D <= N /\ (g * l) * D = N
      /\ s < g * l => N < (g * l) * D
  <2>1. l \in Int BY <1>2
  <2> HIDE DEF l, a, b, c, d
  <2> QED BY <2>1 DEF Tells
<1> HIDE DEF l, a, c
<1>4. (a - c) * D = b - d /\ b \in Int /\ d \in Int BY <1>1, <1>2
<1> HIDE DEF b, d
<1>5. /\ a - c < s => b - d < N
      /\ a - c = s => b - d = N
      /\ s < a - c => N < b - d
  BY <1>2, <1>3, <1>4
<1>6. /\ a < s + c => b < N + d
      /\ a = s + c => b = N + d
      /\ s + c < a => N + d < b
  BY <1>1, <1>2, <1>4, <1>5
<1> QED BY <1>1, <1>2, <1>4, <1>6 DEF a, b, d

\* Its use: comparisons with an even number carry over, both ways.
LEMMA Told ==
  ASSUME NEW s \in Int, NEW N \in Int, NEW D \in Int, NEW exact, NEW g \in Nat, Tells(s, N, D, exact, g), NEW j \in Int
  PROVE  /\ g * j <= s => (g * j) * D <= N
         /\ s < g * j => N < (g * j) * D
         /\ N < (g * j) * D => s < g * j
         /\ (g * j) * D <= N => g * j <= s
<1> DEFINE a == g * j
           b == a * D
<1>1. a \in Int OBVIOUS
<1>2. /\ a < s => b < N
      /\ a = s => b <= N
      /\ s < a => N < b
  BY DEF Tells
<1> HIDE DEF a
<1>3. b \in Int BY <1>1
<1> HIDE DEF b
<1>4. (a <= s => b <= N) /\ (s < a => N < b) /\ (N < b => s < a) /\ (b <= N => a <= s) BY <1>1, <1>2, <1>3
<1> QED BY <1>4 DEF a, b

\* Right shifts that leave a trace.
LEMMA JamIs ==
  ASSUME NEW sig \in Nat, NEW k \in Nat, k <= FloatPower
  PROVE  /\ Jam(sig, k) \in Nat
         /\ Tells(Jam(sig, k), sig, Pow[k], TRUE, 2)
         /\ sig % Pow[k] = 0 => Jam(sig, k) = sig \div Pow[k]
         /\ k = 0 => Jam(sig, k) = sig
<1> DEFINE p == Pow[k]
           r == sig \div p
           f == sig % p
           t == Jam(sig, k)
<1>1. p \in Nat \ {0} /\ 2^k = p BY PowTwo
<1>2. t = IF f # 0 /\ r % 2 = 0 THEN r + 1 ELSE r BY <1>1 DEF Jam
<1> HIDE DEF p, t
<1>3. r \in Int /\ f \in 0..(p - 1) /\ sig = r * p + f BY <1>1, Euclid
<1> HIDE DEF r, f
<1>4. r \in Nat
  <2>1. SUFFICES ASSUME r <= -1 PROVE FALSE BY <1>3
  <2>2. r * p <= (-1) * p /\ r * p \in Int BY <1>1, <1>3, <2>1, Monotone
  <2> QED BY <1>1, <1>3, <2>2
<1>5. t \in Nat BY <1>2, <1>4
<1>6. CASE f = 0
  <2>1. t = r /\ sig = t * p
    <3>1. r * p \in Int BY <1>1, <1>3
    <3> QED BY <1>2, <1>3, <1>6, <3>1
  <2>2. Tells(t, sig, p, TRUE, 2)
    <3>1. t \in Int /\ p \in Nat \ {0} /\ 2 \in Nat /\ sig = t * p BY <1>1, <1>5, <2>1
    <3> QED BY ONLY <3>1, TellsExactly
  <2>3. k = 0 => t = sig
    <3>1. SUFFICES ASSUME k = 0 PROVE t = sig OBVIOUS
    <3>2. p = 1 BY <3>1, PowIs DEF p
    <3> QED BY <1>5, <2>1, <3>2
  <2> QED BY <1>5, <2>1, <2>2, <2>3 DEF p, t, r, f
<1>7. CASE f # 0
  <2>1. r <= t /\ t <= r + 1 /\ t % 2 = 1 BY <1>2, <1>4, <1>7
  <2>2. r * p < sig /\ sig < (r + 1) * p
    <3>1. r * p \in Int /\ (r + 1) * p = r * p + p BY <1>1, <1>3
    <3> QED BY <1>1, <1>3, <1>7, <3>1
  <2>3. ASSUME NEW j \in Int
        PROVE  /\ 2 * j < t => (2 * j) * p < sig
               /\ 2 * j = t => (2 * j) * p <= sig /\ (TRUE => (2 * j) * p = sig)
               /\ t < 2 * j => sig < (2 * j) * p
    <3>1. 2 * j # t BY <1>5, <2>1
    <3>2. ASSUME 2 * j < t PROVE (2 * j) * p < sig
      <4>1. 2 * j <= r /\ 2 * j \in Int BY <1>4, <1>5, <2>1, <3>2
      <4>2. (2 * j) * p <= r * p /\ (2 * j) * p \in Int /\ r * p \in Int BY <1>1, <1>3, <4>1, Monotone
      <4> QED BY <2>2, <4>2
    <3>3. ASSUME t < 2 * j PROVE sig < (2 * j) * p
      <4>1. r + 1 <= 2 * j /\ 2 * j \in Int /\ r + 1 \in Int BY <1>4, <1>5, <2>1, <3>3
      <4>2. (r + 1) * p <= (2 * j) * p /\ (2 * j) * p \in Int /\ (r + 1) * p \in Int BY <1>1, <4>1, Monotone
      <4> QED BY <2>2, <4>2
    <3> QED BY <3>1, <3>2, <3>3
  <2>4. Tells(t, sig, p, TRUE, 2) BY <2>3 DEF Tells
  <2>5. k # 0
    <3>1. SUFFICES ASSUME k = 0 PROVE FALSE OBVIOUS
    <3>2. p = 1 BY <3>1, PowIs DEF p
    <3> QED BY <1>3, <1>7, <3>2
  <2>6. f # 0 BY <1>7
  <2> QED BY <1>5, <2>4, <2>5, <2>6 DEF p, t, r, f
<1> QED BY <1>6, <1>7

----------------------------------------------------------------------------
(* Rounding.                                                                 *)

\* A significand without its last three bits, rounded.
Nearby(s) == s \div 8 + (IF Rounds(s) THEN 1 ELSE 0)

\* What a result with a value should be: the nearest magnitude, but for the cases FloatProduct names.
Rightly(v, sign, num, den, exact) ==
  \E m \in 0..MaxMagnitude :
    /\ v = FLOAT(sign, 0, m)
    /\ \/ m = Nearest(num, den)
       \/ ~exact /\ m = Nearest(num, den) - 1
       \/ m = 0 /\ Nearest(num, den) = Hidden /\ num < Hidden * den

\* The nearest magnitude to a fraction, found in the significand that tells where it is.
ToldIn(num, den, exact, c, s) ==
  /\ (c - 1) * Hidden + Nearby(s) \in 0..MaxMagnitude
  /\ \/ (c - 1) * Hidden + Nearby(s) = Nearest(num, den)
     \/ ~exact /\ ~Rounds(s) /\ (c - 1) * Hidden + Nearby(s) = Nearest(num, den) - 1

\* Rounding what tells where a fraction is, to the nearest and half-way to the even one, finds the nearest
\* magnitude; when the significand is not exact, a number half-way may be rounded down.
LEMMA NearestTold ==
  ASSUME NEW num \in Nat, NEW den \in Nat \ {0}, NEW exact, NEW c \in 1..(MaxExp - 1),
         NEW s \in Nat, s < 16 * Hidden, c > 1 => s >= 8 * Hidden,
         Tells(s, 8 * num, den * Pow[c - 1], exact, 4)
  PROVE  ToldIn(num, den, exact, c, s)
<1> DEFINE h == Hidden
           q == s \div 8
           f == s % 8
           d == den * Pow[c - 1]
           m == (c - 1) * h + q
           n == Nearest(num, den)
<1>1. h \in Nat /\ h >= 16 /\ h % 2 = 0 /\ MaxExp \in Int /\ s < 16 * h /\ (c > 1 => s >= 8 * h) /\ h = Hidden BY HiddenCodes, FloatSizes
<1>2. q \in Nat /\ f \in 0..7 /\ s = 8 * q + f OBVIOUS
<1>3. d \in Nat \ {0}
  <2>1. c \in 1..MaxExp BY <1>1
  <2>2. Pow[c - 1] \in Nat \ {0} BY <2>1, Units
  <2> DEFINE u == Pow[c - 1]
  <2>3. u \in Nat \ {0} BY <2>2
  <2> HIDE DEF u
  <2>4. den * u \in Nat /\ 1 * u <= den * u
    <3>1. 1 <= den /\ den \in Int /\ 1 \in Int /\ u \in Nat BY <2>3
    <3> QED BY <3>1, Monotone
  <2>5. den * u \in Nat \ {0} BY <2>3, <2>4
  <2> QED BY <2>5 DEF u
<1>20. Tells(s, 8 * num, d, exact, 4) OBVIOUS
<1> HIDE DEF q, f, d, h
<1>4. q \in 0..(2 * h - 1) /\ (c > 1 => q >= h) BY <1>1, <1>2
<1>5. (4 * (2 * q)) * d <= 8 * num /\ 8 * num < (4 * (2 * (q + 1))) * d
  <2>1. 2 * q \in Int /\ 2 * (q + 1) \in Int /\ s \in Int /\ 8 * num \in Int /\ d \in Int /\ 4 \in Nat BY <1>2, <1>3
  <2>2. 4 * (2 * q) <= s /\ s < 4 * (2 * (q + 1)) BY <1>2
  <2>3. (4 * (2 * q)) * d <= 8 * num BY <1>20, <2>1, <2>2, Told
  <2>4. 8 * num < (4 * (2 * (q + 1))) * d BY <1>20, <2>1, <2>2, Told
  <2> QED BY <2>3, <2>4
<1>6. (4 * (2 * q)) * d = 8 * (q * d) /\ (4 * (2 * (q + 1))) * d = 8 * ((q + 1) * d) /\ q * d \in Int /\ (q + 1) * d \in Int
  <2> DEFINE p == q + 1
  <2>1. p \in Int /\ q \in Int /\ d \in Int BY <1>2, <1>3
  <2> HIDE DEF p
  <2>2. (4 * (2 * q)) * d = 8 * (q * d) /\ (4 * (2 * p)) * d = 8 * (p * d) /\ q * d \in Int /\ p * d \in Int BY <2>1
  <2> QED BY <2>2 DEF p
<1>7. q * d <= num /\ num < (q + 1) * d
  <2> DEFINE a == q * d
             b == (q + 1) * d
  <2>1. a \in Int /\ b \in Int /\ 8 * a <= 8 * num /\ 8 * num < 8 * b BY <1>5, <1>6
  <2> HIDE DEF a, b
  <2>2. a <= num /\ num < b BY <2>1
  <2> QED BY <2>2 DEF a, b
<1>8. /\ m \in 0..(MaxMagnitude - 1)
      /\ n = IF 2 * num < (2 * q + 1) * d \/ (2 * num = (2 * q + 1) * d /\ q % 2 = 0) THEN m ELSE m + 1
  <2>1. den \in Nat OBVIOUS
  <2>2. q \in 0..(2 * Hidden - 1) /\ (c > 1 => q >= Hidden) BY <1>1, <1>4
  <2>3. q * (den * Pow[c - 1]) <= num /\ num < (q + 1) * (den * Pow[c - 1]) BY <1>7 DEF d
  <2>4. InBinade(num, den, c, q) BY <2>1, <2>2, <2>3, NearestIn
  <2>5. /\ (c - 1) * Hidden + q \in 0..(MaxMagnitude - 1)
        /\ Nearest(num, den) = IF \/ 2 * num < (2 * q + 1) * (den * Pow[c - 1])
                                  \/ 2 * num = (2 * q + 1) * (den * Pow[c - 1]) /\ q % 2 = 0
                                THEN (c - 1) * Hidden + q ELSE (c - 1) * Hidden + q + 1
    BY <2>4 DEF InBinade
  <2> QED BY ONLY <2>5, Zenon DEF d, h, m, n
<1> DEFINE z == (2 * q + 1) * d
<1>9. z \in Int /\ (4 * (2 * q + 1)) * d = 4 * z
  <2> DEFINE p == 2 * q + 1
  <2>1. p \in Int /\ d \in Int BY <1>2, <1>3
  <2> HIDE DEF p
  <2>2. p * d \in Int /\ (4 * p) * d = 4 * (p * d) BY <2>1
  <2> QED BY <2>2 DEF p
<1>10. /\ f < 4 => 2 * num < z
       /\ f > 4 => z < 2 * num
       /\ f = 4 => z <= 2 * num /\ (exact => z = 2 * num)
  <2> DEFINE j == 2 * q + 1
  <2>1. j \in Int /\ (4 * j < s <=> f > 4) /\ (4 * j = s <=> f = 4) /\ (s < 4 * j <=> f < 4) BY <1>2
  <2> HIDE DEF j
  <2>2. /\ 4 * j < s => (4 * j) * d < 8 * num
        /\ 4 * j = s => (4 * j) * d <= 8 * num /\ (exact => (4 * j) * d = 8 * num)
        /\ s < 4 * j => 8 * num < (4 * j) * d
    BY <1>20, <2>1 DEF Tells
  <2>3. (4 * j) * d = 4 * z BY <1>9 DEF j
  <2> HIDE DEF z
  <2> QED BY <1>9, <2>1, <2>2, <2>3
<1> HIDE DEF z
<1>11. n = IF 2 * num < z \/ (2 * num = z /\ q % 2 = 0) THEN m ELSE m + 1 BY <1>8 DEF z
<1>12. Rounds(s) <=> f > 4 \/ (f = 4 /\ q % 2 = 1) BY DEF Rounds, f, q
<1>13. Nearby(s) = IF Rounds(s) THEN q + 1 ELSE q BY <1>2 DEF Nearby, q
<1>14. m \in Int /\ (c - 1) * h + q = m /\ (c - 1) * h + (q + 1) = m + 1
  <2>1. (c - 1) * h \in Int BY <1>1
  <2> QED BY <1>2, <2>1
<1> DEFINE w == (c - 1) * h + Nearby(s)
<1>15. w = IF Rounds(s) THEN m + 1 ELSE m BY <1>13, <1>14
<1>16. w \in 0..MaxMagnitude
  <2>1. MaxMagnitude \in Nat BY SpecialMagnitudes
  <2> HIDE DEF w, m
  <2> QED BY <1>8, <1>15, <2>1
<1> HIDE DEF w, n, m
<1>17. q % 2 \in {0, 1} BY <1>2
<1>18. w = n \/ (~exact /\ ~Rounds(s) /\ w = n - 1)
  <2>1. CASE f < 4 BY <1>9, <1>10, <1>11, <1>12, <1>15, <2>1, <1>2
  <2>2. CASE f > 4 BY <1>9, <1>10, <1>11, <1>12, <1>15, <2>2, <1>2
  <2>3. CASE f = 4 /\ q % 2 = 1 BY <1>9, <1>10, <1>11, <1>12, <1>15, <2>3, <1>2
  <2>4. CASE f = 4 /\ q % 2 = 0 BY <1>9, <1>10, <1>11, <1>12, <1>15, <2>4, <1>2, <1>14
  <2> QED BY <1>2, <1>17, <2>1, <2>2, <2>3, <2>4
<1> QED BY <1>16, <1>18 DEF w, n, h, ToldIn

\* What Rounded leaves: the magnitudes follow one another over the exponents, so a carry is the next one,
\* but a denormal that is rounded up to the least normal number becomes 0.
LEMMA RoundedIs ==
  ASSUME NEW sign \in {0, 1}, NEW e \in 0..(MaxExp - 1), NEW s \in Nat, s < 16 * Hidden,
         e > 0 => s >= 8 * Hidden, e = 0 => s < 8 * Hidden
  PROVE  Rounded(sign, e, s) =
           FLOAT(sign, 0, IF e = 0 /\ Nearby(s) = Hidden THEN 0 ELSE (IF e = 0 THEN 0 ELSE e - 1) * Hidden + Nearby(s))
<1> DEFINE h == Hidden
           r == Nearby(s)
<1>1. h \in Nat /\ h >= 16 /\ h \in Nat \ {0} /\ 2^FB = h /\ h = Hidden /\ Codes \in Nat /\ Codes = MaxExp + 1 /\ 2^EB = Codes /\ MaxExp \in Int
  BY HiddenCodes, FloatSizes
<1>2. r \in Nat /\ (e = 0 => r <= h) /\ (e > 0 => r >= h) /\ r <= 2 * h
  <2>1. s \div 8 \in Nat /\ (e = 0 => s \div 8 < h) /\ (e > 0 => s \div 8 >= h) /\ s \div 8 < 2 * h BY <1>1
  <2> QED BY <1>1, <2>1 DEF Nearby
<1>3. Rounded(sign, e, s) = IF r \div h > 1 /\ e + 1 >= MaxExp THEN Inf(sign)
                            ELSE IF r \div h > 1 THEN FLOAT(sign, e + 1, (r \div 2) % h)
                            ELSE FLOAT(sign, e % Codes, r % h)
  BY <1>1 DEF Rounded, Nearby
<1>4. e % Codes = e
  <2>1. e \in 0..(Codes - 1) /\ Codes \in Nat \ {0} /\ e \in Int BY <1>1
  <2> QED BY <2>1, Remainders
<1> HIDE DEF h, r
<1>5. CASE e = 0 /\ r < h
  <2>1. r \in 0..(h - 1) /\ 0 \in Int BY <1>1, <1>2, <1>5
  <2>2. (0 * h + r) \div h = 0 /\ (0 * h + r) % h = r BY <1>1, <2>1, Division
  <2>3. 0 * h + r = r BY <1>1, <1>2
  <2>4. Rounded(sign, e, s) = FLOAT(sign, 0, r) BY <1>3, <1>4, <1>5, <2>2, <2>3
  <2>5. r # h BY <1>1, <1>2, <1>5
  <2> QED BY <1>1, <1>5, <2>3, <2>4, <2>5 DEF r
<1>6. CASE e = 0 /\ r = h
  <2>1. 0 \in 0..(h - 1) /\ 1 \in Int BY <1>1
  <2>2. (1 * h + 0) \div h = 1 /\ (1 * h + 0) % h = 0 BY <1>1, <2>1, Division
  <2>3. 1 * h + 0 = h BY <1>1
  <2>4. Rounded(sign, e, s) = FLOAT(sign, 0, 0) BY <1>3, <1>4, <1>6, <2>2, <2>3
  <2> QED BY <1>1, <1>6, <2>4 DEF r
<1>7. CASE e > 0 /\ r < 2 * h
  <2> DEFINE f == r - h
  <2>1. f \in 0..(h - 1) /\ 1 \in Int /\ r = 1 * h + f BY <1>1, <1>2, <1>7
  <2> HIDE DEF f
  <2>2. (1 * h + f) \div h = 1 /\ (1 * h + f) % h = f BY <1>1, <2>1, Division
  <2>3. Rounded(sign, e, s) = FLOAT(sign, e, f) BY <1>3, <1>4, <1>7, <2>1, <2>2
  <2>4. e \in 0..MaxExp BY <1>1
  <2>5. FLOAT(sign, e, f) = FLOAT(sign, 0, e * h + f) BY <1>1, <2>1, <2>4, Packed
  <2>6. e * h + f = (e - 1) * h + r
    <3>1. e * h = (e - 1) * h + h /\ e * h \in Int BY <1>1
    <3> QED BY <1>1, <2>1, <3>1
  <2> QED BY <1>1, <1>7, <2>3, <2>5, <2>6 DEF r
<1>8. CASE e > 0 /\ r = 2 * h
  <2>1. 0 \in 0..(h - 1) /\ 2 \in Int /\ 1 \in Int BY <1>1
  <2>2. (2 * h + 0) \div h = 2 /\ (1 * h + 0) % h = 0 BY <1>1, <2>1, Division
  <2>3. 2 * h + 0 = r /\ r \div 2 = 1 * h + 0 BY <1>1, <1>8
  <2>4. e + 1 \in 0..MaxExp /\ 0 \in 0..(Hidden - 1) BY <1>1
  <2>5. FLOAT(sign, e + 1, 0) = FLOAT(sign, 0, (e + 1) * Hidden + 0) BY <2>4, Packed
  <2>6. (e + 1) * h + 0 = (e - 1) * h + r
    <3>1. (e + 1) * h = (e - 1) * h + 2 * h /\ (e + 1) * h \in Int BY <1>1
    <3> QED BY <1>1, <1>8, <3>1
  <2>7. Rounded(sign, e, s) = FLOAT(sign, e + 1, 0)
    <3>1. CASE e + 1 >= MaxExp
      <4>1. e + 1 = MaxExp BY <1>1, <3>1
      <4>2. Inf(sign) = FLOAT(sign, e + 1, 0) BY <4>1 DEF Inf
      <4> QED BY <1>3, <2>2, <2>3, <3>1, <4>2
    <3>2. CASE ~(e + 1 >= MaxExp) BY <1>3, <2>2, <2>3, <3>2
    <3> QED BY <3>1, <3>2
  <2> QED BY <1>1, <1>8, <2>5, <2>6, <2>7 DEF r
<1> QED BY <1>1, <1>2, <1>5, <1>6, <1>7, <1>8

\* A significand that tells where the fraction is, in its exponent's units, is rounded rightly.
LEMMA RoundedRightly ==
  ASSUME NEW sign \in {0, 1}, NEW e \in 0..(MaxExp - 1), NEW s \in Nat, s < 16 * Hidden,
         e > 0 => s >= 8 * Hidden, e = 0 => s < 8 * Hidden,
         NEW num \in Nat, NEW den \in Nat \ {0}, NEW exact,
         Tells(s, 8 * num, den * Pow[IF e = 0 THEN 0 ELSE e - 1], exact, 4)
  PROVE  Rightly(Rounded(sign, e, s), sign, num, den, exact)
<1> DEFINE c == IF e = 0 THEN 1 ELSE e
           h == Hidden
           m == (c - 1) * h + Nearby(s)
<1>1. MaxExp \in Int /\ MaxExp >= 3 /\ h \in Nat /\ h >= 16 /\ h = Hidden BY FloatSizes, HiddenCodes
<1>2. c \in 1..(MaxExp - 1) /\ (c > 1 => s >= 8 * h) /\ c - 1 = (IF e = 0 THEN 0 ELSE e - 1) BY <1>1
<1>3. Tells(s, 8 * num, den * Pow[c - 1], exact, 4) BY <1>2
<1> HIDE DEF c
<1>4. /\ m \in 0..MaxMagnitude
      /\ m = Nearest(num, den) \/ (~exact /\ ~Rounds(s) /\ m = Nearest(num, den) - 1)
  <2>1. ToldIn(num, den, exact, c, s) BY <1>2, <1>3, NearestTold
  <2> QED BY <2>1 DEF ToldIn
<1>5. Rounded(sign, e, s) = FLOAT(sign, 0, IF e = 0 /\ Nearby(s) = h THEN 0 ELSE (IF e = 0 THEN 0 ELSE e - 1) * h + Nearby(s))
  BY RoundedIs
<1>6. Rounded(sign, e, s) = FLOAT(sign, 0, IF e = 0 /\ Nearby(s) = h THEN 0 ELSE m) BY <1>2, <1>5
<1>7. CASE ~(e = 0 /\ Nearby(s) = h)
  <2>1. Rounded(sign, e, s) = FLOAT(sign, 0, m) BY <1>6, <1>7
  <2> HIDE DEF m
  <2> QED BY <1>4, <2>1 DEF Rightly
<1>8. CASE e = 0 /\ Nearby(s) = h
  <2>1. Rounded(sign, e, s) = FLOAT(sign, 0, 0) BY <1>6, <1>8
  <2>2. m = h
    <3>1. c - 1 = 0 BY <1>2, <1>8
    <3>2. 0 * h + h = h BY <1>1
    <3> QED BY <1>8, <3>1, <3>2
  <2>3. Rounds(s)
    <3>1. s \div 8 < h BY <1>1, <1>8
    <3>2. SUFFICES ASSUME ~Rounds(s) PROVE FALSE OBVIOUS
    <3>3. Nearby(s) = s \div 8 BY <3>2 DEF Nearby
    <3> QED BY <1>1, <1>8, <3>1, <3>3
  <2>4. Nearest(num, den) = h BY <1>4, <2>2, <2>3
  <2>5. num < h * den
    <3>1. c - 1 = 0 /\ Pow[0] = 1 BY <1>2, <1>8, PowIs
    <3>2. Tells(s, 8 * num, den, exact, 4) BY <1>3, <3>1
    <3>3. s < 4 * (2 * h) /\ 2 * h \in Int /\ s \in Int /\ 8 * num \in Int /\ den \in Int /\ 4 \in Nat BY <1>1, <1>8
    <3>4. 8 * num < (4 * (2 * h)) * den BY <3>2, <3>3, Told
    <3> HIDE DEF h
    <3>5. (4 * (2 * h)) * den = 8 * (h * den) /\ h * den \in Int BY <1>1
    <3> QED BY <3>4, <3>5
  <2>6. 0 \in 0..MaxMagnitude BY SpecialMagnitudes
  <2> QED BY <2>1, <2>4, <2>5, <2>6 DEF Rightly
<1> QED BY <1>7, <1>8

----------------------------------------------------------------------------
(* The loops that shift.                                                     *)

\* A loop of at most N turns that goes on while the number of its turns is in C.
Turns(f, N, C) == f = [k \in 0..N |-> IF k \in C THEN f[k + 1] ELSE k]

\* There is such a loop,
LEMMA LoopExists ==
  ASSUME NEW N \in Nat, NEW C, N \notin C
  PROVE  \E f : Turns(f, N, C)
<1> DEFINE End(k, j) == k <= j /\ j \notin C /\ \A i \in 0..N : (k <= i /\ i < j) => i \in C
           w == [k \in 0..N |-> CHOOSE j \in 0..N : End(k, j)]
<1>1. ASSUME NEW k \in 0..N PROVE \E j \in 0..N : End(k, j)
  <2> DEFINE T == {j \in 0..N : k <= j /\ j \notin C}
  <2>1. N \in T /\ T \subseteq Nat OBVIOUS
  <2>2. PICK x \in T : \A y \in T : x <= y
    <3> HIDE DEF T
    <3>1. T # {} BY <2>1
    <3> QED BY <2>1, <3>1, Least
  <2>3. ASSUME NEW i \in 0..N, k <= i, i < x PROVE i \in C
    <3>1. i \notin T BY <2>2, <2>3
    <3> QED BY <2>3, <3>1
  <2>4. x \in 0..N /\ k <= x /\ x \notin C BY <2>2
  <2>5. End(k, x) BY <2>3, <2>4
  <2> QED BY <2>4, <2>5
<1>2. ASSUME NEW k \in 0..N PROVE w[k] \in 0..N /\ End(k, w[k])
  <2> DEFINE c == CHOOSE j \in 0..N : End(k, j)
  <2>1. c \in 0..N /\ End(k, c)
    <3> HIDE DEF End
    <3> QED BY <1>1
  <2>2. w[k] = c OBVIOUS
  <2> HIDE DEF c, w
  <2> QED BY <2>1, <2>2
<1>3. ASSUME NEW k \in 0..N, NEW i \in 0..N, NEW j \in 0..N, End(k, i), End(k, j) PROVE i = j
  <2>1. ~(i < j) BY <1>3
  <2>2. ~(j < i) BY <1>3
  <2> QED BY <2>1, <2>2
<1>4. ASSUME NEW k \in 0..N PROVE w[k] = IF k \in C THEN w[k + 1] ELSE k
  <2>1. CASE k \in C
    <3>1. k # N /\ k + 1 \in 0..N BY <2>1
    <3>2. w[k + 1] \in 0..N /\ End(k + 1, w[k + 1])
      <4> HIDE DEF w, End
      <4> QED BY <1>2, <3>1
    <3>3. w[k] \in 0..N /\ End(k, w[k])
      <4> HIDE DEF w, End
      <4> QED BY <1>2
    <3> HIDE DEF w
    <3>4. End(k, w[k + 1]) BY <2>1, <3>1, <3>2
    <3> HIDE DEF End
    <3>5. w[k] = w[k + 1] BY <1>3, <3>2, <3>3, <3>4
    <3> QED BY <2>1, <3>5
  <2>2. CASE k \notin C
    <3>1. w[k] \in 0..N /\ End(k, w[k])
      <4> HIDE DEF w, End
      <4> QED BY <1>2
    <3> HIDE DEF w
    <3>2. w[k] = k BY <2>2, <3>1
    <3> QED BY <2>2, <3>2
  <2> QED BY <2>1, <2>2
<1>5. w = [k \in 0..N |-> IF k \in C THEN w[k + 1] ELSE k]
  <2>1. w = [k \in 0..N |-> w[k]] OBVIOUS
  <2> HIDE DEF w
  <2> QED BY <1>4, <2>1
<1> HIDE DEF w
<1> QED BY <1>5 DEF Turns

\* and it ends at the first number that is not in C.
LEMMA LoopEnds ==
  ASSUME NEW N \in Nat, NEW C, N \notin C, NEW f, Turns(f, N, C)
  PROVE  /\ f[0] \in 0..N
         /\ f[0] \notin C
         /\ \A i \in 0..N : i < f[0] => i \in C
<1> DEFINE T == {j \in 0..N : j \notin C}
<1>1. N \in T /\ T \subseteq Nat OBVIOUS
<1>2. PICK x \in T : \A y \in T : x <= y
  <2> HIDE DEF T
  <2>1. T # {} BY <1>1
  <2> QED BY <1>1, <2>1, Least
<1>3. x \in 0..N /\ x \notin C /\ \A i \in 0..N : i < x => i \in C
  <2>1. x \in 0..N /\ x \notin C OBVIOUS
  <2>2. ASSUME NEW i \in 0..N, i < x PROVE i \in C
    <3>1. i \notin T BY <1>2, <2>2
    <3> QED BY <3>1
  <2> QED BY <2>1, <2>2
<1>4. \A k \in 0..N : f[k] = IF k \in C THEN f[k + 1] ELSE k
  <2> DEFINE G == [k \in 0..N |-> IF k \in C THEN f[k + 1] ELSE k]
  <2>1. f = G BY DEF Turns
  <2>2. \A k \in 0..N : G[k] = IF k \in C THEN f[k + 1] ELSE k OBVIOUS
  <2> HIDE DEF G
  <2> QED BY ONLY <2>1, <2>2, Zenon
<1> DEFINE R == {i \in 0..x : f[0] = f[i]}
<1>5. \A i \in 0..x : i \in R
  <2>1. 0 \in R /\ x \in Nat BY <1>3
  <2>2. ASSUME NEW i \in 1..x, i - 1 \in R PROVE i \in R
    <3>1. i - 1 \in 0..N /\ i - 1 < x /\ (i - 1) + 1 = i /\ i \in 0..x BY <1>3
    <3>2. f[i - 1] = f[(i - 1) + 1] BY <1>3, <1>4, <3>1
    <3> QED BY <2>2, <3>1, <3>2
  <2> HIDE DEF R
  <2> QED BY <2>1, <2>2, Reached
<1>6. f[0] = f[x] BY <1>3, <1>5
<1>7. f[x] = x BY <1>3, <1>4
<1> QED BY <1>3, <1>6, <1>7

\* The condition of the loop that shifts right.
More(exp, sig, k) ==
  \/ Lead(Jam(sig, k)) > 1 /\ exp + k < MaxExp
  \/ Jam(sig, k) > 4 /\ exp + k < 0

\* The first bits of a significand, by its size.
LEMMA LeadIs ==
  ASSUME NEW s \in Nat
  PROVE  /\ Lead(s) > 1 <=> s >= 16 * Hidden
         /\ Lead(s) = 0 <=> s < 8 * Hidden
         /\ Lead(s) \in Nat
<1> DEFINE h == 8 * Hidden
<1>1. h \in Nat \ {0} /\ 2^(FB + 3) = h /\ 16 * Hidden = 2 * h BY HiddenCodes
<1>2. Lead(s) = s \div h BY <1>1 DEF Lead
<1> HIDE DEF h
<1> DEFINE q == s \div h
           f == s % h
<1>3. q \in Int /\ f \in 0..(h - 1) /\ s = q * h + f
  <2>1. s \in Int OBVIOUS
  <2> QED BY <1>1, <2>1, Euclid
<1> HIDE DEF q, f
<1>4. q >= 0
  <2>1. SUFFICES ASSUME q <= -1 PROVE FALSE BY <1>3
  <2>2. q * h <= (-1) * h /\ q * h \in Int BY <1>1, <1>3, <2>1, Monotone
  <2> QED BY <1>1, <1>3, <2>2
<1>5. q > 1 <=> s >= 2 * h
  <2>1. CASE q > 1
    <3>1. 2 * h <= q * h /\ q * h \in Int BY <1>1, <1>3, <2>1, Monotone
    <3> QED BY <1>1, <1>3, <2>1, <3>1
  <2>2. CASE q <= 1
    <3>1. q * h <= 1 * h /\ q * h \in Int BY <1>1, <1>3, <2>2, Monotone
    <3> QED BY <1>1, <1>3, <2>2, <3>1
  <2> QED BY <1>3, <2>1, <2>2
<1>6. q = 0 <=> s < h
  <2>1. CASE q >= 1
    <3>1. 1 * h <= q * h /\ q * h \in Int BY <1>1, <1>3, <2>1, Monotone
    <3> QED BY <1>1, <1>3, <2>1, <3>1
  <2>2. CASE q = 0
    <3>1. q * h = 0 BY <1>1, <2>2
    <3> QED BY <1>1, <1>3, <2>2, <3>1
  <2> QED BY <1>3, <1>4, <2>1, <2>2
<1> QED BY <1>1, <1>2, <1>3, <1>4, <1>5, <1>6 DEF h, q

\* It stops as soon as its condition fails, and does so: a significand has at most Long bits.
LEMMA RightShiftsStop ==
  ASSUME NEW exp \in Int, NEW sig \in Nat, sig < Pow[Long]
  PROVE  /\ RightShifts(exp, sig) \in 0..Long
         /\ ~More(exp, sig, RightShifts(exp, sig))
         /\ RightShifts(exp, sig) > 0 => More(exp, sig, RightShifts(exp, sig) - 1)
<1> DEFINE C == {k \in 0..Long : More(exp, sig, k)}
           H(f) == [k \in 0..Long |->
                      LET s == Jam(sig, k)
                          e == exp + k
                      IN  IF (Lead(s) > 1 /\ e < MaxExp) \/ (s > 4 /\ e < 0) THEN f[k + 1] ELSE k]
           t == CHOOSE f : f = H(f)
<1>1. RightShifts(exp, sig) = t[0] BY DEF RightShifts
<1>2. Long \in Nat /\ Long <= FloatPower /\ Long \in 0..Long BY FloatSizes DEF FloatPower
<1>3. \A f : H(f) = [k \in 0..Long |-> IF k \in C THEN f[k + 1] ELSE k]
  <2>1. \A k \in 0..Long : k \in C <=> ((Lead(Jam(sig, k)) > 1 /\ exp + k < MaxExp) \/ (Jam(sig, k) > 4 /\ exp + k < 0)) BY DEF More
  <2> HIDE DEF C
  <2> QED BY <2>1
<1>4. Long \notin C
  <2> DEFINE s == Jam(sig, Long)
             p == Pow[Long]
  <2>1. s \in Nat /\ Tells(s, sig, p, TRUE, 2) BY <1>2, JamIs
  <2>2. p \in Nat \ {0} BY <1>2, PowTwo
  <2> HIDE DEF s
  <2>3. s < 2
    <3>1. (2 * 1) * p = 2 * p BY <2>2
    <3>2. sig < 2 * p BY <2>2
    <3>3. sig < (2 * 1) * p BY <3>1, <3>2
    <3> DEFINE j == 1
               y == TRUE
    <3>4. s \in Int /\ sig \in Int /\ p \in Int /\ 2 \in Nat /\ j \in Int BY <2>1, <2>2
    <3>5. sig < (2 * j) * p BY <3>3
    <3>7. Tells(s, sig, p, y, 2) BY <2>1
    <3> HIDE DEF j, y
    <3>6. s < 2 * j BY <3>4, <3>5, <3>7, Told
    <3> QED BY <3>6, <2>1 DEF j
  <2>4. Hidden \in Nat /\ Hidden >= 16 BY HiddenCodes
  <2>5. ~(Lead(s) > 1) BY <2>1, <2>3, <2>4, LeadIs
  <2> QED BY <2>1, <2>3, <2>5 DEF More, s
<1>5. PICK w : Turns(w, Long, C)
  <2> HIDE DEF C
  <2> QED BY <1>2, <1>4, LoopExists
<1>6. w = H(w)
  <2> HIDE DEF C, H
  <2> QED BY <1>3, <1>5 DEF Turns
<1>7. t = H(t)
  <2> HIDE DEF H
  <2> QED BY <1>6
<1> HIDE DEF t
<1>8. Turns(t, Long, C)
  <2> HIDE DEF H, C
  <2> QED BY <1>3, <1>7 DEF Turns
<1>9. /\ t[0] \in 0..Long
      /\ t[0] \notin C
      /\ \A i \in 0..Long : i < t[0] => i \in C
  <2> HIDE DEF C, H
  <2> QED BY <1>2, <1>4, <1>8, LoopEnds
<1>10. ~More(exp, sig, t[0]) BY <1>9
<1>11. t[0] > 0 => More(exp, sig, t[0] - 1)
  <2> SUFFICES ASSUME t[0] > 0 PROVE More(exp, sig, t[0] - 1) OBVIOUS
  <2>1. t[0] - 1 \in 0..Long /\ t[0] - 1 < t[0]
    <3> HIDE DEF C
    <3> QED BY <1>2, <1>9
  <2>2. t[0] - 1 \in C BY <1>9, <2>1
  <2> QED BY <2>2
<1> QED BY <1>1, <1>9, <1>10, <1>11

\* So does the one that shifts left, after exp turns at most.
LEMMA LeftShiftsStop ==
  ASSUME NEW exp \in Nat, NEW sig
  PROVE  /\ LeftShifts(exp, sig) \in 0..exp
         /\ LeftShifts(exp, sig) < exp => Lead(sig * 2^LeftShifts(exp, sig)) # 0
         /\ LeftShifts(exp, sig) > 0 => Lead(sig * 2^(LeftShifts(exp, sig) - 1)) = 0
<1> DEFINE C == {k \in 0..exp : Lead(sig * 2^k) = 0 /\ k < exp}
           H(f) == [k \in 0..exp |-> IF Lead(sig * 2^k) = 0 /\ k < exp THEN f[k + 1] ELSE k]
           t == CHOOSE f : f = H(f)
<1>1. LeftShifts(exp, sig) = t[0] BY DEF LeftShifts
<1>3. \A f : H(f) = [k \in 0..exp |-> IF k \in C THEN f[k + 1] ELSE k]
  <2>1. \A k \in 0..exp : k \in C <=> (Lead(sig * 2^k) = 0 /\ k < exp) OBVIOUS
  <2> HIDE DEF C
  <2> QED BY <2>1
<1>4. exp \notin C
  <2>1. ~(exp < exp) OBVIOUS
  <2> QED BY <2>1, Zenon
<1>5. PICK w : Turns(w, exp, C)
  <2> HIDE DEF C
  <2> QED BY <1>4, LoopExists
<1>6. w = H(w)
  <2> HIDE DEF C, H
  <2> QED BY <1>3, <1>5 DEF Turns
<1>7. t = H(t)
  <2> HIDE DEF H
  <2> QED BY <1>6
<1> HIDE DEF t
<1>8. Turns(t, exp, C)
  <2> HIDE DEF H, C
  <2> QED BY <1>3, <1>7 DEF Turns
<1>9. /\ t[0] \in 0..exp
      /\ t[0] \notin C
      /\ \A i \in 0..exp : i < t[0] => i \in C
  <2> HIDE DEF C, H
  <2> QED BY <1>4, <1>8, LoopEnds
<1>10. t[0] < exp => Lead(sig * 2^(t[0])) # 0 BY <1>9
<1>11. t[0] > 0 => Lead(sig * 2^(t[0] - 1)) = 0
  <2> SUFFICES ASSUME t[0] > 0 PROVE Lead(sig * 2^(t[0] - 1)) = 0 OBVIOUS
  <2>1. t[0] - 1 \in 0..exp /\ t[0] - 1 < t[0]
    <3> HIDE DEF C
    <3> QED BY <1>9
  <2>2. t[0] - 1 \in C BY <1>9, <2>1
  <2> QED BY <2>2
<1> QED BY <1>1, <1>9, <1>10, <1>11

\* Told, of what is exact.
LEMMA ToldExactly ==
  ASSUME NEW s \in Int, NEW N \in Int, NEW D \in Int, NEW g \in Nat, Tells(s, N, D, TRUE, g), NEW j \in Int
  PROVE  /\ g * j <= s => (g * j) * D <= N
         /\ s < g * j => N < (g * j) * D
         /\ N < (g * j) * D => s < g * j
         /\ (g * j) * D <= N => g * j <= s
<1> DEFINE y == TRUE
<1>1. Tells(s, N, D, y, g) OBVIOUS
<1> HIDE DEF y
<1> QED BY <1>1, Told

\* A significand shifted right tells what it did, in larger units.
LEMMA JamTells ==
  ASSUME NEW sig \in Nat, NEW k \in Nat, k <= FloatPower, NEW i \in Nat, i + k <= Far,
         NEW N \in Int, NEW den \in Nat, NEW exact, Tells(sig, N, den * Pow[i], exact, 2)
  PROVE  Jam(sig, k) \in Nat /\ Tells(Jam(sig, k), N, den * Pow[i + k], exact, 2)
<1> DEFINE t == Jam(sig, k)
           p == Pow[k]
           u == Pow[i]
           D == den * u
<1>1. t \in Nat /\ Tells(t, sig, p, TRUE, 2) BY JamIs
<1>2. Pow[i + k] = u * p /\ u \in Nat /\ p \in Nat
  <2>1. Far \in Nat /\ i <= Far /\ k <= Far BY FloatSizes
  <2> QED BY <2>1, PowAdd, PowNumber
<1>3. D \in Int BY <1>2
<1>4. Tells(sig, N, D, exact, 2) OBVIOUS
<1> HIDE DEF t, p, u, D
<1>5. t \in Int /\ sig \in Int BY <1>1
<1>6. Tells(t, N, D * p, exact, 2) BY <1>1, <1>2, <1>3, <1>4, <1>5, TellsThrough
<1>7. D * p = den * (u * p) BY <1>2 DEF D
<1>8. Tells(t, N, den * (u * p), exact, 2) BY <1>6, <1>7
<1> QED BY <1>1, <1>2, <1>8 DEF t

\* A significand too large for the largest exponent: its fraction is not below infinity's value.
LEMMA TooLarge ==
  ASSUME NEW num \in Nat, NEW den \in Nat, NEW h \in Nat, NEW i \in Nat, (MaxExp - 2) + h <= i, i <= Far,
         NEW s \in Nat, s >= 16 * Hidden, NEW exact, Tells(s, (8 * num) * Pow[h], den * Pow[i], exact, 2)
  PROVE  Nearest(num, den) = MaxMagnitude
<1> DEFINE v == Pow[MaxExp - 2]
           p == Pow[h]
           u == Pow[i]
           b == Hidden
<1>1. b \in Nat /\ b >= 16 /\ MaxExp - 2 \in Nat /\ MaxExp \in Int /\ Far \in Nat BY HiddenCodes, FloatSizes
<1>2. v \in Nat \ {0} /\ p \in Nat \ {0} /\ u \in Nat /\ v * p <= u
  <2>1. MaxExp - 2 <= Far /\ h <= Far /\ (MaxExp - 2) + h \in Nat /\ (MaxExp - 2) + h <= Far BY <1>1
  <2>2. Pow[(MaxExp - 2) + h] = v * p BY <1>1, <2>1, PowAdd
  <2>3. Pow[(MaxExp - 2) + h] <= u BY <2>1, PowMonotone
  <2> QED BY <1>1, <2>1, <2>2, <2>3, PowNumber
<1>3. Value[MaxMagnitude] = (2 * b) * v
  <2> DEFINE c == MaxExp - 1
             q == 2 * b
  <2>1. c \in 1..(MaxExp - 1) /\ q \in 0..(2 * Hidden) /\ (c > 1 => q >= Hidden) /\ c - 1 = MaxExp - 2 BY <1>1, FloatSizes
  <2>5. MaxMagnitude = MaxExp * b BY DEF MaxMagnitude
  <2> HIDE DEF c, q
  <2>2. Value[(c - 1) * Hidden + q] = q * Pow[c - 1] BY <2>1, ValueIs
  <2> HIDE DEF b
  <2>3. (MaxExp - 2) * b + 2 * b = MaxExp * b BY <1>1
  <2>4. (c - 1) * Hidden + q = MaxMagnitude BY <2>1, <2>3, <2>5 DEF q, b
  <2> QED BY <2>1, <2>2, <2>4 DEF q, b
<1>4. (2 * (8 * b)) * (den * u) <= (8 * num) * p
  <2> DEFINE j == 8 * b
             N == (8 * num) * p
             D == den * u
  <2>1. Tells(s, N, D, exact, 2) OBVIOUS
  <2>2. N \in Int /\ D \in Int /\ j \in Int /\ s \in Int /\ 2 \in Nat /\ 2 * j <= s BY <1>1, <1>2
  <2> HIDE DEF N, D, j
  <2>3. (2 * j) * D <= N BY <2>1, <2>2, Told
  <2> QED BY <2>3 DEF N, D, j
<1>10. Value[MaxMagnitude] \in Int /\ b = Hidden BY <1>1, <1>2, <1>3
<1> HIDE DEF v, p, u, b
<1> DEFINE x == (2 * b) * den
<1>5. x \in Nat BY <1>1
<1>6. (2 * (8 * b)) * (den * u) = (8 * x) * u /\ ((2 * b) * v) * den = x * v /\ (8 * num) * p = (8 * p) * num
  <2>1. (2 * (8 * b)) * (den * u) = (8 * x) * u BY <1>1, <1>2
  <2>2. ((2 * b) * v) * den = x * v BY <1>1, <1>2
  <2>3. (8 * num) * p = (8 * p) * num BY <1>2
  <2> QED BY <2>1, <2>2, <2>3
<1> HIDE DEF x
<1>7. (v * p) * (8 * x) <= u * (8 * x) /\ (v * p) * (8 * x) \in Int /\ u * (8 * x) \in Int
  <2>1. v * p \in Int /\ u \in Int /\ 8 * x \in Nat BY <1>2, <1>5
  <2> QED BY <1>2, <2>1, Monotone
<1>8. (x * v) * (8 * p) = (v * p) * (8 * x) /\ u * (8 * x) = (8 * x) * u /\ x * v \in Int
  <2>1. (x * v) * (8 * p) = (v * p) * (8 * x) BY <1>2, <1>5
  <2>2. u * (8 * x) = (8 * x) * u /\ x * v \in Int BY <1>2, <1>5
  <2> QED BY <2>1, <2>2
<1>9. x * v <= num
  <2>1. (x * v) * (8 * p) <= num * (8 * p)
    <3> DEFINE l == (x * v) * (8 * p)
               m == u * (8 * x)
               r == num * (8 * p)
    <3>4. num * (8 * p) = (8 * p) * num /\ r \in Int BY <1>2
    <3>5. (8 * x) * u <= (8 * p) * num
      <4> HIDE DEF l, m, r
      <4> QED BY ONLY <1>4, <1>6, Zenon
    <3>6. l = (v * p) * (8 * x) /\ m = (8 * x) * u /\ r = (8 * p) * num BY ONLY <1>8, <3>4, Zenon
    <3>1. l <= m /\ m <= r /\ l \in Int /\ m \in Int
      <4>1. l <= m
        <5> HIDE DEF r, x
        <5> QED BY ONLY <1>7, <1>8, Zenon
      <4>2. l \in Int /\ m \in Int
        <5> QED BY ONLY <1>7, <1>8, Zenon
      <4>3. m <= r
        <5> HIDE DEF l, m, r
        <5> QED BY ONLY <3>5, <3>6, Zenon
      <4> QED BY <4>1, <4>2, <4>3
    <3>2. r \in Int BY <3>4
    <3> HIDE DEF l, m, r
    <3>3. l <= r BY <3>1, <3>2
    <3> QED BY <3>3 DEF l, r
  <2>2. 8 * p \in Nat \ {0} /\ x * v \in Int /\ num \in Int BY <1>2, <1>8
  <2> QED BY <2>1, <2>2, Cancel
<1>11. Value[MaxMagnitude] * den <= num BY <1>3, <1>6, <1>9
<1> QED BY <1>11, NearestInf

\* A significand of 4 at most, below the exponent of denormals: its fraction is nearest to 0.
LEMMA TooSmall ==
  ASSUME NEW num \in Nat, NEW den \in Nat, NEW h \in Nat, NEW i \in Nat, i + 2 <= h, h <= Far,
         NEW s \in Nat, s <= 4, NEW exact, Tells(s, (8 * num) * Pow[h], den * Pow[i], exact, 2)
  PROVE  Nearest(num, den) = 0
<1> DEFINE p == Pow[h]
           u == Pow[i]
<1>2. p \in Nat \ {0} /\ u \in Nat \ {0} /\ 4 * u <= p
  <2>1. Far \in Nat /\ i + 2 \in Nat /\ i + 2 <= Far /\ i + 1 <= Far /\ i <= Far /\ i + 1 \in Nat /\ (i + 1) + 1 = i + 2 BY FloatSizes
  <2>2. Pow[i + 1] = 2 * u BY <2>1, PowNext
  <2>3. (i + 1) + 1 <= Far BY <2>1
  <2>4. Pow[(i + 1) + 1] = 2 * Pow[i + 1] BY <2>1, <2>3, PowNext
  <2>5. Pow[i + 2] <= p BY <2>1, PowMonotone
  <2>6. u \in Nat \ {0} /\ p \in Nat \ {0} BY <2>1, PowNumber
  <2> QED BY <2>1, <2>2, <2>4, <2>5, <2>6
<1>4. (8 * num) * p < (2 * 3) * (den * u)
  <2> DEFINE j == 3
             N == (8 * num) * p
             D == den * u
  <2>1. Tells(s, N, D, exact, 2) OBVIOUS
  <2>2. N \in Int /\ D \in Int /\ j \in Int /\ s \in Int /\ 2 \in Nat /\ s < 2 * j BY <1>2
  <2> HIDE DEF N, D, j
  <2>3. N < (2 * j) * D BY <2>1, <2>2, Told
  <2> QED BY <2>3 DEF N, D, j
<1> HIDE DEF p, u
<1>5. (4 * u) * (8 * num) <= p * (8 * num) /\ (4 * u) * (8 * num) \in Int /\ p * (8 * num) \in Int
  <2>1. 4 * u \in Int /\ p \in Int /\ 8 * num \in Nat BY <1>2
  <2> QED BY <1>2, <2>1, Monotone
<1>6. (4 * u) * (8 * num) = (32 * num) * u /\ p * (8 * num) = (8 * num) * p /\ (2 * 3) * (den * u) = (6 * den) * u BY <1>2
<1>7. (32 * num) * u < (6 * den) * u
  <2> DEFINE l == (32 * num) * u
             m == p * (8 * num)
             r == (6 * den) * u
  <2>1. l <= m /\ m < r /\ l \in Int /\ m \in Int BY <1>4, <1>5, <1>6
  <2>2. r \in Int BY <1>2
  <2> HIDE DEF l, m, r
  <2>3. l < r BY <2>1, <2>2
  <2> QED BY <2>3 DEF l, r
<1>8. 32 * num < 6 * den
  <2>1. 32 * num \in Int /\ 6 * den \in Int BY <1>2
  <2> QED BY <1>2, <1>7, <2>1, Cancel
<1>9. 2 * num < den BY <1>8
<1> QED BY <1>9, NearestZero

----------------------------------------------------------------------------
(* Normalization.                                                            *)

\* The two comparisons most needed.
LEMMA UnderTold ==
  ASSUME NEW s \in Int, NEW N \in Int, NEW D \in Int, Tells(s, N, D, TRUE, 2), NEW j \in Int, s < 2 * j
  PROVE  N < (2 * j) * D
<1>1. 2 * j <= s \/ s < 2 * j => N < (2 * j) * D BY ToldExactly
<1> QED BY <1>1

LEMMA ToldUnder ==
  ASSUME NEW s \in Int, NEW N \in Int, NEW D \in Int, Tells(s, N, D, TRUE, 2), NEW j \in Int, N < (2 * j) * D
  PROVE  s < 2 * j
<1>1. N < (2 * j) * D => s < 2 * j BY ToldExactly
<1> QED BY <1>1

\* Units of a common factor.
LEMMA CommonUnit ==
  ASSUME NEW s \in Int, NEW num \in Nat, NEW den \in Nat, NEW h \in Nat, NEW i \in Nat, i + h <= Far,
         NEW exact, Tells(s, (8 * num) * Pow[h], den * Pow[i + h], exact, 2)
  PROVE  Tells(s, 8 * num, den * Pow[i], exact, 2)
<1> DEFINE p == Pow[h]
           u == Pow[i]
           D == den * u
           N == 8 * num
<1>1. p \in Nat \ {0} /\ u \in Nat /\ Pow[i + h] = u * p
  <2>1. Far \in Nat /\ i <= Far /\ h <= Far BY FloatSizes
  <2> QED BY <2>1, PowNumber, PowAdd
<1>2. Tells(s, N * p, den * (u * p), exact, 2) BY <1>1
<1> HIDE DEF p, u
<1>3. den * (u * p) = D * p /\ D \in Int /\ N \in Int BY <1>1
<1>4. Tells(s, N * p, D * p, exact, 2) BY <1>2, <1>3
<1> HIDE DEF D, N
<1>5. 2 \in Nat OBVIOUS
<1>6. Tells(s, N, D, exact, 2) BY <1>1, <1>3, <1>4, <1>5, TellsCancelled
<1> QED BY <1>6 DEF D, N, u

\* A significand that tells where a fraction is, and is too long, or whose exponent is negative, is normalized
\* rightly by shifting right.  The fraction's unit would be no whole number under a negative exponent: both sides
\* have h factors of two more.
LEMMA NormalizeRight ==
  ASSUME NEW sign \in {0, 1}, NEW exp \in Int, NEW sig \in Nat, sig < Pow[Long], Lead(sig) > 1 \/ exp < 0,
         NEW num \in Nat, NEW den \in Nat \ {0}, NEW exact, NEW h \in Nat,
         (exp - 1) + h >= 0, (exp + h) + Long <= Far, MaxExp + h <= Far,
         Tells(sig, (8 * num) * Pow[h], den * Pow[(exp - 1) + h], exact, 2)
  PROVE  Rightly(Normalize(sign, exp, sig), sign, num, den, exact)
<1> DEFINE k == RightShifts(exp, sig)
           e == exp + k
           s == Jam(sig, k)
           b == Hidden
           i == (exp - 1) + h
           N == (8 * num) * Pow[h]
<1>1. k \in 0..Long /\ ~More(exp, sig, k) /\ (k > 0 => More(exp, sig, k - 1)) BY RightShiftsStop
<1>2. Normalize(sign, exp, sig) = IF e >= MaxExp THEN Inf(sign)
                                  ELSE IF e < 0 THEN Zero(sign)
                                  ELSE Rounded(sign, e, Jam(sig, IF e = 0 THEN k + 1 ELSE k))
  BY DEF Normalize
<1>3. /\ b \in Nat /\ b >= 16 /\ b = Hidden /\ MaxExp \in Int /\ MaxExp >= 3 /\ Far \in Nat
      /\ Long \in Nat /\ Long + 1 <= FloatPower /\ FloatPower \in Nat /\ FloatPower <= Far
  BY HiddenCodes, FloatSizes DEF FloatPower
<1>4. i \in Nat /\ N \in Int /\ h <= Far
  <2>1. h <= Far BY <1>3
  <2>2. Pow[h] \in Nat BY <2>1, PowNumber
  <2> DEFINE p == Pow[h]
  <2>3. p \in Nat BY <2>2
  <2> HIDE DEF p
  <2>4. (8 * num) * p \in Int BY <2>3
  <2> QED BY <2>1, <2>4 DEF p
<1>5. Tells(sig, N, den * Pow[i], exact, 2) OBVIOUS
<1>6. i = (exp - 1) + h /\ e = exp + k /\ N = (8 * num) * Pow[h] OBVIOUS
<1> HIDE DEF k, e, i, b, N
\* What j shifts leave.
<1>7. ASSUME NEW j \in Nat, j <= Long + 1, (j = Long + 1 => e <= 0)
      PROVE  Jam(sig, j) \in Nat /\ Tells(Jam(sig, j), N, den * Pow[i + j], exact, 2)
  <2>1. j <= FloatPower /\ i + j <= Far BY <1>1, <1>3, <1>4, <1>6, <1>7
  <2> QED BY <1>4, <1>5, <2>1, JamTells
<1>8. s \in Nat /\ Tells(s, N, den * Pow[i + k], exact, 2)
  <2>1. k \in Nat /\ k <= Long + 1 /\ k # Long + 1 BY <1>1, <1>3
  <2> QED BY <1>7, <2>1
<1>9. i + k = (e - 1) + h /\ e \in Int /\ i + k \in Nat /\ i + k + 1 <= Far + 1 BY <1>1, <1>3, <1>4, <1>6
<1>10. \/ Lead(s) > 1 /\ e < MaxExp => FALSE BY <1>1, <1>6 DEF More
<1>11. ~(s > 4 /\ e < 0) BY <1>1, <1>6 DEF More
\* Too large.
<1>12. CASE e >= MaxExp
  <2>1. \E j \in Nat, t \in Nat : /\ (MaxExp - 2) + h <= j /\ j <= Far /\ t >= 16 * Hidden
                                  /\ Tells(t, N, den * Pow[j], exact, 2)
    <3>1. CASE k = 0
      <4>1. ~(exp < 0) /\ Lead(sig) > 1 BY <1>3, <1>6, <1>12, <3>1
      <4>2. sig >= 16 * Hidden BY <4>1, LeadIs
      <4>3. (MaxExp - 2) + h <= i /\ i <= Far BY <1>3, <1>4, <1>6, <1>12, <3>1
      <4> QED BY <1>4, <1>5, <4>2, <4>3
    <3>2. CASE k > 0
      <4>1. More(exp, sig, k - 1) /\ exp + (k - 1) = e - 1 BY <1>1, <1>6, <3>2
      <4>2. ~(e - 1 < 0) BY <1>3, <1>9, <1>12
      <4>3. Lead(Jam(sig, k - 1)) > 1 /\ e - 1 < MaxExp BY <4>1, <4>2 DEF More
      <4>4. k - 1 \in Nat /\ k - 1 <= Long + 1 /\ k - 1 # Long + 1 BY <1>1, <1>3, <3>2
      <4>5. Jam(sig, k - 1) \in Nat /\ Tells(Jam(sig, k - 1), N, den * Pow[i + (k - 1)], exact, 2) BY <1>7, <4>4
      <4>6. Jam(sig, k - 1) >= 16 * Hidden BY <4>3, <4>5, LeadIs
      <4>7. i + (k - 1) \in Nat /\ (MaxExp - 2) + h <= i + (k - 1) /\ i + (k - 1) <= Far BY <1>1, <1>3, <1>4, <1>9, <1>12, <4>3, <4>4
      <4> QED BY <4>5, <4>6, <4>7
    <3> QED BY <1>1, <3>1, <3>2
  <2>2. PICK j \in Nat, t \in Nat : /\ (MaxExp - 2) + h <= j /\ j <= Far /\ t >= 16 * Hidden
                                    /\ Tells(t, N, den * Pow[j], exact, 2)
    BY <2>1
  <2>3. Tells(t, (8 * num) * Pow[h], den * Pow[j], exact, 2) BY <2>2 DEF N
  <2>4. Nearest(num, den) = MaxMagnitude BY <2>2, <2>3, TooLarge
  <2>5. Normalize(sign, exp, sig) = FLOAT(sign, 0, MaxMagnitude) BY <1>2, <1>12, Specials
  <2>6. MaxMagnitude \in 0..MaxMagnitude BY SpecialMagnitudes
  <2> QED BY <2>4, <2>5, <2>6 DEF Rightly
\* Too small.
<1>13. CASE e < 0
  <2>1. s <= 4 BY <1>8, <1>11, <1>13
  <2>2. (i + k) + 2 <= h BY <1>9, <1>13
  <2>3. Tells(s, (8 * num) * Pow[h], den * Pow[i + k], exact, 2) BY <1>8 DEF N
  <2>4. Nearest(num, den) = 0
    <3> DEFINE j == i + k
    <3>1. j \in Nat /\ j + 2 <= h /\ Tells(s, (8 * num) * Pow[h], den * Pow[j], exact, 2) BY <1>9, <2>2, <2>3
    <3> HIDE DEF j, s
    <3> QED BY <1>4, <1>8, <2>1, <3>1, TooSmall
  <2>5. Normalize(sign, exp, sig) = FLOAT(sign, 0, 0)
    <3>1. ~(e >= MaxExp) BY <1>3, <1>9, <1>13
    <3> QED BY <1>2, <1>13, <3>1, Specials
  <2>6. 0 \in 0..MaxMagnitude BY SpecialMagnitudes
  <2> QED BY <2>4, <2>5, <2>6 DEF Rightly
\* A denormal: one more shift gives it the unit of the least normal numbers.
<1>14. CASE e = 0
  <2> DEFINE t == Jam(sig, k + 1)
  <2>1. ~(e >= MaxExp) /\ ~(e < 0) BY <1>3, <1>14
  <2>2. Normalize(sign, exp, sig) = Rounded(sign, 0, t) BY <1>2, <1>14, <2>1
  <2>3. k + 1 \in Nat /\ k + 1 <= Long + 1 /\ k + 1 <= FloatPower BY <1>1, <1>3
  <2>4. t \in Nat /\ Tells(t, N, den * Pow[i + (k + 1)], exact, 2) BY <1>7, <1>14, <2>3
  <2>5. i + (k + 1) = 0 + h BY <1>1, <1>4, <1>9, <1>14
  <2>6. Tells(t, 8 * num, den * Pow[0], exact, 2)
    <3>1. Tells(t, (8 * num) * Pow[h], den * Pow[0 + h], exact, 2) BY <2>4, <2>5 DEF N
    <3>2. 0 \in Nat /\ 0 + h <= Far /\ t \in Int /\ den \in Nat BY <1>3, <1>4, <2>4
    <3> HIDE DEF t
    <3> QED BY <3>1, <3>2, CommonUnit
  <2>7. t < 8 * b
    <3>1. s < 16 * b
      <4>1. ~(Lead(s) > 1) BY <1>3, <1>10, <1>14
      <4> HIDE DEF s
      <4> QED BY <1>3, <1>8, <4>1, LeadIs
    <3> DEFINE p == Pow[k]
               q == Pow[k + 1]
               x == 8 * b
               y == 4 * b
    <3>2. q = 2 * p /\ p \in Nat \ {0}
      <4>1. k \in Nat /\ k <= Far /\ k + 1 <= Far BY <1>1, <1>3
      <4> QED BY <4>1, PowNext, PowNumber
    <3>3. Tells(s, sig, p, TRUE, 2)
      <4>1. k \in Nat /\ k <= FloatPower BY <1>1, <1>3
      <4> QED BY <4>1, JamIs
    <3>4. Tells(t, sig, q, TRUE, 2) BY <2>3, JamIs
    <3>5. s \in Int /\ t \in Int /\ sig \in Int /\ p \in Int /\ q \in Int /\ 2 \in Nat /\ x \in Int /\ y \in Int /\ s < 2 * x
      BY <1>3, <1>8, <2>4, <3>1, <3>2
    <3>6. (2 * x) * p = (2 * y) * q
      <4> HIDE DEF p, q
      <4> QED BY <1>3, <3>2
    <3>7. 2 * y = 8 * b BY <1>3
    <3> HIDE DEF s, t, p, q, x, y
    <3>8. sig < (2 * x) * p BY ONLY <3>3, <3>5, UnderTold
    <3>9. sig < (2 * y) * q BY <3>6, <3>8
    <3>10. t < 2 * y BY ONLY <3>4, <3>5, <3>9, ToldUnder
    <3> QED BY <3>7, <3>10
  <2>8. Tells(t, 8 * num, den * Pow[0], exact, 4) BY <2>6, TellsFour
  <2> DEFINE o == 0
  <2>9. o \in 0..(MaxExp - 1) /\ (o > 0 => t >= 8 * Hidden) /\ (o = 0 => t < 8 * Hidden) /\ t < 16 * Hidden
    BY <1>3, <2>4, <2>7
  <2>10. Tells(t, 8 * num, den * Pow[IF o = 0 THEN 0 ELSE o - 1], exact, 4) BY <2>8
  <2>11. Normalize(sign, exp, sig) = Rounded(sign, o, t) BY <2>2
  <2> HIDE DEF o, t
  <2> QED BY <2>4, <2>9, <2>10, <2>11, RoundedRightly
\* A normal number: its first bit is where it should be.
<1>15. CASE 0 < e /\ e < MaxExp
  <2>1. ~(e >= MaxExp) /\ ~(e < 0) /\ e # 0 /\ e - 1 \in Nat BY <1>3, <1>9, <1>15
  <2>2. Normalize(sign, exp, sig) = Rounded(sign, e, s) BY <1>2, <2>1
  <2>3. s < 16 * b
    <3>1. ~(Lead(s) > 1) BY <1>10, <1>15
    <3> HIDE DEF s
    <3> QED BY <1>3, <1>8, <3>1, LeadIs
  <2>4. k > 0
    <3>1. SUFFICES ASSUME k = 0 PROVE FALSE BY <1>1
    <3>2. s = sig /\ e = exp
      <4>1. 0 \in Nat /\ 0 <= FloatPower BY <1>3
      <4>2. Jam(sig, 0) = sig BY <4>1, JamIs
      <4> QED BY <1>6, <3>1, <4>2
    <3>3. Lead(s) > 1 BY <1>15, <3>2
    <3> QED BY <1>10, <1>15, <3>3
  <2>5. s >= 8 * b
    <3> DEFINE j == k - 1
               r == Jam(sig, j)
               p == Pow[k]
               q == Pow[j]
               x == 8 * b
               y == 4 * b
    <3>1. j \in Nat /\ j <= FloatPower /\ j <= Far /\ k <= FloatPower /\ k \in Nat /\ k <= Far /\ j + 1 = k BY <1>1, <1>3, <2>4
    <3>2. p = 2 * q /\ q \in Nat \ {0}
      <4>1. j + 1 <= Far BY <3>1
      <4>2. Pow[j + 1] = 2 * Pow[j] BY <3>1, <4>1, PowNext
      <4> QED BY <3>1, <4>2, PowNumber
    <3>3. Lead(r) > 1
      <4>1. More(exp, sig, k - 1) /\ exp + (k - 1) = e - 1 BY <1>1, <1>6, <2>4
      <4>2. ~(e - 1 < 0) BY <1>9, <1>15
      <4> QED BY <4>1, <4>2 DEF More
    <3>4. r \in Nat /\ Tells(r, sig, q, TRUE, 2) BY <3>1, JamIs
    <3>5. Tells(s, sig, p, TRUE, 2) BY <3>1, JamIs
    <3>6. r >= 16 * b
      <4> HIDE DEF r
      <4> QED BY <1>3, <3>3, <3>4, LeadIs
    <3>7. r \in Int /\ s \in Int /\ sig \in Int /\ p \in Int /\ q \in Int /\ 2 \in Nat /\ x \in Int /\ y \in Int /\ 2 * x <= r
      BY <1>3, <1>8, <3>2, <3>4, <3>6
    <3>8. (2 * x) * q = (2 * y) * p
      <4> HIDE DEF p, q
      <4> QED BY <1>3, <3>2
    <3>9. 2 * y = 8 * b BY <1>3
    <3> HIDE DEF s, r, p, q, x, y
    <3>10. (2 * x) * q <= sig BY <3>4, <3>7, ToldExactly
    <3>11. (2 * y) * p <= sig BY <3>8, <3>10
    <3>12. 2 * y <= s BY <3>5, <3>7, <3>11, ToldExactly
    <3> QED BY <3>9, <3>12, <1>8, <1>3 DEF s
  <2>6. Tells(s, 8 * num, den * Pow[e - 1], exact, 2)
    <3> DEFINE j == e - 1
    <3>1. Tells(s, (8 * num) * Pow[h], den * Pow[j + h], exact, 2) BY <1>8, <1>9 DEF N
    <3>2. j \in Nat /\ j + h <= Far /\ s \in Int /\ den \in Nat BY <1>3, <1>4, <1>8, <1>9, <1>15, <2>1
    <3> HIDE DEF s, j
    <3>3. Tells(s, 8 * num, den * Pow[j], exact, 2) BY <3>1, <3>2, CommonUnit
    <3> QED BY <3>3 DEF j
  <2>7. Tells(s, 8 * num, den * Pow[e - 1], exact, 4) BY <2>6, TellsFour
  <2>8. e \in 0..(MaxExp - 1) /\ (e > 0 => s >= 8 * Hidden) /\ (e = 0 => s < 8 * Hidden) /\ s < 16 * Hidden /\ s \in Nat
    BY <1>3, <1>8, <1>9, <1>15, <2>3, <2>5
  <2>9. Tells(s, 8 * num, den * Pow[IF e = 0 THEN 0 ELSE e - 1], exact, 4) BY <2>1, <2>7
  <2> HIDE DEF s
  <2> QED BY <2>2, <2>8, <2>9, RoundedRightly
<1> QED BY <1>3, <1>9, <1>12, <1>13, <1>14, <1>15

\* A significand of the right length, or a denormal, needs no shift.
LEMMA NormalizeDirect ==
  ASSUME NEW sign \in {0, 1}, NEW exp \in 0..(MaxExp - 1), NEW sig \in Nat, ~(Lead(sig) > 1), Lead(sig) = 0 => exp = 0,
         NEW num \in Nat, NEW den \in Nat \ {0}, NEW exact,
         Tells(sig, 8 * num, den * Pow[IF exp = 0 THEN 0 ELSE exp - 1], exact, 2)
  PROVE  Rightly(Normalize(sign, exp, sig), sign, num, den, exact)
<1> DEFINE e == IF exp = 0 /\ Lead(sig) = 1 THEN 1 ELSE exp
<1>1. Hidden \in Nat /\ Hidden >= 16 /\ MaxExp \in Int /\ MaxExp >= 3 BY HiddenCodes, FloatSizes
<1>2. sig < 16 * Hidden /\ (Lead(sig) = 0 <=> sig < 8 * Hidden) /\ (Lead(sig) = 0 \/ Lead(sig) = 1) BY <1>1, LeadIs
<1>3. ~(Lead(sig) > 1 \/ exp < 0) /\ ~(Lead(sig) = 0 /\ exp > 0) BY <1>1
<1>4. Normalize(sign, exp, sig) = Rounded(sign, e, sig) BY <1>3 DEF Normalize
<1>5. e \in 0..(MaxExp - 1) /\ (e > 0 => sig >= 8 * Hidden) /\ (e = 0 => sig < 8 * Hidden) BY <1>1, <1>2
<1>6. (IF e = 0 THEN 0 ELSE e - 1) = (IF exp = 0 THEN 0 ELSE exp - 1) BY <1>1
<1> HIDE DEF e
<1>7. Tells(sig, 8 * num, den * Pow[IF exp = 0 THEN 0 ELSE exp - 1], exact, 4) BY TellsFour
<1>8. Tells(sig, 8 * num, den * Pow[IF e = 0 THEN 0 ELSE e - 1], exact, 4) BY <1>6, <1>7
<1> QED BY <1>2, <1>4, <1>5, <1>8, RoundedRightly

\* Powers of two in the code, of exponents of floats.
LEMMA SmallPowers ==
  ASSUME NEW j \in Nat, j <= MaxExp
  PROVE  2^j = Pow[j] /\ Pow[j] \in Nat \ {0} /\ j <= Far /\ (j > 0 => Pow[j] = 2 * Pow[j - 1])
<1>1. j <= FloatPower /\ FloatPower <= Far /\ Far \in Nat /\ FloatPower \in Nat BY FloatSizes DEF FloatPower
<1>2. ASSUME j > 0 PROVE Pow[j] = 2 * Pow[j - 1]
  <2>1. j >= 1 /\ j <= Far BY ONLY <1>1, <1>2, j \in Nat
  <2>2. j \in 1..Far BY <1>1, <2>1
  <2> QED BY <2>2, PowIs
<1> QED BY <1>1, <1>2, PowTwo

\* A significand that is too short is shifted left at least once.
LEMMA LeftOnce ==
  ASSUME NEW exp \in Nat, exp > 0, NEW sig \in Nat, Lead(sig) = 0
  PROVE  LeftShifts(exp, sig) \in Nat /\ LeftShifts(exp, sig) > 0 /\ LeftShifts(exp, sig) <= exp
<1>1. LeftShifts(exp, sig) \in 0..exp /\ (LeftShifts(exp, sig) < exp => Lead(sig * 2^LeftShifts(exp, sig)) # 0) BY LeftShiftsStop
<1> DEFINE k == LeftShifts(exp, sig)
<1>2. k \in 0..exp /\ (k < exp => Lead(sig * 2^k) # 0) BY <1>1
<1> HIDE DEF k
<1>3. k # 0
  <2>1. SUFFICES ASSUME k = 0 PROVE FALSE OBVIOUS
  <2>2. Lead(sig * 2^0) # 0 BY <1>2, <2>1
  <2>3. sig * 2^0 = sig OBVIOUS
  <2> QED BY <2>2, <2>3
<1>4. k \in 0..exp BY <1>2
<1>5. k \in Nat /\ k > 0 /\ k <= exp BY ONLY <1>3, <1>4, exp \in Nat
<1> QED BY <1>5 DEF k

\* Shifting to the left loses nothing.
LEMMA NormalizeLeft ==
  ASSUME NEW sign \in {0, 1}, NEW exp \in 1..(MaxExp - 1), NEW sig \in Nat, Lead(sig) = 0,
         NEW num \in Nat, NEW den \in Nat \ {0}, sig * (den * Pow[exp - 1]) = 8 * num
  PROVE  Rightly(Normalize(sign, exp, sig), sign, num, den, TRUE)
<1> DEFINE k == LeftShifts(exp, sig)
           b == Hidden
           p == Pow[k - 1]
           z == sig * p
<1>1. b \in Nat /\ b >= 16 /\ MaxExp \in Int /\ MaxExp >= 3 /\ b = Hidden /\ Far \in Nat /\ 1 <= FloatPower
  BY HiddenCodes, FloatSizes DEF FloatPower
<1>2. k \in Nat /\ k > 0 /\ k <= exp /\ exp \in Nat /\ exp <= MaxExp /\ exp < MaxExp
  <2>1. exp \in Nat /\ exp > 0 /\ exp <= MaxExp /\ exp < MaxExp BY <1>1
  <2> QED BY <2>1, LeftOnce
<1>3. ~(Lead(sig) > 1 \/ exp < 0) /\ (Lead(sig) = 0 /\ exp > 0) BY <1>1
<1>4. Normalize(sign, exp, sig) = Rounded(sign, exp - k, IF exp = k THEN Jam(sig * 2^k, 1) ELSE sig * 2^k) BY <1>3 DEF Normalize
<1>5. exp \in Nat BY <1>1
<1>6. (k < exp => Lead(sig * 2^k) # 0) /\ Lead(sig * 2^(k - 1)) = 0
  <2>1. k > 0 BY <1>2
  <2> QED BY <1>5, <2>1, LeftShiftsStop
<1> HIDE DEF k, b
<1>7. 2^k = 2 * p /\ 2^(k - 1) = p /\ p \in Nat \ {0} /\ k - 1 \in Nat /\ k \in Nat
  <2>1. k - 1 \in Nat /\ k - 1 <= MaxExp /\ k \in Nat /\ k <= MaxExp /\ k > 0 BY <1>1, <1>2
  <2>2. 2^k = Pow[k] /\ Pow[k] = 2 * Pow[k - 1] BY <2>1, SmallPowers
  <2>3. 2^(k - 1) = Pow[k - 1] /\ Pow[k - 1] \in Nat \ {0}
    <3> DEFINE j == k - 1
    <3>1. j \in Nat /\ j <= MaxExp BY <2>1
    <3> HIDE DEF j
    <3>2. 2^j = Pow[j] /\ Pow[j] \in Nat \ {0} BY <3>1, SmallPowers
    <3> QED BY <3>2 DEF j
  <2> QED BY <2>1, <2>2, <2>3
<1>8. Lead(sig * p) = 0 /\ (k < exp => Lead(sig * (2 * p)) # 0) BY <1>6, <1>7
<1> HIDE DEF p
<1>9. z \in Nat /\ sig * (2 * p) = 2 * z BY <1>7
<1> HIDE DEF z
<1>10. z < 8 * b
  <2>1. Lead(z) = 0 BY <1>8 DEF z
  <2> QED BY <1>1, <1>9, <2>1, LeadIs
<1>11. sig * 2^k = 2 * z BY <1>7, <1>9
<1>12. CASE k = exp
  <2>1. Jam(2 * z, 1) = z
    <3> DEFINE y == 2 * z
    <3>1. Pow[1] = 2
      <4>1. 1 \in 1..Far BY <1>1, FloatSizes
      <4>2. Pow[1] = 2 * Pow[1 - 1] BY <4>1, PowIs
      <4> QED BY <4>2, PowIs
    <3>2. y \in Nat /\ (y % 2) = 0 /\ y \div 2 = z BY <1>9
    <3>3. 1 \in Nat OBVIOUS
    <3> HIDE DEF y
    <3>4. y % Pow[1] = 0 => Jam(y, 1) = y \div Pow[1] BY <1>1, <3>2, <3>3, JamIs
    <3>5. Jam(y, 1) = z BY <3>1, <3>2, <3>4
    <3> QED BY <3>5 DEF y
  <2>2. Normalize(sign, exp, sig) = Rounded(sign, 0, z)
    <3>1. exp - k = 0 BY <1>2, <1>12
    <3> QED BY <1>4, <1>11, <1>12, <2>1, <3>1
  <2>3. z * (den * Pow[0]) = 8 * num
    <3>1. p = Pow[exp - 1] BY <1>12 DEF p
    <3>2. sig * (den * p) = 8 * num BY <3>1
    <3>3. (sig * p) * den = sig * (den * p) BY <1>7
    <3>4. z * den = 8 * num BY <3>2, <3>3 DEF z
    <3>5. den * Pow[0] = den BY PowIs
    <3> QED BY <3>4, <3>5
  <2>4. den * Pow[0] \in Nat \ {0} BY PowIs
  <2> DEFINE D == den * Pow[0]
             N == 8 * num
             o == 0
  <2>5. z \in Int /\ D \in Nat \ {0} /\ N = z * D /\ 4 \in Nat BY <1>9, <2>3, <2>4
  <2>6. Tells(z, N, D, TRUE, 4)
    <3> HIDE DEF D, N
    <3> QED BY <2>5, TellsExactly
  <2>7. o \in 0..(MaxExp - 1) /\ (o > 0 => z >= 8 * Hidden) /\ (o = 0 => z < 8 * Hidden) /\ z < 16 * Hidden
    BY <1>1, <1>9, <1>10
  <2>8. Tells(z, 8 * num, den * Pow[IF o = 0 THEN 0 ELSE o - 1], TRUE, 4) BY <2>6
  <2>9. Normalize(sign, exp, sig) = Rounded(sign, o, z) BY <2>2
  <2> HIDE DEF o
  <2>10. Rightly(Rounded(sign, o, z), sign, num, den, TRUE)
    <3> DEFINE y == TRUE
    <3>1. Tells(z, 8 * num, den * Pow[IF o = 0 THEN 0 ELSE o - 1], y, 4) BY <2>8
    <3> HIDE DEF y
    <3>2. Rightly(Rounded(sign, o, z), sign, num, den, y) BY <1>9, <2>7, <3>1, RoundedRightly
    <3> QED BY <3>2 DEF y
  <2> QED BY <2>9, <2>10
<1>13. CASE k < exp
  <2> DEFINE e == exp - k
             s == 2 * z
             q == Pow[e - 1]
             D == den * q
             N == 8 * num
  <2>1. e \in 1..(MaxExp - 1) /\ e # 0 /\ exp # k /\ e - 1 \in Nat BY <1>1, <1>2, <1>13
  <2>2. Normalize(sign, exp, sig) = Rounded(sign, e, s) BY <1>4, <1>11, <2>1
  <2>3. s \in Nat /\ s < 16 * b BY <1>1, <1>9, <1>10
  <2>4. s >= 8 * b
    <3>1. Lead(s) # 0 BY <1>6, <1>11, <1>13
    <3> HIDE DEF s
    <3> QED BY <1>1, <2>3, <3>1, LeadIs
  <2>5. q \in Nat \ {0}
    <3> DEFINE j == e - 1
    <3>1. j \in Nat /\ j <= MaxExp BY <1>1, <2>1
    <3> HIDE DEF j, e
    <3>2. Pow[j] \in Nat \ {0} BY <3>1, SmallPowers
    <3> QED BY <3>2 DEF j
  <2>6. Pow[exp - 1] = (2 * p) * q
    <3>1. k \in Nat /\ e - 1 \in Nat /\ k + (e - 1) <= Far /\ k + (e - 1) = exp - 1
      <4>1. exp <= Far BY <1>2, SmallPowers
      <4> QED BY <1>1, <1>2, <1>5, <2>1, <4>1
    <3>2. Pow[k + (e - 1)] = Pow[k] * Pow[e - 1] BY <3>1, PowAdd
    <3>3. Pow[k] = 2 * p
      <4>1. k <= MaxExp BY <1>1, <1>2
      <4>2. 2^k = Pow[k] BY <1>2, <4>1, SmallPowers
      <4> QED BY <1>7, <4>2
    <3> QED BY <3>1, <3>2, <3>3
  <2>7. s * D = N
    <3>1. sig * (den * ((2 * p) * q)) = N BY <2>6
    <3> HIDE DEF q
    <3>2. sig * (den * ((2 * p) * q)) = (sig * (2 * p)) * (den * q) BY <1>7, <2>5
    <3>3. (sig * (2 * p)) = s BY <1>9
    <3> QED BY <3>1, <3>2, <3>3
  <2>8. D \in Nat \ {0}
    <3> HIDE DEF q
    <3>1. 1 * q <= den * q /\ den * q \in Int
      <4>1. 1 \in Int /\ den \in Int /\ q \in Nat /\ 1 <= den BY <2>5
      <4> QED BY <4>1, Monotone
    <3> QED BY <2>5, <3>1
  <2>9. Tells(s, N, D, TRUE, 4)
    <3>1. s \in Int /\ 4 \in Nat /\ N = s * D BY <2>3, <2>7
    <3> HIDE DEF s, N, D
    <3> QED BY <2>8, <3>1, TellsExactly
  <2> DEFINE y == TRUE
  <2>10. Tells(s, 8 * num, den * Pow[IF e = 0 THEN 0 ELSE e - 1], y, 4) BY <2>1, <2>9
  <2>11. e \in 0..(MaxExp - 1) /\ (e > 0 => s >= 8 * Hidden) /\ (e = 0 => s < 8 * Hidden) /\ s < 16 * Hidden
    BY <1>1, <2>1, <2>3, <2>4
  <2> HIDE DEF s, e, y
  <2>12. Rightly(Rounded(sign, e, s), sign, num, den, y) BY <2>3, <2>10, <2>11, RoundedRightly
  <2> QED BY <2>2, <2>12 DEF y
<1>14. k = exp \/ k < exp BY <1>2
<1> QED BY <1>12, <1>13, <1>14

\* One place to the left is as good where the last bits are only a trace.
LEMMA NormalizeOnce ==
  ASSUME NEW sign \in {0, 1}, NEW exp \in 2..(MaxExp - 1), NEW sig \in Nat, 4 * Hidden <= sig, Lead(sig) = 0,
         NEW num \in Nat, NEW den \in Nat \ {0}, NEW exact, Tells(sig, 8 * num, den * Pow[exp - 1], exact, 2)
  PROVE  Rightly(Normalize(sign, exp, sig), sign, num, den, exact)
<1> DEFINE k == LeftShifts(exp, sig)
           b == Hidden
<1>1. b \in Nat /\ b >= 16 /\ MaxExp \in Int /\ MaxExp >= 3 /\ b = Hidden /\ exp \in 1..(MaxExp - 1)
  <2>1. b \in Nat /\ b >= 16 /\ MaxExp \in Int /\ MaxExp >= 3 BY HiddenCodes, FloatSizes
  <2> QED BY <2>1
<1>2. k \in Nat /\ k > 0 /\ k <= exp /\ exp \in Nat /\ exp <= MaxExp
  <2>1. exp \in Nat /\ exp > 0 /\ exp <= MaxExp BY <1>1
  <2> QED BY <2>1, LeftOnce
<1>3. ~(Lead(sig) > 1 \/ exp < 0) /\ (Lead(sig) = 0 /\ exp > 0) BY <1>1
<1>4. Normalize(sign, exp, sig) = Rounded(sign, exp - k, IF exp = k THEN Jam(sig * 2^k, 1) ELSE sig * 2^k) BY <1>3 DEF Normalize
<1>5. exp \in Nat BY <1>1
<1>6. Lead(sig * 2^(k - 1)) = 0
  <2>1. k > 0 BY <1>2
  <2> QED BY <1>5, <2>1, LeftShiftsStop
<1> HIDE DEF k, b
<1>7. sig < 8 * b BY <1>1, LeadIs
<1>8. k = 1
  <2>1. SUFFICES ASSUME k > 1 PROVE FALSE BY <1>2
  <2> DEFINE p == Pow[(k - 1) - 1]
  <2>2. 2^(k - 1) = Pow[k - 1] /\ Pow[k - 1] = 2 * p /\ p \in Nat \ {0}
    <3> DEFINE j == k - 1
               i == j - 1
    <3>1. j \in Nat /\ j <= MaxExp /\ j > 0 /\ i \in Nat /\ i <= MaxExp BY <1>1, <1>2, <2>1
    <3> HIDE DEF i
    <3>2. Pow[i] \in Nat \ {0} BY <3>1, SmallPowers
    <3> HIDE DEF j
    <3>3. 2^j = Pow[j] /\ Pow[j] = 2 * Pow[j - 1] BY <3>1, SmallPowers
    <3> QED BY <3>2, <3>3 DEF i, j
  <2>3. Lead(sig * (2 * p)) = 0 BY <1>6, <2>2
  <2> HIDE DEF p
  <2> DEFINE z == sig * (2 * p)
  <2>4. z \in Nat /\ 2 * sig <= z
    <3>1. 2 \in Int /\ 2 * p \in Int /\ 2 <= 2 * p /\ sig \in Nat BY <2>2
    <3>2. 2 * sig <= (2 * p) * sig /\ (2 * p) * sig \in Int BY <3>1, Monotone
    <3>3. (2 * p) * sig = z /\ z \in Nat BY <2>2
    <3> QED BY <3>2, <3>3
  <2> HIDE DEF z
  <2>5. z < 8 * Hidden BY <2>3, <2>4, LeadIs DEF z
  <2> QED BY <1>1, <2>4, <2>5
<1> DEFINE e == exp - 1
           s == 2 * sig
           D == den * Pow[e - 1]
           N == 8 * num
<1>9. sig * 2^k = s BY <1>8
<1>10. Normalize(sign, exp, sig) = Rounded(sign, e, s) BY <1>1, <1>4, <1>8, <1>9
<1>11. Pow[exp - 1] = 2 * Pow[e - 1] /\ Pow[e - 1] \in Nat
  <2> DEFINE j == e - 1
  <2>1. j \in Nat /\ j <= MaxExp /\ e \in Nat /\ e > 0 /\ e <= MaxExp /\ exp - 1 = e BY <1>1
  <2> HIDE DEF j
  <2>2. Pow[j] \in Nat \ {0} BY <2>1, SmallPowers
  <2> HIDE DEF e
  <2>3. Pow[e] = 2 * Pow[e - 1] BY <2>1, SmallPowers
  <2> QED BY <2>1, <2>2, <2>3 DEF j
<1>12. Tells(s, N, D, exact, 4)
  <2> DEFINE q == Pow[e - 1]
  <2>1. den * Pow[exp - 1] = 2 * D /\ D \in Int
    <3>1. den * (2 * q) = 2 * (den * q) /\ den * q \in Int
      <4>1. q \in Nat BY <1>11
      <4> HIDE DEF q
      <4> QED BY <4>1
    <3> QED BY <1>11, <3>1
  <2>2. Tells(sig, N, 2 * D, exact, 2) BY <2>1
  <2>3. N \in Int /\ sig \in Int OBVIOUS
  <2> HIDE DEF N, D
  <2> QED BY <2>1, <2>2, <2>3, TellsDoubled
<1>13. e \in 0..(MaxExp - 1) /\ (e > 0 => s >= 8 * Hidden) /\ (e = 0 => s < 8 * Hidden) /\ s < 16 * Hidden /\ s \in Nat /\ e # 0
  BY <1>1, <1>7
<1>14. Tells(s, 8 * num, den * Pow[IF e = 0 THEN 0 ELSE e - 1], exact, 4) BY <1>12, <1>13
<1> HIDE DEF s, e
<1> QED BY <1>10, <1>13, <1>14, RoundedRightly

----------------------------------------------------------------------------
(* Sums.                                                                     *)

\* The first powers.
LEMMA FirstPowers == Pow[1] = 2 /\ Pow[2] = 4 /\ Pow[3] = 8 /\ Pow[4] = 16 /\ Pow[6] = 64
<1>1. Far \in Nat /\ Far >= 8 BY FloatSizes
<1>2. 1 \in 1..Far /\ 2 \in 1..Far /\ 3 \in 1..Far /\ 4 \in 1..Far /\ 5 \in 1..Far /\ 6 \in 1..Far BY <1>1
<1>3. Pow[1] = 2 * Pow[0] BY <1>2, PowIs
<1>4. Pow[2] = 2 * Pow[1] BY <1>2, PowIs
<1>5. Pow[3] = 2 * Pow[2] BY <1>2, PowIs
<1>6. Pow[4] = 2 * Pow[3] BY <1>2, PowIs
<1>7. Pow[5] = 2 * Pow[4] BY <1>2, PowIs
<1>8. Pow[6] = 2 * Pow[5] BY <1>2, PowIs
<1> QED BY <1>3, <1>4, <1>5, <1>6, <1>7, <1>8, PowIs

\* A division has room for more bits than a product of two significands.
LEMMA LongPower == Pow[Long] \in Nat /\ 64 * (Hidden * Hidden) <= Pow[Long]
<1>1. FB \in Nat /\ FB + FB \in Nat /\ Long \in Nat /\ Long <= Far /\ FB + FB <= Far /\ (FB + FB) + 6 <= Far /\ (FB + FB) + 6 \in Nat
      /\ (FB + FB) + 6 <= Long /\ 6 \in Nat /\ 6 <= Far
  BY FloatSizes DEF FloatPower
<1>2. Pow[FB + FB] = Hidden * Hidden BY <1>1, PowAdd DEF Hidden
<1>3. Pow[(FB + FB) + 6] = (Hidden * Hidden) * Pow[6] BY <1>1, <1>2, PowAdd
<1>4. Pow[6] = 64 BY FirstPowers
<1>5. Pow[(FB + FB) + 6] <= Pow[Long] BY <1>1, PowMonotone
<1>6. Pow[Long] \in Nat BY <1>1, PowNumber
<1>7. (Hidden * Hidden) * Pow[6] = 64 * (Hidden * Hidden)
  <2> DEFINE x == Hidden * Hidden
  <2>1. x \in Nat BY HiddenCodes
  <2> HIDE DEF x
  <2>2. x * 64 = 64 * x BY <2>1
  <2> QED BY <1>4, <2>2 DEF x
<1> QED BY <1>3, <1>5, <1>6, <1>7

\* The value of a number, and the parts Summed adds.
LEMMA NumberIs ==
  ASSUME NEW v \in Values(FloatBits), Finite(v)
  PROVE  /\ Magnitude(v) \in 0..(MaxMagnitude - 1)
         /\ Scale(v) \in 1..(MaxExp - 1)
         /\ Significand(v) \in Nat /\ Significand(v) < 2 * Hidden
         /\ Scale(v) = (IF Exponent(v) = 0 THEN 1 ELSE Exponent(v))
         /\ Exponent(v) \in 0..(MaxExp - 1)
         /\ (Exponent(v) = 0 => Significand(v) < Hidden)
         /\ (Exponent(v) # 0 => Significand(v) >= Hidden)
         /\ Value[Magnitude(v)] = Significand(v) * Pow[Scale(v) - 1]
         /\ Value[Magnitude(v)] \in Nat
<1> DEFINE m == Magnitude(v)
<1>1. m \in 0..(Codes * Hidden - 1) /\ Exponent(v) = m \div Hidden
      /\ Exponent(m) = Exponent(v) /\ Significand(m) = Significand(v) /\ Scale(m) = Scale(v)
  BY MagnitudeSame
<1>2. m < MaxMagnitude
  <2> DEFINE h == Hidden
             e == m \div h
             f == m % h
  <2>1. h \in Nat \ {0} /\ m \in Int /\ e < MaxExp /\ MaxExp \in Int /\ MaxMagnitude = MaxExp * h
    BY <1>1, HiddenCodes, FloatSizes DEF Finite, MaxMagnitude
  <2> HIDE DEF h, m
  <2>2. e \in Int /\ f \in 0..(h - 1) /\ m = e * h + f BY <2>1, Euclid
  <2> HIDE DEF e, f
  <2>3. e + 1 <= MaxExp /\ e + 1 \in Int BY <2>1, <2>2
  <2>4. (e + 1) * h <= MaxExp * h /\ MaxExp * h \in Int BY <2>1, <2>3, Monotone
  <2>5. (e + 1) * h = e * h + h /\ e * h \in Int BY <2>1, <2>2
  <2> QED BY <2>1, <2>2, <2>4, <2>5
<1>3. m \in 0..(MaxMagnitude - 1)
  <2>1. Codes * Hidden \in Nat /\ MaxMagnitude \in Nat BY HiddenCodes, SpecialMagnitudes
  <2> QED BY <1>1, <1>2, <2>1
<1> HIDE DEF m
<1>4. /\ Scale(m) \in 1..(MaxExp - 1)
      /\ Significand(m) \in 0..(2 * Hidden - 1)
      /\ Exponent(m) = IF Significand(m) < Hidden THEN 0 ELSE Scale(m)
  BY <1>3, Binade
<1>5. Value[m] = Significand(m) * Pow[Scale(m) - 1] /\ Value[m] \in Nat BY <1>3, ValueNext
<1>6. Hidden \in Nat /\ MaxExp \in Int /\ MaxExp >= 3 BY HiddenCodes, FloatSizes
<1>7. Scale(m) # 0 /\ Scale(m) \in Int BY <1>4, <1>6
<1>8. Exponent(m) \in 0..(MaxExp - 1) /\ (Exponent(m) = 0 => Significand(m) < Hidden) /\ (Exponent(m) # 0 => Significand(m) >= Hidden)
  BY <1>4, <1>6, <1>7
<1>9. Scale(v) = (IF Exponent(v) = 0 THEN 1 ELSE Exponent(v)) BY DEF Scale
<1>10. Significand(m) \in Nat /\ Significand(m) < 2 * Hidden BY <1>4, <1>6
<1> QED BY <1>1, <1>3, <1>4, <1>5, <1>8, <1>9, <1>10 DEF m

\* A number nearest to a whole number of units below the least normal number is that.
LEMMA RightlyWhole ==
  ASSUME NEW v, NEW sign, NEW num \in Nat, Rightly(v, sign, num, 1, TRUE)
  PROVE  v = FLOAT(sign, 0, Nearest(num, 1)) /\ Nearest(num, 1) \in 0..MaxMagnitude
<1>1. PICK m \in 0..MaxMagnitude :
        /\ v = FLOAT(sign, 0, m)
        /\ m = Nearest(num, 1) \/ (m = 0 /\ Nearest(num, 1) = Hidden /\ num < Hidden * 1)
  BY DEF Rightly
<1>2. CASE m = Nearest(num, 1) BY <1>1, <1>2
<1>3. CASE m = 0 /\ Nearest(num, 1) = Hidden /\ num < Hidden * 1
  <2>1. Hidden \in Nat /\ Hidden >= 16 /\ MaxExp \in Int /\ MaxExp >= 3 /\ MaxMagnitude \in Nat /\ Hidden < MaxMagnitude
    BY HiddenCodes, FloatSizes, SpecialMagnitudes
  <2>2. num < Hidden /\ num \in 0..(MaxMagnitude - 1) BY <1>3, <2>1
  <2>3. Value[num] = num
    <3> DEFINE c == 1
    <3>1. c \in 1..(MaxExp - 1) /\ num \in 0..(2 * Hidden) /\ (c > 1 => num >= Hidden) BY <2>1, <2>2
    <3> HIDE DEF c
    <3>2. Value[(c - 1) * Hidden + num] = num * Pow[c - 1] BY <3>1, ValueIs
    <3>3. Pow[c - 1] = 1 BY PowIs DEF c
    <3>4. (c - 1) * Hidden + num = num BY <2>1 DEF c
    <3> QED BY <3>2, <3>3, <3>4
  <2>4. Nearest(num, 1) = num BY <2>2, <2>3, NearestSelf
  <2> QED BY <1>3, <2>1, <2>2, <2>4
<1> QED BY <1>1, <1>2, <1>3

\* A number with the sign of a float, and what Summed adds.
With(sign, x) == IF sign = 1 THEN -x ELSE x
Part(lo, hi) == Jam(Significand(lo) * 8, Alignment(lo, hi))
Total(lo, hi) == With(Sign(lo), Part(lo, hi)) + With(Sign(hi), Significand(hi) * 8)

\* What a number tells, it tells with a sign.
LEMMA TellsSigned ==
  ASSUME NEW s \in Int, NEW N \in Int, NEW D \in Int, NEW g \in Nat, NEW sign, Tells(s, N, D, TRUE, g)
  PROVE  Tells(With(sign, s), With(sign, N), D, TRUE, g)
<1>1. CASE sign = 1 BY <1>1, TellsMinus DEF With
<1>2. CASE sign # 1 BY <1>2 DEF With
<1> QED BY <1>1, <1>2

\* The smaller number, in the unit of the larger.
LEMMA PartTells ==
  ASSUME NEW lo \in Values(FloatBits), Finite(lo), NEW hi \in Values(FloatBits), Finite(hi), Exponent(lo) <= Exponent(hi)
  PROVE  /\ Part(lo, hi) \in Nat
         /\ Alignment(lo, hi) \in Nat /\ Alignment(lo, hi) <= FloatPower /\ Alignment(lo, hi) <= Far
         /\ Tells(Part(lo, hi), Significand(lo) * 8, Pow[Alignment(lo, hi)], TRUE, 2)
         /\ (Significand(lo) * 8) % Pow[Alignment(lo, hi)] = 0 =>
              Part(lo, hi) = (Significand(lo) * 8) \div Pow[Alignment(lo, hi)]
         /\ Alignment(lo, hi) = 0 => Part(lo, hi) = Significand(lo) * 8
         /\ Pow[Scale(hi) - 1] = Pow[Alignment(lo, hi)] * Pow[Scale(lo) - 1]
<1> DEFINE d == Alignment(lo, hi)
           x == Significand(lo) * 8
<1>1. /\ Scale(lo) \in 1..(MaxExp - 1) /\ Scale(hi) \in 1..(MaxExp - 1) /\ MaxExp \in Int /\ d = Scale(hi) - Scale(lo)
      /\ Scale(lo) = (IF Exponent(lo) = 0 THEN 1 ELSE Exponent(lo))
      /\ Scale(hi) = (IF Exponent(hi) = 0 THEN 1 ELSE Exponent(hi))
      /\ Exponent(lo) \in 0..(MaxExp - 1) /\ Exponent(hi) \in 0..(MaxExp - 1) /\ Significand(lo) \in Nat
  BY NumberIs, FloatSizes DEF Alignment
<1>2. MaxExp <= FloatPower /\ FloatPower \in Nat /\ Far \in Nat /\ FloatPower <= Far BY FloatSizes DEF FloatPower
<1>3. Scale(lo) <= Scale(hi) BY <1>1
<1>4. d \in Nat /\ d <= FloatPower /\ d <= Far BY <1>1, <1>2, <1>3
<1>5. x \in Nat BY <1>1
<1>6. Part(lo, hi) = Jam(x, d) BY DEF Part
<1>7. Pow[Scale(hi) - 1] = Pow[d] * Pow[Scale(lo) - 1]
  <2> DEFINE i == Scale(lo) - 1
  <2>1. i \in Nat /\ d + i <= Far /\ d + i = Scale(hi) - 1 BY <1>1, <1>2, <1>4
  <2> HIDE DEF i, d
  <2>2. Pow[d + i] = Pow[d] * Pow[i] BY <1>4, <2>1, PowAdd
  <2> QED BY <2>1, <2>2 DEF i
<1> HIDE DEF d, x
<1>8. /\ Jam(x, d) \in Nat
      /\ Tells(Jam(x, d), x, Pow[d], TRUE, 2)
      /\ x % Pow[d] = 0 => Jam(x, d) = x \div Pow[d]
      /\ d = 0 => Jam(x, d) = x
  BY <1>4, <1>5, JamIs
<1> QED BY ONLY <1>4, <1>6, <1>7, <1>8 DEF d, x

\* The exact sum, in eighths of the unit of the larger number.
LEMMA TotalTells ==
  ASSUME NEW lo \in Values(FloatBits), Finite(lo), NEW hi \in Values(FloatBits), Finite(hi), Exponent(lo) <= Exponent(hi)
  PROVE  /\ Total(lo, hi) \in Int /\ Exact(lo) \in Int /\ Exact(hi) \in Int
         /\ Tells(Total(lo, hi), 8 * (Exact(lo) + Exact(hi)), Pow[Scale(hi) - 1], TRUE, 2)
<1> DEFINE d == Alignment(lo, hi)
           p == Pow[d]
           u == Pow[Scale(lo) - 1]
           U == Pow[Scale(hi) - 1]
           a == Significand(lo)
           b == Significand(hi)
           l == Part(lo, hi)
           s == Sign(lo)
           t == Sign(hi)
<1>1. l \in Nat /\ d \in Nat /\ d <= Far /\ Tells(l, a * 8, p, TRUE, 2) /\ U = p * u BY PartTells
<1>2. Value[Magnitude(lo)] = a * u /\ Value[Magnitude(hi)] = b * U /\ a \in Nat /\ b \in Nat
      /\ Scale(lo) \in 1..(MaxExp - 1) /\ Scale(hi) \in 1..(MaxExp - 1)
  BY NumberIs
<1>3. u \in Nat \ {0} /\ U \in Nat \ {0}
  <2>1. MaxExp \in Int BY FloatSizes
  <2>2. Scale(lo) \in 1..MaxExp /\ Scale(hi) \in 1..MaxExp BY <1>2, <2>1
  <2> QED BY <2>2, Units
<1>4. p \in Nat \ {0} BY <1>1, PowNumber
<1>5. Exact(lo) = With(s, a * u) /\ Exact(hi) = With(t, b * U) BY <1>2 DEF Exact, With
<1>6. Total(lo, hi) = With(s, l) + With(t, b * 8) BY DEF Total
<1> HIDE DEF d, p, u, U, a, b, l, s, t
<1> DEFINE n == a * 8
<1>7. n \in Int /\ Tells(l, n, p, TRUE, 2)
  <2>1. n \in Int BY <1>2
  <2>2. Tells(l, n, p, TRUE, 2) BY <1>1
  <2> QED BY <2>1, <2>2
<1>8. Tells(l, n * u, p * u, TRUE, 2)
  <2> DEFINE y == TRUE
  <2>1. Tells(l, n, p, y, 2) BY <1>7
  <2>2. l \in Int /\ p \in Int /\ 2 \in Nat BY <1>1, <1>4
  <2> HIDE DEF n, y
  <2>3. Tells(l, n * u, p * u, y, 2) BY <1>3, <1>7, <2>1, <2>2, TellsCancelled
  <2> QED BY <2>3 DEF y
<1> DEFINE N == n * u
           w == With(s, l)
           W == With(s, N)
           i == With(t, 4 * b)
<1>9. Tells(l, N, U, TRUE, 2) BY <1>1, <1>8
<1>10. N \in Int /\ l \in Int /\ U \in Int /\ 2 \in Nat BY <1>1, <1>2, <1>3
<1>11. w \in Int /\ W \in Int /\ i \in Int
  <2> HIDE DEF N
  <2> QED BY <1>2, <1>10 DEF With
<1> HIDE DEF N
<1>12. Tells(w, W, U, TRUE, 2) BY <1>9, <1>10, TellsSigned
<1> HIDE DEF w, W, i
<1>13. Tells(w + 2 * i, W + (2 * i) * U, U, TRUE, 2) BY <1>10, <1>11, <1>12, TellsMoved
<1>14. w + 2 * i = Total(lo, hi)
  <2>1. 2 * i = With(t, b * 8) BY <1>2 DEF i, With
  <2> QED BY <1>6, <2>1 DEF w
<1> DEFINE au == a * u
           bU == b * U
<1>15. W = 8 * With(s, au) /\ (2 * i) * U = 8 * With(t, bU) /\ au \in Int /\ bU \in Int
  <2>1. N = 8 * au /\ au \in Int BY <1>2, <1>3 DEF N
  <2>2. bU \in Int BY <1>2, <1>3
  <2>3. i = 4 * b \/ (t = 1 /\ i = -(4 * b)) BY DEF i, With
  <2>4. (2 * (4 * b)) * U = 8 * bU /\ (2 * (-(4 * b))) * U = 8 * (-bU) BY <1>2, <1>3
  <2>5. (2 * i) * U = 8 * With(t, bU) BY <2>4 DEF i, With
  <2> HIDE DEF au, bU
  <2>6. W = 8 * With(s, au) BY <2>1 DEF W, With
  <2> QED BY <2>1, <2>2, <2>5, <2>6
<1>16. Exact(lo) = With(s, au) /\ Exact(hi) = With(t, bU) BY <1>5
<1> HIDE DEF au, bU
<1>17. Exact(lo) \in Int /\ Exact(hi) \in Int BY <1>15, <1>16 DEF With
<1>18. W + (2 * i) * U = 8 * (Exact(lo) + Exact(hi)) BY <1>15, <1>16, <1>17
<1>19. Total(lo, hi) \in Int
  <2>1. w + 2 * i \in Int BY <1>11
  <2> QED BY <1>14, <2>1
<1> QED BY <1>13, <1>14, <1>17, <1>18, <1>19 DEF U

\* Sizes of what Summed adds.
LEMMA PartSize ==
  ASSUME NEW lo \in Values(FloatBits), Finite(lo), NEW hi \in Values(FloatBits), Finite(hi), Exponent(lo) <= Exponent(hi)
  PROVE  /\ Part(lo, hi) < 16 * Hidden
         /\ Exponent(hi) = 0 => Part(lo, hi) < 8 * Hidden
         /\ Alignment(lo, hi) >= 4 => Part(lo, hi) < 2 * Hidden
<1> DEFINE d == Alignment(lo, hi)
           p == Pow[d]
           x == Significand(lo) * 8
           l == Part(lo, hi)
           b == Hidden
<1>1. /\ l \in Nat /\ d \in Nat /\ d <= FloatPower /\ d <= Far /\ Tells(l, x, p, TRUE, 2) /\ (d = 0 => l = x)
  BY PartTells
<1>2. /\ Exponent(lo) \in 0..(MaxExp - 1) /\ Exponent(hi) \in 0..(MaxExp - 1) /\ MaxExp \in Int
      /\ Significand(lo) \in Nat /\ Significand(lo) < 2 * Hidden /\ (Exponent(lo) = 0 => Significand(lo) < Hidden)
      /\ Scale(lo) = (IF Exponent(lo) = 0 THEN 1 ELSE Exponent(lo))
      /\ Scale(hi) = (IF Exponent(hi) = 0 THEN 1 ELSE Exponent(hi))
  BY NumberIs, FloatSizes
<1>3. b \in Nat /\ b >= 16 /\ b = Hidden BY HiddenCodes
<1>4. x \in Nat /\ x < 16 * b BY <1>2, <1>3
<1>5. p \in Nat \ {0} BY <1>1, PowNumber
<1>6. Exponent(hi) = 0 => l < 8 * b
  <2>1. SUFFICES ASSUME Exponent(hi) = 0 PROVE l < 8 * b OBVIOUS
  <2>2. Exponent(lo) = 0 BY <1>2, <2>1
  <2>3. d = 0 BY <1>2, <2>1, <2>2 DEF Alignment
  <2> QED BY <1>1, <1>2, <1>3, <2>2, <2>3
<1>7. d >= 4 => p >= 16
  <2>1. SUFFICES ASSUME d >= 4 PROVE p >= 16 OBVIOUS
  <2>2. Pow[4] <= p BY <1>1, <2>1, PowMonotone
  <2>3. Pow[4] = 16 BY FirstPowers
  <2> QED BY <2>2, <2>3
<1> HIDE DEF d, p, x, l, b
<1>8. ASSUME NEW j \in Nat, NEW g \in Nat, g <= p, x < (2 * j) * g
      PROVE  l < 2 * j
  <2> DEFINE w == 2 * j
  <2>1. g * w <= p * w /\ p * w \in Int /\ g * w \in Int
    <3>1. w \in Nat /\ g \in Int /\ p \in Int BY <1>5
    <3> HIDE DEF w
    <3> QED BY <1>8, <3>1, Monotone
  <2>2. g * w = (2 * j) * g /\ p * w = (2 * j) * p BY <1>5
  <2>3. x < (2 * j) * p
    <3> HIDE DEF w
    <3> QED BY <1>4, <1>8, <2>1, <2>2
  <2>4. l \in Int /\ x \in Int /\ p \in Int /\ j \in Int BY <1>1, <1>4, <1>5
  <2> QED BY <1>1, <2>3, <2>4, ToldUnder
<1>9. l < 16 * b
  <2> DEFINE j == 8 * b
  <2>1. j \in Nat /\ 1 \in Nat /\ 1 <= p /\ x < (2 * j) * 1 /\ 2 * j = 16 * b BY <1>3, <1>4, <1>5
  <2> HIDE DEF j
  <2>2. l < 2 * j BY <1>8, <2>1
  <2> QED BY <2>1, <2>2
<1>10. d >= 4 => l < 2 * b
  <2>1. SUFFICES ASSUME d >= 4 PROVE l < 2 * b OBVIOUS
  <2> DEFINE j == b
  <2>2. j \in Nat /\ 16 \in Nat /\ 16 <= p /\ x < (2 * j) * 16 BY <1>3, <1>4, <1>5, <1>7, <2>1
  <2> HIDE DEF j
  <2>3. l < 2 * j BY <1>8, <2>2
  <2> QED BY <2>3 DEF j
<1> QED BY <1>3, <1>6, <1>9, <1>10 DEF l, d

\* With three places or less, nothing is lost.
LEMMA PartExactly ==
  ASSUME NEW lo \in Values(FloatBits), Finite(lo), NEW hi \in Values(FloatBits), Finite(hi), Exponent(lo) <= Exponent(hi),
         Alignment(lo, hi) <= 3
  PROVE  Part(lo, hi) * Pow[Alignment(lo, hi)] = Significand(lo) * 8
<1> DEFINE d == Alignment(lo, hi)
           p == Pow[d]
           a == Significand(lo)
           l == Part(lo, hi)
<1>1. /\ l \in Nat /\ d \in Nat /\ d <= Far
      /\ ((a * 8) % p = 0 => l = (a * 8) \div p) /\ (d = 0 => l = a * 8)
  BY PartTells
<1>2. a \in Nat BY NumberIs
<1>3. d \in 0..3 BY <1>1
<1>4. Pow[0] = 1 /\ Pow[1] = 2 /\ Pow[2] = 4 /\ Pow[3] = 8 BY PowIs, FirstPowers
<1>5. p = 1 \/ p = 2 \/ p = 4 \/ p = 8 BY <1>3, <1>4
<1> HIDE DEF d, p, a, l
<1>6. (a * 8) % p = 0 /\ ((a * 8) \div p) * p = a * 8 BY <1>2, <1>5
<1> QED BY <1>1, <1>6 DEF d, p, a, l

\* Then the sum is exact, too.
LEMMA TotalExactly ==
  ASSUME NEW lo \in Values(FloatBits), Finite(lo), NEW hi \in Values(FloatBits), Finite(hi), Exponent(lo) <= Exponent(hi),
         Alignment(lo, hi) <= 3
  PROVE  Total(lo, hi) * Pow[Scale(hi) - 1] = 8 * (Exact(lo) + Exact(hi))
<1> DEFINE p == Pow[Alignment(lo, hi)]
           u == Pow[Scale(lo) - 1]
           U == Pow[Scale(hi) - 1]
           a == Significand(lo)
           b == Significand(hi)
           l == Part(lo, hi)
           s == Sign(lo)
           t == Sign(hi)
<1>1. l \in Nat /\ Alignment(lo, hi) \in Nat /\ Alignment(lo, hi) <= Far /\ U = p * u BY PartTells
<1>2. l * p = a * 8 BY PartExactly
<1>3. Value[Magnitude(lo)] = a * u /\ Value[Magnitude(hi)] = b * U /\ a \in Nat /\ b \in Nat
      /\ Scale(lo) \in 1..(MaxExp - 1) /\ Scale(hi) \in 1..(MaxExp - 1)
  BY NumberIs
<1>4. u \in Nat /\ U \in Nat /\ p \in Nat
  <2>1. MaxExp \in Int BY FloatSizes
  <2>2. Scale(lo) \in 1..MaxExp /\ Scale(hi) \in 1..MaxExp BY <1>3, <2>1
  <2>3. p \in Nat BY <1>1, PowNumber
  <2> QED BY <2>2, <2>3, Units
<1>5. Exact(lo) = With(s, a * u) /\ Exact(hi) = With(t, b * U) BY <1>3 DEF Exact, With
<1>6. Total(lo, hi) = With(s, l) + With(t, b * 8) BY DEF Total
<1> HIDE DEF p, u, U, a, b, l, s, t
<1>7. l * U = 8 * (a * u)
  <2>1. l * (p * u) = (l * p) * u BY <1>1, <1>4
  <2>2. (a * 8) * u = 8 * (a * u) BY <1>3, <1>4
  <2> QED BY <1>1, <1>2, <2>1, <2>2
<1>8. (b * 8) * U = 8 * (b * U) BY <1>3, <1>4
<1> DEFINE au == a * u
           bU == b * U
           B == b * 8
<1>9. au \in Int /\ bU \in Int /\ B \in Int /\ l * U = 8 * au /\ B * U = 8 * bU BY <1>3, <1>4, <1>7, <1>8
<1>10. Exact(lo) = With(s, au) /\ Exact(hi) = With(t, bU) /\ Total(lo, hi) = With(s, l) + With(t, B) BY <1>5, <1>6
<1> HIDE DEF au, bU, B
<1>11. ASSUME NEW x \in Int, NEW X \in Int, x * U = 8 * X, NEW g
       PROVE  With(g, x) \in Int /\ With(g, X) \in Int /\ With(g, x) * U = 8 * With(g, X)
  <2>1. (-x) * U = -(x * U) /\ x * U \in Int BY <1>4
  <2> QED BY <1>11, <2>1 DEF With
<1> DEFINE x == With(s, l)
           X == With(s, au)
           z == With(t, B)
           Z == With(t, bU)
<1>12. x \in Int /\ X \in Int /\ x * U = 8 * X BY <1>1, <1>9, <1>11
<1>13. z \in Int /\ Z \in Int /\ z * U = 8 * Z BY <1>9, <1>11
<1>14. Total(lo, hi) = x + z /\ Exact(lo) = X /\ Exact(hi) = Z BY <1>10
<1> HIDE DEF x, X, z, Z
<1>15. (x + z) * U = x * U + z * U BY <1>4, <1>12, <1>13
<1>16. (x + z) * U = 8 * (X + Z) BY <1>12, <1>13, <1>15
<1> QED BY <1>14, <1>16 DEF U

\* The sum fits its normalization; where the alignment is long it cannot have cancelled.
LEMMA TotalSize ==
  ASSUME NEW lo \in Values(FloatBits), Finite(lo), NEW hi \in Values(FloatBits), Finite(hi), Exponent(lo) <= Exponent(hi),
         NEW T \in Nat, T = Total(lo, hi) \/ T = -Total(lo, hi)
  PROVE  /\ T < 32 * Hidden
         /\ Exponent(hi) = 0 => T < 16 * Hidden
         /\ Alignment(lo, hi) >= 4 => 4 * Hidden <= T
<1> DEFINE b == Hidden
           h == Significand(hi) * 8
           l == Part(lo, hi)
           x == With(Sign(lo), l)
           z == With(Sign(hi), h)
<1>1. b \in Nat /\ b >= 16 /\ MaxExp \in Int BY HiddenCodes, FloatSizes
<1>2. /\ Significand(hi) \in Nat /\ Significand(hi) < 2 * b /\ (Exponent(hi) = 0 => Significand(hi) < b)
      /\ (Exponent(hi) # 0 => Significand(hi) >= b) /\ Exponent(hi) \in 0..(MaxExp - 1) /\ Exponent(lo) \in 0..(MaxExp - 1)
      /\ Scale(lo) = (IF Exponent(lo) = 0 THEN 1 ELSE Exponent(lo))
      /\ Scale(hi) = (IF Exponent(hi) = 0 THEN 1 ELSE Exponent(hi))
  BY NumberIs
<1>3. l \in Nat /\ l < 16 * b /\ (Exponent(hi) = 0 => l < 8 * b) /\ (Alignment(lo, hi) >= 4 => l < 2 * b)
  BY PartTells, PartSize
<1>4. Alignment(lo, hi) >= 4 => Exponent(hi) # 0 BY <1>1, <1>2 DEF Alignment
<1>5. h \in Nat /\ h < 16 * b /\ (Exponent(hi) = 0 => h < 8 * b) /\ (Alignment(lo, hi) >= 4 => 8 * b <= h) BY <1>1, <1>2, <1>4
<1>6. x = l \/ x = -l BY DEF With
<1>7. z = h \/ z = -h BY DEF With
<1>8. Total(lo, hi) = x + z BY DEF Total
<1> HIDE DEF b, h, l, x, z
<1>9. T = x + z \/ T = -(x + z) BY <1>8
<1>10. T <= l + h BY <1>3, <1>5, <1>6, <1>7, <1>9
<1>11. l < h => h - l <= T BY <1>3, <1>5, <1>6, <1>7, <1>9
<1> QED BY <1>1, <1>3, <1>5, <1>10, <1>11 DEF b

\* The sum without its sign is normalized rightly: exactly where the alignment is short, and where it is long
\* with one shift to the left at most, which the bits reserved for rounding allow.
LEMMA SummedNormalizes ==
  ASSUME NEW lo \in Values(FloatBits), Finite(lo), NEW hi \in Values(FloatBits), Finite(hi), Exponent(lo) <= Exponent(hi),
         NEW sign \in {0, 1}, NEW T \in Nat, NEW n \in Nat,
         \/ T = Total(lo, hi) /\ n = Exact(lo) + Exact(hi)
         \/ T = -Total(lo, hi) /\ n = -(Exact(lo) + Exact(hi))
  PROVE  Rightly(Normalize(sign, Exponent(hi), T), sign, n, 1, TRUE)
<1> DEFINE exp == Exponent(hi)
           b == Hidden
           U == Pow[Scale(hi) - 1]
           E == Exact(lo) + Exact(hi)
           S == Total(lo, hi)
           d == Alignment(lo, hi)
<1>1. b \in Nat /\ b >= 16 /\ MaxExp \in Int /\ MaxExp >= 3 BY HiddenCodes, FloatSizes
<1>2. /\ exp \in 0..(MaxExp - 1) /\ Exponent(lo) \in 0..(MaxExp - 1)
      /\ Scale(lo) \in 1..(MaxExp - 1) /\ Scale(hi) \in 1..(MaxExp - 1)
      /\ Scale(lo) = (IF Exponent(lo) = 0 THEN 1 ELSE Exponent(lo))
      /\ Scale(hi) = (IF exp = 0 THEN 1 ELSE exp)
  BY NumberIs
<1>3. S \in Int /\ Exact(lo) \in Int /\ Exact(hi) \in Int /\ Tells(S, 8 * E, U, TRUE, 2) BY TotalTells
<1>4. T < 32 * b /\ (exp = 0 => T < 16 * b) /\ (d >= 4 => 4 * b <= T) /\ d \in Nat
  <2>1. T = Total(lo, hi) \/ T = -Total(lo, hi) OBVIOUS
  <2> QED BY <2>1, TotalSize, PartTells
<1>5. U \in Nat \ {0}
  <2>1. Scale(hi) \in 1..MaxExp BY <1>1, <1>2
  <2> QED BY <2>1, Units
<1>6. d = Scale(hi) - Scale(lo) BY DEF Alignment
<1>7. E \in Int BY <1>3
<1>8. d <= 3 => T * U = 8 * n
  <2>1. d <= 3 => S * U = 8 * E BY TotalExactly
  <2>2. (T = S /\ n = E) \/ (T = -S /\ n = -E) OBVIOUS
  <2> HIDE DEF S, E, U, d
  <2>3. (-S) * U = -(S * U) /\ S * U \in Int BY <1>3, <1>5
  <2> QED BY <1>7, <2>1, <2>2, <2>3
<1>9. Tells(T, 8 * n, U, TRUE, 2)
  <2>1. (T = S /\ n = E) \/ (T = -S /\ n = -E) OBVIOUS
  <2> DEFINE N == 8 * E
  <2>2. N \in Int /\ U \in Int /\ 2 \in Nat BY <1>5, <1>7
  <2>7. Tells(S, N, U, TRUE, 2) BY <1>3
  <2>3. -N = 8 * (-E) BY <1>7
  <2> HIDE DEF S, E, U, N
  <2>4. Tells(-S, -N, U, TRUE, 2) BY <1>3, <2>2, <2>7, TellsMinus
  <2>5. CASE T = S /\ n = E
    <3>1. N = 8 * n BY <2>5 DEF N
    <3> QED BY <2>7, <2>5, <3>1
  <2>6. CASE T = -S /\ n = -E
    <3>1. -N = 8 * n BY <2>3, <2>6
    <3> QED BY <2>4, <2>6, <3>1
  <2> QED BY <2>1, <2>5, <2>6
<1>10. U = Pow[IF exp = 0 THEN 0 ELSE exp - 1]
  <2>1. CASE exp = 0 BY <1>2, <2>1
  <2>2. CASE exp # 0 BY <1>2, <2>2
  <2> QED BY <2>1, <2>2
<1>11. 1 * U = U /\ 1 \in Nat \ {0} BY <1>5
<1> DEFINE y == TRUE
<1>12. Tells(T, 8 * n, 1 * U, y, 2) BY <1>9, <1>11
<1> HIDE DEF b, U, E, S, d, y, exp
<1>13. CASE Lead(T) > 1
  <2>1. exp >= 1
    <3>1. T >= 16 * b BY <1>13, LeadIs DEF b
    <3> QED BY <1>1, <1>2, <1>4, <3>1
  <2>2. U = Pow[exp - 1] BY <1>1, <1>2, <1>10, <2>1
  <2> DEFINE h == 0
  <2>3. T < Pow[Long]
    <3>1. Pow[Long] \in Nat /\ 64 * (b * b) <= Pow[Long] BY LongPower DEF b
    <3>2. 32 * b <= 64 * (b * b) BY <1>1
    <3> DEFINE q == b * b
    <3>3. q \in Nat BY <1>1
    <3>4. 32 * b <= 64 * q BY <3>2
    <3> HIDE DEF q
    <3> QED BY <1>1, <1>4, <3>1, <3>3, <3>4 DEF q
  <2>4. (exp + h) + Long <= Far /\ MaxExp + h <= Far /\ (exp - 1) + h >= 0 /\ exp \in Int /\ h \in Nat
    <3>1. exp \in Int /\ exp < MaxExp BY <1>1, <1>2
    <3>2. EB \in Nat /\ Long \in Nat /\ Far \in Nat /\ Far = 4 * (EB + Long + MaxExp) + 8 BY FloatSizes DEF FloatPower
    <3> QED BY <1>1, <2>1, <3>1, <3>2
  <2>5. Tells(T, (8 * n) * Pow[h], 1 * Pow[(exp - 1) + h], y, 2)
    <3>1. Pow[h] = 1 /\ (8 * n) * 1 = 8 * n /\ (exp - 1) + h = exp - 1 BY <1>1, <1>2, PowIs
    <3>2. (8 * n) * Pow[h] = 8 * n BY <3>1
    <3> HIDE DEF h
    <3> QED BY <1>12, <2>2, <3>1, <3>2
  <2> HIDE DEF h
  <2>6. Rightly(Normalize(sign, exp, T), sign, n, 1, y) BY <1>11, <1>13, <2>3, <2>4, <2>5, NormalizeRight
  <2> QED BY <2>6 DEF exp, y
<1>14. CASE Lead(T) = 0 /\ exp > 0 /\ d <= 3
  <2>1. exp \in 1..(MaxExp - 1) /\ U = Pow[exp - 1] BY <1>1, <1>2, <1>10, <1>14
  <2>2. T * (1 * Pow[exp - 1]) = 8 * n BY <1>8, <1>11, <1>14, <2>1
  <2>3. Rightly(Normalize(sign, exp, T), sign, n, 1, TRUE) BY <1>11, <1>14, <2>1, <2>2, NormalizeLeft
  <2> QED BY <2>3 DEF exp
<1>15. CASE Lead(T) = 0 /\ exp > 0 /\ d >= 4
  <2>1. exp \in 2..(MaxExp - 1) /\ U = Pow[exp - 1] BY <1>1, <1>2, <1>6, <1>10, <1>15
  <2>2. 4 * Hidden <= T BY <1>4, <1>15 DEF b
  <2>3. Tells(T, 8 * n, 1 * Pow[exp - 1], y, 2) BY <1>12, <2>1
  <2>4. Rightly(Normalize(sign, exp, T), sign, n, 1, y) BY <1>11, <1>15, <2>1, <2>2, <2>3, NormalizeOnce
  <2> QED BY <2>4 DEF exp, y
<1>16. CASE ~(Lead(T) > 1) /\ (Lead(T) = 0 => exp = 0)
  <2>1. Tells(T, 8 * n, 1 * Pow[IF exp = 0 THEN 0 ELSE exp - 1], y, 2) BY <1>10, <1>12
  <2>2. Rightly(Normalize(sign, exp, T), sign, n, 1, y) BY <1>2, <1>11, <1>16, <2>1, NormalizeDirect
  <2> QED BY <2>2 DEF exp, y
<1>17. exp > 0 \/ exp = 0 BY <1>1, <1>2
<1>18. d <= 3 \/ d >= 4 BY <1>4
<1> QED BY <1>13, <1>14, <1>15, <1>16, <1>17, <1>18

\* What a sum of two numbers is.
LEMMA SummedIs ==
  ASSUME NEW lo \in Values(FloatBits), Finite(lo), NEW hi \in Values(FloatBits), Finite(hi), Exponent(lo) <= Exponent(hi)
  PROVE  IF Exact(lo) + Exact(hi) < 0
         THEN /\ Summed(lo, hi) = FLOAT(1, 0, Nearest(-(Exact(lo) + Exact(hi)), 1))
              /\ Nearest(-(Exact(lo) + Exact(hi)), 1) \in 0..MaxMagnitude
         ELSE /\ Summed(lo, hi) = FLOAT(0, 0, Nearest(Exact(lo) + Exact(hi), 1))
              /\ Nearest(Exact(lo) + Exact(hi), 1) \in 0..MaxMagnitude
<1> DEFINE S == Total(lo, hi)
           E == Exact(lo) + Exact(hi)
           U == Pow[Scale(hi) - 1]
           exp == Exponent(hi)
<1>1. S \in Int /\ E \in Int /\ Tells(S, 8 * E, U, TRUE, 2)
  <2>1. S \in Int /\ Exact(lo) \in Int /\ Exact(hi) \in Int BY TotalTells
  <2>2. Tells(S, 8 * E, U, TRUE, 2) BY TotalTells
  <2>3. E \in Int BY <2>1
  <2> QED BY <2>1, <2>2, <2>3
<1>2. Summed(lo, hi) = IF S < 0 THEN Normalize(1, exp, -S) ELSE Normalize(0, exp, S)
  BY DEF Summed, Total, Part, With
<1>3. U \in Nat
  <2>1. Scale(hi) \in 1..(MaxExp - 1) /\ MaxExp \in Int BY NumberIs, FloatSizes
  <2>2. Scale(hi) \in 1..MaxExp BY <2>1
  <2> QED BY <2>2, Units
<1>4. S < 0 <=> E < 0
  <2> DEFINE N == 8 * E
             j == 0
  <2>1. N \in Int /\ U \in Int /\ 2 \in Nat /\ j \in Int BY <1>1, <1>3
  <2>5. Tells(S, N, U, TRUE, 2) BY <1>1
  <2>6. S \in Int BY <1>1
  <2>2. 2 * j = 0 /\ (2 * j) * U = 0 BY <1>3
  <2>3. N < 0 <=> E < 0 BY <1>1
  <2> HIDE DEF S, E, U, N, j
  <2>4. S < 2 * j => N < (2 * j) * U
    BY <2>1, <2>5, <2>6, ToldExactly
  <2>7. N < (2 * j) * U => S < 2 * j
    BY <2>1, <2>5, <2>6, ToldUnder
  <2> QED BY <2>2, <2>3, <2>4, <2>7
<1>5. CASE E < 0
  <2> DEFINE T == -S
             n == -E
  <2>1. T \in Nat /\ n \in Nat BY <1>1, <1>4, <1>5
  <2>2. \/ T = Total(lo, hi) /\ n = Exact(lo) + Exact(hi)
        \/ T = -Total(lo, hi) /\ n = -(Exact(lo) + Exact(hi))
    OBVIOUS
  <2>3. Summed(lo, hi) = Normalize(1, exp, T) BY <1>2, <1>4, <1>5
  <2> HIDE DEF T, n, S, E
  <2>4. Rightly(Normalize(1, Exponent(hi), T), 1, n, 1, TRUE) BY <2>1, <2>2, SummedNormalizes
  <2>5. Normalize(1, Exponent(hi), T) = FLOAT(1, 0, Nearest(n, 1)) /\ Nearest(n, 1) \in 0..MaxMagnitude
    BY <2>1, <2>4, RightlyWhole
  <2> QED BY <1>5, <2>3, <2>5 DEF n, E
<1>6. CASE ~(E < 0)
  <2>1. S \in Nat /\ E \in Nat BY <1>1, <1>4, <1>6
  <2>2. \/ S = Total(lo, hi) /\ E = Exact(lo) + Exact(hi)
        \/ S = -Total(lo, hi) /\ E = -(Exact(lo) + Exact(hi))
    OBVIOUS
  <2>3. Summed(lo, hi) = Normalize(0, exp, S) BY <1>2, <1>4, <1>6
  <2> HIDE DEF S, E
  <2>4. Rightly(Normalize(0, Exponent(hi), S), 0, E, 1, TRUE) BY <2>1, <2>2, SummedNormalizes
  <2>5. Normalize(0, Exponent(hi), S) = FLOAT(0, 0, Nearest(E, 1)) /\ Nearest(E, 1) \in 0..MaxMagnitude
    BY <2>1, <2>4, RightlyWhole
  <2> QED BY <1>6, <2>3, <2>5 DEF E
<1> QED BY <1>5, <1>6

\* A float is a number, an infinity or a NaN.
LEMMA FloatKinds ==
  ASSUME NEW v \in Floats
  PROVE  /\ v \in Values(FloatBits)
         /\ Finite(v) \/ v \in Infs \/ v \in Nans
         /\ v \in Infs => ~Finite(v) /\ v \notin Nans /\ v \notin Zeros /\ Exponent(v) = MaxExp
         /\ v \in Nans => ~Finite(v) /\ v \notin Infs /\ v \notin Zeros /\ Exponent(v) = MaxExp
         /\ v \in Zeros => Finite(v)
         /\ Finite(v) => Exponent(v) # MaxExp
<1>1. /\ MaxMagnitude \in Nat /\ MaxMagnitude >= 48 /\ MaxMagnitude <= Codes * Hidden - 1
      /\ NanMagnitude \in Nat /\ NanMagnitude > MaxMagnitude /\ NanMagnitude <= Codes * Hidden - 1
      /\ Codes * Hidden \in Nat
  BY SpecialMagnitudes, HiddenCodes
<1>2. MaxMagnitude \in 0..(Codes * Hidden - 1) /\ NanMagnitude \in 0..(Codes * Hidden - 1) BY <1>1
<1>3. ASSUME NEW s \in {0, 1} PROVE Inf(s) \in Values(FloatBits) /\ Nan(s) \in Values(FloatBits)
  <2>1. Inf(s) = FLOAT(s, 0, MaxMagnitude) /\ Nan(s) = FLOAT(s, 0, NanMagnitude) BY Specials
  <2>2. s * (Codes * Hidden) + MaxMagnitude \in Values(FloatBits)
        /\ FLOAT(s, 0, MaxMagnitude) = s * (Codes * Hidden) + MaxMagnitude
    BY <1>2, Unpacked
  <2>3. s * (Codes * Hidden) + NanMagnitude \in Values(FloatBits)
        /\ FLOAT(s, 0, NanMagnitude) = s * (Codes * Hidden) + NanMagnitude
    BY <1>2, Unpacked
  <2> QED BY <2>1, <2>2, <2>3
<1>4. Inf(0) \in Values(FloatBits) /\ Nan(0) \in Values(FloatBits) BY <1>3
<1>5. Inf(1) \in Values(FloatBits) /\ Nan(1) \in Values(FloatBits) BY <1>3
<1>6. v \in Values(FloatBits) BY <1>4, <1>5 DEF Floats, Infs, Nans
<1>7. Finite(v) \/ v \in Infs \/ v \in Nans BY DEF Floats, Finite
<1>8. Exponent(v) = Magnitude(v) \div Hidden /\ Magnitude(v) \in 0..(Codes * Hidden - 1) BY <1>6, MagnitudeSame
<1>9. /\ v \in Zeros <=> Magnitude(v) = 0
      /\ v \in Infs <=> Magnitude(v) = MaxMagnitude
      /\ v \in Nans <=> Magnitude(v) = NanMagnitude
  BY <1>6, Kinds
<1>10. MaxMagnitude \div Hidden = MaxExp /\ NanMagnitude \div Hidden = MaxExp
  <2>1. MaxExp \in 0..MaxExp /\ MaxExp \in Nat BY FloatSizes
  <2> DEFINE f == 2^(FB - 1)
  <2>2. f \in 0..(Hidden - 1) /\ 0 \in 0..(Hidden - 1) BY HiddenCodes
  <2> HIDE DEF f
  <2>3. (MaxExp * Hidden + f) \div Hidden = MaxExp BY <2>1, <2>2, Magnitudes
  <2>4. (MaxExp * Hidden + 0) \div Hidden = MaxExp BY <2>1, <2>2, Magnitudes
  <2>5. MaxExp * Hidden + 0 = MaxExp * Hidden BY <2>1, HiddenCodes
  <2> QED BY <2>3, <2>4, <2>5 DEF MaxMagnitude, NanMagnitude, f
<1>11. v \in Infs \/ v \in Nans => Exponent(v) = MaxExp BY <1>8, <1>9, <1>10
<1>12. MaxExp \in Int /\ MaxExp >= 3 BY FloatSizes
<1>13. v \in Zeros => Finite(v) BY <1>1, <1>7, <1>9
<1>14. Exponent(v) = MaxExp => ~Finite(v) BY <1>12 DEF Finite
<1> QED BY <1>1, <1>6, <1>7, <1>9, <1>11, <1>13, <1>14

\* What FloatSum says of a result.
SumRight(r, a, b) ==
  LET sum == Exact(a) + Exact(b)
  IN  CASE a \in Nans \/ b \in Nans \/ {a, b} = Infs -> r \in Nans
        [] a \in Infs /\ b \notin Nans /\ {a, b} # Infs -> r = a
        [] Finite(a) /\ b \in Infs -> r = b
        [] Finite(a) /\ Finite(b) ->
             r = IF sum > 0 THEN Nearest(sum, 1)
                 ELSE IF sum < 0 THEN 2^(EB + FB) + Nearest(-sum, 1)
                 ELSE Zero(IF {a, b} = {Zero(1)} THEN 1 ELSE 0)

\* Two infinities of different signs.
LEMMA BothInfs ==
  ASSUME NEW a, NEW b
  PROVE  {a, b} = Infs <=> (a \in Infs /\ b \in Infs /\ a # b)
<1>1. Inf(0) # Inf(1)
  <2>1. Inf(0) = FLOAT(0, 0, MaxMagnitude) /\ Inf(1) = FLOAT(1, 0, MaxMagnitude) BY Specials
  <2>2. MaxMagnitude \in 0..(Codes * Hidden - 1)
    <3>1. MaxMagnitude \in Nat /\ MaxMagnitude <= Codes * Hidden - 1 /\ Codes * Hidden \in Nat BY SpecialMagnitudes, HiddenCodes
    <3> QED BY <3>1
  <2>3. 0 \in {0, 1} /\ 1 \in {0, 1} OBVIOUS
  <2>4. Sign(FLOAT(0, 0, MaxMagnitude)) = 0 BY <2>2, <2>3, Unpacked
  <2>5. Sign(FLOAT(1, 0, MaxMagnitude)) = 1 BY <2>2, <2>3, Unpacked
  <2> QED BY <2>1, <2>4, <2>5
<1> QED BY <1>1 DEF Infs

\* A zero is worth 0 and a number is the nearest float to itself.
LEMMA ExactIs ==
  ASSUME NEW v \in Values(FloatBits), Finite(v)
  PROVE  /\ Exact(v) \in Int
         /\ v \in Zeros <=> Exact(v) = 0
         /\ Exact(v) > 0 => v = Nearest(Exact(v), 1)
         /\ Exact(v) < 0 => v = 2^(EB + FB) + Nearest(-Exact(v), 1)
<1> DEFINE m == Magnitude(v)
           x == Value[m]
<1>1. m \in 0..(MaxMagnitude - 1) BY NumberIs
<1>2. m \in 0..MaxMagnitude /\ m \in Nat BY <1>1, SpecialMagnitudes
<1>3. x \in Nat /\ (m > 0 => x > 0) /\ Value[0] = 0 BY <1>2, ValueNumber
<1>4. Nearest(x, 1) = m BY <1>1, NearestSelf
<1>5. Sign(v) \in {0, 1} /\ v = Sign(v) * (Codes * Hidden) + m BY FloatSides
<1>6. 2^(EB + FB) = Codes * Hidden /\ Codes * Hidden \in Nat BY HiddenCodes
<1>7. Exact(v) = IF Sign(v) = 1 THEN -x ELSE x BY DEF Exact
<1>8. v \in Zeros <=> m = 0 BY Kinds
<1>9. m = 0 <=> x = 0 BY <1>2, <1>3
<1> HIDE DEF m, x
<1>10. CASE Sign(v) = 1
  <2>1. Exact(v) = -x /\ -Exact(v) = x BY <1>3, <1>7, <1>10
  <2>2. v = Codes * Hidden + m BY <1>2, <1>5, <1>6, <1>10
  <2> QED BY <1>3, <1>4, <1>6, <1>8, <1>9, <2>1, <2>2
<1>11. CASE Sign(v) = 0
  <2>1. Exact(v) = x BY <1>3, <1>7, <1>11
  <2>2. v = m BY <1>2, <1>5, <1>6, <1>11
  <2> QED BY <1>3, <1>4, <1>8, <1>9, <2>1, <2>2
<1> QED BY <1>5, <1>10, <1>11

\* The sum of two numbers of which one, at least, is not 0.
LEMMA NumbersAdded ==
  ASSUME NEW a \in Floats, NEW b \in Floats, Finite(a), Finite(b), ~(a \in Zeros /\ b \in Zeros)
  PROVE  LET sum == Exact(a) + Exact(b)
         IN  FloatAdd(b, a) = IF sum > 0 THEN Nearest(sum, 1)
                              ELSE IF sum < 0 THEN 2^(EB + FB) + Nearest(-sum, 1) ELSE Zero(0)
<1> DEFINE E == Exact(a) + Exact(b)
<1>1. /\ a \in Values(FloatBits) /\ b \in Values(FloatBits)
      /\ a \notin Infs /\ b \notin Infs /\ a \notin Nans /\ b \notin Nans
      /\ Exponent(a) # MaxExp /\ Exponent(b) # MaxExp
  BY FloatKinds
<1>2. ~HasCornerAdd(a, b) BY <1>1 DEF HasCornerAdd, Nans
<1>3. /\ Exact(a) \in Int
      /\ a \in Zeros <=> Exact(a) = 0
      /\ Exact(a) > 0 => a = Nearest(Exact(a), 1)
      /\ Exact(a) < 0 => a = 2^(EB + FB) + Nearest(-Exact(a), 1)
  BY <1>1, ExactIs
<1>4. /\ Exact(b) \in Int
      /\ b \in Zeros <=> Exact(b) = 0
      /\ Exact(b) > 0 => b = Nearest(Exact(b), 1)
      /\ Exact(b) < 0 => b = 2^(EB + FB) + Nearest(-Exact(b), 1)
  BY <1>1, ExactIs
<1>5. CASE a \in Zeros
  <2>1. FloatAdd(b, a) = b /\ Exact(a) = 0 /\ Exact(b) # 0 BY <1>2, <1>3, <1>4, <1>5 DEF FloatAdd
  <2>2. Exact(a) + Exact(b) = Exact(b) BY <1>4, <2>1
  <2>3. Exact(b) > 0 \/ Exact(b) < 0 BY <1>4, <2>1
  <2> QED BY <1>4, <2>1, <2>2, <2>3
<1>6. CASE a \notin Zeros /\ b \in Zeros
  <2>1. FloatAdd(b, a) = a /\ Exact(b) = 0 /\ Exact(a) # 0 BY <1>2, <1>3, <1>4, <1>6 DEF FloatAdd
  <2>2. Exact(a) + Exact(b) = Exact(a) BY <1>3, <2>1
  <2>3. Exact(a) > 0 \/ Exact(a) < 0 BY <1>3, <2>1
  <2> QED BY <1>3, <2>1, <2>2, <2>3
<1>7. CASE a \notin Zeros /\ b \notin Zeros
  <2>1. FloatAdd(b, a) = IF Exponent(a) > Exponent(b) THEN Summed(b, a) ELSE Summed(a, b) BY <1>1, <1>2, <1>7 DEF FloatAdd
  <2>2. Exponent(a) \in Int /\ Exponent(b) \in Int
    <3>1. Exponent(a) \in 0..(MaxExp - 1) /\ Exponent(b) \in 0..(MaxExp - 1) /\ MaxExp \in Int BY <1>1, NumberIs, FloatSizes
    <3> QED BY <3>1
  <2>3. \E lo \in {a, b}, hi \in {a, b} :
          Exponent(lo) <= Exponent(hi) /\ FloatAdd(b, a) = Summed(lo, hi) /\ E = Exact(lo) + Exact(hi)
    <3>1. CASE Exponent(a) > Exponent(b)
      <4>1. Exponent(b) <= Exponent(a) /\ FloatAdd(b, a) = Summed(b, a) /\ E = Exact(b) + Exact(a) BY <1>3, <1>4, <2>1, <2>2, <3>1
      <4> QED BY <4>1
    <3>2. CASE ~(Exponent(a) > Exponent(b))
      <4>1. Exponent(a) <= Exponent(b) /\ FloatAdd(b, a) = Summed(a, b) /\ E = Exact(a) + Exact(b) BY <2>1, <2>2, <3>2
      <4> QED BY <4>1
    <3> QED BY <3>1, <3>2
  <2>4. PICK lo \in {a, b}, hi \in {a, b} :
          Exponent(lo) <= Exponent(hi) /\ FloatAdd(b, a) = Summed(lo, hi) /\ E = Exact(lo) + Exact(hi)
    BY <2>3
  <2>5. lo \in Values(FloatBits) /\ hi \in Values(FloatBits) /\ Finite(lo) /\ Finite(hi) BY <1>1, <2>4
  <2>6. E \in Int BY <1>3, <1>4
  <2> HIDE DEF E
  <2>7. IF E < 0
        THEN FloatAdd(b, a) = FLOAT(1, 0, Nearest(-E, 1)) /\ Nearest(-E, 1) \in 0..MaxMagnitude
        ELSE FloatAdd(b, a) = FLOAT(0, 0, Nearest(E, 1)) /\ Nearest(E, 1) \in 0..MaxMagnitude
    BY <2>4, <2>5, SummedIs
  <2>8. ASSUME NEW s \in {0, 1}, NEW n \in 0..MaxMagnitude PROVE FLOAT(s, 0, n) = s * (Codes * Hidden) + n
    <3>1. n \in 0..(Codes * Hidden - 1) BY SpecialMagnitudes, HiddenCodes
    <3> QED BY <3>1, Unpacked
  <2>9. 2^(EB + FB) = Codes * Hidden /\ Codes * Hidden \in Nat /\ MaxMagnitude \in Nat BY HiddenCodes, SpecialMagnitudes
  <2>10. CASE E < 0
    <3> DEFINE n == Nearest(-E, 1)
    <3>1. FloatAdd(b, a) = FLOAT(1, 0, n) /\ n \in 0..MaxMagnitude BY <2>7, <2>10
    <3> HIDE DEF n
    <3>2. FLOAT(1, 0, n) = 1 * (Codes * Hidden) + n BY <2>8, <3>1
    <3>3. FloatAdd(b, a) = 2^(EB + FB) + n BY <2>9, <3>1, <3>2
    <3>4. ~(E > 0) BY <2>6, <2>10
    <3> QED BY <2>10, <3>3, <3>4 DEF n, E
  <2>11. CASE E >= 0
    <3> DEFINE n == Nearest(E, 1)
    <3>1. FloatAdd(b, a) = FLOAT(0, 0, n) /\ n \in 0..MaxMagnitude /\ ~(E < 0) BY <2>6, <2>7, <2>11
    <3> HIDE DEF n
    <3>2. FLOAT(0, 0, n) = 0 * (Codes * Hidden) + n BY <2>8, <3>1
    <3>3. FloatAdd(b, a) = n BY <2>9, <3>1, <3>2
    <3>4. CASE E > 0 BY <3>3, <3>4 DEF n, E
    <3>5. CASE E = 0
      <4>1. n = 0
        <5>1. 0 \in 0..(MaxMagnitude - 1) /\ 0 \in 0..MaxMagnitude BY SpecialMagnitudes
        <5>2. Nearest(Value[0], 1) = 0 BY <5>1, NearestSelf
        <5>3. Value[0] = 0 BY <5>1, ValueNumber
        <5> QED BY <3>5, <5>2, <5>3 DEF n
      <4>2. FloatAdd(b, a) = Zero(0) BY <3>3, <4>1, InfIs
      <4>3. ~(E > 0) /\ ~(E < 0) BY <3>5
      <4> QED BY <4>2, <4>3 DEF E
    <3> QED BY <2>6, <2>11, <3>4, <3>5
  <2> QED BY <2>6, <2>10, <2>11
<1> QED BY <1>5, <1>6, <1>7

\* FloatAdd, with its corner cases, is what FloatSum says.
LEMMA AddRight ==
  ASSUME NEW a \in Floats, NEW b \in Floats
  PROVE  SumRight(FloatAdd(b, a), a, b)
<1> DEFINE r == FloatAdd(b, a)
           nan == a \in Nans \/ b \in Nans \/ {a, b} = Infs
           inf == a \in Infs /\ b \notin Nans /\ {a, b} # Infs
           num == Finite(a) /\ b \in Infs
           both == Finite(a) /\ Finite(b)
           sum == Exact(a) + Exact(b)
           v == IF sum > 0 THEN Nearest(sum, 1)
                ELSE IF sum < 0 THEN 2^(EB + FB) + Nearest(-sum, 1)
                ELSE Zero(IF {a, b} = {Zero(1)} THEN 1 ELSE 0)
<1>1. /\ Finite(a) \/ a \in Infs \/ a \in Nans
      /\ a \in Infs => ~Finite(a) /\ a \notin Nans /\ a \notin Zeros /\ Exponent(a) = MaxExp
      /\ a \in Nans => ~Finite(a) /\ a \notin Infs /\ a \notin Zeros /\ Exponent(a) = MaxExp
      /\ a \in Zeros => Finite(a)
      /\ Finite(a) => Exponent(a) # MaxExp
      /\ a \in Values(FloatBits)
  BY FloatKinds
<1>2. /\ Finite(b) \/ b \in Infs \/ b \in Nans
      /\ b \in Infs => ~Finite(b) /\ b \notin Nans /\ b \notin Zeros /\ Exponent(b) = MaxExp
      /\ b \in Nans => ~Finite(b) /\ b \notin Infs /\ b \notin Zeros /\ Exponent(b) = MaxExp
      /\ b \in Zeros => Finite(b)
      /\ Finite(b) => Exponent(b) # MaxExp
      /\ b \in Values(FloatBits)
  BY FloatKinds
<1>3. {a, b} = Infs <=> (a \in Infs /\ b \in Infs /\ a # b) BY BothInfs
<1>4. Nan(0) \in Nans /\ Nan(1) \in Nans BY DEF Nans
<1>5. r = IF HasCornerAdd(a, b) THEN CornerAdd(a, b)
          ELSE IF a \in Zeros THEN b
          ELSE IF b \in Zeros THEN a
          ELSE IF Exponent(a) = MaxExp THEN a
          ELSE IF Exponent(b) = MaxExp THEN b
          ELSE IF Exponent(a) > Exponent(b) THEN Summed(b, a) ELSE Summed(a, b)
  BY DEF FloatAdd
<1>6. nan => r \in Nans
  <2>1. SUFFICES ASSUME nan PROVE r \in Nans OBVIOUS
  <2> HIDE DEF r
  <2>2. CASE HasCornerAdd(a, b)
    <3>1. r = CornerAdd(a, b) BY <1>5, <2>2
    <3>2. CornerAdd(a, b) \in Nans BY <1>1, <1>2, <1>3, <1>4, <2>1, <2>2 DEF CornerAdd, HasCornerAdd
    <3> QED BY <3>1, <3>2
  <2>3. CASE ~HasCornerAdd(a, b)
    <3>1. ~(a \in Infs /\ b \in Infs /\ a # b) /\ ~(a \in Infs /\ b \in Nans) BY <2>3 DEF HasCornerAdd
    <3> QED BY <1>1, <1>2, <1>3, <1>5, <2>1, <2>3, <3>1
  <2> QED BY <2>2, <2>3
<1>7. ~nan /\ a \in Infs => r = a
  <2>1. SUFFICES ASSUME ~nan, a \in Infs PROVE r = a OBVIOUS
  <2>2. ~HasCornerAdd(a, b) BY <1>1, <1>2, <1>3, <1>4, <2>1 DEF HasCornerAdd
  <2> QED BY <1>1, <1>2, <1>5, <2>1, <2>2
<1>8. num => r = b
  <2>1. SUFFICES ASSUME num PROVE r = b OBVIOUS
  <2>2. ~HasCornerAdd(a, b) BY <1>1, <1>2, <1>4, <2>1 DEF HasCornerAdd
  <2> QED BY <1>1, <1>2, <1>5, <2>1, <2>2
<1>9. both => r = v
  <2>1. SUFFICES ASSUME both PROVE r = v OBVIOUS
  <2>2. CASE a \in Zeros /\ b \in Zeros
    <3>1. HasCornerAdd(a, b) BY <2>2 DEF HasCornerAdd
    <3>2. r = Zero(IF a = Zero(1) /\ b = Zero(1) THEN 1 ELSE 0) BY <1>5, <2>2, <3>1 DEF CornerAdd
    <3>3. Exact(a) = 0 BY <1>1, <2>1, <2>2, ExactIs
    <3>4. Exact(b) = 0 BY <1>2, <2>1, <2>2, ExactIs
    <3>5. ~(sum > 0) /\ ~(sum < 0) BY <3>3, <3>4
    <3>6. {a, b} = {Zero(1)} <=> (a = Zero(1) /\ b = Zero(1)) OBVIOUS
    <3>7. v = Zero(IF {a, b} = {Zero(1)} THEN 1 ELSE 0) BY <3>5
    <3> HIDE DEF r, v
    <3> QED BY <3>2, <3>6, <3>7
  <2>3. CASE ~(a \in Zeros /\ b \in Zeros)
    <3>1. r = IF sum > 0 THEN Nearest(sum, 1)
              ELSE IF sum < 0 THEN 2^(EB + FB) + Nearest(-sum, 1) ELSE Zero(0)
      BY <2>1, <2>3, NumbersAdded
    <3>2. {a, b} # {Zero(1)} BY <2>3 DEF Zeros
    <3> QED BY <3>1, <3>2
  <2> QED BY <2>2, <2>3
<1>10. nan \/ inf \/ num \/ both BY <1>1, <1>2, <1>3
<1>11. (nan => ~inf /\ ~num /\ ~both) /\ (inf => ~num /\ ~both) /\ (num => ~both) BY <1>1, <1>2, <1>3
<1>12. inf => r = a BY <1>1, <1>7
<1>13. SumRight(r, a, b) = CASE nan -> r \in Nans [] inf -> r = a [] num -> r = b [] both -> r = v BY DEF SumRight
<1> HIDE DEF r, nan, inf, num, both, v
<1>14. (CASE nan -> r \in Nans [] inf -> r = a [] num -> r = b [] both -> r = v)
  BY <1>6, <1>8, <1>9, <1>10, <1>11, <1>12
<1> QED BY <1>13, <1>14 DEF r

\* The sign of a float, flipped.
Flip(v) == FLOAT(1 - Sign(v), Exponent(v), Fraction(v))

\* It is another float, or NaN, and its bits are those of v but one.
LEMMA FlipIs ==
  ASSUME NEW v \in Floats
  PROVE  /\ Flip(v) \in Floats
         /\ Flip(v) = (v + 2^(EB + FB)) % Span(FloatBits)
         /\ v \in Nans <=> Flip(v) \in Nans
<1> DEFINE s == Sign(v)
           m == Magnitude(v)
           e == Exponent(v)
           f == Fraction(v)
           c == Codes * Hidden
           w == Flip(v)
<1>1. v \in Values(FloatBits) BY FloatKinds
<1>2. s \in {0, 1} /\ m \in 0..(c - 1) /\ v = s * c + m BY <1>1, FloatSides
<1>3. e = m \div Hidden /\ f = m % Hidden BY <1>1, MagnitudeSame
<1>4. Hidden \in Nat \ {0} /\ Codes \in Nat /\ Codes = MaxExp + 1 /\ MaxExp \in Int /\ c \in Nat BY HiddenCodes, FloatSizes
<1>5. m = e * Hidden + f /\ e \in 0..MaxExp /\ f \in 0..(Hidden - 1)
  <2> DEFINE h == Hidden
             x == m \div h
             y == m % h
  <2>1. m \in Int /\ h \in Nat \ {0} BY <1>2, <1>4
  <2> HIDE DEF m, h
  <2>2. x \in Int /\ y \in 0..(h - 1) /\ m = x * h + y BY <2>1, Euclid
  <2> HIDE DEF x, y
  <2>3. x <= MaxExp
    <3>1. SUFFICES ASSUME Codes <= x PROVE FALSE BY <1>4, <2>2
    <3>2. Codes * h <= x * h /\ Codes * h \in Int /\ x * h \in Int
      <4>1. Codes \in Int /\ h \in Nat BY <1>4, <2>1
      <4> QED BY <2>2, <3>1, <4>1, Monotone
    <3>3. m <= c - 1 /\ c = Codes * h BY <1>2, <1>4 DEF h
    <3> QED BY <2>1, <2>2, <3>2, <3>3
  <2>4. 0 <= x
    <3>1. SUFFICES ASSUME x <= -1 PROVE FALSE BY <2>2
    <3>2. x * h <= (-1) * h /\ x * h \in Int BY <2>1, <2>2, <3>1, Monotone
    <3>3. (-1) * h = -h BY <2>1
    <3>4. 0 <= m BY <1>2, <1>4
    <3> QED BY <2>1, <2>2, <3>2, <3>3, <3>4
  <2>5. x \in 0..MaxExp BY <1>4, <2>2, <2>3, <2>4
  <2> QED BY <1>3, <2>2, <2>5 DEF x, y, h, m
<1>6. 1 - s \in {0, 1} BY <1>2
<1>7. w = FLOAT(1 - s, 0, m)
  <2> DEFINE t == 1 - s
  <2>1. w = FLOAT(t, e, f) /\ t \in {0, 1} BY <1>6 DEF Flip
  <2> HIDE DEF t, e, f, w, m
  <2>2. FLOAT(t, e, f) = FLOAT(t, 0, e * Hidden + f) BY <1>5, <2>1, Packed
  <2> QED BY <1>5, <2>1, <2>2 DEF t
<1>8. /\ w \in Values(FloatBits) /\ w = (1 - s) * c + m /\ Magnitude(w) = m
      /\ Exponent(w) = m \div Hidden
  <2> DEFINE t == 1 - s
  <2>1. t \in {0, 1} /\ w = FLOAT(t, 0, m) BY <1>6, <1>7
  <2> HIDE DEF t, w, m
  <2>2. /\ t * (Codes * Hidden) + m \in Values(FloatBits) /\ FLOAT(t, 0, m) = t * (Codes * Hidden) + m
        /\ Magnitude(FLOAT(t, 0, m)) = m /\ Exponent(FLOAT(t, 0, m)) = m \div Hidden
    BY <1>2, <2>1, Unpacked
  <2> QED BY <2>1, <2>2 DEF t
<1>9. w \in Floats
  <2>1. (v \in Infs => w \in Infs) /\ (v \in Nans => w \in Nans) BY <1>1, <1>8, Kinds
  <2>2. Exponent(w) = Exponent(v) BY <1>3, <1>8
  <2>3. Exponent(v) < MaxExp \/ v \in Infs \/ v \in Nans BY FloatKinds DEF Finite
  <2> HIDE DEF w
  <2> QED BY <1>8, <2>1, <2>2, <2>3 DEF Floats
<1>10. v \in Nans <=> w \in Nans BY <1>1, <1>8, Kinds
<1>11. w = (v + 2^(EB + FB)) % Span(FloatBits)
  <2>1. 2^(EB + FB) = c /\ Span(FloatBits) = 2 * c BY HiddenCodes
  <2> HIDE DEF c, w, s, m
  <2>2. c > m /\ m \in Nat BY <1>2, <1>4
  <2>3. CASE s = 0
    <3>1. v = m /\ w = c + m BY <1>2, <1>4, <1>8, <2>2, <2>3
    <3>2. (m + c) % (2 * c) = c + m BY <1>4, <2>2
    <3> QED BY <2>1, <3>1, <3>2
  <2>4. CASE s = 1
    <3>1. v = c + m /\ w = m BY <1>2, <1>4, <1>8, <2>2, <2>4
    <3>2. ((c + m) + c) % (2 * c) = m
      <4> DEFINE g == 2 * c
      <4>1. (c + m) + c = g + m /\ g \in Nat /\ m < g BY <1>4, <2>2
      <4> HIDE DEF g
      <4>2. (g + m) % g = m BY <2>2, <4>1
      <4> QED BY <4>1, <4>2 DEF g
    <3> QED BY <2>1, <3>1, <3>2
  <2> QED BY <1>2, <2>3, <2>4
<1> QED BY <1>9, <1>10, <1>11

\* FloatSub is what FloatSum says.
LEMMA SubRight ==
  ASSUME NEW a \in Floats, NEW b \in Floats
  PROVE  SumRight(FloatSub(b, a), a, (b + 2^(EB + FB)) % Span(FloatBits))
<1> DEFINE c == Flip(b)
<1>1. c \in Floats /\ c = (b + 2^(EB + FB)) % Span(FloatBits) /\ (b \in Nans <=> c \in Nans) BY FlipIs
<1>2. CASE a \in Nans \/ b \in Nans
  <2>1. FloatSub(b, a) \in Nans BY <1>2 DEF FloatSub, OneNan, Nans
  <2> HIDE DEF c
  <2>2. a \in Nans \/ c \in Nans \/ {a, c} = Infs BY <1>1, <1>2
  <2>3. SumRight(FloatSub(b, a), a, c)
    <3> DEFINE r == FloatSub(b, a)
    <3> HIDE DEF r
    <3>1. a \in Infs /\ c \notin Nans /\ {a, c} # Infs => ~(a \in Nans \/ c \in Nans \/ {a, c} = Infs)
      BY FloatKinds
    <3>2. Finite(a) => a \notin Nans /\ a \notin Infs BY FloatKinds
    <3>3. Finite(c) => c \notin Nans /\ c \notin Infs BY <1>1, FloatKinds
    <3>4. {a, c} = Infs <=> (a \in Infs /\ c \in Infs /\ a # c) BY BothInfs
    <3>5. c \in Infs => c \notin Nans BY <1>1, FloatKinds
    <3>6. a \in Infs => a \notin Nans BY FloatKinds
    <3>7. r \in Nans BY <2>1 DEF r
    <3> QED BY <2>2, <3>1, <3>2, <3>3, <3>4, <3>5, <3>6, <3>7 DEF SumRight, r
  <2> QED BY <1>1, <2>3
<1>3. CASE ~(a \in Nans \/ b \in Nans)
  <2>1. FloatSub(b, a) = FloatAdd(c, a) BY <1>3 DEF FloatSub, Flip
  <2> HIDE DEF c
  <2>2. SumRight(FloatAdd(c, a), a, c) BY <1>1, AddRight
  <2> QED BY <1>1, <2>1, <2>2
<1> QED BY <1>2, <1>3

----------------------------------------------------------------------------
(* Products.                                                                 *)

\* What FloatProduct says of a result.
ProductRight(r, op, a, b) ==
  LET m == Magnitude(r)
      num == Numerator(op, a, b)
      den == Denominator(op, a, b)
      right == Nearest(num, den)
      near == {right} \cup (IF op = "fdivs" THEN {right - 1} ELSE {})
  IN  /\ Invalid(op, a, b) => r \in Nans
      /\ ~Invalid(op, a, b) => Sign(r) = OneSign(a, b)
      /\ ~Invalid(op, a, b) /\ (a \in Infs \/ b \in Infs) =>
           m = IF op = "fdivs" /\ b \in Infs THEN 0 ELSE Inf(0)
      /\ Finite(a) /\ Finite(b) /\ ~Invalid(op, a, b) =>
           IF num >= Value[LeastNormal] * den THEN m \in near
           ELSE op = "fdivs" \/ (Magnitude(a) >= LeastNormal /\ Magnitude(b) >= LeastNormal) =>
                  m \in near \/ (m = 0 /\ right = LeastNormal)

\* The sign of a product.
LEMMA OneSignIs ==
  ASSUME NEW a \in Values(FloatBits), NEW b \in Values(FloatBits)
  PROVE  OneSign(a, b) \in {0, 1}
<1>1. Sign(a) \in {0, 1} /\ Sign(b) \in {0, 1} BY FloatSides
<1>2. Sign(a) + Sign(b) \in {0, 1, 2} BY <1>1
<1> QED BY <1>2 DEF OneSign

\* A sign and a magnitude, packed, are a float with them.
LEMMA PackedMagnitude ==
  ASSUME NEW s \in {0, 1}, NEW m \in 0..MaxMagnitude
  PROVE  FLOAT(s, 0, m) \in Values(FloatBits) /\ Sign(FLOAT(s, 0, m)) = s /\ Magnitude(FLOAT(s, 0, m)) = m
<1>1. m \in 0..(Codes * Hidden - 1) BY SpecialMagnitudes, HiddenCodes
<1>2. s * (Codes * Hidden) + m \in Values(FloatBits) /\ FLOAT(s, 0, m) = s * (Codes * Hidden) + m BY <1>1, Unpacked
<1> QED BY <1>1, <1>2, Unpacked

\* The least normal number, and its value.
LEMMA LeastValue == Value[LeastNormal] = Hidden /\ LeastNormal = Hidden
<1>1. Hidden \in Nat /\ Hidden >= 16 /\ MaxExp \in Int /\ MaxExp >= 3 BY HiddenCodes, FloatSizes
<1> DEFINE c == 1
           q == Hidden
<1>2. c \in 1..(MaxExp - 1) /\ q \in 0..(2 * Hidden) /\ (c > 1 => q >= Hidden) BY <1>1
<1> HIDE DEF c
<1>3. Value[(c - 1) * Hidden + q] = q * Pow[c - 1] BY <1>2, ValueIs
<1>4. Pow[c - 1] = 1 BY PowIs DEF c
<1>5. (c - 1) * Hidden + q = Hidden /\ q * 1 = Hidden BY <1>1 DEF c
<1> QED BY <1>3, <1>4, <1>5, InfIs

\* A number nearest to the product or the quotient is what FloatProduct says.
LEMMA RightlyProduct ==
  ASSUME NEW op \in {"fmuls", "fdivs"}, NEW a \in Floats, NEW b \in Floats, Finite(a), Finite(b), ~Invalid(op, a, b),
         NEW r, NEW num, NEW den, num = Numerator(op, a, b), den = Denominator(op, a, b), num \in Nat, den \in Nat,
         NEW exact, exact \/ op = "fdivs", Rightly(r, OneSign(a, b), num, den, exact)
  PROVE  ProductRight(r, op, a, b) /\ r \in Values(FloatBits)
<1>1. PICK m \in 0..MaxMagnitude :
        /\ r = FLOAT(OneSign(a, b), 0, m)
        /\ \/ m = Nearest(num, den)
           \/ ~exact /\ m = Nearest(num, den) - 1
           \/ m = 0 /\ Nearest(num, den) = Hidden /\ num < Hidden * den
  BY DEF Rightly
<1>2. a \in Values(FloatBits) /\ b \in Values(FloatBits) BY FloatKinds
<1>3. OneSign(a, b) \in {0, 1} BY <1>2, OneSignIs
<1>4. r \in Values(FloatBits) /\ Sign(r) = OneSign(a, b) /\ Magnitude(r) = m BY <1>1, <1>3, PackedMagnitude
<1>5. a \notin Infs /\ b \notin Infs BY FloatKinds
<1>6. Value[LeastNormal] = Hidden /\ LeastNormal = Hidden /\ Hidden \in Nat BY LeastValue, HiddenCodes
<1>7. Hidden * den \in Int BY <1>6
<1> DEFINE right == Nearest(num, den)
           near == {right} \cup (IF op = "fdivs" THEN {right - 1} ELSE {})
<1>8. m \in near \/ (m = 0 /\ right = LeastNormal /\ ~(num >= Value[LeastNormal] * den))
  BY <1>1, <1>6, <1>7
<1> QED BY <1>4, <1>5, <1>8 DEF ProductRight

\* The value of 1, in units of the least denormal.
LEMMA OneIs ==
  /\ (Bias - 1) + FB \in Nat /\ (Bias - 1) + FB <= Far
  /\ One = Pow[(Bias - 1) + FB] /\ One \in Nat \ {0}
<1>1. Bias \in Nat /\ Bias >= 1 /\ FB \in Nat /\ MaxExp = 2 * Bias + 1 /\ Long >= 2 * FB + 6 /\ Long \in Nat /\ EB \in Nat
  BY FloatSizes
<1> DEFINE i == Bias - 1 + FB
<1>2. i \in Nat BY <1>1
<1>3. i <= FloatPower BY <1>1 DEF FloatPower
<1>4. One = 2^i BY DEF One
<1> HIDE DEF i
<1>5. 2^i = Pow[i] /\ i <= Far /\ Pow[i] \in Nat \ {0} BY <1>2, <1>3, PowTwo
<1> QED BY <1>2, <1>4, <1>5 DEF i

\* The product of two numbers, normalized, is the nearest, unless one factor is denormal and the product below the
\* least normal number, where only the sign and the range are promised.
LEMMA NumbersMultiplied ==
  ASSUME NEW a \in Values(FloatBits), NEW b \in Values(FloatBits), Finite(a), Finite(b), NEW s \in {0, 1}
  PROVE  LET num == Value[Magnitude(a)] * Value[Magnitude(b)]
             r == Normalize(s, Scale(a) + Scale(b) - Bias - FB + 3, Significand(a) * Significand(b))
         IN  \/ Rightly(r, s, num, One, TRUE)
             \/ /\ num < Hidden * One
                /\ Exponent(a) = 0 \/ Exponent(b) = 0
                /\ \E m \in 0..MaxMagnitude : r = FLOAT(s, 0, m)
<1> DEFINE exp == Scale(a) + Scale(b) - Bias - FB + 3
           x == Significand(a)
           z == Significand(b)
           p == Pow[Scale(a) - 1]
           q == Pow[Scale(b) - 1]
           sig == x * z
           num == Value[Magnitude(a)] * Value[Magnitude(b)]
           b1 == Hidden
           h == Bias + FB
           i == (exp - 1) + h
<1>1. /\ Scale(a) \in 1..(MaxExp - 1) /\ x \in Nat /\ x < 2 * b1 /\ (Exponent(a) # 0 => x >= b1)
      /\ Scale(a) = (IF Exponent(a) = 0 THEN 1 ELSE Exponent(a))
      /\ Value[Magnitude(a)] = x * p
  BY NumberIs
<1>2. /\ Scale(b) \in 1..(MaxExp - 1) /\ z \in Nat /\ z < 2 * b1 /\ (Exponent(b) # 0 => z >= b1)
      /\ Scale(b) = (IF Exponent(b) = 0 THEN 1 ELSE Exponent(b))
      /\ Value[Magnitude(b)] = z * q
  BY NumberIs
<1>3. b1 \in Nat /\ b1 >= 16 /\ b1 = Hidden BY HiddenCodes
<1>4. /\ MaxExp \in Int /\ MaxExp >= 3 /\ Bias \in Nat /\ Bias >= 1 /\ FB \in Nat /\ FB >= 4 /\ Long \in Nat /\ EB \in Nat
      /\ MaxExp = 2 * Bias + 1 /\ Long >= 2 * FB + 6 /\ Far = 4 * (EB + Long + MaxExp) + 8 /\ Far \in Nat
  BY FloatSizes DEF FloatPower
<1>5. exp \in Int /\ h \in Nat /\ i = Scale(a) + Scale(b) + 2 /\ i \in Nat /\ (exp + h) + Long <= Far /\ MaxExp + h <= Far /\ h <= Far
      /\ i <= Far
  BY <1>1, <1>2, <1>4
<1>6. p \in Nat \ {0} /\ q \in Nat \ {0}
  <2>1. Scale(a) \in 1..MaxExp /\ Scale(b) \in 1..MaxExp BY <1>1, <1>2, <1>4
  <2> QED BY <2>1, Units
<1>7. One \in Nat \ {0} /\ One = Pow[(Bias - 1) + FB] BY OneIs
<1>8. num \in Nat
  <2>1. x * p \in Nat /\ z * q \in Nat BY <1>1, <1>2, <1>6
  <2> QED BY <1>1, <1>2, <2>1
<1>9. sig \in Nat BY <1>1, <1>2
\* The product in larger units.
<1>10. (8 * num) * Pow[h] = sig * (One * Pow[i])
  <2> DEFINE u == Scale(a) - 1
             v == Scale(b) - 1
             w == (Bias - 1) + FB
  <2>1. u \in Nat /\ v \in Nat /\ w \in Nat /\ u + v <= Far /\ (u + v) + h <= Far /\ ((u + v) + h) + 3 <= Far /\ w + i <= Far
        /\ w + i = ((u + v) + h) + 3 /\ 3 <= Far
    BY <1>1, <1>2, <1>4, <1>5
  <2>2. Pow[3] = 8 BY FirstPowers
  <2>3. Pow[u] = p /\ Pow[v] = q OBVIOUS
  <2>4. One = Pow[w] BY <1>7
  <2>5. Value[Magnitude(a)] = x * p /\ Value[Magnitude(b)] = z * q BY <1>1, <1>2
  <2> DEFINE H == Pow[h]
             I == Pow[i]
  <2>6. H \in Nat /\ I \in Nat BY <1>5, PowNumber
  <2>7. x \in Nat /\ z \in Nat BY <1>1, <1>2
  <2>8. num = (x * p) * (z * q) BY <2>5
  <2> HIDE DEF u, v, w, p, q, x, z, i, h
  <2>9. Pow[u + v] = p * q BY <2>1, <2>3, PowAdd
  <2>10. Pow[(u + v) + h] = (p * q) * H
    <3>1. u + v \in Nat /\ h \in Nat BY <1>5, <2>1
    <3> QED BY <2>1, <2>9, <3>1, PowAdd
  <2>11. Pow[((u + v) + h) + 3] = ((p * q) * H) * 8
    <3> DEFINE j == (u + v) + h
    <3>1. j \in Nat /\ 3 \in Nat /\ j + 3 <= Far BY <1>5, <2>1
    <3>2. Pow[j] = (p * q) * H BY <2>10
    <3> HIDE DEF j
    <3>3. Pow[j + 3] = Pow[j] * Pow[3] BY <3>1, PowAdd
    <3>4. Pow[j + 3] = ((p * q) * H) * 8 BY <3>3, <3>2, <2>2
    <3> QED BY <3>4 DEF j
  <2>12. Pow[w + i] = One * I BY <1>5, <2>1, <2>4, PowAdd
  <2>13. One * I = ((p * q) * H) * 8 BY <2>1, <2>11, <2>12
  <2> HIDE DEF H, I
  <2>14. (8 * ((x * p) * (z * q))) * H = (x * z) * (((p * q) * H) * 8) BY <1>6, <2>6, <2>7
  <2>15. (8 * num) * H = (x * z) * (One * I) BY <2>8, <2>13, <2>14
  <2> QED BY <2>15 DEF H, I
<1>11. sig < 4 * (b1 * b1)
  <2> HIDE DEF x, z, b1
  <2>1. x * z <= (2 * b1) * z /\ (2 * b1) * z \in Int /\ x * z \in Int
    <3>1. x \in Int /\ 2 * b1 \in Int /\ x <= 2 * b1 /\ z \in Nat BY <1>1, <1>2, <1>3
    <3> QED BY <3>1, Monotone
  <2>2. z * (2 * b1) <= (2 * b1 - 1) * (2 * b1)
    <3> DEFINE g == 2 * b1
               g1 == 2 * b1 - 1
    <3>1. z \in Int /\ g1 \in Int /\ z <= g1 /\ g \in Nat BY <1>2, <1>3
    <3> HIDE DEF g, g1
    <3>2. z * g <= g1 * g BY <3>1, Monotone
    <3> QED BY <3>2 DEF g, g1
  <2>3. z * (2 * b1) = (2 * b1) * z BY <1>2, <1>3
  <2>4. (2 * b1 - 1) * (2 * b1) = 4 * (b1 * b1) - 2 * b1 BY <1>3
  <2>5. b1 * b1 \in Nat BY <1>3
  <2> DEFINE X == x * z
             Y == (2 * b1) * z
             Z == b1 * b1
  <2>6. X <= Y /\ Y <= 4 * Z - 2 * b1 /\ X \in Int /\ Y \in Int /\ Z \in Nat BY <2>1, <2>2, <2>3, <2>4, <2>5
  <2> HIDE DEF X, Y, Z
  <2>7. X < 4 * Z BY <1>3, <2>6
  <2> QED BY <2>7 DEF X, Z
<1>12. sig < Pow[Long]
  <2> DEFINE Z == b1 * b1
  <2>1. Pow[Long] \in Nat /\ 64 * Z <= Pow[Long] BY LongPower
  <2>2. Z \in Nat BY <1>3
  <2>3. sig < 4 * Z BY <1>11
  <2> HIDE DEF Z, sig
  <2> QED BY <1>9, <2>1, <2>2, <2>3
<1>13. Lead(sig) > 1 \/ Exponent(a) = 0 \/ Exponent(b) = 0
  <2>1. SUFFICES ASSUME Exponent(a) # 0, Exponent(b) # 0 PROVE Lead(sig) > 1 OBVIOUS
  <2>2. x >= b1 /\ z >= 16 BY <1>1, <1>2, <1>3, <2>1
  <2> HIDE DEF x, z, b1
  <2>3. b1 * z <= x * z /\ b1 * z \in Int /\ x * z \in Int
    <3>1. b1 \in Int /\ x \in Int /\ z \in Nat BY <1>1, <1>2, <1>3
    <3> QED BY <2>2, <3>1, Monotone
  <2>4. 16 * b1 <= z * b1 /\ z * b1 \in Int
    <3>1. 16 \in Int /\ z \in Int /\ b1 \in Nat BY <1>2, <1>3
    <3> QED BY <2>2, <3>1, Monotone
  <2>5. z * b1 = b1 * z BY <1>2, <1>3
  <2> HIDE DEF sig
  <2>6. sig >= 16 * b1 BY <1>3, <2>3, <2>4, <2>5 DEF sig
  <2> QED BY <1>3, <1>9, <2>6, LeadIs
<1> DEFINE y == TRUE
           r == Normalize(s, exp, sig)
<1>14. SUFFICES \/ Rightly(r, s, num, One, y)
                \/ /\ num < Hidden * One
                   /\ Exponent(a) = 0 \/ Exponent(b) = 0
                   /\ \E m \in 0..MaxMagnitude : r = FLOAT(s, 0, m)
  OBVIOUS
<1> DEFINE N == (8 * num) * Pow[h]
           D == One * Pow[i]
<1>15. D \in Nat \ {0} /\ N = sig * D
  <2>1. Pow[i] \in Nat \ {0} BY <1>5, PowNumber
  <2> DEFINE I == Pow[i]
  <2> HIDE DEF I
  <2>2. 1 * I <= One * I /\ One * I \in Int
    <3>1. 1 \in Int /\ One \in Int /\ I \in Nat /\ 1 <= One BY <1>7, <2>1 DEF I
    <3> QED BY <3>1, Monotone
  <2>3. D \in Nat \ {0} BY <2>1, <2>2 DEF I
  <2> QED BY <1>10, <2>3
<1>16. 2 \in Nat /\ sig \in Int BY <1>9
<1>17. Tells(sig, N, D, y, 2)
  <2> HIDE DEF N, D, sig
  <2> QED BY <1>15, <1>16, TellsExactly
<1>18. CASE Lead(sig) > 1 \/ exp < 0
  <2>1. Tells(sig, (8 * num) * Pow[h], One * Pow[(exp - 1) + h], y, 2) BY <1>17
  <2>2. (exp - 1) + h >= 0 BY <1>5
  <2> HIDE DEF y, exp, h, sig, num, i
  <2>3. Rightly(Normalize(s, exp, sig), s, num, One, y)
    BY <1>5, <1>7, <1>8, <1>9, <1>12, <1>18, <2>1, <2>2, NormalizeRight
  <2> QED BY <2>3
\* One of the factors is denormal: the exponent is far from the largest.
<1>19. CASE ~(Lead(sig) > 1) /\ exp >= 0
  <2>1. exp <= MaxExp - 2 BY <1>1, <1>2, <1>4, <1>13, <1>19
  <2>2. CASE exp >= 1
    <3> DEFINE j == exp - 1
               H == Pow[h]
               J == Pow[j]
    <3>1. j \in Nat /\ j + h <= Far /\ i = j + h /\ j <= Far BY <1>4, <1>5, <2>2, <2>1
    <3>2. Pow[i] = J * H
      <4> HIDE DEF j, i, h
      <4> QED BY <1>5, <3>1, PowAdd
    <3>3. H \in Nat \ {0} /\ J \in Nat
      <4> HIDE DEF j, h
      <4> QED BY <1>5, <3>1, PowNumber
    <3>4. sig * (One * J) = 8 * num
      <4>1. (8 * num) * H = sig * (One * (J * H)) BY <1>10, <3>2
      <4> DEFINE L == sig * (One * J)
                 n == 8 * num
      <4> HIDE DEF H, J, sig, num
      <4>2. sig * (One * (J * H)) = L * H BY <1>7, <1>9, <3>3
      <4>3. n * H = L * H BY <4>1, <4>2
      <4>4. n \in Int /\ L \in Int BY <1>7, <1>8, <1>9, <3>3
      <4> HIDE DEF L, n
      <4>5. n = L BY <3>3, <4>3, <4>4, Cancel
      <4> QED BY <4>5 DEF L, n
    <3>5. exp \in 1..(MaxExp - 1) BY <1>4, <1>5, <2>1, <2>2
    <3>6. CASE Lead(sig) = 0
      <4>1. sig * (One * Pow[exp - 1]) = 8 * num BY <3>4
      <4> HIDE DEF sig, num, exp, y
      <4>2. Rightly(Normalize(s, exp, sig), s, num, One, TRUE) BY <1>7, <1>8, <1>9, <3>5, <3>6, <4>1, NormalizeLeft
      <4> QED BY <4>2 DEF y
    <3>7. CASE Lead(sig) # 0
      <4> DEFINE E == One * J
                 n == 8 * num
      <4>1. E \in Nat \ {0}
        <5>1. J \in Nat \ {0}
          <6> HIDE DEF j
          <6> QED BY <3>1, PowNumber
        <5> HIDE DEF J
        <5>2. 1 * J <= One * J /\ One * J \in Int
          <6>1. 1 \in Int /\ One \in Int /\ J \in Nat /\ 1 <= One BY <1>7, <5>1
          <6> QED BY <6>1, Monotone
        <5> QED BY <5>1, <5>2
      <4>2. n = sig * E BY <3>4
      <4> HIDE DEF E, n, sig
      <4>3. Tells(sig, n, E, y, 2) BY <1>16, <4>1, <4>2, TellsExactly
      <4>4. exp # 0 BY <2>2
      <4>5. Tells(sig, 8 * num, One * Pow[IF exp = 0 THEN 0 ELSE exp - 1], y, 2) BY <4>3, <4>4 DEF E, n
      <4>6. exp \in 0..(MaxExp - 1) /\ ~(Lead(sig) > 1) /\ (Lead(sig) = 0 => exp = 0) BY <1>4, <1>19, <3>5, <3>7
      <4> HIDE DEF num, exp, y
      <4>7. Rightly(Normalize(s, exp, sig), s, num, One, y) BY <1>7, <1>8, <1>9, <4>5, <4>6, NormalizeDirect
      <4> QED BY <4>7
    <3> QED BY <3>6, <3>7
\* No promise here but the sign.
  <2>3. CASE exp = 0
    <3>1. num < Hidden * One
      <4> DEFINE j == h - 1
                 H == Pow[j]
      <4>1. j \in Nat /\ j + 1 <= Far /\ j + 1 = h /\ i = j /\ j <= Far BY <1>4, <1>5, <2>3
      <4>2. Pow[h] = 2 * H
        <5> HIDE DEF j, h
        <5> QED BY <4>1, PowNext
      <4>3. H \in Nat \ {0}
        <5> HIDE DEF j
        <5> QED BY <4>1, PowNumber
      <4>4. (8 * num) * (2 * H) = sig * (One * H) BY <1>10, <4>1, <4>2
      <4>5. sig < 16 * b1
        <5> HIDE DEF sig
        <5> QED BY <1>3, <1>9, <1>19, LeadIs
      <4> HIDE DEF H, sig, num, b1
      <4> DEFINE n == 16 * num
                 L == sig * One
      <4>6. (8 * num) * (2 * H) = n * H /\ sig * (One * H) = L * H BY <1>7, <1>8, <1>9, <4>3
      <4>7. n \in Int /\ L \in Int BY <1>7, <1>8, <1>9
      <4>8. n * H = L * H BY <4>4, <4>6
      <4> HIDE DEF n, L
      <4>9. n = L BY <4>3, <4>7, <4>8, Cancel
      <4>10. sig * One < (16 * b1) * One
        <5> DEFINE g == 16 * b1
        <5>1. g \in Int /\ sig \in Int /\ sig < g BY <1>3, <1>9, <4>5
        <5> HIDE DEF g
        <5>2. sig * One < g * One BY <1>7, <5>1, Cancel
        <5> QED BY <5>2 DEF g
      <4>11. (16 * b1) * One = 16 * (b1 * One) BY <1>3, <1>7
      <4> DEFINE B == b1 * One
      <4>12. B \in Int BY <1>3, <1>7
      <4>13. n < 16 * B BY <4>9, <4>10, <4>11 DEF L
      <4> HIDE DEF B
      <4>14. num < B BY <1>8, <4>12, <4>13 DEF n
      <4> QED BY <1>3, <4>14 DEF B
    <3>2. \E m \in 0..MaxMagnitude : r = FLOAT(s, 0, m)
      <4> HIDE DEF sig
      <4> DEFINE e == 8 * sig
                 o == 0
                 t == 8
      <4>1. Tells(sig, e, t * Pow[0], y, 2)
        <5>1. t * Pow[0] = t /\ t \in Nat \ {0} BY PowIs
        <5>2. e = sig * t BY <1>9
        <5>3. e \in Int /\ sig \in Int BY <1>9
        <5> HIDE DEF e, t
        <5>4. Tells(sig, e, t, y, 2) BY <1>16, <5>1, <5>2, TellsExactly
        <5> QED BY <5>1, <5>4
      <4>2. Tells(sig, 8 * sig, t * Pow[IF o = 0 THEN 0 ELSE o - 1], y, 2) BY <4>1
      <4>3. o \in 0..(MaxExp - 1) /\ ~(Lead(sig) > 1) /\ (Lead(sig) = 0 => o = 0) /\ t \in Nat \ {0} BY <1>4, <1>19
      <4> HIDE DEF o, y, t
      <4>4. Rightly(Normalize(s, o, sig), s, sig, t, y) BY <1>9, <4>2, <4>3, NormalizeDirect
      <4>5. r = Normalize(s, o, sig) BY <2>3 DEF o
      <4> QED BY <4>4, <4>5 DEF Rightly
    <3> QED BY <1>13, <1>19, <3>1, <3>2
  <2>4. exp >= 1 \/ exp = 0
    <3>1. exp \in Int /\ exp >= 0 BY <1>5, <1>19
    <3> HIDE DEF exp
    <3> QED BY <3>1
  <2> HIDE DEF exp, y, r, sig, num
  <2> QED BY <2>2, <2>3, <2>4
<1>20. exp < 0 \/ exp >= 0
  <2>1. exp \in Int BY <1>5
  <2> HIDE DEF exp
  <2> QED BY <2>1
<1> HIDE DEF exp, y, r, sig, num
<1> QED BY <1>18, <1>19, <1>20

\* The results without arithmetic.
LEMMA OneNanIs ==
  ASSUME NEW a, NEW b
  PROVE  OneNan(a, b) \in Nans
BY DEF OneNan, Nans

\* it is a float,
LEMMA NanIsFloat ==
  ASSUME NEW r \in Nans
  PROVE  r \in Values(FloatBits)
<1>1. r \in Floats BY DEF Floats
<1> QED BY <1>1, FloatKinds

\* and right where there is no value.
LEMMA NanProduct ==
  ASSUME NEW op, NEW a, NEW b, Invalid(op, a, b), NEW r \in Nans
  PROVE  ProductRight(r, op, a, b) /\ r \in Values(FloatBits)
BY NanIsFloat DEF ProductRight

\* With an infinity.
LEMMA InfProduct ==
  ASSUME NEW op, NEW a \in Floats, NEW b \in Floats, a \in Infs \/ b \in Infs, ~Invalid(op, a, b),
         NEW m \in 0..MaxMagnitude, m = IF op = "fdivs" /\ b \in Infs THEN 0 ELSE MaxMagnitude,
         NEW r, r = FLOAT(OneSign(a, b), 0, m)
  PROVE  ProductRight(r, op, a, b) /\ r \in Values(FloatBits)
<1>1. a \in Values(FloatBits) /\ b \in Values(FloatBits) BY FloatKinds
<1>2. OneSign(a, b) \in {0, 1} BY <1>1, OneSignIs
<1>3. r \in Values(FloatBits) /\ Sign(r) = OneSign(a, b) /\ Magnitude(r) = m BY <1>2, PackedMagnitude
<1>4. ~(Finite(a) /\ Finite(b))
  <2>1. a \in Infs => ~Finite(a) BY FloatKinds
  <2>2. b \in Infs => ~Finite(b) BY FloatKinds
  <2> QED BY <2>1, <2>2
<1>5. Inf(0) = MaxMagnitude BY InfIs
<1> QED BY <1>3, <1>4, <1>5 DEF ProductRight

\* FloatMul is what FloatProduct says.
LEMMA MulRight ==
  ASSUME NEW a \in Floats, NEW b \in Floats
  PROVE  ProductRight(FloatMul(b, a), "fmuls", a, b) /\ FloatMul(b, a) \in Values(FloatBits)
<1> DEFINE r == FloatMul(b, a)
           op == "fmuls"
           s == OneSign(a, b)
           mixed == (a \in Zeros /\ b \in Infs) \/ (a \in Infs /\ b \in Zeros)
           nan == a \in Nans \/ b \in Nans
           zero == a \in Zeros \/ b \in Zeros
           inf == a \in Infs \/ b \in Infs
           t == Normalize(s, Scale(a) + Scale(b) - Bias - FB + 3, Significand(a) * Significand(b))
<1>1. /\ Finite(a) \/ a \in Infs \/ a \in Nans
      /\ a \in Infs => ~Finite(a) /\ a \notin Nans /\ a \notin Zeros
      /\ a \in Values(FloatBits)
  BY FloatKinds
<1>2. /\ Finite(b) \/ b \in Infs \/ b \in Nans
      /\ b \in Infs => ~Finite(b) /\ b \notin Nans /\ b \notin Zeros
      /\ b \in Values(FloatBits)
  BY FloatKinds
<1>3. s \in {0, 1} BY <1>1, <1>2, OneSignIs
<1>4. r = IF mixed THEN Nan(1) ELSE IF nan THEN OneNan(a, b) ELSE IF zero THEN Zero(s) ELSE IF inf THEN Inf(s) ELSE t
  BY DEF FloatMul
<1>5. Invalid(op, a, b) <=> (nan \/ mixed) BY DEF Invalid
<1>6. Nan(1) \in Nans /\ OneNan(a, b) \in Nans BY OneNanIs DEF Nans
<1>7. Zero(s) = FLOAT(s, 0, 0) /\ Inf(s) = FLOAT(s, 0, MaxMagnitude) BY <1>3, Specials
<1>8. 0 \in 0..MaxMagnitude /\ MaxMagnitude \in 0..MaxMagnitude BY SpecialMagnitudes
<1>9. CASE mixed \/ nan
  <2>1. r \in Nans /\ Invalid(op, a, b) BY <1>4, <1>5, <1>6, <1>9
  <2> HIDE DEF r
  <2>2. ProductRight(r, op, a, b) /\ r \in Values(FloatBits) BY <2>1, NanProduct
  <2> QED BY <2>2 DEF r
<1>10. CASE ~mixed /\ ~nan /\ ~zero /\ inf
  <2>1. r = FLOAT(s, 0, MaxMagnitude) BY <1>4, <1>7, <1>10
  <2> DEFINE m == MaxMagnitude
  <2>2. m \in 0..MaxMagnitude /\ m = (IF op = "fdivs" /\ b \in Infs THEN 0 ELSE MaxMagnitude) BY <1>8
  <2>3. ~Invalid(op, a, b) /\ (a \in Infs \/ b \in Infs) BY <1>5, <1>10
  <2>4. r = FLOAT(OneSign(a, b), 0, m) BY <2>1
  <2> HIDE DEF r, m, op
  <2>5. ProductRight(r, op, a, b) /\ r \in Values(FloatBits) BY <2>2, <2>3, <2>4, InfProduct
  <2> QED BY <2>5 DEF r, op
<1>11. CASE ~mixed /\ ~nan /\ (zero \/ ~inf)
  <2>1. Finite(a) /\ Finite(b) /\ ~Invalid(op, a, b) BY <1>1, <1>2, <1>5, <1>11
  <2> DEFINE x == Value[Magnitude(a)]
             z == Value[Magnitude(b)]
             num == x * z
             y == TRUE
  <2>2. x \in Nat /\ z \in Nat BY <1>1, <1>2, <2>1, NumberIs
  <2>3. num \in Nat
    <3> HIDE DEF x, z
    <3> QED BY <2>2
  <2>4. One \in Nat \ {0} BY OneIs
  <2>5. num = Numerator(op, a, b) /\ One = Denominator(op, a, b) BY DEF Numerator, Denominator
  <2>6. op \in {"fmuls", "fdivs"} OBVIOUS
  <2>7. CASE Rightly(r, s, num, One, y)
    <3>1. Rightly(r, OneSign(a, b), num, One, y) /\ y BY <2>7
    <3> HIDE DEF r, num, op, y
    <3>2. ProductRight(r, op, a, b) /\ r \in Values(FloatBits) BY <2>1, <2>3, <2>4, <2>5, <2>6, <3>1, RightlyProduct
    <3> QED BY <3>2 DEF r, op
  <2>8. CASE zero
    <3>1. r = FLOAT(s, 0, 0) BY <1>4, <1>7, <1>11, <2>8
    <3>2. num = 0
      <4>1. a \in Zeros => x = 0
        <5>1. a \in Zeros => Magnitude(a) = 0 BY <1>1, Kinds
        <5>2. Value[0] = 0 BY <1>8, ValueNumber
        <5> QED BY <5>1, <5>2
      <4>2. b \in Zeros => z = 0
        <5>1. b \in Zeros => Magnitude(b) = 0 BY <1>2, Kinds
        <5>2. Value[0] = 0 BY <1>8, ValueNumber
        <5> QED BY <5>1, <5>2
      <4>3. x = 0 \/ z = 0 BY <2>8, <4>1, <4>2
      <4> HIDE DEF x, z
      <4> QED BY <2>2, <4>3
    <3> HIDE DEF num
    <3>3. Nearest(num, One) = 0
      <4>1. 2 * num < One /\ One \in Nat BY <2>4, <3>2
      <4> QED BY <2>3, <4>1, NearestZero
    <3>4. Rightly(r, s, num, One, y) BY <1>8, <3>1, <3>3 DEF Rightly
    <3> QED BY <2>7, <3>4 DEF num
  <2>9. CASE ~zero
    <3>1. r = t BY <1>4, <1>11, <2>9
    <3>2. \/ Rightly(t, s, num, One, y)
          \/ /\ num < Hidden * One
             /\ Exponent(a) = 0 \/ Exponent(b) = 0
             /\ \E m \in 0..MaxMagnitude : t = FLOAT(s, 0, m)
      BY <1>1, <1>2, <1>3, <2>1, NumbersMultiplied
    <3>3. CASE /\ num < Hidden * One
               /\ Exponent(a) = 0 \/ Exponent(b) = 0
               /\ \E m \in 0..MaxMagnitude : t = FLOAT(s, 0, m)
      <4>1. PICK m \in 0..MaxMagnitude : t = FLOAT(s, 0, m) BY <3>3
      <4> HIDE DEF t, r, s
      <4>2. r \in Values(FloatBits) /\ Sign(r) = s /\ Magnitude(r) = m BY <1>3, <3>1, <4>1, PackedMagnitude
      <4>3. Value[LeastNormal] = Hidden /\ LeastNormal = Hidden /\ Hidden \in Nat BY LeastValue, HiddenCodes
      <4>4. ~(Magnitude(a) >= LeastNormal /\ Magnitude(b) >= LeastNormal)
        <5>1. ASSUME NEW v \in Values(FloatBits), Exponent(v) = 0 PROVE ~(Magnitude(v) >= Hidden)
          <6> DEFINE M == Magnitude(v)
                     h == Hidden
          <6>1. M \in 0..(Codes * Hidden - 1) /\ Exponent(v) = M \div h BY MagnitudeSame
          <6>2. M \in Nat /\ h \in Nat \ {0} /\ M \div h = 0 BY <5>1, <6>1, HiddenCodes
          <6> HIDE DEF M, h
          <6>3. M % h \in 0..(h - 1) /\ M = (M \div h) * h + (M % h) BY <6>2, Euclid
          <6>4. M = M % h BY <6>2, <6>3
          <6>5. M < h BY <6>2, <6>3, <6>4
          <6> QED BY <6>2, <6>5 DEF M, h
        <5> QED BY <1>1, <1>2, <3>3, <4>3, <5>1
      <4>5. num < Value[LeastNormal] * One BY <3>3, <4>3
      <4>6. ~(num >= Value[LeastNormal] * One) BY <2>3, <2>4, <4>3, <4>5
      <4>7. ~inf BY <1>1, <1>2, <2>1
      <4>8. op # "fdivs" OBVIOUS
      <4> HIDE DEF num, op
      <4>9. ProductRight(r, op, a, b) BY <2>1, <2>5, <4>2, <4>4, <4>6, <4>7, <4>8 DEF ProductRight, s
      <4> QED BY <4>2, <4>9 DEF r, op
    <3> QED BY <2>7, <3>1, <3>2, <3>3
  <2> QED BY <2>8, <2>9
<1>12. mixed \/ nan \/ (~mixed /\ ~nan /\ ~zero /\ inf) \/ (~mixed /\ ~nan /\ (zero \/ ~inf)) OBVIOUS
<1> QED BY <1>9, <1>10, <1>11, <1>12

----------------------------------------------------------------------------
(* Quotients.                                                                *)

\* The shifts of the dividend and of the divisor.
LeftOf(x) == CHOOSE k \in 0..Long : (x * 2^k) \div 2^(Long - 1) = 1
RightOf(x) == CHOOSE k \in 0..FB : x % 2^k = 0 /\ (x \div 2^k) % 2 = 1

\* The sizes a division works with.
LEMMA LongSizes ==
  /\ Long \in Nat /\ Long >= 14 /\ Long - 1 \in Nat /\ Long <= FloatPower /\ Long <= Far /\ Long - 1 <= FloatPower /\ Long - 1 <= Far
  /\ FB \in Nat /\ FB + 1 \in Nat /\ FB + 1 <= FloatPower /\ FB + 1 <= Far
  /\ Pow[Long - 1] \in Nat \ {0} /\ Pow[Long] = 2 * Pow[Long - 1] /\ Pow[Long] \in Nat
  /\ 32 * (Hidden * Hidden) <= Pow[Long - 1]
  /\ Pow[FB + 1] = 2 * Hidden
<1>1. /\ Long \in Nat /\ Long >= 14 /\ Long - 1 \in Nat /\ Long <= FloatPower /\ Long <= Far /\ Long - 1 <= FloatPower /\ Long - 1 <= Far
      /\ FB \in Nat /\ FB + 1 \in Nat /\ FB + 1 <= FloatPower /\ FB + 1 <= Far
  BY FloatSizes DEF FloatPower
<1>2. Pow[Long - 1] \in Nat \ {0} BY <1>1, PowNumber
<1>3. Pow[Long] = 2 * Pow[Long - 1]
  <2> DEFINE j == Long - 1
  <2>1. j \in Nat /\ j + 1 <= Far /\ j + 1 = Long BY <1>1
  <2> HIDE DEF j
  <2>2. Pow[j + 1] = 2 * Pow[j] BY <2>1, PowNext
  <2> QED BY <2>1, <2>2 DEF j
<1>4. Pow[FB + 1] = 2 * Hidden BY <1>1, PowNext DEF Hidden
<1>5. 32 * (Hidden * Hidden) <= Pow[Long - 1]
  <2> DEFINE z == Hidden * Hidden
             w == Pow[Long - 1]
  <2>1. z \in Nat BY HiddenCodes
  <2>2. 64 * z <= Pow[Long] BY LongPower
  <2>3. 64 * z <= 2 * w /\ w \in Nat BY <1>2, <1>3, <2>2
  <2> HIDE DEF z, w
  <2>4. 32 * z <= w BY <2>1, <2>3
  <2> QED BY <2>4 DEF z, w
<1>6. Pow[Long] \in Nat BY <1>2, <1>3
<1> QED BY <1>1, <1>2, <1>3, <1>4, <1>5, <1>6

\* The dividend can be shifted left until its highest bit is 1.
LEMMA LeftIs ==
  ASSUME NEW x \in Nat \ {0}, x < 2 * Hidden
  PROVE  /\ LeftOf(x) \in 0..Long
         /\ Pow[Long - 1] <= x * Pow[LeftOf(x)]
         /\ x * Pow[LeftOf(x)] < Pow[Long]
         /\ 2^LeftOf(x) = Pow[LeftOf(x)]
<1> DEFINE w == Pow[Long - 1]
           C == {k \in 0..Long : x * Pow[k] < w}
           P(k) == (x * 2^k) \div 2^(Long - 1) = 1
<1>1. Long \in Nat /\ Long <= FloatPower /\ Long <= Far /\ w \in Nat \ {0} /\ Pow[Long] = 2 * w /\ 2^(Long - 1) = w
      /\ FloatPower \in Nat /\ Far \in Nat
  <2>1. 2^(Long - 1) = w BY LongSizes, PowTwo
  <2> QED BY <2>1, LongSizes, FloatSizes
<1>2. ASSUME NEW k \in 0..Long
      PROVE  2^k = Pow[k] /\ Pow[k] \in Nat \ {0} /\ x * Pow[k] \in Nat /\ (k > 0 => Pow[k] = 2 * Pow[k - 1])
  <2>1. k \in Nat /\ k <= FloatPower /\ k <= Far BY <1>1
  <2>2. 2^k = Pow[k] /\ Pow[k] \in Nat \ {0} BY <2>1, PowTwo
  <2>3. x * Pow[k] \in Nat
    <3> DEFINE p == Pow[k]
    <3>1. p \in Nat BY <2>2
    <3> HIDE DEF p
    <3>2. x * p \in Nat BY <3>1
    <3> QED BY <3>2 DEF p
  <2>4. ASSUME k > 0 PROVE Pow[k] = 2 * Pow[k - 1]
    <3> DEFINE j == k - 1
    <3>1. j \in Nat /\ j + 1 = k /\ j + 1 <= Far BY <2>1, <2>4
    <3> HIDE DEF j
    <3>2. Pow[j + 1] = 2 * Pow[j] BY <3>1, PowNext
    <3> QED BY <3>1, <3>2 DEF j
  <2> QED BY <2>2, <2>3, <2>4
<1>3. Long \notin C
  <2> DEFINE p == Pow[Long]
  <2>1. p = 2 * w /\ p \in Nat BY <1>1
  <2> HIDE DEF p, w
  <2>2. 1 * p <= x * p /\ x * p \in Int
    <3>1. 1 \in Int /\ x \in Int /\ 1 <= x BY DEF w
    <3> QED BY <2>1, <3>1, Monotone
  <2>3. ~(x * p < w) BY <1>1, <2>1, <2>2
  <2> QED BY <2>3 DEF p
<1>4. PICK f : Turns(f, Long, C) BY <1>1, <1>3, LoopExists
<1> DEFINE k == f[0]
<1>5. k \in 0..Long /\ k \notin C /\ \A i \in 0..Long : i < k => i \in C BY <1>1, <1>3, <1>4, LoopEnds
<1> HIDE DEF k
<1>6. w <= x * Pow[k]
  <2>1. ~(x * Pow[k] < w) BY <1>5
  <2> QED BY <1>1, <1>2, <1>5, <2>1
<1>7. x * Pow[k] < 2 * w
  <2>1. CASE k = 0
    <3>1. Pow[k] = 1 /\ x * 1 = x BY <2>1, PowIs
    <3>2. 32 * (Hidden * Hidden) <= w /\ Hidden \in Nat /\ Hidden >= 16 BY LongSizes, HiddenCodes
    <3>3. 2 * Hidden <= 32 * (Hidden * Hidden) /\ Hidden * Hidden \in Nat BY <3>2
    <3> DEFINE z == Hidden * Hidden
    <3>4. z \in Nat /\ 32 * z <= w /\ 2 * Hidden <= 32 * z BY <3>2, <3>3
    <3> HIDE DEF z, w
    <3>5. x < 2 * w BY <1>1, <3>2, <3>4
    <3> QED BY <3>1, <3>5
  <2>2. CASE k > 0
    <3> DEFINE j == k - 1
               p == Pow[j]
    <3>1. j \in 0..Long /\ j < k /\ Pow[k] = 2 * p BY <1>1, <1>2, <1>5, <2>2
    <3>2. x * p < w /\ p \in Nat /\ x * p \in Nat
      <4> HIDE DEF j
      <4> QED BY <1>2, <1>5, <3>1
    <3> HIDE DEF p, w
    <3>3. x * (2 * p) = 2 * (x * p) BY <3>2
    <3>4. 2 * (x * p) < 2 * w
      <4> DEFINE z == x * p
      <4>1. z \in Nat /\ z < w BY <3>2
      <4> HIDE DEF z
      <4>2. 2 * z < 2 * w BY <1>1, <4>1
      <4> QED BY <4>2 DEF z
    <3> QED BY <3>1, <3>3, <3>4
  <2> QED BY <1>1, <1>5, <2>1, <2>2
<1>8. \A j \in 0..Long : P(j) <=> (w <= x * Pow[j] /\ x * Pow[j] < 2 * w)
  <2> TAKE j \in 0..Long
  <2> DEFINE z == x * Pow[j]
             d == z \div w
  <2>1. z \in Nat /\ x * 2^j = z BY <1>2
  <2>2. P(j) <=> d = 1 BY <1>1, <2>1
  <2> HIDE DEF z, w
  <2> DEFINE g == z % w
  <2>7. z \in Int /\ w \in Nat \ {0} BY <1>1, <2>1
  <2>3. d \in Int /\ g \in 0..(w - 1) /\ z = d * w + g BY <2>7, Euclid
  <2> HIDE DEF g
  <2>4. ASSUME w <= z, z < 2 * w PROVE d = 1
    <3> DEFINE t == z - w
    <3>1. t \in 0..(w - 1) /\ z = 1 * w + t BY <1>1, <2>1, <2>4
    <3> HIDE DEF d, t
    <3>2. d <= 1
      <4>1. SUFFICES ASSUME 2 <= d PROVE FALSE BY <2>3
      <4>2. 2 * w <= d * w /\ d * w \in Int BY <1>1, <2>3, <4>1, Monotone
      <4>3. d * w <= z BY <1>1, <2>1, <2>3, <4>2
      <4> QED BY <1>1, <2>1, <2>4, <4>2, <4>3
    <3>3. 1 <= d
      <4>1. SUFFICES ASSUME d <= 0 PROVE FALSE BY <2>3
      <4>2. d * w <= 0 * w /\ d * w \in Int BY <1>1, <2>3, <4>1, Monotone
      <4>3. 0 * w = 0 BY <1>1
      <4> QED BY <1>1, <2>1, <2>3, <2>4, <4>2, <4>3
    <3> QED BY <2>3, <3>2, <3>3
  <2>5. ASSUME d = 1 PROVE w <= z /\ z < 2 * w
    <3> HIDE DEF d
    <3>1. d * w = w BY <1>1, <2>5
    <3> QED BY <1>1, <2>1, <2>3, <3>1
  <2>6. d = 1 <=> (w <= z /\ z < 2 * w) BY <2>4, <2>5
  <2> QED BY <2>2, <2>6 DEF z
<1>9. \E j \in 0..Long : P(j)
  <2> HIDE DEF P, w
  <2> QED BY <1>5, <1>6, <1>7, <1>8
<1>10. LeftOf(x) \in 0..Long /\ P(LeftOf(x)) BY <1>9 DEF LeftOf
<1> DEFINE l == LeftOf(x)
<1>11. l \in 0..Long /\ P(l) BY <1>10
<1> HIDE DEF l, P, w
<1>12. w <= x * Pow[l] /\ x * Pow[l] < 2 * w BY <1>8, <1>11
<1>13. 2^l = Pow[l] BY <1>2, <1>11
<1> QED BY <1>1, <1>11, <1>12, <1>13 DEF l, w

\* The divisor can be shifted right until its lowest bit is 1, and loses nothing.
LEMMA RightIs ==
  ASSUME NEW x \in Nat \ {0}, x < 2 * Hidden
  PROVE  /\ RightOf(x) \in 0..FB /\ RightOf(x) <= Far
         /\ 2^RightOf(x) = Pow[RightOf(x)]
         /\ x \div Pow[RightOf(x)] \in Nat \ {0}
         /\ (x \div Pow[RightOf(x)]) * Pow[RightOf(x)] = x
         /\ x \div Pow[RightOf(x)] <= x
<1> DEFINE C == {k \in 0..FB : x % Pow[k + 1] = 0}
           P(k) == x % 2^k = 0 /\ (x \div 2^k) % 2 = 1
<1>1. FB \in Nat /\ FB <= FloatPower /\ FB + 1 <= Far /\ FB <= Far /\ FloatPower \in Nat /\ Far \in Nat
  <2>1. FB \in Nat /\ FB + 1 <= FloatPower /\ FB + 1 <= Far /\ FloatPower \in Nat /\ Far \in Nat BY LongSizes, FloatSizes
  <2> QED BY <2>1
<1>2. ASSUME NEW k \in 0..FB
      PROVE  Pow[k] \in Nat \ {0} /\ Pow[k + 1] = 2 * Pow[k]
  <2>1. k \in Nat /\ k <= Far /\ k + 1 <= Far BY <1>1
  <2> QED BY <2>1, PowNumber, PowNext
<1>3. ASSUME NEW k \in 0..FB PROVE 2^k = Pow[k]
  <2>1. k \in Nat /\ k <= FloatPower BY <1>1
  <2> QED BY <2>1, PowTwo
<1>4. FB \notin C
  <2> DEFINE p == 2 * Hidden
  <2>1. Pow[FB + 1] = p BY LongSizes
  <2>2. p \in Nat \ {0} /\ x < p BY HiddenCodes
  <2> HIDE DEF p
  <2>3. x % p = x BY <2>2
  <2>4. x % Pow[FB + 1] # 0 BY <2>1, <2>3
  <2> QED BY <2>4
<1>5. PICK f : Turns(f, FB, C) BY <1>1, <1>4, LoopExists
<1> DEFINE k == f[0]
<1>6. k \in 0..FB /\ k \notin C /\ \A i \in 0..FB : i < k => i \in C BY <1>1, <1>4, <1>5, LoopEnds
<1> HIDE DEF k
<1>7. x % Pow[k + 1] # 0 BY <1>6
<1>8. x % Pow[k] = 0
  <2>1. CASE k = 0
    <3>1. Pow[k] = 1 BY <2>1, PowIs
    <3>2. x % 1 = 0 OBVIOUS
    <3> QED BY <3>1, <3>2
  <2>2. CASE k > 0
    <3> DEFINE j == k - 1
    <3>1. j \in 0..FB /\ j < k /\ j + 1 = k BY <1>1, <1>6, <2>2
    <3> HIDE DEF j
    <3>2. x % Pow[j + 1] = 0 BY <1>6, <3>1
    <3> QED BY <3>1, <3>2
  <2> QED BY <1>1, <1>6, <2>1, <2>2
<1>9. (x \div Pow[k]) % 2 = 1
  <2> DEFINE p == Pow[k]
             d == x \div p
             m == x % p
  <2>1. p \in Nat \ {0} /\ Pow[k + 1] = 2 * p BY <1>2, <1>6
  <2>2. m = 0 BY <1>8
  <2>3. x % (2 * p) # 0 BY <1>7, <2>1
  <2> HIDE DEF p
  <2>4. d \in Int /\ x = d * p + m BY <2>1, Euclid
  <2> HIDE DEF d, m
  <2>5. x = d * p BY <2>1, <2>2, <2>4
  <2>6. SUFFICES ASSUME d % 2 = 0 PROVE FALSE
    <3>1. d % 2 = 0 \/ d % 2 = 1 BY <2>4
    <3> QED BY <3>1 DEF d, p
  <2> DEFINE g == d \div 2
             pp == 2 * p
  <2>7. g \in Int /\ d = 2 * g BY <2>4, <2>6
  <2> HIDE DEF g
  <2>8. x = g * pp /\ pp \in Nat \ {0} BY <2>1, <2>5, <2>7
  <2> HIDE DEF pp
  <2>9. (g * pp) % pp = 0 BY <2>7, <2>8
  <2> QED BY <2>3, <2>8, <2>9 DEF pp
<1>10. P(k)
  <2>1. 2^k = Pow[k] BY <1>3, <1>6
  <2> QED BY <1>8, <1>9, <2>1
<1>11. \E j \in 0..FB : P(j) BY <1>6, <1>10
<1>12. RightOf(x) \in 0..FB /\ P(RightOf(x)) BY <1>11 DEF RightOf
<1> DEFINE r == RightOf(x)
           p == Pow[r]
<1>13. r \in 0..FB /\ x % 2^r = 0 BY <1>12
<1> HIDE DEF r
<1>14. 2^r = p BY <1>3, <1>13
<1>15. p \in Nat \ {0} BY <1>2, <1>13
<1>16. x % p = 0 BY <1>13, <1>14
<1>17. r <= Far BY <1>1, <1>13
<1> DEFINE d == x \div p
           m == x % p
<1> HIDE DEF p
<1>18. d \in Int /\ x = d * p + m BY <1>15, Euclid
<1>19. m = 0 BY <1>16
<1> HIDE DEF d, m
<1>20. x = d * p BY <1>15, <1>18, <1>19
<1>21. d \in Nat \ {0}
  <2>1. SUFFICES ASSUME d <= 0 PROVE FALSE BY <1>18
  <2>2. d * p <= 0 * p BY <1>15, <1>18, <2>1, Monotone
  <2>3. 0 * p = 0 /\ d * p \in Int BY <1>15, <1>18
  <2>4. x > 0 OBVIOUS
  <2> QED BY <1>20, <2>2, <2>3, <2>4
<1>22. d <= x
  <2>1. 1 * d <= p * d /\ p * d \in Int
    <3>1. 1 \in Int /\ p \in Int /\ 1 <= p /\ d \in Nat BY <1>15, <1>21
    <3> QED BY <3>1, Monotone
  <2>2. p * d = d * p BY <1>15, <1>21
  <2> QED BY <1>20, <1>21, <2>1, <2>2
<1> QED BY <1>13, <1>14, <1>17, <1>20, <1>21, <1>22 DEF d, p, r

\* The quotient of the shifted significands.
LEMMA QuotientIs ==
  ASSUME NEW x \in Nat \ {0}, x < 2 * Hidden, NEW z \in Nat \ {0}, z < 2 * Hidden
  PROVE  LET X == x * Pow[LeftOf(x)]
             o == z \div Pow[RightOf(z)]
             q == X \div o
         IN  /\ q \in Nat /\ q >= 16 * Hidden /\ q < Pow[Long]
             /\ Tells(q, X, o, FALSE, 2)
             /\ X \in Nat
<1> DEFINE X == x * Pow[LeftOf(x)]
           o == z \div Pow[RightOf(z)]
           q == X \div o
           w == Pow[Long - 1]
           b == Hidden
<1>1. LeftOf(x) \in 0..Long /\ w <= X /\ X < Pow[Long] BY LeftIs
<1>2. o \in Nat \ {0} /\ o <= z BY RightIs
<1>3. b \in Nat /\ b >= 16 BY HiddenCodes
<1>4. w \in Nat \ {0} /\ 32 * (b * b) <= w /\ Pow[Long] \in Nat BY LongSizes
<1>5. X \in Nat
  <2> DEFINE k == LeftOf(x)
  <2>1. k \in Nat /\ k <= Far BY <1>1, LongSizes, FloatSizes
  <2> HIDE DEF k
  <2> DEFINE p == Pow[k]
  <2>2. p \in Nat BY <2>1, PowNumber
  <2> HIDE DEF p
  <2>3. x * p \in Nat BY <2>2
  <2> QED BY <2>3 DEF p, k
<1>6. o < 2 * b BY <1>2, <1>3
<1> HIDE DEF X, o, w, b
<1> DEFINE m == X % o
<1>7. q \in Int /\ m \in 0..(o - 1) /\ X = q * o + m
  <2>1. X \in Int BY <1>5
  <2> QED BY <1>2, <2>1, Euclid
<1> HIDE DEF q, m
<1>8. q * o <= X /\ X < (q + 1) * o
  <2>1. (q + 1) * o = q * o + o /\ q * o \in Int BY <1>2, <1>7
  <2> DEFINE y == q * o
  <2>2. y \in Int /\ X = y + m /\ (q + 1) * o = y + o BY <1>7, <2>1
  <2> HIDE DEF y
  <2>3. y <= X /\ X < y + o BY <1>2, <1>7, <2>2
  <2> QED BY <2>2, <2>3 DEF y
<1>9. q >= 16 * b
  <2>1. SUFFICES ASSUME q + 1 <= 16 * b PROVE FALSE BY <1>3, <1>7
  <2> DEFINE g == 16 * b
  <2>2. (q + 1) * o <= g * o /\ (q + 1) * o \in Int /\ g * o \in Int
    <3>1. q + 1 \in Int /\ g \in Int /\ q + 1 <= g /\ o \in Nat BY <1>2, <1>3, <1>7, <2>1
    <3> HIDE DEF g
    <3> QED BY <3>1, Monotone
  <2>3. o * g <= (2 * b) * g /\ (2 * b) * g \in Int /\ o * g \in Int
    <3>1. o \in Int /\ 2 * b \in Int /\ g \in Nat /\ o <= 2 * b BY <1>2, <1>3, <1>6
    <3> HIDE DEF g
    <3> QED BY <3>1, Monotone
  <2>4. (2 * b) * g = 32 * (b * b) /\ b * b \in Int BY <1>3
  <2>5. o * g = g * o
    <3>1. g \in Int BY <1>3
    <3> HIDE DEF g
    <3> QED BY <1>2, <3>1
  <2> DEFINE u == (q + 1) * o
             v == g * o
             t == b * b
  <2>6. u <= v /\ v <= 32 * t /\ 32 * t <= w /\ w <= X /\ X < u /\ u \in Int /\ v \in Int /\ t \in Int
    BY <1>1, <1>4, <1>8, <2>2, <2>3, <2>4, <2>5
  <2> HIDE DEF u, v, t
  <2> QED BY <1>4, <1>5, <2>6
<1>10. q \in Nat BY <1>3, <1>7, <1>9
<1>11. q < Pow[Long]
  <2>1. 1 * q <= o * q /\ o * q \in Int
    <3>1. 1 \in Int /\ o \in Int /\ 1 <= o BY <1>2
    <3> QED BY <1>10, <3>1, Monotone
  <2>2. o * q = q * o /\ q * o \in Int BY <1>2, <1>10
  <2> DEFINE y == q * o
  <2>3. q <= y /\ y <= X /\ y \in Int BY <1>8, <1>10, <2>1, <2>2
  <2> HIDE DEF y
  <2> QED BY <1>1, <1>4, <1>5, <1>10, <2>3
<1>12. Tells(q, X, o, FALSE, 2)
  <2>1. X \in Int /\ 2 \in Nat BY <1>5
  <2> QED BY <1>2, <1>7, <1>8, <2>1, TellsFloor
<1> QED BY <1>5, <1>9, <1>10, <1>11, <1>12 DEF q, X, o, b

\* Divided, in powers.
LEMMA DividedIs ==
  ASSUME NEW a, NEW b,
         LeftOf(Significand(a)) \in Nat, 2^LeftOf(Significand(a)) = Pow[LeftOf(Significand(a))],
         2^RightOf(Significand(b)) = Pow[RightOf(Significand(b))]
  PROVE  /\ Divided(a, b).sig = (Significand(a) * Pow[LeftOf(Significand(a))]) \div (Significand(b) \div Pow[RightOf(Significand(b))])
         /\ Divided(a, b).shift = LeftOf(Significand(a)) + RightOf(Significand(b))
BY DEF Divided, LeftOf, RightOf

\* The quotient of two numbers, normalized, is the nearest or the one below that.
LEMMA NumbersDivided ==
  ASSUME NEW a \in Values(FloatBits), NEW b \in Values(FloatBits), Finite(a), Finite(b), a \notin Zeros, b \notin Zeros,
         NEW s \in {0, 1}, NEW exact, exact = FALSE
  PROVE  Rightly(Normalize(s, Scale(a) - Scale(b) + Bias - (Divided(a, b).shift - FB - 3), Divided(a, b).sig),
                 s, Value[Magnitude(a)] * One, Value[Magnitude(b)], exact)
<1> DEFINE x == Significand(a)
           z == Significand(b)
           left == LeftOf(x)
           right == RightOf(z)
           X == x * Pow[left]
           o == z \div Pow[right]
           q == X \div o
           exp == Scale(a) - Scale(b) + Bias - ((left + right) - FB - 3)
           h == MaxExp + Long
           i == (exp - 1) + h
           u == Scale(a) - 1
           v == Scale(b) - 1
           w == (Bias - 1) + FB
           num == Value[Magnitude(a)] * One
           den == Value[Magnitude(b)]
<1>1. Scale(a) \in 1..(MaxExp - 1) /\ x \in Nat /\ x < 2 * Hidden /\ Value[Magnitude(a)] = x * Pow[u] /\ Value[Magnitude(a)] \in Nat
      /\ Magnitude(a) \in 0..(MaxMagnitude - 1)
  BY NumberIs
<1>2. Scale(b) \in 1..(MaxExp - 1) /\ z \in Nat /\ z < 2 * Hidden /\ Value[Magnitude(b)] = z * Pow[v] /\ Value[Magnitude(b)] \in Nat
      /\ Magnitude(b) \in 0..(MaxMagnitude - 1)
  BY NumberIs
<1>3. /\ MaxExp \in Int /\ MaxExp >= 3 /\ Bias \in Nat /\ Bias >= 1 /\ FB \in Nat /\ FB >= 4 /\ Long \in Nat /\ EB \in Nat
      /\ MaxExp = 2 * Bias + 1 /\ Long >= 2 * FB + 6 /\ Far = 4 * (EB + Long + MaxExp) + 8 /\ Far \in Nat
  BY FloatSizes DEF FloatPower
<1>4. ASSUME NEW c \in Values(FloatBits), c \notin Zeros, Magnitude(c) \in 0..(MaxMagnitude - 1)
      PROVE  Value[Magnitude(c)] # 0
  <2> DEFINE m == Magnitude(c)
  <2>1. m # 0 BY <1>4, Kinds
  <2>2. m \in 0..MaxMagnitude /\ m > 0 BY <1>4, <2>1, SpecialMagnitudes
  <2> HIDE DEF m
  <2>3. Value[m] > 0 BY <2>2, ValueNumber
  <2> QED BY <2>3 DEF m
<1>5. Value[Magnitude(a)] # 0 /\ den # 0 BY <1>1, <1>2, <1>4
<1>6. u \in Nat /\ v \in Nat /\ w \in Nat /\ u <= Far /\ v <= Far /\ One = Pow[w] /\ One \in Nat \ {0} /\ w <= Far
  <2>1. u \in Nat /\ v \in Nat /\ u <= Far /\ v <= Far BY <1>1, <1>2, <1>3
  <2> QED BY <2>1, OneIs
<1>7. x \in Nat \ {0} /\ z \in Nat \ {0}
  <2> DEFINE p == Pow[u]
             r == Pow[v]
  <2>1. p \in Nat /\ r \in Nat
    <3> HIDE DEF u, v
    <3> QED BY <1>6, PowNumber
  <2>2. x * p # 0 /\ z * r # 0 /\ x \in Nat /\ z \in Nat BY <1>1, <1>2, <1>5
  <2> HIDE DEF x, z, p, r
  <2> QED BY <2>1, <2>2
<1>8. /\ left \in 0..Long /\ 2^left = Pow[left]
      /\ right \in 0..FB /\ right <= Far /\ 2^right = Pow[right] /\ o \in Nat \ {0} /\ o * Pow[right] = z
  <2> HIDE DEF x, z
  <2>1. left \in 0..Long /\ 2^left = Pow[left] BY <1>1, <1>7, LeftIs
  <2>2. right \in 0..FB /\ right <= Far /\ 2^right = Pow[right] /\ o \in Nat \ {0} /\ o * Pow[right] = z BY <1>2, <1>7, RightIs
  <2> QED BY <2>1, <2>2
<1>9. /\ q \in Nat /\ q >= 16 * Hidden /\ q < Pow[Long]
      /\ Tells(q, X, o, FALSE, 2)
      /\ X \in Nat
  <2> HIDE DEF x, z
  <2> QED BY <1>1, <1>2, <1>7, QuotientIs
<1>10. Divided(a, b).sig = q /\ Divided(a, b).shift = left + right
  <2>1. left \in Nat /\ 2^left = Pow[left] /\ 2^right = Pow[right] BY <1>3, <1>8
  <2> QED BY <2>1, DividedIs
<1> HIDE DEF q, X, o, left, right, x, z
<1>11. left \in Nat /\ left <= Long /\ right \in Nat /\ right <= FB BY <1>3, <1>8
<1>12. /\ exp \in Int /\ h \in Nat /\ i \in Nat /\ (exp + h) + Long <= Far /\ MaxExp + h <= Far /\ h <= Far /\ i <= Far
       /\ i = Scale(a) - Scale(b) + Bias - left - right + FB + 2 + h
  <2>1. exp \in Int /\ h \in Nat /\ i = Scale(a) - Scale(b) + Bias - left - right + FB + 2 + h BY <1>1, <1>2, <1>3, <1>11
  <2>2. i >= 0 BY <1>1, <1>2, <1>3, <1>11, <2>1
  <2>3. exp <= MaxExp + Bias + FB + 3 BY <1>1, <1>2, <1>3, <1>11
  <2> HIDE DEF i, exp
  <2>4. (exp + h) + Long <= Far /\ MaxExp + h <= Far /\ h <= Far BY <1>3, <2>1, <2>3
  <2>5. i \in Nat BY <1>1, <1>2, <1>3, <1>11, <2>1, <2>2
  <2>6. i <= Far BY <1>3, <2>1, <2>4 DEF i
  <2> QED BY <2>1, <2>4, <2>5, <2>6
<1> DEFINE W == (right + v) + i
           k == Pow[W]
<1>13. /\ W \in Nat /\ W <= Far /\ right + v <= Far /\ right + v \in Nat
       /\ ((u + w) + h) + 3 = left + W /\ left + W <= Far /\ u + w <= Far /\ (u + w) + h <= Far /\ ((u + w) + h) + 3 <= Far /\ 3 <= Far
       /\ u + w \in Nat /\ (u + w) + h \in Nat
  <2>1. W = Scale(a) + Bias - left + FB + 1 + h BY <1>1, <1>2, <1>3, <1>11, <1>12
  <2>2. W \in Int /\ right + v \in Nat BY <1>6, <1>11, <1>12
  <2>3. left + W = Scale(a) + Bias + FB + 1 + h BY <1>1, <1>3, <1>11, <1>12, <2>1
  <2>4. ((u + w) + h) + 3 = Scale(a) + Bias + FB + 1 + h BY <1>1, <1>3
  <2>5. Scale(a) + Bias + FB + 1 + h <= Far BY <1>1, <1>3
  <2>6. W >= 0 BY <1>6, <1>11, <1>12
  <2> HIDE DEF W, u, v, w, h
  <2>7. left + W <= Far /\ ((u + w) + h) + 3 = left + W /\ ((u + w) + h) + 3 <= Far BY <2>3, <2>4, <2>5
  <2>8. u + w \in Nat /\ (u + w) + h \in Nat BY <1>6, <1>12
  <2>9. u + w <= Far /\ (u + w) + h <= Far /\ 3 <= Far BY <1>3, <1>6, <1>12, <2>7, <2>8
  <2>10. W \in Nat /\ W <= Far BY <1>3, <1>11, <2>2, <2>6, <2>7
  <2>11. right + v <= Far BY <1>3, <1>12, <2>2, <2>10 DEF W
  <2> QED BY <2>2, <2>7, <2>8, <2>9, <2>10, <2>11
<1> HIDE DEF i, exp, u, v, w, h
\* Both sides in the unit k.
<1>14. k \in Nat \ {0}
  <2> HIDE DEF W
  <2> QED BY <1>13, PowNumber
<1>15. den * Pow[i] = o * k
  <2> DEFINE R == Pow[right]
             V == Pow[v]
             I == Pow[i]
  <2>1. R \in Nat /\ V \in Nat /\ I \in Nat BY <1>6, <1>8, <1>11, <1>12, PowNumber
  <2>2. Pow[right + v] = R * V BY <1>6, <1>11, <1>13, PowAdd
  <2>3. Pow[(right + v) + i] = (R * V) * I
    <3>1. right + v \in Nat /\ (right + v) + i <= Far BY <1>13
    <3> QED BY <1>12, <2>2, <3>1, PowAdd
  <2>4. den = z * V /\ o * R = z BY <1>2, <1>8
  <2> HIDE DEF R, V, I, den
  <2>5. den * I = (o * R) * V * I BY <2>4
  <2>6. (o * R) * V * I = o * ((R * V) * I) BY <1>8, <2>1
  <2> QED BY <2>3, <2>5, <2>6 DEF I
<1>16. (8 * num) * Pow[h] = X * k
  <2> DEFINE U == Pow[u]
             H == Pow[h]
             L == Pow[left]
  <2>1. U \in Nat /\ H \in Nat /\ L \in Nat
    <3>1. left <= Far BY <1>3, <1>11
    <3> QED BY <1>6, <1>11, <1>12, <3>1, PowNumber
  <2>2. Pow[u + w] = U * One BY <1>6, <1>13, PowAdd
  <2>3. Pow[(u + w) + h] = (U * One) * H BY <1>12, <1>13, <2>2, PowAdd
  <2>4. Pow[3] = 8 BY FirstPowers
  <2>5. Pow[((u + w) + h) + 3] = ((U * One) * H) * 8
    <3> DEFINE j == (u + w) + h
    <3>1. j \in Nat /\ 3 \in Nat /\ j + 3 <= Far /\ Pow[j] = (U * One) * H BY <1>13, <2>3
    <3> HIDE DEF j
    <3>2. Pow[j + 3] = Pow[j] * Pow[3] BY <3>1, PowAdd
    <3>3. Pow[j + 3] = ((U * One) * H) * 8 BY <2>4, <3>1, <3>2
    <3> QED BY <3>3 DEF j
  <2>6. Pow[left + W] = L * k
    <3> HIDE DEF W
    <3> QED BY <1>11, <1>13, PowAdd
  <2>7. L * k = ((U * One) * H) * 8 BY <1>13, <2>5, <2>6
  <2>8. num = (x * U) * One BY <1>1
  <2>9. X = x * L BY DEF X
  <2> HIDE DEF U, H, L, k, num
  <2>10. (8 * num) * H = x * (((U * One) * H) * 8)
    <3>1. (8 * ((x * U) * One)) * H = x * (((U * One) * H) * 8) BY <1>6, <1>7, <2>1
    <3> QED BY <2>8, <3>1
  <2>11. x * (L * k) = (x * L) * k BY <1>7, <1>14, <2>1
  <2>12. (8 * num) * H = X * k BY <2>7, <2>9, <2>10, <2>11
  <2> QED BY <2>12 DEF H
<1>17. Tells(q, (8 * num) * Pow[h], den * Pow[(exp - 1) + h], exact, 2)
  <2>1. q \in Int /\ X \in Int /\ o \in Int /\ 2 \in Nat BY <1>8, <1>9
  <2>2. Tells(q, X, o, exact, 2) BY <1>9
  <2> HIDE DEF k
  <2>3. Tells(q, X * k, o * k, exact, 2) BY <1>14, <2>1, <2>2, TellsCancelled
  <2>4. Tells(q, (8 * num) * Pow[h], den * Pow[i], exact, 2) BY <1>15, <1>16, <2>3
  <2> QED BY <2>4 DEF i
<1>18. num \in Nat /\ den \in Nat \ {0}
  <2> DEFINE A == Value[Magnitude(a)]
  <2>1. A \in Nat BY <1>1
  <2> HIDE DEF A
  <2>2. A * One \in Nat BY <1>6, <2>1
  <2> QED BY <1>2, <1>5, <2>2 DEF A
<1>19. Lead(q) > 1 BY <1>9, LeadIs
<1>20. (exp - 1) + h >= 0 BY <1>12 DEF i
<1> DEFINE n == num
           d == den
<1> HIDE DEF n, d
<1>21. n \in Nat /\ d \in Nat \ {0} /\ Tells(q, (8 * n) * Pow[h], d * Pow[(exp - 1) + h], exact, 2) BY <1>17, <1>18 DEF n, d
<1>22. Rightly(Normalize(s, exp, q), s, n, d, exact)
  BY <1>9, <1>12, <1>19, <1>20, <1>21, NormalizeRight
<1> QED BY <1>10, <1>22 DEF exp, n, d

\* FloatDiv is what FloatProduct says.
LEMMA DivRight ==
  ASSUME NEW a \in Floats, NEW b \in Floats
  PROVE  ProductRight(FloatDiv(b, a), "fdivs", a, b) /\ FloatDiv(b, a) \in Values(FloatBits)
<1> DEFINE r == FloatDiv(b, a)
           op == "fdivs"
           s == OneSign(a, b)
           zeros == a \in Zeros /\ b \in Zeros
           infs == a \in Infs /\ b \in Infs
           nan == a \in Nans \/ b \in Nans
           large == a \in Infs \/ b \in Zeros
           small == a \in Zeros \/ b \in Infs
           t == Normalize(s, Scale(a) - Scale(b) + Bias - (Divided(a, b).shift - FB - 3), Divided(a, b).sig)
<1>1. /\ Finite(a) \/ a \in Infs \/ a \in Nans
      /\ a \in Infs => ~Finite(a) /\ a \notin Nans /\ a \notin Zeros
      /\ a \in Zeros => Finite(a)
      /\ a \in Values(FloatBits)
  BY FloatKinds
<1>2. /\ Finite(b) \/ b \in Infs \/ b \in Nans
      /\ b \in Infs => ~Finite(b) /\ b \notin Nans /\ b \notin Zeros
      /\ b \in Zeros => Finite(b)
      /\ b \in Values(FloatBits)
  BY FloatKinds
<1>3. s \in {0, 1} BY <1>1, <1>2, OneSignIs
<1>4. r = IF zeros THEN Nan(1) ELSE IF infs THEN Nan(1) ELSE IF nan THEN OneNan(a, b)
          ELSE IF large THEN Inf(s) ELSE IF small THEN Zero(s) ELSE t
  BY DEF FloatDiv
<1>5. Invalid(op, a, b) <=> (nan \/ zeros \/ infs) BY DEF Invalid
<1>6. Nan(1) \in Nans /\ OneNan(a, b) \in Nans BY OneNanIs DEF Nans
<1>7. Zero(s) = FLOAT(s, 0, 0) /\ Inf(s) = FLOAT(s, 0, MaxMagnitude) BY <1>3, Specials
<1>8. 0 \in 0..MaxMagnitude /\ MaxMagnitude \in 0..MaxMagnitude BY SpecialMagnitudes
<1>9. CASE nan \/ zeros \/ infs
  <2>1. r \in Nans /\ Invalid(op, a, b) BY <1>4, <1>5, <1>6, <1>9
  <2> HIDE DEF r
  <2>2. ProductRight(r, op, a, b) /\ r \in Values(FloatBits) BY <2>1, NanProduct
  <2> QED BY <2>2 DEF r
<1>10. CASE ~nan /\ ~zeros /\ ~infs /\ (a \in Infs \/ b \in Infs)
  <2> DEFINE m == IF b \in Infs THEN 0 ELSE MaxMagnitude
  <2>1. m \in 0..MaxMagnitude /\ m = (IF op = "fdivs" /\ b \in Infs THEN 0 ELSE MaxMagnitude) BY <1>8
  <2>2. r = FLOAT(OneSign(a, b), 0, m)
    <3>1. CASE b \in Infs
      <4>1. ~large BY <1>2, <1>10, <3>1
      <4> QED BY <1>4, <1>7, <1>10, <3>1, <4>1
    <3>2. CASE b \notin Infs
      <4>1. large BY <1>10, <3>2
      <4> QED BY <1>4, <1>7, <1>10, <3>2, <4>1
    <3> QED BY <3>1, <3>2
  <2>3. ~Invalid(op, a, b) /\ (a \in Infs \/ b \in Infs) BY <1>5, <1>10
  <2> HIDE DEF r, m, op
  <2>5. ProductRight(r, op, a, b) /\ r \in Values(FloatBits) BY <2>1, <2>2, <2>3, InfProduct
  <2> QED BY <2>5 DEF r, op
<1>11. CASE ~nan /\ ~zeros /\ ~infs /\ ~(a \in Infs \/ b \in Infs)
  <2>1. Finite(a) /\ Finite(b) /\ ~Invalid(op, a, b) BY <1>1, <1>2, <1>5, <1>11
  <2> DEFINE x == Value[Magnitude(a)]
             num == x * One
             den == Value[Magnitude(b)]
             y == FALSE
  <2>2. x \in Nat /\ den \in Nat BY <1>1, <1>2, <2>1, NumberIs
  <2>3. One \in Nat \ {0} BY OneIs
  <2>4. num \in Nat
    <3> HIDE DEF x
    <3> QED BY <2>2, <2>3
  <2>5. num = Numerator(op, a, b) /\ den = Denominator(op, a, b) BY DEF Numerator, Denominator
  <2>6. op \in {"fmuls", "fdivs"} /\ (y \/ op = "fdivs") OBVIOUS
  <2>7. CASE Rightly(r, s, num, den, y)
    <3>1. Rightly(r, OneSign(a, b), num, den, y) BY <2>7
    <3> HIDE DEF r, num, den, op, y
    <3>2. ProductRight(r, op, a, b) /\ r \in Values(FloatBits) BY <2>1, <2>2, <2>4, <2>5, <2>6, <3>1, RightlyProduct
    <3> QED BY <3>2 DEF r, op
  <2>8. CASE b \in Zeros
    <3>1. r = FLOAT(s, 0, MaxMagnitude) BY <1>4, <1>7, <1>11, <2>8
    <3>2. den = 0
      <4>1. Magnitude(b) = 0 BY <1>2, <2>8, Kinds
      <4>2. Value[0] = 0 BY <1>8, ValueNumber
      <4> QED BY <4>1, <4>2
    <3>3. Nearest(num, den) = MaxMagnitude
      <4>1. Value[MaxMagnitude] \in Nat BY <1>8, ValueNumber
      <4> HIDE DEF num, den
      <4>2. Value[MaxMagnitude] * den <= num BY <2>4, <3>2, <4>1
      <4> QED BY <2>2, <2>4, <4>2, NearestInf
    <3> HIDE DEF num, den
    <3>4. Rightly(r, s, num, den, y) BY <1>8, <3>1, <3>3 DEF Rightly
    <3> QED BY <2>7, <3>4 DEF num, den
  <2>9. CASE b \notin Zeros /\ a \in Zeros
    <3>1. r = FLOAT(s, 0, 0) BY <1>4, <1>7, <1>11, <2>9
    <3>2. num = 0
      <4>1. Magnitude(a) = 0 BY <1>1, <2>9, Kinds
      <4>2. Value[0] = 0 BY <1>8, ValueNumber
      <4>3. x = 0 BY <4>1, <4>2
      <4> HIDE DEF x
      <4> QED BY <2>3, <4>3
    <3>3. den > 0
      <4> DEFINE m == Magnitude(b)
      <4>1. m # 0 BY <1>2, <2>9, Kinds
      <4>2. m \in 0..(MaxMagnitude - 1) BY <1>2, <2>1, NumberIs
      <4>3. m \in 0..MaxMagnitude /\ m > 0 BY <4>1, <4>2, SpecialMagnitudes
      <4> HIDE DEF m
      <4>4. Value[m] > 0 BY <4>3, ValueNumber
      <4> QED BY <4>4 DEF m
    <3> HIDE DEF num, den
    <3>4. Nearest(num, den) = 0
      <4>1. 2 * num < den BY <2>2, <3>2, <3>3
      <4> QED BY <2>2, <2>4, <4>1, NearestZero
    <3>5. Rightly(r, s, num, den, y) BY <1>8, <3>1, <3>4 DEF Rightly
    <3> QED BY <2>7, <3>5 DEF num, den
  <2>10. CASE a \notin Zeros /\ b \notin Zeros
    <3>1. r = t BY <1>4, <1>11, <2>10
    <3> HIDE DEF y
    <3>2. y = FALSE BY DEF y
    <3>3. Rightly(t, s, num, den, y) BY <1>1, <1>2, <1>3, <2>1, <2>10, <3>2, NumbersDivided
    <3> QED BY <2>7, <3>1, <3>3 DEF y
  <2> QED BY <2>8, <2>9, <2>10
<1> QED BY <1>9, <1>10, <1>11

\* The sum of floats is a float.
LEMMA SumIsFloat ==
  ASSUME NEW a \in Floats, NEW b \in Floats
  PROVE  FloatAdd(b, a) \in Values(FloatBits)
<1>1. a \in Values(FloatBits) /\ b \in Values(FloatBits) BY FloatKinds
<1>2. ASSUME NEW s \in {0, 1} PROVE Zero(s) \in Values(FloatBits)
  <2>1. Zero(s) = FLOAT(s, 0, 0) /\ 0 \in 0..MaxMagnitude BY Specials, SpecialMagnitudes
  <2> QED BY <2>1, PackedMagnitude
<1>3. CASE Finite(a) /\ Finite(b) /\ ~(a \in Zeros /\ b \in Zeros) /\ a \notin Zeros /\ b \notin Zeros
  <2>1. ASSUME NEW lo \in Floats, NEW hi \in Floats, Finite(lo), Finite(hi), Exponent(lo) <= Exponent(hi)
        PROVE  Summed(lo, hi) \in Values(FloatBits)
    <3>1. lo \in Values(FloatBits) /\ hi \in Values(FloatBits) BY FloatKinds
    <3> DEFINE E == Exact(lo) + Exact(hi)
               g == Nearest(-E, 1)
               n == Nearest(E, 1)
    <3>2. IF E < 0 THEN Summed(lo, hi) = FLOAT(1, 0, g) /\ g \in 0..MaxMagnitude
                   ELSE Summed(lo, hi) = FLOAT(0, 0, n) /\ n \in 0..MaxMagnitude
      BY <2>1, <3>1, SummedIs
    <3> HIDE DEF E, g, n
    <3>3. 0 \in {0, 1} /\ 1 \in {0, 1} OBVIOUS
    <3> QED BY <3>2, <3>3, PackedMagnitude
  <2>2. Exponent(a) \in Int /\ Exponent(b) \in Int
    <3>1. Exponent(a) \in 0..(MaxExp - 1) /\ Exponent(b) \in 0..(MaxExp - 1) /\ MaxExp \in Int BY <1>1, <1>3, NumberIs, FloatSizes
    <3> QED BY <3>1
  <2>3. Exponent(a) # MaxExp /\ Exponent(b) # MaxExp BY <1>3, FloatKinds
  <2>4. ~HasCornerAdd(a, b)
    <3>1. a \notin Infs /\ a \notin Nans BY <1>3, FloatKinds
    <3> QED BY <1>3, <3>1 DEF HasCornerAdd, Nans
  <2>5. FloatAdd(b, a) = IF Exponent(a) > Exponent(b) THEN Summed(b, a) ELSE Summed(a, b) BY <1>3, <2>3, <2>4 DEF FloatAdd
  <2>6. CASE Exponent(a) > Exponent(b)
    <3>1. Exponent(b) <= Exponent(a) BY <2>2, <2>6
    <3> QED BY <1>3, <2>1, <2>5, <2>6, <3>1
  <2>7. CASE ~(Exponent(a) > Exponent(b))
    <3>1. Exponent(a) <= Exponent(b) BY <2>2, <2>7
    <3> QED BY <1>3, <2>1, <2>5, <2>7, <3>1
  <2> QED BY <2>6, <2>7
<1>4. CASE ~(Finite(a) /\ Finite(b) /\ ~(a \in Zeros /\ b \in Zeros) /\ a \notin Zeros /\ b \notin Zeros)
  <2>1. Nan(1) \in Values(FloatBits) BY NanIsFloat DEF Nans
  <2>2. CornerAdd(a, b) \in Values(FloatBits)
    <3>1. Zero(0) \in Values(FloatBits) /\ Zero(1) \in Values(FloatBits) BY <1>2
    <3> QED BY <1>1, <2>1, <3>1 DEF CornerAdd
  <2>3. a \in Zeros \/ b \in Zeros \/ Exponent(a) = MaxExp \/ Exponent(b) = MaxExp
    <3>1. Finite(a) \/ Exponent(a) = MaxExp BY FloatKinds
    <3>2. Finite(b) \/ Exponent(b) = MaxExp BY FloatKinds
    <3> QED BY <1>4, <3>1, <3>2
  <2>4. FloatAdd(b, a) = CornerAdd(a, b) \/ FloatAdd(b, a) = a \/ FloatAdd(b, a) = b BY <2>3 DEF FloatAdd
  <2> QED BY <1>1, <2>2, <2>4
<1> QED BY <1>3, <1>4

\* So is the difference.
LEMMA DifferenceIsFloat ==
  ASSUME NEW a \in Floats, NEW b \in Floats
  PROVE  FloatSub(b, a) \in Values(FloatBits)
<1>1. CASE a \in Nans \/ b \in Nans
  <2>1. FloatSub(b, a) = OneNan(a, b) BY <1>1 DEF FloatSub
  <2>2. OneNan(a, b) \in Nans BY OneNanIs
  <2> QED BY <2>1, <2>2, NanIsFloat
<1>2. CASE ~(a \in Nans \/ b \in Nans)
  <2> DEFINE c == Flip(b)
  <2>1. FloatSub(b, a) = FloatAdd(c, a) BY <1>2 DEF FloatSub, Flip
  <2>2. c \in Floats BY FlipIs
  <2> HIDE DEF c
  <2> QED BY <2>1, <2>2, SumIsFloat
<1> QED BY <1>1, <1>2

----------------------------------------------------------------------------
(* Comparisons.                                                              *)

\* The order of the bits is that of the values.
LEMMA RankOrder ==
  ASSUME NEW a \in Floats, NEW b \in Floats, a \notin Nans, b \notin Nans
  PROVE  /\ Exact(a) \in Int /\ Exact(b) \in Int
         /\ Less(a, b) <=> Exact(a) < Exact(b)
<1> DEFINE i == Magnitude(a)
           j == Magnitude(b)
           x == Value[i]
           y == Value[j]
<1>1. ASSUME NEW v \in Floats, v \notin Nans
      PROVE  Sign(v) \in {0, 1} /\ Magnitude(v) \in 0..MaxMagnitude /\ Value[Magnitude(v)] \in Nat
  <2>1. v \in Values(FloatBits) /\ (Finite(v) \/ v \in Infs) BY <1>1, FloatKinds
  <2>2. Sign(v) \in {0, 1} BY <2>1, FloatSides
  <2>3. Magnitude(v) \in 0..MaxMagnitude
    <3>1. CASE Finite(v)
      <4>1. Magnitude(v) \in 0..(MaxMagnitude - 1) BY <2>1, <3>1, NumberIs
      <4> QED BY <4>1, SpecialMagnitudes
    <3>2. CASE v \in Infs
      <4>1. Magnitude(v) = MaxMagnitude BY <2>1, <3>2, Kinds
      <4> QED BY <4>1, SpecialMagnitudes
    <3> QED BY <2>1, <3>1, <3>2
  <2> DEFINE m == Magnitude(v)
  <2>4. m \in 0..MaxMagnitude BY <2>3
  <2> HIDE DEF m
  <2>5. Value[m] \in Nat BY <2>4, ValueNumber
  <2> QED BY <2>2, <2>3, <2>5 DEF m
<1>2. Sign(a) \in {0, 1} /\ i \in 0..MaxMagnitude /\ x \in Nat BY <1>1
<1>3. Sign(b) \in {0, 1} /\ j \in 0..MaxMagnitude /\ y \in Nat BY <1>1
<1>4. i \in Nat /\ j \in Nat BY <1>2, <1>3, SpecialMagnitudes
<1>5. i < j => x < y BY <1>2, <1>3, ValueGrows
<1>6. j < i => y < x BY <1>2, <1>3, ValueGrows
<1>7. i = j => x = y OBVIOUS
<1>8. i = 0 <=> x = 0
  <2> HIDE DEF i
  <2> QED BY <1>2, <1>4, ValueNumber
<1>9. j = 0 <=> y = 0
  <2> HIDE DEF j
  <2> QED BY <1>3, <1>4, ValueNumber
<1>10. Exact(a) = (IF Sign(a) = 1 THEN -x ELSE x) /\ Exact(b) = (IF Sign(b) = 1 THEN -y ELSE y) BY DEF Exact
<1>11. Rank(a) = (IF Sign(a) = 1 THEN -1 ELSE 1) * i /\ Rank(b) = (IF Sign(b) = 1 THEN -1 ELSE 1) * j BY DEF Rank, Magnitude
<1> HIDE DEF i, j, x, y
<1>12. Rank(a) = (IF Sign(a) = 1 THEN -i ELSE i) /\ Rank(b) = (IF Sign(b) = 1 THEN -j ELSE j)
  <2>1. (-1) * i = -i /\ 1 * i = i /\ (-1) * j = -j /\ 1 * j = j BY <1>4
  <2> QED BY <1>11, <2>1
<1>13. Rank(a) < Rank(b) <=> Exact(a) < Exact(b)
  <2>1. CASE Sign(a) = 0 /\ Sign(b) = 0 BY <1>2, <1>3, <1>4, <1>5, <1>6, <1>7, <1>10, <1>12, <2>1
  <2>2. CASE Sign(a) = 0 /\ Sign(b) = 1 BY <1>2, <1>3, <1>4, <1>8, <1>9, <1>10, <1>12, <2>2
  <2>3. CASE Sign(a) = 1 /\ Sign(b) = 0 BY <1>2, <1>3, <1>4, <1>8, <1>9, <1>10, <1>12, <2>3
  <2>4. CASE Sign(a) = 1 /\ Sign(b) = 1 BY <1>2, <1>3, <1>4, <1>5, <1>6, <1>7, <1>10, <1>12, <2>4
  <2> QED BY <1>2, <1>3, <2>1, <2>2, <2>3, <2>4
<1>14. Exact(a) \in Int /\ Exact(b) \in Int BY <1>2, <1>3, <1>10
<1> QED BY <1>13, <1>14 DEF Less

\* What FloatOrder says of the flags.
OrderRight(f, x, y) ==
  /\ ConditionA(f) <=> x > y
  /\ ConditionAe(f) <=> x >= y
  /\ ConditionB(f) <=> x < y
  /\ ConditionBe(f) <=> x <= y
  /\ ConditionE(f) <=> x = y

\* C0 and C3, as CF and ZF, are the order.
LEMMA FlagsOrder ==
  ASSUME NEW a \in Floats, NEW b \in Floats, NEW f, f.CF = C0(a, b), f.ZF = C3(a, b)
  PROVE  {a, b} \cap Nans = {} => OrderRight(f, Exact(a), Exact(b))
<1>1. SUFFICES ASSUME a \notin Nans, b \notin Nans PROVE OrderRight(f, Exact(a), Exact(b)) OBVIOUS
<1> DEFINE x == Exact(a)
           y == Exact(b)
<1>2. x \in Int /\ y \in Int /\ (Less(a, b) <=> x < y) BY <1>1, RankOrder
<1>3. Less(b, a) <=> y < x BY <1>1, RankOrder
<1>4. f.CF = (IF Less(a, b) THEN 1 ELSE 0) /\ f.ZF = (IF Less(a, b) \/ Less(b, a) THEN 0 ELSE 1) BY DEF C0, C3
<1> HIDE DEF x, y
<1>5. f.CF = (IF x < y THEN 1 ELSE 0) /\ f.ZF = (IF x < y \/ y < x THEN 0 ELSE 1) BY <1>2, <1>3, <1>4
<1>6. OrderRight(f, x, y) BY <1>2, <1>5 DEF OrderRight, ConditionA, ConditionAe, ConditionB, ConditionBe, ConditionE
<1> QED BY <1>6 DEF x, y

\* C0 and C3 of the status word, through AH, whatever the top of the stack.
LEMMA StatusBits ==
  ASSUME NEW a, NEW b, NEW top \in 0..7
  PROVE  Sahf(StatusHigh(a, b, top)).CF = C0(a, b) /\ Sahf(StatusHigh(a, b, top)).ZF = C3(a, b)
<1> DEFINE c == C0(a, b)
           z == C3(a, b)
           ah == c + 8 * top + 64 * z
<1>1. c \in {0, 1} /\ z \in {0, 1} BY DEF C0, C3
<1>2. StatusHigh(a, b, top) = ah BY DEF StatusHigh
<1> HIDE DEF c, z
<1>3. 2^0 = 1 /\ 2^6 = 64 OBVIOUS
<1>4. (ah \div 1) % 2 = c
  <2>1. ah = 2 * (4 * top + 32 * z) + c BY <1>1
  <2> QED BY <1>1, <2>1
<1>5. (ah \div 64) % 2 = z
  <2>1. c + 8 * top \in 0..63 BY <1>1
  <2>2. ah \div 64 = z BY <1>1, <2>1
  <2> QED BY <1>1, <2>2
<1>6. Bit(ah, 0) = c /\ Bit(ah, 6) = z
  <2> HIDE DEF ah
  <2> QED BY <1>3, <1>4, <1>5 DEF Bit
<1> QED BY <1>2, <1>6 DEF Sahf, c, z

\* FloatExact of what an instruction leaves.
LEMMA OfFloats ==
  ASSUME last'.op \notin FloatOps
  PROVE  FloatExact'
BY DEF FloatExact, FloatTyped, FloatSum, FloatProduct, FloatOrder, FloatOps

\* The other instructions leave no float.
LEMMA OtherInstructions ==
  ASSUME Execute \/ Divide
  PROVE  FloatExact'
<1>1. ASSUME NEW f, NEW op, op \notin FloatOps, NEW n, NEW src, NEW dest, NEW lo, NEW hi, Done(f, op, n, src, dest, lo, hi)
      PROVE  FloatExact'
  <2>1. last'.op = op BY <1>1, Leaves
  <2> QED BY <1>1, <2>1, OfFloats
<1>2. ASSUME NEW op \in {"idiv", "cltd idiv"}, NEW n, NEW src, NEW dest, Idiv(op, n, src, dest) PROVE FloatExact'
  <2>1. op \notin FloatOps BY DEF FloatOps
  <2> QED BY <1>1, <1>2, <2>1 DEF Idiv
<1>3. CASE Divide
  <2>0. PICK n \in DataSizes \cup {Byte} : \E src, dest : Div(n, src, dest) \/ Idiv("idiv", n, src, dest) BY <1>3 DEF Divide
  <2>1. PICK src, dest : Div(n, src, dest) \/ Idiv("idiv", n, src, dest) BY <2>0
  <2>2. CASE Div(n, src, dest)
    <3>1. "div" \notin FloatOps BY DEF FloatOps
    <3> QED BY <1>1, <2>2, <3>1 DEF Div
  <2>3. CASE Idiv("idiv", n, src, dest) BY <1>2, <2>3
  <2> QED BY <2>1, <2>2, <2>3
<1>4. CASE Execute
  <2>1. PICK ds, form, dest :
          \/ \E src : \/ And(ds, form, src, dest)
                      \/ Or(ds, form, src, dest)
                      \/ Xor(ds, form, src, dest)
                      \/ Test(ds, form, src, dest)
                      \/ Mul(DestSize(form, ds), src, dest)
                      \/ Imul(DestSize(form, ds), IF form = "bv" THEN SignExt(src, Byte) ELSE src, dest)
                      \/ CltdIdiv(ds, src, dest)
          \/ \E count : \/ Shl(DestSize(form, ds), count, dest)
                        \/ Shr(DestSize(form, ds), count, dest)
                        \/ Sar(DestSize(form, ds), count, dest)
    BY <1>4 DEF Execute
  <2> DEFINE n == DestSize(form, ds)
  <2> HIDE DEF n
  <2>2. "and" \notin FloatOps /\ "or" \notin FloatOps /\ "xor" \notin FloatOps /\ "test" \notin FloatOps
        /\ "mul" \notin FloatOps /\ "imul" \notin FloatOps /\ "shl" \notin FloatOps /\ "shr" \notin FloatOps /\ "sar" \notin FloatOps
    BY DEF FloatOps
  <2>3. ASSUME NEW src, And(ds, form, src, dest) PROVE FloatExact' BY <1>1, <2>2, <2>3 DEF And
  <2>4. ASSUME NEW src, Or(ds, form, src, dest) PROVE FloatExact' BY <1>1, <2>2, <2>4 DEF Or
  <2>5. ASSUME NEW src, Xor(ds, form, src, dest) PROVE FloatExact' BY <1>1, <2>2, <2>5 DEF Xor
  <2>6. ASSUME NEW src, Test(ds, form, src, dest) PROVE FloatExact' BY <1>1, <2>2, <2>6 DEF Test
  <2>7. ASSUME NEW src, Mul(n, src, dest) PROVE FloatExact' BY <1>1, <2>2, <2>7 DEF Mul
  <2>8. ASSUME NEW src, Imul(n, src, dest) PROVE FloatExact' BY <1>1, <2>2, <2>8 DEF Imul
  <2>9. ASSUME NEW src, CltdIdiv(ds, src, dest) PROVE FloatExact' BY <1>2, <2>9 DEF CltdIdiv
  <2>10. ASSUME NEW count, Shl(n, count, dest) PROVE FloatExact' BY <1>1, <2>2, <2>10 DEF Shl
  <2>11. ASSUME NEW count, Shr(n, count, dest) PROVE FloatExact' BY <1>1, <2>2, <2>11 DEF Shr
  <2>12. ASSUME NEW count, Sar(n, count, dest) PROVE FloatExact' BY <1>1, <2>2, <2>12 DEF Sar
  <2> QED BY <2>1, <2>3, <2>4, <2>5, <2>6, <2>7, <2>8, <2>9, <2>10, <2>11, <2>12 DEF n
<1> QED BY <1>3, <1>4

\* FloatExact in the terms of the lemmas.
LEMMA FloatExactIs ==
  ASSUME /\ last'.op \in FloatOps => last'.lo \in Values(FloatBits)
         /\ last'.op = "fadds" => SumRight(last'.lo, last'.dest, last'.src)
         /\ last'.op = "fsubs" => SumRight(last'.lo, last'.dest, (last'.src + 2^(EB + FB)) % Span(FloatBits))
         /\ last'.op \in {"fmuls", "fdivs"} => ProductRight(last'.lo, last'.op, last'.dest, last'.src)
         /\ last'.op \in {"fucomi", "fucom sahf"} /\ {last'.dest, last'.src} \cap Nans = {} =>
              OrderRight(eflags', Exact(last'.dest), Exact(last'.src))
  PROVE  FloatExact'
<1>1. FloatTyped' BY DEF FloatTyped
<1>2. FloatSum'
  <2>1. CASE last'.op = "fadds"
    <3>1. SumRight(last'.lo, last'.dest, last'.src) BY <2>1
    <3> QED BY <2>1, <3>1 DEF FloatSum, SumRight
  <2>2. CASE last'.op = "fsubs"
    <3>1. SumRight(last'.lo, last'.dest, (last'.src + 2^(EB + FB)) % Span(FloatBits)) BY <2>2
    <3> QED BY <2>2, <3>1 DEF FloatSum, SumRight
  <2>3. CASE last'.op \notin {"fadds", "fsubs"} BY <2>3 DEF FloatSum
  <2> QED BY <2>1, <2>2, <2>3
<1>3. FloatProduct' BY DEF FloatProduct, ProductRight
<1>4. FloatOrder' BY DEF FloatOrder, OrderRight
<1> QED BY <1>1, <1>2, <1>3, <1>4 DEF FloatExact

\* Every instruction of x87.c in the model leaves what FloatExact says.
LEMMA FloatingPointExact ==
  ASSUME FloatingPoint
  PROVE  FloatExact'
<1>1. PICK src \in Floats, dest \in Floats :
        Fadds(src, dest) \/ Fsubs(src, dest) \/ Fmuls(src, dest) \/ Fdivs(src, dest)
          \/ Fucomi(src, dest) \/ FucomSahf(src, dest)
  BY DEF FloatingPoint
<1>2. src \in Values(FloatBits) /\ dest \in Values(FloatBits) BY FloatKinds
<1>3. CASE Fadds(src, dest)
  <2>1. last'.op = "fadds" /\ last'.src = src /\ last'.dest = dest /\ last'.lo = FloatAdd(src, dest) BY <1>3, Leaves DEF Fadds
  <2>2. SumRight(last'.lo, last'.dest, last'.src) /\ last'.lo \in Values(FloatBits) BY <2>1, AddRight, SumIsFloat
  <2> QED BY <2>1, <2>2, FloatExactIs
<1>4. CASE Fsubs(src, dest)
  <2>1. last'.op = "fsubs" /\ last'.src = src /\ last'.dest = dest /\ last'.lo = FloatSub(src, dest) BY <1>4, Leaves DEF Fsubs
  <2>2. SumRight(last'.lo, last'.dest, (last'.src + 2^(EB + FB)) % Span(FloatBits)) BY <2>1, SubRight
  <2>3. last'.lo \in Values(FloatBits) BY <2>1, DifferenceIsFloat
  <2> QED BY <2>1, <2>2, <2>3, FloatExactIs
<1>5. CASE Fmuls(src, dest)
  <2>1. last'.op = "fmuls" /\ last'.src = src /\ last'.dest = dest /\ last'.lo = FloatMul(src, dest) BY <1>5, Leaves DEF Fmuls
  <2>2. ProductRight(last'.lo, last'.op, last'.dest, last'.src) /\ last'.lo \in Values(FloatBits) BY <2>1, MulRight
  <2> QED BY <2>1, <2>2, FloatExactIs
<1>6. CASE Fdivs(src, dest)
  <2>1. last'.op = "fdivs" /\ last'.src = src /\ last'.dest = dest /\ last'.lo = FloatDiv(src, dest) BY <1>6, Leaves DEF Fdivs
  <2>2. ProductRight(last'.lo, last'.op, last'.dest, last'.src) /\ last'.lo \in Values(FloatBits) BY <2>1, DivRight
  <2> QED BY <2>1, <2>2, FloatExactIs
<1>7. CASE Fucomi(src, dest)
  <2> DEFINE f == [eflags EXCEPT !.CF = C0(dest, src), !.PF = 0, !.ZF = C3(dest, src)]
  <2>1. last'.op = "fucomi" /\ last'.src = src /\ last'.dest = dest /\ last'.lo = dest /\ eflags' = f BY <1>7, Leaves DEF Fucomi
  <2>2. eflags = NoFlags BY DEF FloatingPoint
  <2>3. f.CF = C0(dest, src) /\ f.ZF = C3(dest, src) BY <2>2 DEF NoFlags
  <2> HIDE DEF f
  <2>4. {dest, src} \cap Nans = {} => OrderRight(f, Exact(dest), Exact(src)) BY <2>3, FlagsOrder
  <2> QED BY <1>2, <2>1, <2>4, FloatExactIs
<1>8. CASE FucomSahf(src, dest)
  <2>1. PICK top \in 0..7 :
          Done(Sahf(StatusHigh(dest, src, top)), "fucom sahf", FloatBits, src, dest, dest, 0)
    BY <1>8 DEF FucomSahf
  <2> DEFINE f == Sahf(StatusHigh(dest, src, top))
  <2>3. f.CF = C0(dest, src) /\ f.ZF = C3(dest, src) BY StatusBits
  <2>5. Done(f, "fucom sahf", FloatBits, src, dest, dest, 0) BY <2>1
  <2> HIDE DEF f
  <2>2. last'.op = "fucom sahf" /\ last'.src = src /\ last'.dest = dest /\ last'.lo = dest /\ eflags' = f BY <2>5 DEF Done
  <2>4. {dest, src} \cap Nans = {} => OrderRight(f, Exact(dest), Exact(src)) BY <2>3, FlagsOrder
  <2> QED BY <1>2, <2>2, <2>4, FloatExactIs
<1> QED BY <1>1, <1>3, <1>4, <1>5, <1>6, <1>7, <1>8

\* fadds, fsubs, fmuls and fdivs of fpu.c leave the exact result, rounded once to the nearest, for
\* floats of any size, but for the products and quotients FloatProduct names; fucomi, and fucom with
\* fnstsw and sahf, leave flags by which the branches order numbers and infinities.
THEOREM FloatingExact == OpSpec => []FloatExact
<1>1. OpInit => FloatExact BY DEF OpInit, Idle, FloatExact, FloatTyped, FloatSum, FloatProduct, FloatOrder, FloatOps
<1>2. FloatExact /\ [OpNext]_opVars => FloatExact'
  <2> SUFFICES ASSUME FloatExact, [OpNext]_opVars PROVE FloatExact' OBVIOUS
  <2>1. CASE Execute \/ Divide BY <2>1, OtherInstructions
  <2>2. CASE FloatingPoint BY <2>2, FloatingPointExact
  <2>3. CASE Retire
    <3>1. last'.op = "none" BY <2>3 DEF Retire, Idle
    <3>2. "none" \notin FloatOps BY DEF FloatOps
    <3> QED BY <3>1, <3>2, OfFloats
  <2>4. CASE UNCHANGED opVars
    <3>1. eflags' = eflags /\ last' = last BY <2>4 DEF opVars
    <3>2. FloatTyped' = FloatTyped BY <3>1 DEF FloatTyped
    <3>3. FloatSum' = FloatSum BY <3>1 DEF FloatSum
    <3>4. FloatProduct' = FloatProduct BY <3>1 DEF FloatProduct
    <3>5. FloatOrder' = FloatOrder BY <3>1 DEF FloatOrder
    <3> QED BY <3>2, <3>3, <3>4, <3>5 DEF FloatExact
  <2> QED BY <2>1, <2>2, <2>3, <2>4 DEF OpNext
<1> QED BY <1>1, <1>2, PTL DEF OpSpec
=============================================================================
