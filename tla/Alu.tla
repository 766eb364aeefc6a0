-------------------------------- MODULE Alu --------------------------------
(* The arithmetic unit, nemu/src/cpu/alu.c: one operator for each function, from *)
(* the flags and the operands to the result and the flags.  A number of n bits   *)
(* is a natural below 2^n; the functions mask an operand by its size first, so a *)
(* sign-extended operand may be given as the integer it stands for.  Word, 32 in *)
(* the code, is the width of a C unsigned int, where a shift count stops being   *)
(* defined; Byte, 8 in the code, is the number of bits the parity is taken over. *)
EXTENDS Integers, FiniteSets

CONSTANTS Byte, Word

Span(n) == 2^n
Low(x, n) == x % Span(n)
Bit(x, i) == (x \div 2^i) % 2
Top(x, n) == Low(x, n) \div 2^(n - 1)
Signed(x, n) == Low(x, n) - Top(x, n) * Span(n)

\* A flag is 0 or 1.  Arithmetic never touches the other bits of EFLAGS.
Flag(b) == IF b THEN 1 ELSE 0
Flags == [CF : 0..1, PF : 0..1, ZF : 0..1, SF : 0..1, OF : 0..1]
NoFlags == [CF |-> 0, PF |-> 0, ZF |-> 0, SF |-> 0, OF |-> 0]

\* The value of an operand of n bits when it is extended: an integer.
SignExt(x, n) == Signed(x, n)

Parity(r) == Flag(Cardinality({i \in 0..(Byte - 1) : Bit(r, i) = 1}) % 2 = 0)

SetPZS(f, r, n) ==
  [f EXCEPT !.PF = Parity(r), !.ZF = Flag(Low(r, n) = 0), !.SF = Top(r, n)]

----------------------------------------------------------------------------
\* Addition and subtraction: alu_add() is alu_adc() without the carry, as alu_sub() is alu_sbb().

\* Bug: the carry ignores the one carried in.
CFAdcNoCarry(r, src, cf, n) == Flag(Low(r, n) < Low(src, n))
CFSbbNoCarry(src, dest, cf, n) == Flag(Low(src, n) > Low(dest, n))

\* The carry out: with a carry in, a result equal to the source has wrapped too.
CFAdc(r, src, cf, n) ==
  Flag(IF cf = 0 THEN Low(r, n) < Low(src, n) ELSE Low(r, n) <= Low(src, n))

\* The borrow out.
CFSbb(src, dest, cf, n) ==
  Flag(IF cf = 0 THEN Low(src, n) > Low(dest, n) ELSE Low(src, n) >= Low(dest, n))

\* Overflow of a sum: the operands have one sign, the result the other.
OFAdx(r, src, dest, n) == Flag(Top(src, n) = Top(dest, n) /\ Top(r, n) # Top(src, n))

\* Bug: the sign of the result is compared with the wrong operand.
OFSuxSrc(r, src, dest, n) == Flag(Top(src, n) # Top(dest, n) /\ Top(r, n) # Top(src, n))

\* Overflow of a difference: the operands differ in sign, and so do result and destination.
OFSux(r, src, dest, n) == Flag(Top(src, n) # Top(dest, n) /\ Top(r, n) # Top(dest, n))

AddWith(f, src, dest, cf, n) ==
  LET r == Low(Low(dest, n) + Low(src, n) + cf, n)
  IN  [res |-> r,
       flags |-> [SetPZS(f, r, n) EXCEPT !.CF = CFAdc(r, src, cf, n), !.OF = OFAdx(r, src, dest, n)]]

SubWith(f, src, dest, cf, n) ==
  LET r == Low(Low(dest, n) - (Low(src, n) + cf), n)
  IN  [res |-> r,
       flags |-> [SetPZS(f, r, n) EXCEPT !.CF = CFSbb(src, dest, cf, n), !.OF = OFSux(r, src, dest, n)]]

AluAdd(f, src, dest, n) == AddWith(f, src, dest, 0, n)
AluAdc(f, src, dest, n) == AddWith(f, src, dest, f.CF, n)
AluSub(f, src, dest, n) == SubWith(f, src, dest, 0, n)
AluSbb(f, src, dest, n) == SubWith(f, src, dest, f.CF, n)

----------------------------------------------------------------------------
\* The bitwise operations, each the set of pairs of bits that give 1.

BitAnd == {<<1, 1>>}
BitOr == {<<0, 1>>, <<1, 0>>, <<1, 1>>}
BitXor == {<<0, 1>>, <<1, 0>>}

\* The bits taken together, the lowest first: bits[k] has the k lowest.
LowBits(ones, x, y, n) ==
  LET bits[k \in 0..n] ==
        IF k = 0 THEN 0
        ELSE bits[k - 1] + (IF <<Bit(x, k - 1), Bit(y, k - 1)>> \in ones THEN 2^(k - 1) ELSE 0)
  IN  bits

BitByBit(ones, x, y, n) == LowBits(ones, x, y, n)[n]

\* Bug: the overflow flag is left alone.
LogicOF(f, ones, src, dest, n) ==
  LET r == BitByBit(ones, Low(dest, n), Low(src, n), n)
  IN  [res |-> r, flags |-> [SetPZS(f, r, n) EXCEPT !.CF = 0]]

Logic(f, ones, src, dest, n) ==
  LET r == BitByBit(ones, Low(dest, n), Low(src, n), n)
  IN  [res |-> r, flags |-> [SetPZS(f, r, n) EXCEPT !.CF = 0, !.OF = 0]]

AluAnd(f, src, dest, n) == Logic(f, BitAnd, src, dest, n)
AluOr(f, src, dest, n) == Logic(f, BitOr, src, dest, n)
AluXor(f, src, dest, n) == Logic(f, BitXor, src, dest, n)

----------------------------------------------------------------------------
\* Multiplication and division.

MulFlags(f, fits) == [f EXCEPT !.CF = Flag(~fits), !.OF = Flag(~fits)]

\* Bug: the test for a product that fits forgets the sign bit.
FitsUnsigned(p, n) == p < Span(n)

Fits(p, n) == p = Signed(p, n)

AluMul(f, src, dest, n) ==
  LET p == Low(src, n) * Low(dest, n)
  IN  [res |-> p, flags |-> MulFlags(f, p \div Span(n) = 0)]

AluImul(f, src, dest, n) ==
  LET p == Signed(src, n) * Signed(dest, n)
  IN  [res |-> p, flags |-> MulFlags(f, Fits(p, n))]

\* C divides towards zero.
Quotient(a, b) ==
  LET Abs(x) == IF x < 0 THEN -x ELSE x
      q == Abs(a) \div Abs(b)
  IN  IF (a < 0) = (b < 0) THEN q ELSE -q

\* Bug: the remainder takes the sign of the divisor.
FlooredRemainder(a, b) == LET m == IF b < 0 THEN -b ELSE b IN a % m

Remainder(a, b) == a - b * Quotient(a, b)

\* The dividend is cut to the size of the operands before the division; for src = 1 it is not,
\* but there the quotient is the dividend, which the instruction cuts to that size.
AluDiv(src, dest, n) == Quotient(Low(dest, n), Low(src, n))
AluMod(src, dest) == Remainder(dest, src)
AluIdiv(src, dest) == Quotient(dest, src)
AluImod(src, dest) == Remainder(dest, src)

----------------------------------------------------------------------------
\* Shifts, as sets of outcomes: C leaves a shift by Word or more undefined.  src is the count.

\* Beyond the size of the operand: every bit is the one shifted in.
AllOut(f, bit, n) ==
  [res |-> bit * (Span(n) - 1),
   flags |-> [f EXCEPT !.CF = bit, !.PF = 1, !.ZF = 1 - bit, !.SF = bit]]

Shifted(f, r, cf, n) == [res |-> r, flags |-> [SetPZS(f, r, n) EXCEPT !.CF = cf]]

\* OF is written only when the count is one.
OFIfOne(f, src, bit) == IF src = 1 THEN [f EXCEPT !.OF = bit] ELSE f

\* The bit shifted out at the left; of an operand of Word bits and a count of 0 it is undefined.
OutLeft(src, dest, n) == IF src = 0 /\ n = Word THEN 0..1 ELSE {Bit(dest, n - src)}

\* The bit shifted out at the right: (src - 1) wraps when the count is 0.
OutRight(src, dest) == IF src = 0 THEN 0..1 ELSE {Bit(dest, src - 1)}

\* alu_shl(), and alu_sal() for a count up to the size.
AluShl(f, src, dest, n) ==
  LET g == OFIfOne(f, src, Flag(Bit(dest, n - 1) # Bit(dest, n - 2)))
  IN  IF src > n THEN {AllOut(g, 0, n)}
      ELSE {Shifted(g, Low(Low(dest, n) * 2^src, n), cf, n) : cf \in OutLeft(src, dest, n)}

AluShr(f, src, dest, n) ==
  LET g == OFIfOne(f, src, Top(dest, n))
  IN  IF src > n THEN {AllOut(g, 0, n)}
      ELSE {Shifted(g, Low(dest, n) \div 2^src, cf, n) : cf \in OutRight(src, dest)}

\* The ones shifted in are (~0 >> (32 - src)) << (n - src): for a count of 0 the first shift is
\* undefined, and so are the ones of an operand of Word bits.
AluSar(f, src, dest, n) ==
  LET g == OFIfOne(f, src, 0)
      r == Low(Signed(dest, n) \div 2^src, n)
      wild == IF src = 0 /\ n = Word /\ Top(dest, n) = 1 THEN {Span(n) - 1} ELSE {}
  IN  IF src > n THEN {AllOut(g, Top(dest, n), n)}
      ELSE {Shifted(g, s, cf, n) : s \in {r} \cup wild, cf \in OutRight(src, dest)}

----------------------------------------------------------------------------
\* The conditions of jcc, setcc and cmov.

ConditionE(f) == f.ZF = 1
ConditionB(f) == f.CF = 1
ConditionAe(f) == f.CF = 0
ConditionA(f) == f.CF = 0 /\ f.ZF = 0
ConditionBe(f) == f.CF = 1 \/ f.ZF = 1
ConditionL(f) == f.SF # f.OF
ConditionGe(f) == f.SF = f.OF
ConditionG(f) == f.ZF = 0 /\ f.SF = f.OF
ConditionLe(f) == f.ZF = 1 \/ f.SF # f.OF
=============================================================================
