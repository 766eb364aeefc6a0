------------------------------ MODULE Operate ------------------------------
(* The instructions of nemu/src/cpu/instr/ that compute with one call of the Alu or *)
(* the Fpu: and, or, xor, test, shl, shr, sar, mul, imul, div and idiv, the last   *)
(* also after the cltd that makes its dividend, fadds, fsubs, fmuls and fdivs, and  *)
(* the comparisons of floats: fucomi, and fucom with the fnstsw and sahf after it.  *)
(* The machine keeps EFLAGS from one to the next; the operands are any values of   *)
(* their sizes, the floats on top of the register stack and in memory any numbers, *)
(* infinities and quiet NaNs of fpu.h.                                            *)
EXTENDS Instr, Fpu

CONSTANT MaxCount    \* the largest shift count tried; an instruction can hold one of 255

ASSUME OperateAssumption ==
         /\ Word \in DataSizes /\ Byte \notin DataSizes
         /\ \A n \in Sizes : n <= Word
         /\ MaxCount \in Nat

\* The highest exponent that occurs: of a product of two words, or a word shifted.
MaxPower == 2 * Word + MaxCount

\* Powers of two multiply; stated, because a proof takes no exponent apart.
PowersAssumption ==
  \A i \in 0..MaxPower :
    /\ 2^i \in Nat \ {0}
    /\ \A j \in 0..(MaxPower - i) : 2^(i + j) = 2^i * 2^j

ASSUME PowersAssumption

VARIABLE last

opVars == <<eflags, last>>

\* The instruction executed last: its operands as they were read, the size of its destination,
\* and what it left: in lo the destination, the low half of a product or the quotient, in hi the
\* high half or the remainder.
Idle == [op |-> "none", n |-> Byte, src |-> 0, dest |-> 0, lo |-> 0, hi |-> 0]

OpInit == /\ eflags \in {NoFlags, [b \in DOMAIN NoFlags |-> 1]}
        /\ last = Idle

Done(f, op, n, src, dest, lo, hi) ==
  /\ eflags' = f
  /\ last' = [op |-> op, n |-> n, src |-> src, dest |-> dest, lo |-> lo, hi |-> hi]

----------------------------------------------------------------------------
\* The logical instructions sign-extend the source and give the Alu data_size, also for bytes;
\* test does neither.

And(ds, form, src, dest) ==
  LET n == DestSize(form, ds)
      out == AluAnd(eflags, SignExt(src, SrcSize(form, ds)), dest, ds)
  IN  Done(out.flags, "and", n, src, dest, Low(out.res, n), 0)

Or(ds, form, src, dest) ==
  LET n == DestSize(form, ds)
      out == AluOr(eflags, SignExt(src, SrcSize(form, ds)), dest, ds)
  IN  Done(out.flags, "or", n, src, dest, Low(out.res, n), 0)

Xor(ds, form, src, dest) ==
  LET n == DestSize(form, ds)
      out == AluXor(eflags, SignExt(src, SrcSize(form, ds)), dest, ds)
  IN  Done(out.flags, "xor", n, src, dest, Low(out.res, n), 0)

Test(ds, form, src, dest) ==
  LET n == DestSize(form, ds)
      out == AluAnd(eflags, src, dest, n)
  IN  Done(out.flags, "test", n, src, dest, dest, 0)

\* The count is a constant 1, an immediate byte or CL.
Shl(n, count, dest) ==
  \E out \in AluShl(eflags, count, dest, n) : Done(out.flags, "shl", n, count, dest, out.res, 0)

Shr(n, count, dest) ==
  \E out \in AluShr(eflags, count, dest, n) : Done(out.flags, "shr", n, count, dest, out.res, 0)

Sar(n, count, dest) ==
  \E out \in AluSar(eflags, count, dest, n) : Done(out.flags, "sar", n, count, dest, out.res, 0)

High(x, n) == (x \div Span(n)) % Span(n)

\* mul writes CF and OF once more, from the high half.
Mul(n, src, dest) ==
  LET out == AluMul(eflags, src, dest, n)
  IN  Done(MulFlags(out.flags, High(out.res, n) = 0), "mul", n, src, dest, Low(out.res, n), High(out.res, n))

\* With two or three operands imul keeps the low half only; the source may be an extended byte.
Imul(n, src, dest) ==
  LET out == AluImul(eflags, src, dest, n)
  IN  Done(out.flags, "imul", n, src, dest, Low(out.res, n), High(out.res, n))

\* The dividend has twice the size of the divisor; a divisor of 0 is an assertion that fails.
Div(n, src, dest) ==
  /\ src # 0
  /\ Done(eflags, "div", n, src, dest, Low(AluDiv(src, dest, n), n), Low(AluMod(src, dest), n))

\* The lowest dividend of 2 * Word bits divided by -1 overflows in C.
Idiv(op, n, src, dest) ==
  LET s == Signed(src, n)
      d == Signed(dest, 2 * n)
  IN  /\ src # 0
      /\ ~(n = Word /\ s = -1 /\ d = -(Span(2 * n - 1)))
      /\ Done(eflags, op, n, src, dest, Low(AluIdiv(s, d), n), Low(AluImod(s, d), n))

\* cltd looks at the sign of a C int, which a register of less than Word bits never has.
Cltd(ds, a) == IF ds = Word /\ Top(a, ds) = 1 THEN Span(ds) - 1 ELSE 0

CltdIdiv(ds, src, a) == Idiv("cltd idiv", ds, src, Cltd(ds, a) * Span(ds) + a)

Execute ==
  /\ last = Idle
  /\ \E ds \in DataSizes, form \in Forms :
       \E dest \in Values(DestSize(form, ds)) :
         \/ \E src \in Values(SrcSize(form, ds)) :
              \/ And(ds, form, src, dest)
              \/ Or(ds, form, src, dest)
              \/ Xor(ds, form, src, dest)
              \/ form # "bv" /\ Test(ds, form, src, dest)
              \/ form # "bv" /\ Mul(DestSize(form, ds), src, dest)
              \/ Imul(DestSize(form, ds), IF form = "bv" THEN SignExt(src, Byte) ELSE src, dest)
              \/ form = "v" /\ CltdIdiv(ds, src, dest)
         \/ \E count \in 0..MaxCount :
              \/ Shl(DestSize(form, ds), count, dest)
              \/ Shr(DestSize(form, ds), count, dest)
              \/ Sar(DestSize(form, ds), count, dest)

Divide ==
  /\ last = Idle
  /\ \E n \in DataSizes \cup {Byte} : \E src \in Values(n), dest \in Values(2 * n) :
       \/ Div(n, src, dest)
       \/ Idiv("idiv", n, src, dest)

\* An instruction of x87.c between the top of the stack and a float in memory; EFLAGS stay.
Fadds(src, dest) == Done(eflags, "fadds", FloatBits, src, dest, FloatAdd(src, dest), 0)
Fsubs(src, dest) == Done(eflags, "fsubs", FloatBits, src, dest, FloatSub(src, dest), 0)
Fmuls(src, dest) == Done(eflags, "fmuls", FloatBits, src, dest, FloatMul(src, dest), 0)
Fdivs(src, dest) == Done(eflags, "fdivs", FloatBits, src, dest, FloatDiv(src, dest), 0)

\* fucomi and fucomip: the flags of a comparison with a register of the stack.
Fucomi(src, dest) ==
  Done([eflags EXCEPT !.CF = C0(dest, src), !.PF = 0, !.ZF = C3(dest, src)],
       "fucomi", FloatBits, src, dest, dest, 0)

\* sahf: AH becomes the low half of EFLAGS, so OF is cleared, and IF, which is not kept here.
Sahf(ah) == [CF |-> Bit(ah, 0), PF |-> Bit(ah, 2), ZF |-> Bit(ah, 6), SF |-> Bit(ah, 7), OF |-> 0]

\* fucom, fucomp or fucompp, then fnstsw %ax and sahf; the stack has any top by then.
FucomSahf(src, dest) ==
  \E top \in 0..7 :
    Done(Sahf(StatusHigh(dest, src, top)), "fucom sahf", FloatBits, src, dest, dest, 0)

Floats == {v \in Values(FloatBits) : Exponent(v) < MaxExp} \cup Infs \cup Nans

\* They read no flag: they are tried from one value of EFLAGS only.
FloatingPoint ==
  /\ last = Idle /\ eflags = NoFlags
  /\ \E src, dest \in Floats :
       \/ Fadds(src, dest)
       \/ Fsubs(src, dest)
       \/ Fmuls(src, dest)
       \/ Fdivs(src, dest)
       \/ Fucomi(src, dest)
       \/ FucomSahf(src, dest)

\* The next instruction is fetched.
Retire == /\ last # Idle
          /\ last' = Idle
          /\ UNCHANGED eflags

OpNext == Execute \/ Divide \/ FloatingPoint \/ Retire

OpSpec == OpInit /\ [][OpNext]_opVars

----------------------------------------------------------------------------
Shifts == {"shl", "shr", "sar"}
Logics == {"and", "or", "xor"}

FloatOps == {"fadds", "fsubs", "fmuls", "fdivs", "fucomi", "fucom sahf"}

\* The flags are bits and every result of integers fits its register.
OpTypeOK ==
  /\ eflags \in Flags
  /\ last.op \in {"none", "test", "mul", "imul", "div", "idiv", "cltd idiv"} \cup Logics \cup Shifts \cup FloatOps
  /\ IF last.op \in FloatOps THEN last.n = FloatBits
     ELSE last.n \in Sizes /\ {last.lo, last.hi} \subseteq Values(last.n)

\* The branches after and, or, xor, a shift and test x, x compare the value with 0: ZF and SF
\* describe the value that was written, on every path of the ALU, and and, or, xor and test clear
\* OF and CF, whatever an earlier instruction left in them.
SignDecided ==
  LET v == Signed(last.lo, last.n)
  IN  /\ last.op \in Shifts \/ (last.op \in Logics /\ last.n # Byte) =>
           /\ ConditionE(eflags) <=> v = 0
           /\ eflags.SF = 1 <=> v < 0
      /\ (last.op \in Logics /\ last.n # Byte) \/ (last.op = "test" /\ last.src = last.dest) =>
           /\ ConditionL(eflags) <=> v < 0
           /\ ConditionLe(eflags) <=> v <= 0
           /\ ConditionG(eflags) <=> v > 0
           /\ ConditionA(eflags) <=> v # 0

\* One place of a shift, for a number r of n bits: what moves out and what remains.
Step(op, r, n) ==
  CASE op = "shl" -> [out |-> Top(r, n), r |-> Low(2 * r, n)]
    [] op = "shr" -> [out |-> r % 2, r |-> r \div 2]
    [] op = "sar" -> [out |-> r % 2, r |-> r \div 2 + Top(r, n) * Span(n - 1)]

Places(op, dest, n) ==
  LET f[k \in 0..MaxCount] == IF k = 0 THEN [out |-> 0, r |-> dest] ELSE Step(op, f[k - 1].r, n)
  IN  f

\* A shift by some places is that many shifts by one, also past the size of the operand, where
\* the code takes another path and C would leave the result undefined.
ShiftExact ==
  last.op \in Shifts /\ last.src > 0 =>
    LET s == Places(last.op, last.dest, last.n)[last.src]
    IN  last.lo = s.r /\ eflags.CF = s.out

\* The instructions of bits leave what they should: values, flags, and the branches that read them.
BitsExact == OpTypeOK /\ SignDecided /\ ShiftExact

\* The two halves of a product are the product, and CF and OF say whether the low one is enough:
\* the early returns for 0 and 1, the three sizes and the two writes of the flags agree.
ProductExact ==
  LET n == last.n
      both == last.hi * Span(n) + last.lo
  IN  /\ last.op = "mul" =>
           /\ both = last.src * last.dest
           /\ eflags.CF = Flag(last.src * last.dest >= Span(n))
      /\ last.op = "imul" =>
           /\ Signed(both, 2 * n) = Signed(last.src, n) * Signed(last.dest, n)
           /\ eflags.CF = Flag(Signed(last.lo, n) # Signed(last.src, n) * Signed(last.dest, n))
      /\ last.op \in {"mul", "imul"} => eflags.OF = eflags.CF

\* A quotient q and a remainder r of a division by s: C's, with the sign of the dividend.
Divides(q, r, d, s) ==
  /\ d = q * s + r
  /\ r = 0 \/ (r > 0) = (d > 0)
  /\ r * r < s * s

\* Where the quotient fits its register, and for div the upper half of the dividend is 0, the
\* quotient and the remainder belong together.  So C's division of two ints, compiled to cltd and
\* idiv, divides the ints; -2^31 / -1 is undefined in C.
QuotientExact ==
  LET n == last.n
      s == Signed(last.src, n)
      d == Signed(last.dest, 2 * n)
      a == Signed(last.dest, n)
      q == Signed(last.lo, n)
      r == Signed(last.hi, n)
  IN  /\ last.op = "div" /\ last.dest < Span(n) => Divides(last.lo, last.hi, last.dest, last.src)
      /\ last.op = "idiv" /\ Fits(Quotient(d, s), n) => Divides(q, r, d, s)
      /\ last.op = "cltd idiv" /\ n = Word /\ ~(s = -1 /\ a = -(Span(n - 1))) => Divides(q, r, a, s)

----------------------------------------------------------------------------
\* The values of the floats from 0 to infinity, in units of the least denormal; infinity has the
\* value that comes after the largest number.  They are in the order of their bits.
Value == [m \in 0..Inf(0) |-> Significand(m) * 2^(Scale(m) - 1)]
One == 2^(Bias - 1 + FB)
LeastNormal == FLOAT(0, 1, 0)
Magnitude(v) == v % 2^(EB + FB)
Finite(v) == Exponent(v) < MaxExp
Exact(v) == IF Sign(v) = 1 THEN -Value[Magnitude(v)] ELSE Value[Magnitude(v)]

\* The float nearest to num / den units; half-way, the one with an even last bit.
Nearest(num, den) ==
  LET m == CHOOSE m \in 0..Inf(0) :
             Value[m] * den <= num /\ (m = Inf(0) \/ num < Value[m + 1] * den)
      half == (Value[m] + Value[m + 1]) * den
  IN  IF m = Inf(0) \/ 2 * num < half \/ (2 * num = half /\ m % 2 = 0) THEN m ELSE m + 1

\* The sum and the difference of two floats are the exact ones, rounded once to the nearest, with the
\* signs IEEE 754 gives to zeros: three bits, one of them sticky, are enough however far the
\* smaller number is shifted, with cancellation, carries, denormals and overflow.
FloatSum ==
  LET a == last.dest
      b == IF last.op = "fsubs" THEN (last.src + 2^(EB + FB)) % Span(FloatBits) ELSE last.src
      sum == Exact(a) + Exact(b)
  IN  last.op \in {"fadds", "fsubs"} =>
        CASE a \in Nans \/ b \in Nans \/ {a, b} = Infs -> last.lo \in Nans
          [] a \in Infs /\ b \notin Nans /\ {a, b} # Infs -> last.lo = a
          [] Finite(a) /\ b \in Infs -> last.lo = b
          [] Finite(a) /\ Finite(b) ->
               last.lo = IF sum > 0 THEN Nearest(sum, 1)
                         ELSE IF sum < 0 THEN 2^(EB + FB) + Nearest(-sum, 1)
                         ELSE Zero(IF {a, b} = {Zero(1)} THEN 1 ELSE 0)

\* The product of a and b, or the quotient, as a fraction.
Numerator(op, a, b) == Value[Magnitude(a)] * (IF op = "fmuls" THEN Value[Magnitude(b)] ELSE One)
Denominator(op, a, b) == IF op = "fmuls" THEN One ELSE Value[Magnitude(b)]

\* What has no value.
Invalid(op, a, b) ==
  \/ a \in Nans \/ b \in Nans
  \/ op = "fmuls" /\ ((a \in Zeros /\ b \in Infs) \/ (a \in Infs /\ b \in Zeros))
  \/ op = "fdivs" /\ ((a \in Zeros /\ b \in Zeros) \/ (a \in Infs /\ b \in Infs))

\* A product is the exact one rounded to the nearest, and a quotient that or its lower neighbour, since
\* the remainder is dropped, unless the exact result is below the least normal number, where a result that
\* should be rounded up to that number becomes 0; two normal factors are right there, too, but for this case.
FloatProduct ==
  LET a == last.dest
      b == last.src
      m == Magnitude(last.lo)
      num == Numerator(last.op, a, b)
      den == Denominator(last.op, a, b)
      right == Nearest(num, den)
      near == {right} \cup (IF last.op = "fdivs" THEN {right - 1} ELSE {})
  IN  last.op \in {"fmuls", "fdivs"} =>
        /\ Invalid(last.op, a, b) => last.lo \in Nans
        /\ ~Invalid(last.op, a, b) => Sign(last.lo) = OneSign(a, b)
        /\ ~Invalid(last.op, a, b) /\ (a \in Infs \/ b \in Infs) =>
             m = IF last.op = "fdivs" /\ b \in Infs THEN 0 ELSE Inf(0)
        /\ Finite(a) /\ Finite(b) /\ ~Invalid(last.op, a, b) =>
             IF num >= Value[LeastNormal] * den THEN m \in near
             ELSE last.op = "fdivs" \/ (Magnitude(a) >= LeastNormal /\ Magnitude(b) >= LeastNormal) =>
                    m \in near \/ (m = 0 /\ right = LeastNormal)

\* The branches a compiler puts after a comparison of two floats decide their order, on both ways
\* the flags can take: at once, or over C0 and C3 of the status word, between which the top of the
\* stack lies, through AH.
FloatOrder ==
  LET a == Exact(last.dest)
      b == Exact(last.src)
  IN  last.op \in {"fucomi", "fucom sahf"} /\ {last.dest, last.src} \cap Nans = {} =>
        /\ ConditionA(eflags) <=> a > b
        /\ ConditionAe(eflags) <=> a >= b
        /\ ConditionB(eflags) <=> a < b
        /\ ConditionBe(eflags) <=> a <= b
        /\ ConditionE(eflags) <=> a = b

\* A result is a float.
FloatTyped == last.op \in FloatOps => last.lo \in Values(FloatBits)

\* The arithmetic of fpu.c is IEEE 754's, rounded once, but for the cases FloatProduct names, and the
\* order of numbers and infinities is what the branches find.
FloatExact == FloatTyped /\ FloatSum /\ FloatProduct /\ FloatOrder
=============================================================================
