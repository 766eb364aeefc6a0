-------------------------------- MODULE Fpu --------------------------------
(* The arithmetic of nemu/src/cpu/fpu.c: one operator for each of its functions,   *)
(* from the bits of two floats to the bits of the result.  A float is the natural  *)
(* number its bits spell: a sign, EB bits of exponent (8 in the code) and FB bits   *)
(* of fraction (23).  Long, 64 in the code, is the width of the significand a       *)
(* division works with.                                                           *)
EXTENDS Integers

CONSTANTS EB, FB, Long

\* Wide enough that a product of two normal numbers is shifted right, as in the code, and that a
\* quotient has more bits than the three reserved for rounding.
ASSUME FpuAssumption ==
         /\ EB \in Nat \ {0, 1} /\ FB \in Nat /\ Long \in Nat
         /\ FB >= 4 /\ Long >= 2 * FB + 6

FloatBits == 1 + EB + FB
MaxExp == 2^EB - 1              \* 0xff
Bias == 2^(EB - 1) - 1          \* 127

\* Powers of two double; stated, because a proof takes no exponent apart.  No exponent in this
\* module or of a value of a float is above FloatPower.
FloatPower == EB + Long + MaxExp
FloatPowersAssumption ==
  /\ 2^EB \in Nat
  /\ \A i \in 0..FloatPower : 2^i \in Nat /\ (i > 0 => 2^i = 2 * 2^(i - 1))

ASSUME FloatPowersAssumption

\* The FLOAT of a sign, an exponent and a fraction, and the fields of a FLOAT.
FLOAT(s, e, f) == (s * 2^EB + e) * 2^FB + f
Sign(v) == v \div 2^(EB + FB)
Exponent(v) == (v \div 2^FB) % 2^EB
Fraction(v) == v % 2^FB

Zero(s) == FLOAT(s, 0, 0)
Inf(s) == FLOAT(s, MaxExp, 0)
Nan(s) == FLOAT(s, MaxExp, 2^(FB - 1))
Zeros == {Zero(0), Zero(1)}
Infs == {Inf(0), Inf(1)}
Nans == {Nan(0), Nan(1)}

\* A denormal lacks the hidden 1 and has the exponent of the least normal numbers.
Significand(v) == IF Exponent(v) = 0 THEN Fraction(v) ELSE 2^FB + Fraction(v)
Scale(v) == IF Exponent(v) = 0 THEN 1 ELSE Exponent(v)

\* The order of the host's floats, which the comparisons are left to: that of their bits, but for
\* the sign; zeros are equal, and a NaN is neither less nor greater than anything.
Rank(v) == (IF Sign(v) = 1 THEN -1 ELSE 1) * (v % 2^(EB + FB))
Less(a, b) == a \notin Nans /\ b \notin Nans /\ Rank(a) < Rank(b)

\* fpu_cmp(): what it leaves in C0 and C3 of the status word; C2, a NaN, is never set.
C0(a, b) == IF Less(a, b) THEN 1 ELSE 0
C3(a, b) == IF Less(a, b) \/ Less(b, a) THEN 0 ELSE 1

\* Bug: C3 is where C2 is.
StatusHighC2(a, b, top) == C0(a, b) + 8 * top + 4 * C3(a, b)

\* The high byte of the status word, with C1 and the busy flag never set.
StatusHigh(a, b, top) == C0(a, b) + 8 * top + 64 * C3(a, b)

----------------------------------------------------------------------------
\* Normalization.  The last three bits of a significand are the guard, round and sticky bits.

Lead(sig) == sig \div 2^(FB + 3)

\* Bug: the bits shifted out leave no trace.
JamLost(sig, k) == sig \div 2^k

\* sig shifted right k times by one, the last bit staying 1 once a 1 was shifted out.
Jam(sig, k) ==
  LET r == sig \div 2^k
  IN  IF sig % 2^k # 0 /\ r % 2 = 0 THEN r + 1 ELSE r

\* A loop that shifts until its condition fails: the number of its turns.
RightShifts(exp, sig) ==
  LET turns[k \in 0..Long] ==
        LET s == Jam(sig, k)
            e == exp + k
        IN  IF (Lead(s) > 1 /\ e < MaxExp) \/ (s > 4 /\ e < 0) THEN turns[k + 1] ELSE k
  IN  turns[0]

LeftShifts(exp, sig) ==
  LET turns[k \in 0..exp] == IF Lead(sig * 2^k) = 0 /\ k < exp THEN turns[k + 1] ELSE k
  IN  turns[0]

\* To the nearest, half-way to the even one.
Rounds(sig) == sig % 8 > 4 \/ (sig % 8 = 4 /\ (sig \div 8) % 2 = 1)

\* A carry out of the significand raises the exponent; one out of a denormal does not.
Rounded(sign, exp, sig) ==
  LET r == sig \div 8 + (IF Rounds(sig) THEN 1 ELSE 0)
      carry == r \div 2^FB > 1
  IN  IF carry /\ exp + 1 >= MaxExp THEN Inf(sign)
      ELSE IF carry THEN FLOAT(sign, exp + 1, (r \div 2) % 2^FB)
      ELSE FLOAT(sign, exp % 2^EB, r % 2^FB)

Normalize(sign, exp, sig) ==
  IF Lead(sig) > 1 \/ exp < 0
  THEN LET k == RightShifts(exp, sig)
           e == exp + k
       IN  IF e >= MaxExp THEN Inf(sign)
           ELSE IF e < 0 THEN Zero(sign)
           ELSE Rounded(sign, e, Jam(sig, IF e = 0 THEN k + 1 ELSE k))
  ELSE IF Lead(sig) = 0 /\ exp > 0
  THEN LET k == LeftShifts(exp, sig)
       IN  Rounded(sign, exp - k, IF exp = k THEN Jam(sig * 2^k, 1) ELSE sig * 2^k)
  ELSE Rounded(sign, IF exp = 0 /\ Lead(sig) = 1 THEN 1 ELSE exp, sig)

----------------------------------------------------------------------------
\* a + b, a - b, a * b and a / b; the tables of corner cases come first.

CornerAdd(a, b) ==
  IF a \in Zeros /\ b \in Zeros THEN Zero(IF a = Zero(1) /\ b = Zero(1) THEN 1 ELSE 0)
  ELSE IF a \in Infs /\ b \in Infs THEN Nan(1)
  ELSE b

HasCornerAdd(a, b) ==
  \/ a \in Zeros /\ b \in Zeros
  \/ a \in Infs /\ b \in Infs /\ a # b
  \/ a \in Infs /\ b \in Nans
  \/ a = Nan(1) /\ b = Nan(0)

Alignment(lo, hi) == Scale(hi) - Scale(lo)

Summed(lo, hi) ==
  LET l == Jam(Significand(lo) * 8, Alignment(lo, hi))
      h == Significand(hi) * 8
      sum == (IF Sign(lo) = 1 THEN -l ELSE l) + (IF Sign(hi) = 1 THEN -h ELSE h)
  IN  IF sum < 0 THEN Normalize(1, Exponent(hi), -sum) ELSE Normalize(0, Exponent(hi), sum)

FloatAdd(b, a) ==
  IF HasCornerAdd(a, b) THEN CornerAdd(a, b)
  ELSE IF a \in Zeros THEN b
  ELSE IF b \in Zeros THEN a
  ELSE IF Exponent(a) = MaxExp THEN a
  ELSE IF Exponent(b) = MaxExp THEN b
  ELSE IF Exponent(a) > Exponent(b) THEN Summed(b, a) ELSE Summed(a, b)

OneNan(a, b) == IF Nan(0) \in {a, b} THEN Nan(0) ELSE Nan(1)
OneSign(a, b) == (Sign(a) + Sign(b)) % 2

\* The table's results for two zeros are those of the sum of a and -b.
FloatSub(b, a) ==
  IF a \in Nans \/ b \in Nans THEN OneNan(a, b)
  ELSE FloatAdd(FLOAT(1 - Sign(b), Exponent(b), Fraction(b)), a)

FloatMul(b, a) ==
  IF (a \in Zeros /\ b \in Infs) \/ (a \in Infs /\ b \in Zeros) THEN Nan(1)
  ELSE IF a \in Nans \/ b \in Nans THEN OneNan(a, b)
  ELSE IF a \in Zeros \/ b \in Zeros THEN Zero(OneSign(a, b))
  ELSE IF a \in Infs \/ b \in Infs THEN Inf(OneSign(a, b))
  ELSE Normalize(OneSign(a, b), Scale(a) + Scale(b) - Bias - FB + 3, Significand(a) * Significand(b))

\* The dividend's significand is shifted left until its highest bit is 1, the divisor's right until
\* its lowest is 1; the remainder of their division is dropped.
Divided(a, b) ==
  LET left == CHOOSE k \in 0..Long : (Significand(a) * 2^k) \div 2^(Long - 1) = 1
      right == CHOOSE k \in 0..FB : Significand(b) % 2^k = 0 /\ (Significand(b) \div 2^k) % 2 = 1
  IN  [sig |-> (Significand(a) * 2^left) \div (Significand(b) \div 2^right), shift |-> left + right]

FloatDiv(b, a) ==
  IF a \in Zeros /\ b \in Zeros THEN Nan(1)
  ELSE IF a \in Infs /\ b \in Infs THEN Nan(1)
  ELSE IF a \in Nans \/ b \in Nans THEN OneNan(a, b)
  ELSE IF a \in Infs \/ b \in Zeros THEN Inf(OneSign(a, b))
  ELSE IF a \in Zeros \/ b \in Infs THEN Zero(OneSign(a, b))
  ELSE LET q == Divided(a, b)
       IN  Normalize(OneSign(a, b), Scale(a) - Scale(b) + Bias - (q.shift - FB - 3), q.sig)
=============================================================================
