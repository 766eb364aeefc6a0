------------------------------- MODULE Arith -------------------------------
(* The instructions add, adc, sub, sbb, cmp, inc and dec of nemu/src/cpu/instr/: *)
(* each reads its operands, calls the Alu with a size and writes the result.     *)
(* What the machine keeps between two of them is EFLAGS; the operands are any    *)
(* values of their sizes.                                                        *)
(*                                                                               *)
(* A compiler computes with numbers wider than a register by add, adc, adc... or *)
(* sub, sbb, sbb..., the lowest limb first, and branches on the flags the last   *)
(* one leaves.  The history variable chain holds the numbers so computed.        *)
EXTENDS Instr

CONSTANT MaxLimbs    \* the longest chain followed

LimbsAssumption == MaxLimbs \in Nat \ {0}

ASSUME LimbsAssumption

VARIABLE chain

vars == <<eflags, chain>>

\* Of a chain of some limbs, z is the result, of weight w, computed from x and y; n is the size
\* of its highest limb, and narrow says that sbb subtracted bytes in it.
Empty(kind) ==
  [kind |-> kind, limbs |-> 0, n |-> Byte, x |-> 0, y |-> 0, z |-> 0, w |-> 1, narrow |-> FALSE]

NoChain == Empty("none")

Init == /\ eflags = NoFlags
        /\ chain = NoChain

\* One limb more: of destination x, source y and result r.
Grown(c, n, x, y, r) ==
  [kind |-> c.kind, limbs |-> c.limbs + 1, n |-> n, narrow |-> c.narrow, w |-> c.w * Span(n),
   x |-> c.x + c.w * x, y |-> c.y + c.w * y, z |-> c.z + c.w * r]

Started(kind, n, x, y, r) == Grown(Empty(kind), n, x, y, r)

Continued(kind, n, x, y, r) ==
  IF chain.kind = kind /\ chain.limbs < MaxLimbs THEN Grown(chain, n, x, y, r) ELSE NoChain

----------------------------------------------------------------------------
\* n is the size of the destination, ds that of data_size; the source is an integer, extended if shorter.

Add(n, src, dest) ==
  LET out == AluAdd(eflags, src, dest, n)
  IN  /\ eflags' = out.flags
      /\ chain' = Started("sum", n, dest, Low(src, n), out.res)

Adc(n, src, dest) ==
  LET out == AluAdc(eflags, src, dest, n)
  IN  /\ eflags' = out.flags
      /\ chain' = Continued("sum", n, dest, Low(src, n), out.res)

\* sub, and cmp, which does not write the difference back.
Sub(n, src, dest) ==
  LET out == AluSub(eflags, src, dest, n)
  IN  /\ eflags' = out.flags
      /\ chain' = Started("difference", n, dest, Low(src, n), out.res)

\* sbb extends the source and calls the Alu with data_size, also for bytes.
Sbb(ds, n, src, dest) ==
  LET out == AluSbb(eflags, IF n = Byte THEN SignExt(src, Byte) ELSE src, dest, ds)
      c == Continued("difference", n, dest, Low(src, n), Low(out.res, n))
  IN  /\ eflags' = out.flags
      /\ chain' = IF c = NoChain THEN c ELSE [c EXCEPT !.narrow = @ \/ n = Byte]

Binary(ds, n, src, dest) ==
  \/ Add(n, src, dest)
  \/ Adc(n, src, dest)
  \/ Sub(n, src, dest)
  \/ Sbb(ds, n, src, dest)

\* inc and dec are an addition and a subtraction of 1: they write CF as well.
Inc(n, dest) == /\ eflags' = AluAdd(eflags, 1, dest, n).flags
                /\ chain' = NoChain

Dec(n, dest) == /\ eflags' = AluSub(eflags, 1, dest, n).flags
                /\ chain' = NoChain

\* Every other instruction that writes flags, clc among them; which flags is in Operate.
Other == /\ eflags' \in Flags
         /\ chain' = NoChain

Next ==
  \/ \E ds \in DataSizes, form \in Forms :
       \E src \in Values(SrcSize(form, ds)), dest \in Values(DestSize(form, ds)) :
         Binary(ds, DestSize(form, ds), IF form = "bv" THEN SignExt(src, Byte) ELSE src, dest)
  \/ \E n \in Sizes : \E dest \in Values(n) : Inc(n, dest) \/ Dec(n, dest)
  \/ Other

Spec == Init /\ [][Next]_vars

----------------------------------------------------------------------------
Chains == [kind : {"none", "sum", "difference"}, limbs : 0..MaxLimbs, n : Sizes,
           x : Nat, y : Nat, z : Nat, w : Nat \ {0}, narrow : BOOLEAN]

\* The flags are bits, and the numbers of a chain are below its weight.
TypeOK == /\ eflags \in Flags
          /\ chain \in Chains
          /\ {chain.x, chain.y, chain.z} \subseteq 0..(chain.w - 1)

\* What add and a run of adc leave in the registers and in CF is the sum of the whole numbers:
\* the trick of set_CF_adc() (a result equal to the source has wrapped if a carry came in).
SumExact == chain.kind = "sum" => chain.z + eflags.CF * chain.w = chain.x + chain.y

\* What sub and a run of sbb leave is the difference, and CF the borrow.
DifferenceExact ==
  chain.kind = "difference" /\ ~chain.narrow => chain.z - eflags.CF * chain.w = chain.x - chain.y

\* A number of a chain, read as a signed one: the top bit is that of its highest limb.
AsSigned(v) == IF 2 * v >= chain.w THEN v - chain.w ELSE v

\* The overflow flag of the last adc is the overflow of the whole signed sum.
SumOverflow ==
  chain.kind = "sum" =>
    (eflags.OF = 1 <=> AsSigned(chain.z) # AsSigned(chain.x) + AsSigned(chain.y))

\* The branches a compiler puts after a comparison decide it: jb and jl for numbers of any
\* number of limbs, and all of them for one limb, where ZF is that of the whole difference.
OrderDecided ==
  chain.kind = "difference" /\ ~chain.narrow =>
    /\ ConditionB(eflags) <=> chain.x < chain.y
    /\ ConditionAe(eflags) <=> chain.x >= chain.y
    /\ ConditionL(eflags) <=> AsSigned(chain.x) < AsSigned(chain.y)
    /\ ConditionGe(eflags) <=> AsSigned(chain.x) >= AsSigned(chain.y)
    /\ chain.limbs = 1 =>
         /\ ConditionE(eflags) <=> chain.x = chain.y
         /\ ConditionA(eflags) <=> chain.x > chain.y
         /\ ConditionBe(eflags) <=> chain.x <= chain.y
         /\ ConditionG(eflags) <=> AsSigned(chain.x) > AsSigned(chain.y)
         /\ ConditionLe(eflags) <=> AsSigned(chain.x) <= AsSigned(chain.y)

\* What a compiler reads from the flags after a chain is right: the overflow of a sum, the
\* order of two numbers.
FlagsDecide == SumOverflow /\ OrderDecided
=============================================================================
