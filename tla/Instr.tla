------------------------------- MODULE Instr --------------------------------
(* What the instructions of nemu/src/cpu/instr/ have in common: the sizes of their *)
(* operands, the values these can have, and EFLAGS, which the machine keeps from   *)
(* one instruction to the next.                                                    *)
EXTENDS Alu

CONSTANT DataSizes  \* 16 with the prefix 0x66, 32 without

Sizes == DataSizes \cup {Byte}

\* Powers of two are what they are; stated, because a proof takes no exponent apart.
SizesAssumption ==
  \A n \in Sizes :
    /\ n \in Nat \ {0} /\ 2^n \in Nat /\ 2^(n - 1) \in Nat \ {0} /\ 2^n = 2 * 2^(n - 1)

ASSUME SizesAssumption

\* The suffix of an instruction: "b" for operands of Byte bits, "v" for operands of data_size
\* bits, "bv" for a byte with a destination of data_size bits, to which it is sign-extended.
Forms == {"b", "v", "bv"}
SrcSize(form, ds) == IF form = "v" THEN ds ELSE Byte
DestSize(form, ds) == IF form = "b" THEN Byte ELSE ds

Values(n) == 0..(Span(n) - 1)

VARIABLE eflags
=============================================================================
