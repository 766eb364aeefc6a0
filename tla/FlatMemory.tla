----------------------------- MODULE FlatMemory -----------------------------
(***************************************************************************)
(* What the physical memory of the emulator promises to the processor: a   *)
(* flat array of bytes.  A read answers the bytes last written, low        *)
(* address first, and changes nothing; a write changes exactly the bytes   *)
(* it names.  The image of the program is put there from outside, once,    *)
(* before the first access.  The comment above hw_mem_read states this contract for all   *)
(* six read and write functions of nemu/src/memory/memory.c.               *)
(*                                                                         *)
(* The cache is invisible in this module; Cache.tla implements it.         *)
(***************************************************************************)
EXTENDS Integers

CONSTANTS Addr,      \* physical addresses, an initial segment of Nat
          Byte,      \* what a byte can hold
          Lens       \* lengths of an access, in bytes

VARIABLES mem,       \* the bytes of memory
          booted,    \* the image is in memory
          resp       \* the answer of the latest access, or NoResp

NoResp == <<>>

\* A little-endian datum of n bytes: byte 0 is the one at the low address.
Datum(n) == [0 .. n - 1 -> Byte]

\* The addresses an access of n bytes at p touches.
Span(p, n) == p .. p + n - 1

\* mem after the datum d of n bytes has been stored at p.
Stored(p, n, d) == [a \in Addr |-> IF a \in Span(p, n) THEN d[a - p] ELSE mem[a]]

Init == /\ mem \in [Addr -> Byte]
        /\ booted = FALSE
        /\ resp = NoResp

\* The only change that is not an access: it comes before all of them.
Load == /\ ~booted
        /\ booted' = TRUE
        /\ mem' \in [Addr -> Byte]
        /\ resp' = NoResp

Read(p, n) == /\ booted
              /\ resp' = [i \in 0 .. n - 1 |-> mem[p + i]]
              /\ UNCHANGED <<mem, booted>>

Write(p, n, d) == /\ booted
                  /\ mem' = Stored(p, n, d)
                  /\ resp' = NoResp
                  /\ UNCHANGED booted

Next == \/ Load
        \/ \E n \in Lens, p \in Addr :
             /\ Span(p, n) \subseteq Addr
             /\ Read(p, n) \/ \E d \in Datum(n) : Write(p, n, d)

Spec == Init /\ [][Next]_<<mem, booted, resp>>
=============================================================================
