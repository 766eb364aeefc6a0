--------------------------- MODULE DebuggerProofs ---------------------------
(***************************************************************************)
(* Proofs about Debugger, for any code, any breakpoints and any pool.      *)
(*                                                                         *)
(* Lists and Code say what the breakpoints have saved and what is patched: *)
(* the oldest at an address the program's byte, unless it is lost, and two *)
(* are at one address only where one was set over another. Machine says    *)
(* where the guest is; it needs that the handler's code is left by iret    *)
(* alone. On these rest the two facts about stopping. Armed: a breakpoint  *)
(* alone at its address that is listed and not patched in is the one of    *)
(* the latest stop, until exec() has forgotten. Waiting: since that stop   *)
(* nothing has moved the guest but a keyboard interrupt.                   *)
(***************************************************************************)
EXTENDS Debugger, SequenceTheorems, WellFoundedInduction, TLAPS

\* The handler's code.
H == CHOOSE h \in SUBSET Addr : Apart(h)

\* The addresses of the breakpoints of h.
Bp(h) == {h[i].addr : i \in 1 .. Len(h)}

\* The lists h and f share the pool. Of the breakpoints of h the oldest at an
\* address has saved the program's byte, outside L; outside D it is the only one.
Lists(h, f, D, L) ==
  /\ h \in Seq(BP) /\ f \in Seq(Nos) /\ Len(h) + Len(f) = NR_BP
  /\ \A x \in Nos :
       \/ \E i \in 1 .. Len(h) : h[i].NO = x
       \/ \E i \in 1 .. Len(f) : f[i] = x
  /\ \A i \in 1 .. Len(h) : h[i].addr \in BpAddrs /\ h[i].ori_byte \in {INT3, Prog[h[i].addr]}
  /\ \A i \in 1 .. Len(h) :
       \/ h[i].addr \in L
       \/ h[i].ori_byte = Prog[h[i].addr]
       \/ \E j \in 1 .. Len(h) : j > i /\ h[j].addr = h[i].addr
  /\ \A i, j \in 1 .. Len(h) : h[i].addr = h[j].addr => i = j \/ h[i].addr \in D

\* Nothing but INT3 is patched in, and nowhere but under a breakpoint or where
\* the program's byte is lost.
Code ==
  /\ mem \in [Addr -> Op]
  /\ \A a \in Addr :
       \/ mem[a] = Prog[a]
       \/ a \in Bp(head) \cup lost /\ mem[a] = INT3

\* The types of the rest; the guest runs its handler exactly while an iret is due.
Machine ==
  /\ nemu_state \in {"READY", "RUN", "BREAK", "STOP"}
  /\ pc \in {"ui", "exec_inst", "do_devices", "do_intr", "aborted"}
  /\ n \in Nat \cup {Forever}
  /\ hit_break_rerun \in BOOLEAN
  /\ eip \in Addr
  /\ ret \in Addr \cup {NoAddr}
  /\ intr \in {"none", "timer", "keyboard"}
  /\ stopped \in Addr \cup {NoAddr}
  /\ interrupted \in BOOLEAN /\ forgotten \in BOOLEAN
  /\ lost \subseteq doubled /\ doubled \subseteq BpAddrs
  /\ IF ret = NoAddr THEN eip \notin H ELSE eip \in H /\ ret \notin H
  /\ pc = "exec_inst" => n # 0 /\ nemu_state = "RUN"

\* A breakpoint that is not patched in is the one of the latest stop, and will
\* be patched in by the next instruction, unless exec() has forgotten.
Armed ==
  ~forgotten => \A a \in Bp(head) \ doubled :
    mem[a] # INT3 => /\ a = stopped
                     /\ \/ nemu_state \in {"BREAK", "STOP"}
                        \/ pc = "exec_inst" /\ hit_break_rerun

\* A request that is left pending waits for the handler to end; so until a
\* keyboard interrupt is taken the guest stays where it stopped.
Waiting ==
  /\ pc \in {"ui", "exec_inst"} /\ intr # "none" => ret # NoAddr
  /\ stopped # NoAddr /\ ~interrupted =>
       /\ stopped = eip /\ (mem[eip] # INT3 \/ eip \in doubled)
       /\ pc \in {"do_devices", "do_intr"} =>
            nemu_state \in {"BREAK", "STOP"} /\ (intr # "timer" \/ ret # NoAddr)

IInv == Lists(head, free_, doubled, lost) /\ Code /\ Machine /\ Armed /\ Waiting

-----------------------------------------------------------------------------
(* Lists of breakpoints.                                                   *)

LEMMA HandlerCode == H \in SUBSET Addr /\ Apart(H)
BY DebuggerAssumption DEF H

\* A sequence without its element i.
Without(s, i) == SubSeq(s, 1, i - 1) \o SubSeq(s, i + 1, Len(s))

LEMMA Removed ==
  ASSUME NEW S, NEW s \in Seq(S), NEW i \in 1 .. Len(s)
  PROVE  /\ Without(s, i) \in Seq(S) /\ Len(Without(s, i)) = Len(s) - 1
         /\ \A k \in 1 .. Len(s) - 1 :
              Without(s, i)[k] = IF k < i THEN s[k] ELSE s[k + 1]
<1> DEFINE t == Without(s, i)
           u == SubSeq(s, 1, i - 1)
           v == SubSeq(s, i + 1, Len(s))
<1>1. Len(s) \in Nat /\ \A k \in 1 .. Len(s) : s[k] \in S BY LenProperties, ElementOfSeq
<1>2. /\ u \in Seq(S) /\ Len(u) = i - 1
      /\ \A k \in 1 .. i - 1 : u[k] = s[k]
  <2>1. \A k \in 1 .. i - 1 : s[k] \in S BY <1>1
  <2> HIDE DEF u
  <2>2. /\ u \in Seq(S) /\ Len(u) = IF 1 <= i - 1 THEN (i - 1) - 1 + 1 ELSE 0
        /\ \A k \in 1 .. (i - 1) - 1 + 1 : u[k] = s[1 + k - 1]
    BY <1>1, <2>1, SubSeqProperties DEF u
  <2> QED BY <1>1, <2>2
<1>3. /\ v \in Seq(S) /\ Len(v) = Len(s) - i
      /\ \A k \in 1 .. Len(s) - i : v[k] = s[i + k]
  <2>1. \A k \in i + 1 .. Len(s) : s[k] \in S BY <1>1
  <2> HIDE DEF v
  <2>2. /\ v \in Seq(S) /\ Len(v) = IF i + 1 <= Len(s) THEN Len(s) - (i + 1) + 1 ELSE 0
        /\ \A k \in 1 .. Len(s) - (i + 1) + 1 : v[k] = s[(i + 1) + k - 1]
    BY <1>1, <2>1, SubSeqProperties DEF v
  <2> QED BY <1>1, <2>2
<1> HIDE DEF u, v
<1>4. /\ u \o v \in Seq(S) /\ Len(u \o v) = Len(u) + Len(v)
      /\ \A k \in 1 .. Len(u) + Len(v) : (u \o v)[k] = IF k <= Len(u) THEN u[k] ELSE v[k - Len(u)]
  BY <1>2, <1>3, ConcatProperties
<1>5. t = u \o v BY DEF u, v, Without
<1> HIDE DEF t
<1>6. Len(t) = Len(s) - 1 /\ Len(u) + Len(v) = Len(s) - 1
  <2>1. Len(t) = (i - 1) + (Len(s) - i) BY <1>2, <1>3, <1>4, <1>5
  <2>2. Len(u) + Len(v) = (i - 1) + (Len(s) - i) BY <1>2, <1>3
  <2>3. (i - 1) + (Len(s) - i) = Len(s) - 1 BY <1>1
  <2> QED BY <2>1, <2>2, <2>3
<1>7. ASSUME NEW k \in 1 .. Len(s) - 1 PROVE t[k] = IF k < i THEN s[k] ELSE s[k + 1]
  <2>1. k \in 1 .. Len(u) + Len(v) BY <1>6
  <2>2. CASE k < i
    <3>1. k <= Len(u) /\ k \in 1 .. i - 1 BY <1>1, <1>2, <2>2
    <3> QED BY <1>2, <1>4, <1>5, <2>1, <2>2, <3>1
  <2>3. CASE ~(k < i)
    <3>1. ~(k <= Len(u)) /\ k - Len(u) \in 1 .. Len(s) - i /\ i + (k - Len(u)) = k + 1
      BY <1>1, <1>2, <1>3, <2>1, <2>3
    <3> QED BY <1>3, <1>4, <1>5, <2>1, <2>3, <3>1
  <2> QED BY <2>2, <2>3
<1> QED BY <1>4, <1>5, <1>6, <1>7 DEF t

\* A sequence with an element in front.
LEMMA Pushed ==
  ASSUME NEW S, NEW s \in Seq(S), NEW e \in S, NEW t, t = <<e>> \o s
  PROVE  /\ t \in Seq(S) /\ Len(t) = Len(s) + 1
         /\ t[1] = e /\ \A k \in 2 .. Len(t) : t[k] = s[k - 1]
<1>1. <<e>> \in Seq(S) /\ Len(<<e>>) = 1 /\ <<e>>[1] = e OBVIOUS
<1>2. Len(s) \in Nat BY LenProperties
<1>3. /\ t \in Seq(S) /\ Len(t) = 1 + Len(s)
      /\ \A k \in 1 .. 1 + Len(s) : t[k] = IF k <= 1 THEN <<e>>[k] ELSE s[k - 1]
  BY <1>1, ConcatProperties
<1>4. ASSUME NEW k \in 2 .. Len(t) PROVE t[k] = s[k - 1]
  <2>1. k \in 1 .. 1 + Len(s) /\ ~(k <= 1) BY <1>2, <1>3
  <2> QED BY <1>3, <2>1
<1>5. t[1] = e
  <2>1. 1 \in 1 .. 1 + Len(s) /\ 1 <= 1 BY <1>2
  <2> QED BY <1>1, <1>3, <2>1
<1> QED BY <1>2, <1>3, <1>4, <1>5

LEMMA Least ==
  ASSUME NEW T, T \subseteq Nat, T # {}
  PROVE  \E x \in T : \A y \in T : x <= y
<1> DEFINE R == OpToRel(<, Nat)
<1>1. IsWellFoundedOn(R, Nat) BY NatLessThanWellFounded
<1> HIDE DEF R
<1>2. PICK x \in T : \A y \in T : <<y, x>> \notin R BY <1>1, WFMin
<1>3. \A a, b \in Nat : a < b => <<a, b>> \in R BY DEF R, OpToRel
<1>4. ASSUME NEW y \in T PROVE x <= y
  <2>1. x \in Nat /\ y \in Nat OBVIOUS
  <2>2. ~(y < x) BY <1>2, <1>3, <2>1
  <2> QED BY <2>1, <2>2
<1> QED BY <1>4

LEMMA Greatest ==
  ASSUME NEW last \in Nat, NEW T, T \subseteq 1 .. last, T # {}
  PROVE  \E x \in T : \A y \in T : y <= x
<1> DEFINE U == {last - x : x \in T}
<1>1. U \subseteq Nat /\ U # {}
  <2>1. \A x \in T : x \in Nat /\ last - x \in Nat OBVIOUS
  <2>2. PICK x \in T : TRUE OBVIOUS
  <2>3. last - x \in U OBVIOUS
  <2> QED BY <2>1, <2>3
<1>2. PICK u \in U : \A y \in U : u <= y BY <1>1, Least
<1>3. PICK x \in T : u = last - x OBVIOUS
<1>4. ASSUME NEW y \in T PROVE y <= x
  <2>1. x \in Nat /\ y \in Nat OBVIOUS
  <2>2. last - y \in U OBVIOUS
  <2>3. last - x <= last - y BY <1>2, <1>3, <2>2
  <2> QED BY <2>1, <2>3
<1> QED BY <1>4

\* Where the newest breakpoint at an address is, and what it has saved.
LEMMA AtBp ==
  ASSUME Lists(head, free_, doubled, lost), NEW a
  PROVE  /\ At(a) # {} <=> a \in Bp(head)
         /\ a \in Bp(head) => /\ First(At(a)) \in 1 .. Len(head)
                              /\ head[First(At(a))].addr = a
                              /\ head[First(At(a))].ori_byte \in {INT3, Prog[a]}
                              /\ a \notin doubled \cup lost
                                   => head[First(At(a))].ori_byte = Prog[a]
                              /\ a \in BpAddrs
<1>1. DOMAIN head = 1 .. Len(head) BY DEF Lists
<1>2. At(a) # {} <=> a \in Bp(head) BY <1>1 DEF At, Bp
<1>3. ASSUME a \in Bp(head)
      PROVE  /\ First(At(a)) \in 1 .. Len(head) /\ head[First(At(a))].addr = a
             /\ head[First(At(a))].ori_byte \in {INT3, Prog[a]}
             /\ a \notin doubled \cup lost => head[First(At(a))].ori_byte = Prog[a]
             /\ a \in BpAddrs
  <2>1. At(a) \subseteq Nat BY <1>1 DEF At
  <2>2. \E k \in At(a) : \A j \in At(a) : k <= j BY <1>2, <1>3, <2>1, Least
  <2> DEFINE k == First(At(a))
  <2>3. k \in At(a) BY <2>2 DEF First
  <2> HIDE DEF k
  <2>4. k \in 1 .. Len(head) /\ head[k].addr = a BY <1>1, <2>3 DEF At
  <2>5. head[k].ori_byte \in {INT3, Prog[a]} /\ a \in BpAddrs BY <2>4 DEF Lists
  <2>6. ASSUME a \notin doubled, a \notin lost PROVE head[k].ori_byte = Prog[a]
    <3>1. SUFFICES ASSUME NEW j \in 1 .. Len(head), j > k, head[j].addr = a PROVE FALSE
      BY <2>4, <2>6 DEF Lists
    <3>2. j = k BY <2>4, <2>6, <3>1 DEF Lists
    <3> QED BY <2>4, <3>1, <3>2
  <2> QED BY <2>4, <2>5, <2>6 DEF k
<1> QED BY <1>2, <1>3

\* The breakpoint new_BP() and set_breakpoint() make at a, with the byte found.
New(f, a, byte) == [NO |-> Head(f), addr |-> a, ori_byte |-> byte]

LEMMA ListsNew ==
  ASSUME NEW h, NEW f, NEW D, NEW L, Lists(h, f, D, L), f # <<>>, NEW a \in BpAddrs,
         NEW byte, byte = INT3 \/ byte = Prog[a],
         a \in Bp(h) \/ a \in L \/ byte = Prog[a],
         NEW E, E = IF a \in Bp(h) THEN D \cup {a} ELSE D
  PROVE  /\ Lists(<<New(f, a, byte)>> \o h, Tail(f), E, L)
         /\ Bp(<<New(f, a, byte)>> \o h) = Bp(h) \cup {a}
<1> DEFINE e == New(f, a, byte)
           g == <<e>> \o h
<1>1. h \in Seq(BP) /\ f \in Seq(Nos) /\ Len(h) + Len(f) = NR_BP BY DEF Lists
<1>2. /\ Head(f) \in Nos /\ Head(f) = f[1] /\ Tail(f) \in Seq(Nos) /\ Len(Tail(f)) = Len(f) - 1
      /\ \A i \in 1 .. Len(Tail(f)) : Tail(f)[i] = f[i + 1]
  BY <1>1, HeadTailProperties
<1>3. e \in BP
  <2>1. a \in Addr /\ Prog[a] \in Op /\ INT3 \in Op BY DebuggerAssumption DEF Op
  <2> QED BY <1>2, <2>1 DEF BP, New
<1>4. /\ g \in Seq(BP) /\ Len(g) = Len(h) + 1
      /\ g[1] = e /\ \A k \in 2 .. Len(g) : g[k] = h[k - 1]
  BY <1>1, <1>3, Pushed
<1> HIDE DEF g
<1>5. Len(h) \in Nat /\ Len(f) \in Nat BY <1>1, LenProperties
<1>6. Len(g) + Len(Tail(f)) = NR_BP BY <1>1, <1>2, <1>4, <1>5
\* Where the elements of h are in g.
<1>7. \A k \in 1 .. Len(h) : k + 1 \in 1 .. Len(g) /\ k + 1 > 1 /\ g[k + 1] = h[k]
  <2> TAKE k \in 1 .. Len(h)
  <2>1. k + 1 \in 2 .. Len(g) /\ k + 1 \in 1 .. Len(g) /\ (k + 1) - 1 = k BY <1>4, <1>5
  <2> QED BY <1>4, <2>1
<1>8. \A k \in 1 .. Len(g) : k = 1 \/ (k - 1 \in 1 .. Len(h) /\ g[k] = h[k - 1])
  <2> TAKE k \in 1 .. Len(g)
  <2>1. k = 1 \/ (k \in 2 .. Len(g) /\ k - 1 \in 1 .. Len(h)) BY <1>4, <1>5
  <2> QED BY <1>4, <2>1
<1>9. g[1].addr = a /\ g[1].ori_byte = byte /\ g[1].NO = f[1] /\ 1 \in 1 .. Len(g)
  BY <1>2, <1>4, <1>5 DEF New
<1>10. ASSUME NEW x \in Nos
       PROVE  \/ \E i \in 1 .. Len(g) : g[i].NO = x
              \/ \E i \in 1 .. Len(Tail(f)) : Tail(f)[i] = x
  <2>1. CASE \E i \in 1 .. Len(h) : h[i].NO = x BY <1>7, <2>1
  <2>2. CASE \E i \in 1 .. Len(f) : f[i] = x
    <3>1. PICK i \in 1 .. Len(f) : f[i] = x BY <2>2
    <3>2. CASE i = 1 BY <1>9, <3>1, <3>2
    <3>3. CASE i # 1
      <4>1. i - 1 \in 1 .. Len(Tail(f)) /\ (i - 1) + 1 = i BY <1>2, <1>5, <3>3
      <4>2. Tail(f)[i - 1] = x BY <1>2, <3>1, <4>1
      <4> QED BY <4>1, <4>2
    <3> QED BY <3>2, <3>3
  <2> QED BY <2>1, <2>2 DEF Lists
<1>11. \A k \in 1 .. Len(g) : g[k].addr \in BpAddrs /\ g[k].ori_byte \in {INT3, Prog[g[k].addr]}
  <2> TAKE k \in 1 .. Len(g)
  <2>1. CASE k = 1 BY <1>9, <2>1
  <2>2. CASE k # 1 BY <1>8, <2>2 DEF Lists
  <2> QED BY <2>1, <2>2
<1>12. ASSUME NEW k \in 1 .. Len(g), g[k].addr \notin L, g[k].ori_byte # Prog[g[k].addr]
       PROVE  \E j \in 1 .. Len(g) : j > k /\ g[j].addr = g[k].addr
  <2>1. CASE k = 1
    <3>1. a \in Bp(h) BY <1>9, <1>12, <2>1
    <3>2. PICK j \in 1 .. Len(h) : h[j].addr = a BY <3>1 DEF Bp
    <3> QED BY <1>7, <1>9, <2>1, <3>2
  <2>2. CASE k # 1
    <3>1. k - 1 \in 1 .. Len(h) /\ g[k] = h[k - 1] BY <1>8, <2>2
    <3>2. PICK j \in 1 .. Len(h) : j > k - 1 /\ h[j].addr = h[k - 1].addr BY <1>12, <3>1 DEF Lists
    <3>3. j + 1 > k BY <3>2
    <3> QED BY <1>7, <3>1, <3>2, <3>3
  <2> QED BY <2>1, <2>2
<1>13. ASSUME NEW i \in 1 .. Len(g), NEW j \in 1 .. Len(g), g[i].addr = g[j].addr, i # j
       PROVE  g[i].addr \in E
  <2>1. CASE i = 1
    <3>1. j - 1 \in 1 .. Len(h) /\ g[j] = h[j - 1] BY <1>8, <1>13, <2>1
    <3>2. a \in Bp(h) BY <1>9, <1>13, <2>1, <3>1 DEF Bp
    <3> QED BY <1>9, <2>1, <3>2
  <2>2. CASE j = 1
    <3>1. i - 1 \in 1 .. Len(h) /\ g[i] = h[i - 1] BY <1>8, <1>13, <2>2
    <3>2. a \in Bp(h) BY <1>9, <1>13, <2>2, <3>1 DEF Bp
    <3> QED BY <1>9, <1>13, <2>2, <3>2
  <2>3. CASE i # 1 /\ j # 1
    <3>1. /\ i - 1 \in 1 .. Len(h) /\ j - 1 \in 1 .. Len(h) /\ i - 1 # j - 1
          /\ g[i] = h[i - 1] /\ g[j] = h[j - 1]
      BY <1>8, <1>13, <2>3
    <3>2. g[i].addr \in D BY <1>13, <3>1 DEF Lists
    <3> QED BY <3>2
  <2> QED BY <2>1, <2>2, <2>3
<1>14. Bp(g) = Bp(h) \cup {a}
  <2>1. ASSUME NEW x \in Bp(g) PROVE x \in Bp(h) \cup {a}
    <3>1. PICK k \in 1 .. Len(g) : x = g[k].addr BY DEF Bp
    <3>2. CASE k = 1 BY <1>9, <3>1, <3>2
    <3>3. CASE k # 1 BY <1>8, <3>1, <3>3 DEF Bp
    <3> QED BY <3>2, <3>3
  <2>2. ASSUME NEW x \in Bp(h) PROVE x \in Bp(g)
    <3>1. PICK k \in 1 .. Len(h) : x = h[k].addr BY DEF Bp
    <3> QED BY <1>7, <3>1 DEF Bp
  <2>3. a \in Bp(g) BY <1>9 DEF Bp
  <2> QED BY <2>1, <2>2, <2>3
<1>15. \A x \in Nos : \/ \E i \in 1 .. Len(g) : g[i].NO = x
                      \/ \E i \in 1 .. Len(Tail(f)) : Tail(f)[i] = x
  BY <1>10
<1>16. \A k \in 1 .. Len(g) : \/ g[k].addr \in L
                              \/ g[k].ori_byte = Prog[g[k].addr]
                              \/ \E j \in 1 .. Len(g) : j > k /\ g[j].addr = g[k].addr
  BY <1>12
<1>17. \A i, j \in 1 .. Len(g) : g[i].addr = g[j].addr => i = j \/ g[i].addr \in E
  BY <1>13
<1>18. Lists(g, Tail(f), E, L) BY <1>2, <1>4, <1>6, <1>11, <1>15, <1>16, <1>17 DEF Lists
<1> QED BY <1>14, <1>18 DEF g

\* Breakpoint i of h is the oldest at its address and not the only one.
Beneath(h, i) == /\ \E j \in 1 .. Len(h) : j < i /\ h[j].addr = h[i].addr
                 /\ \A j \in 1 .. Len(h) : j > i => h[j].addr # h[i].addr

LEMMA ListsRemoved ==
  ASSUME NEW h, NEW f, NEW D, NEW L, Lists(h, f, D, L), NEW i \in 1 .. Len(h),
         NEW M, L \subseteq M, Beneath(h, i) => h[i].addr \in M
  PROVE  /\ Lists(Without(h, i), <<h[i].NO>> \o f, D, M)
         /\ Bp(Without(h, i)) \subseteq Bp(h)
         /\ Bp(h) \subseteq Bp(Without(h, i)) \cup {h[i].addr}
         /\ h[i].addr \in Bp(Without(h, i)) => h[i].addr \in D
         /\ h[i].addr \notin Bp(Without(h, i)) \cup M => h[i].ori_byte = Prog[h[i].addr]
<1> DEFINE g == Without(h, i)
           t == <<h[i].NO>> \o f
<1>1. h \in Seq(BP) /\ f \in Seq(Nos) /\ Len(h) + Len(f) = NR_BP BY DEF Lists
<1>2. Len(h) \in Nat /\ Len(f) \in Nat BY <1>1, LenProperties
<1>3. h[i].NO \in Nos
  <2>1. h[i] \in BP BY <1>1
  <2> QED BY <2>1 DEF BP
<1>4. /\ g \in Seq(BP) /\ Len(g) = Len(h) - 1
      /\ \A k \in 1 .. Len(h) - 1 : g[k] = IF k < i THEN h[k] ELSE h[k + 1]
  BY <1>1, Removed
<1>5. /\ t \in Seq(Nos) /\ Len(t) = Len(f) + 1
      /\ t[1] = h[i].NO /\ \A k \in 2 .. Len(t) : t[k] = f[k - 1]
  BY <1>1, <1>3, Pushed
<1> HIDE DEF g, t
<1>6. Len(g) + Len(t) = NR_BP BY <1>1, <1>2, <1>4, <1>5
\* Where an element of h is in g, and where one of g was in h.
<1> DEFINE Now(k) == IF k < i THEN k ELSE k - 1
           Was(m) == IF m < i THEN m ELSE m + 1
<1>7. \A k \in 1 .. Len(h) : k # i => Now(k) \in 1 .. Len(g) /\ g[Now(k)] = h[k]
  <2> TAKE k \in 1 .. Len(h)
  <2>1. CASE k < i
    <3>1. k \in 1 .. Len(h) - 1 BY <1>2, <2>1
    <3> QED BY <1>4, <2>1, <3>1
  <2>2. CASE k > i
    <3>1. k - 1 \in 1 .. Len(h) - 1 /\ ~(k - 1 < i) /\ (k - 1) + 1 = k BY <1>2, <2>2
    <3>2. g[k - 1] = h[k] BY <1>4, <3>1
    <3> QED BY <1>4, <2>2, <3>1, <3>2
  <2> QED BY <2>1, <2>2
<1>8. \A m \in 1 .. Len(g) : Was(m) \in 1 .. Len(h) /\ Was(m) # i /\ g[m] = h[Was(m)]
  <2> SUFFICES ASSUME NEW m \in 1 .. Len(h) - 1
               PROVE  Was(m) \in 1 .. Len(h) /\ Was(m) # i /\ g[m] = h[Was(m)]
    BY <1>4
  <2>1. CASE m < i BY <1>2, <1>4, <2>1
  <2>2. CASE ~(m < i) BY <1>2, <1>4, <2>2
  <2> QED BY <2>1, <2>2
<1>9. \A m \in 1 .. Len(g), k \in 1 .. Len(h) : k # i /\ k > Was(m) => Now(k) > m
  BY <1>2, <1>4
<1>10. \A m, q \in 1 .. Len(g) : Was(m) = Was(q) => m = q BY <1>2, <1>4
<1> HIDE DEF Now, Was
<1>11. ASSUME NEW x \in Nos
       PROVE  \/ \E k \in 1 .. Len(g) : g[k].NO = x
              \/ \E k \in 1 .. Len(t) : t[k] = x
  <2>1. CASE \E k \in 1 .. Len(h) : h[k].NO = x
    <3>1. PICK k \in 1 .. Len(h) : h[k].NO = x BY <2>1
    <3>2. CASE k = i
      <4>1. 1 \in 1 .. Len(t) BY <1>2, <1>5
      <4> QED BY <1>5, <3>1, <3>2, <4>1
    <3>3. CASE k # i BY <1>7, <3>1, <3>3
    <3> QED BY <3>2, <3>3
  <2>2. CASE \E k \in 1 .. Len(f) : f[k] = x
    <3>1. PICK k \in 1 .. Len(f) : f[k] = x BY <2>2
    <3>2. k + 1 \in 2 .. Len(t) /\ k + 1 \in 1 .. Len(t) /\ (k + 1) - 1 = k BY <1>2, <1>5
    <3>3. t[k + 1] = f[k] BY <1>5, <3>2
    <3> QED BY <3>1, <3>2, <3>3
  <2> QED BY <2>1, <2>2 DEF Lists
<1>12. \A k \in 1 .. Len(g) : g[k].addr \in BpAddrs /\ g[k].ori_byte \in {INT3, Prog[g[k].addr]}
  BY <1>8 DEF Lists
\* The oldest at an address stays the oldest, unless it is the one removed.
<1>13. ASSUME NEW m \in 1 .. Len(g), g[m].addr \notin M, g[m].ori_byte # Prog[g[m].addr]
       PROVE  \E q \in 1 .. Len(g) : q > m /\ g[q].addr = g[m].addr
  <2> DEFINE k == Was(m)
  <2>1. k \in 1 .. Len(h) /\ k # i /\ g[m] = h[k] BY <1>8
  <2>2. h[k].addr \notin L BY <1>13, <2>1
  <2>3. PICK j \in 1 .. Len(h) : j > k /\ h[j].addr = h[k].addr BY <1>13, <2>1, <2>2 DEF Lists
  <2>4. \E l \in 1 .. Len(h) : l # i /\ l > k /\ h[l].addr = h[k].addr
    <3>1. CASE j # i BY <2>3, <3>1
    <3>2. CASE j = i
      <4>1. ~Beneath(h, i) BY <1>13, <2>1, <2>3, <3>2
      <4>2. PICK l \in 1 .. Len(h) : l > i /\ h[l].addr = h[i].addr
        BY <2>1, <2>3, <3>2, <4>1 DEF Beneath
      <4>3. l # i /\ l > k BY <2>1, <2>3, <3>2, <4>2
      <4> QED BY <2>3, <3>2, <4>2, <4>3
    <3> QED BY <3>1, <3>2
  <2>5. PICK l \in 1 .. Len(h) : l # i /\ l > k /\ h[l].addr = h[k].addr BY <2>4
  <2>6. Now(l) > m BY <1>9, <2>5
  <2> HIDE DEF k
  <2> QED BY <1>7, <2>1, <2>5, <2>6
<1>14. ASSUME NEW m \in 1 .. Len(g), NEW q \in 1 .. Len(g), g[m].addr = g[q].addr, m # q
       PROVE  g[m].addr \in D
  <2>1. /\ Was(m) \in 1 .. Len(h) /\ Was(q) \in 1 .. Len(h) /\ Was(m) # Was(q)
        /\ g[m] = h[Was(m)] /\ g[q] = h[Was(q)]
    BY <1>8, <1>10, <1>14
  <2> QED BY <1>14, <2>1 DEF Lists
<1>15. Bp(g) \subseteq Bp(h)
  <2> SUFFICES ASSUME NEW m \in 1 .. Len(g) PROVE g[m].addr \in Bp(h) BY DEF Bp
  <2> QED BY <1>8 DEF Bp
<1>16. \A k \in 1 .. Len(h) : k # i => h[k].addr \in Bp(g)
  <2> TAKE k \in 1 .. Len(h)
  <2>1. CASE k # i
    <3>1. Now(k) \in 1 .. Len(g) /\ g[Now(k)] = h[k] BY <1>7, <2>1
    <3> QED BY <3>1 DEF Bp
  <2> QED BY <2>1
<1>17. Bp(h) \subseteq Bp(g) \cup {h[i].addr}
  <2> SUFFICES ASSUME NEW k \in 1 .. Len(h) PROVE h[k].addr \in Bp(g) \cup {h[i].addr} BY DEF Bp
  <2> QED BY <1>16
<1>18. h[i].addr \in Bp(g) => h[i].addr \in D
  <2> SUFFICES ASSUME NEW m \in 1 .. Len(g), g[m].addr = h[i].addr PROVE h[i].addr \in D BY DEF Bp
  <2> QED BY <1>8 DEF Lists
<1>19. ASSUME h[i].addr \notin Bp(g), h[i].addr \notin M PROVE h[i].ori_byte = Prog[h[i].addr]
  <2>1. \A j \in 1 .. Len(h) : j > i => h[j].addr # h[i].addr BY <1>16, <1>19
  <2> QED BY <1>19, <2>1 DEF Lists
<1>20. \A x \in Nos : \/ \E k \in 1 .. Len(g) : g[k].NO = x
                      \/ \E k \in 1 .. Len(t) : t[k] = x
  BY <1>11
<1>21. \A m \in 1 .. Len(g) : \/ g[m].addr \in M
                              \/ g[m].ori_byte = Prog[g[m].addr]
                              \/ \E q \in 1 .. Len(g) : q > m /\ g[q].addr = g[m].addr
  BY <1>13
<1>22. \A m, q \in 1 .. Len(g) : g[m].addr = g[q].addr => m = q \/ g[m].addr \in D
  BY <1>14
<1>23. Lists(g, t, D, M) BY <1>4, <1>5, <1>6, <1>12, <1>20, <1>21, <1>22 DEF Lists
<1> QED BY <1>15, <1>17, <1>18, <1>19, <1>23 DEF g, t

LEMMA ListsEmptied ==
  ASSUME NEW h, NEW f, NEW D, NEW L, Lists(h, f, D, L), NEW M,
         NEW t, t = [i \in DOMAIN h |-> h[i].NO] \o f
  PROVE  Lists(<<>>, t, D, M) /\ Bp(<<>>) = {}
<1> DEFINE u == [i \in DOMAIN h |-> h[i].NO]
<1>1. h \in Seq(BP) /\ f \in Seq(Nos) /\ Len(h) + Len(f) = NR_BP BY DEF Lists
<1>2. Len(h) \in Nat /\ Len(f) \in Nat /\ DOMAIN h = 1 .. Len(h) BY <1>1, LenProperties
<1>3. \A k \in 1 .. Len(h) : h[k].NO \in Nos
  <2>1. \A k \in 1 .. Len(h) : h[k] \in BP BY <1>1
  <2> QED BY <2>1 DEF BP
<1>4. u \in Seq(Nos) /\ Len(u) = Len(h) /\ \A k \in 1 .. Len(h) : u[k] = h[k].NO
  BY <1>2, <1>3
<1> HIDE DEF u
<1>5. /\ t \in Seq(Nos) /\ Len(t) = Len(h) + Len(f)
      /\ \A k \in 1 .. Len(h) + Len(f) : t[k] = IF k <= Len(h) THEN u[k] ELSE f[k - Len(h)]
  <2>1. t = u \o f BY DEF u
  <2>2. /\ u \o f \in Seq(Nos) /\ Len(u \o f) = Len(u) + Len(f)
        /\ \A k \in 1 .. Len(u) + Len(f) : (u \o f)[k] = IF k <= Len(u) THEN u[k] ELSE f[k - Len(u)]
    BY <1>1, <1>4, ConcatProperties
  <2> QED BY <1>4, <2>1, <2>2
<1>6. ASSUME NEW x \in Nos PROVE \E k \in 1 .. Len(t) : t[k] = x
  <2>1. CASE \E k \in 1 .. Len(h) : h[k].NO = x
    <3>1. PICK k \in 1 .. Len(h) : h[k].NO = x BY <2>1
    <3>2. k \in 1 .. Len(h) + Len(f) /\ k <= Len(h) BY <1>2
    <3> QED BY <1>4, <1>5, <3>1, <3>2
  <2>2. CASE \E k \in 1 .. Len(f) : f[k] = x
    <3>1. PICK k \in 1 .. Len(f) : f[k] = x BY <2>2
    <3>2. /\ Len(h) + k \in 1 .. Len(h) + Len(f) /\ ~(Len(h) + k <= Len(h))
          /\ (Len(h) + k) - Len(h) = k
      BY <1>2
    <3>3. t[Len(h) + k] = f[k] BY <1>5, <3>2
    <3> QED BY <1>5, <3>1, <3>2, <3>3
  <2> QED BY <2>1, <2>2 DEF Lists
<1>7. <<>> \in Seq(BP) /\ Len(<<>>) = 0 /\ 1 .. 0 = {} OBVIOUS
<1>8. Len(<<>>) + Len(t) = NR_BP BY <1>1, <1>2, <1>5, <1>7
<1> QED BY <1>5, <1>6, <1>7, <1>8 DEF Lists, Bp

-----------------------------------------------------------------------------
(* The commands.                                                           *)

LEMMA Opcodes ==
  /\ \A a \in Addr : Prog[a] \in Op /\ a # NoAddr
  /\ \A a \in BpAddrs : a \in Addr /\ Prog[a] # INT3 /\ Prog[a] # "iret"
  /\ INT3 \in Op /\ INT3 # "iret" /\ INT3 # "trap"
BY DebuggerAssumption DEF Op, INT3, NoAddr

LEMMA SetStep ==
  ASSUME IInv, NEW a \in BpAddrs, SetBreakpoint(a)
  PROVE  IInv'
<1> USE DEF IInv
<1>1. a \in Addr /\ a # NoAddr BY Opcodes
<1>2. CASE free_ = <<>>
  <2>1. /\ pc = "ui" /\ pc' = "aborted"
        /\ UNCHANGED <<mem, head, free_, history, overlap, nemu_state, n, hit_break_rerun, guest>>
    BY <1>2 DEF SetBreakpoint
  <2> QED BY <2>1 DEF Code, Machine, Armed, Waiting, history, overlap, guest
<1>3. CASE free_ # <<>>
  <2>1. /\ pc = "ui"
        /\ head' = <<New(free_, a, mem[a])>> \o head /\ free_' = Tail(free_)
        /\ mem' = [mem EXCEPT ![a] = INT3]
        /\ stopped' = IF stopped = a THEN NoAddr ELSE stopped
        /\ doubled' = IF At(a) # {} THEN doubled \cup {a} ELSE doubled
        /\ UNCHANGED <<pc, interrupted, forgotten, lost, nemu_state, n, hit_break_rerun,
                       eip, ret, intr>>
    BY <1>3 DEF SetBreakpoint, FreeAfterNew, OriByte, New, guest
  <2>2. /\ doubled \subseteq doubled' /\ doubled' \subseteq doubled \cup {a}
        /\ a \in Bp(head) => a \in doubled'
    BY <2>1, AtBp
  <2>3. Lists(head', free_', doubled', lost') /\ Bp(head') = Bp(head) \cup {a}
    <3>1. mem[a] \in {INT3, Prog[a]} /\ (a \notin Bp(head) \cup lost => mem[a] = Prog[a])
      BY <1>1 DEF Code
    <3> DEFINE E == IF a \in Bp(head) THEN doubled \cup {a} ELSE doubled
               byte == mem[a]
    <3>2. /\ byte = INT3 \/ byte = Prog[a]
          /\ a \in Bp(head) \/ a \in lost \/ byte = Prog[a]
          /\ Lists(head, free_, doubled, lost)
      BY <3>1
    <3>3. doubled' = E BY <2>1, AtBp
    <3> HIDE DEF byte
    <3>4. /\ Lists(<<New(free_, a, byte)>> \o head, Tail(free_), E, lost)
          /\ Bp(<<New(free_, a, byte)>> \o head) = Bp(head) \cup {a}
      BY <1>3, <3>2, ListsNew
    <3> QED BY <2>1, <3>3, <3>4 DEF byte
  <2>4. \A b \in Addr : mem'[b] = IF b = a THEN INT3 ELSE mem[b] BY <1>1, <2>1 DEF Code
  <2>5. Code'
    <3>1. mem' \in [Addr -> Op] BY <2>1, Opcodes DEF Code
    <3> QED BY <2>1, <2>3, <2>4, <3>1 DEF Code
  <2>6. Machine' BY <1>1, <2>1, <2>2 DEF Machine
  <2>7. Armed'
    <3> SUFFICES ASSUME ~forgotten', NEW b \in Bp(head') \ doubled', mem'[b] # INT3
                 PROVE  /\ b = stopped'
                        /\ \/ nemu_state' \in {"BREAK", "STOP"}
                           \/ pc' = "exec_inst" /\ hit_break_rerun'
      BY DEF Armed
    <3>1. b # a BY <1>1, <2>4
    <3>2. b \in Bp(head) \ doubled BY <2>2, <2>3, <3>1
    <3>3. b \in Addr BY <3>2, AtBp, Opcodes
    <3>4. mem[b] # INT3 BY <2>4, <3>1, <3>3
    <3>5. b = stopped /\ nemu_state \in {"BREAK", "STOP"} BY <2>1, <3>2, <3>4 DEF Armed
    <3> QED BY <2>1, <3>1, <3>5
  <2>8. Waiting'
    <3>1. eip \in Addr BY DEF Machine
    <3> QED BY <2>1, <2>2, <2>4, <3>1 DEF Waiting
  <2> QED BY <2>3, <2>5, <2>6, <2>7, <2>8
<1> QED BY <1>2, <1>3

\* Breakpoints go, and what they saved comes back under them: what both ways of
\* deleting have in common.
LEMMA RestoreStep ==
  ASSUME IInv, pc = "ui", UNCHANGED <<monitor, guest, history, doubled>>,
         lost' \subseteq doubled,
         Lists(head', free_', doubled', lost'), Bp(head') \subseteq Bp(head), Code',
         \A a \in Addr \ doubled : \/ mem'[a] = mem[a]
                                   \/ a \in Bp(head) \ Bp(head') /\ mem'[a] = Prog[a]
  PROVE  IInv'
<1> USE DEF IInv
<1>1. Machine' BY DEF Machine, monitor, guest, history
<1>2. \A b \in Bp(head) : b \in Addr /\ Prog[b] # INT3 BY AtBp, Opcodes
<1>3. Armed' BY <1>2 DEF Armed, monitor, history
<1>4. Waiting'
  <2>1. eip \in Addr BY DEF Machine
  <2>2. mem[eip] # INT3 => mem'[eip] # INT3 \/ eip \in doubled BY <1>2, <2>1
  <2> QED BY <2>2 DEF Waiting, monitor, guest, history
<1> QED BY <1>1, <1>3, <1>4

\* Whoever lies under another is where one was set over another.
LEMMA BeneathDoubled ==
  ASSUME Lists(head, free_, doubled, lost), NEW i \in 1 .. Len(head)
  PROVE  /\ Under(i) <=> Beneath(head, i)
         /\ Under(i) => head[i].addr \in doubled
<1>1. DOMAIN head = 1 .. Len(head) BY DEF Lists
<1>2. Under(i) <=> Beneath(head, i) BY <1>1 DEF Under, Beneath
<1>3. ASSUME Under(i) PROVE head[i].addr \in doubled
  <2>1. PICK j \in 1 .. Len(head) : j < i /\ head[j].addr = head[i].addr BY <1>1, <1>3 DEF Under
  <2>2. j # i BY <2>1
  <2> QED BY <2>1, <2>2 DEF Lists
<1> QED BY <1>2, <1>3

LEMMA DeleteStep ==
  ASSUME IInv, NEW NO \in Nos, DeleteBreakpoint(NO)
  PROVE  IInv'
<1>1. DOMAIN head = 1 .. Len(head) BY DEF IInv, Lists
<1>2. PICK i \in 1 .. Len(head) :
        /\ head[i].NO = NO
        /\ head' = SubSeq(head, 1, i - 1) \o SubSeq(head, i + 1, Len(head))
        /\ mem' = [mem EXCEPT ![head[i].addr] = head[i].ori_byte]
        /\ lost' = IF Under(i) THEN lost \cup {head[i].addr} ELSE lost
  BY <1>1 DEF DeleteBreakpoint
<1>3. /\ pc = "ui" /\ UNCHANGED <<monitor, guest, history, doubled>>
      /\ free_' = <<head[i].NO>> \o free_
  BY <1>2 DEF DeleteBreakpoint
<1>4. head' = Without(head, i) BY <1>2 DEF Without
<1> DEFINE a == head[i].addr
<1>5. lost \subseteq lost' /\ (Beneath(head, i) => a \in lost') /\ lost' \subseteq doubled
  BY <1>2, BeneathDoubled DEF IInv, Machine
<1>6. /\ Lists(head', free_', doubled', lost')
      /\ Bp(head') \subseteq Bp(head) /\ Bp(head) \subseteq Bp(head') \cup {a}
      /\ a \in Bp(head') => a \in doubled
      /\ a \notin Bp(head') \cup lost' => head[i].ori_byte = Prog[a]
  <2>1. /\ Lists(Without(head, i), <<head[i].NO>> \o free_, doubled, lost')
        /\ Bp(Without(head, i)) \subseteq Bp(head)
        /\ Bp(head) \subseteq Bp(Without(head, i)) \cup {a}
        /\ a \in Bp(Without(head, i)) => a \in doubled
        /\ a \notin Bp(Without(head, i)) \cup lost' => head[i].ori_byte = Prog[a]
    BY <1>5, ListsRemoved DEF IInv
  <2> QED BY <1>3, <1>4, <2>1
<1>7. a \in BpAddrs /\ head[i].ori_byte \in {INT3, Prog[a]} BY DEF IInv, Lists
<1>8. a \in Bp(head) /\ a \in Addr BY <1>7, Opcodes DEF Bp
<1> HIDE DEF a
<1>9. \A b \in Addr : mem'[b] = IF b = a THEN head[i].ori_byte ELSE mem[b]
  BY <1>2, <1>8 DEF IInv, Code, a
<1>10. Code'
  <2>1. mem' \in [Addr -> Op]
    <3>1. head[i].ori_byte \in Op BY <1>7, <1>8, Opcodes
    <3> QED BY <1>2, <3>1 DEF IInv, Code
  <2>2. ASSUME NEW b \in Addr
        PROVE  mem'[b] = Prog[b] \/ (b \in Bp(head') \cup lost' /\ mem'[b] = INT3)
    <3>1. CASE b = a BY <1>6, <1>7, <1>9, <3>1
    <3>2. CASE b # a BY <1>5, <1>6, <1>9, <3>2 DEF IInv, Code
    <3> QED BY <3>1, <3>2
  <2> QED BY <2>1, <2>2 DEF Code
<1>11. \A b \in Addr \ doubled : \/ mem'[b] = mem[b]
                                 \/ b \in Bp(head) \ Bp(head') /\ mem'[b] = Prog[b]
  <2> TAKE b \in Addr \ doubled
  <2>1. CASE b = a BY <1>5, <1>6, <1>8, <1>9, <2>1
  <2>2. CASE b # a BY <1>9, <2>2
  <2> QED BY <2>1, <2>2
<1> QED BY <1>3, <1>5, <1>6, <1>10, <1>11, RestoreStep

LEMMA DeleteAllStep ==
  ASSUME IInv, DeleteAll
  PROVE  IInv'
<1>1. /\ pc = "ui" /\ UNCHANGED <<monitor, guest, history, doubled>>
      /\ mem' = AllRestored /\ head' = <<>>
      /\ free_' = [i \in DOMAIN head |-> head[i].NO] \o free_
      /\ lost' = lost \cup {head[i].addr : i \in {j \in DOMAIN head : Under(j)}}
  BY DEF DeleteAll
<1>2. DOMAIN head = 1 .. Len(head) /\ Len(head) \in Nat BY LenProperties DEF IInv, Lists
<1>3. lost \subseteq lost' /\ lost' \subseteq doubled
  BY <1>1, <1>2, BeneathDoubled DEF IInv, Machine
<1>4. Lists(head', free_', doubled', lost') /\ Bp(head') = {} BY <1>1, ListsEmptied DEF IInv
<1>5. \A a \in Addr : mem'[a] = IF a \in Bp(head) THEN head[First(At(a))].ori_byte ELSE mem[a]
  BY <1>1, AtBp DEF AllRestored, IInv
\* The newest at an address has saved the program's byte, or another is under it.
<1>6. ASSUME NEW a \in Bp(head), head[First(At(a))].ori_byte # Prog[a]
      PROVE  a \in lost'
  <2> DEFINE k == First(At(a))
  <2>1. k \in 1 .. Len(head) /\ head[k].addr = a BY AtBp DEF IInv
  <2> HIDE DEF k
  <2>2. CASE a \in lost BY <1>3, <2>2
  <2>3. CASE a \notin lost
    <3>1. PICK l \in 1 .. Len(head) : l > k /\ head[l].addr = a
      BY <1>6, <2>1, <2>3 DEF IInv, Lists, k
    <3> DEFINE T == {x \in 1 .. Len(head) : head[x].addr = a}
    <3>2. l \in T BY <3>1
    <3>3. PICK j \in T : \A y \in T : y <= j BY <1>2, <3>2, Greatest
    <3>4. k < j /\ j \in 1 .. Len(head) /\ head[j].addr = a BY <2>1, <3>1, <3>2, <3>3
    <3>5. \A y \in 1 .. Len(head) : y > j => head[y].addr # a BY <3>3
    <3>6. Under(j) BY <1>2, <2>1, <3>4, <3>5 DEF Under
    <3> QED BY <1>1, <1>2, <3>4, <3>6
  <2> QED BY <2>2, <2>3
<1>7. \A a \in Bp(head) : /\ head[First(At(a))].ori_byte \in {INT3, Prog[a]}
                          /\ a \notin doubled => head[First(At(a))].ori_byte = Prog[a]
                          /\ a \in Addr
  BY AtBp, Opcodes DEF IInv, Machine
<1>8. Code'
  <2>1. \A a \in Addr : mem'[a] \in Op BY <1>5, <1>7, Opcodes DEF IInv, Code
  <2>2. mem' = [a \in Addr |-> mem'[a]] BY <1>1 DEF AllRestored
  <2>3. mem' \in [Addr -> Op] BY <2>1, <2>2
  <2>4. ASSUME NEW a \in Addr PROVE mem'[a] = Prog[a] \/ (a \in lost' /\ mem'[a] = INT3)
    <3>1. CASE a \in Bp(head) BY <1>5, <1>6, <1>7, <3>1
    <3>2. CASE a \notin Bp(head) BY <1>3, <1>5, <3>2 DEF IInv, Code
    <3> QED BY <3>1, <3>2
  <2> QED BY <2>3, <2>4 DEF Code
<1>9. \A a \in Addr \ doubled : \/ mem'[a] = mem[a]
                                \/ a \in Bp(head) \ Bp(head') /\ mem'[a] = Prog[a]
  BY <1>4, <1>5, <1>7
<1> QED BY <1>1, <1>3, <1>4, <1>8, <1>9, RestoreStep

LEMMA ExecStep ==
  ASSUME IInv, NEW k \in Steps \cup {Forever}, Exec(k)
  PROVE  IInv'
<1> USE DEF IInv
<1>1. /\ pc = "ui" /\ pc' = "exec_inst" /\ nemu_state # "STOP" /\ nemu_state' = "RUN"
      /\ hit_break_rerun' = (nemu_state = "BREAK") /\ n' = k
      /\ UNCHANGED <<mem, head, free_, eip, ret, intr, stopped, interrupted, forgotten,
                     doubled, lost>>
  BY DEF Exec, Rerun, guest, history, overlap
<1>2. k \in Nat \cup {Forever} /\ k # 0 BY DebuggerAssumption DEF Forever
<1>3. Code' BY <1>1 DEF Code
<1>4. Machine' BY <1>1, <1>2 DEF Machine
<1>5. Armed' BY <1>1 DEF Armed
<1>6. Waiting' BY <1>1 DEF Waiting
<1> QED BY <1>1, <1>3, <1>4, <1>5, <1>6

-----------------------------------------------------------------------------
(* The loop of exec().                                                     *)

LEMMA InstStep ==
  ASSUME IInv, ExecInst
  PROVE  IInv'
<1> USE DEF IInv
<1> DEFINE op == mem[eip]
           hit == op = INT3 /\ eip \in Bp(head)
           m == IF hit_break_rerun THEN Resumed(mem) ELSE mem
<1>1. /\ pc = "exec_inst" /\ pc' = "do_devices" /\ n # 0 /\ nemu_state = "RUN"
      /\ eip \in Addr /\ eip # NoAddr /\ mem \in [Addr -> Op]
  BY Opcodes DEF ExecInst, Machine, Code
<1> DEFINE byte == head[First(At(eip))].ori_byte
<1>2. eip \in Bp(head) => /\ byte \in {INT3, Prog[eip]} /\ Prog[eip] # INT3
                          /\ eip \notin doubled => byte = Prog[eip]
  BY AtBp, Opcodes DEF Machine
<1>3. /\ nemu_state' = CASE op = INT3   -> "BREAK"
                         [] op = "trap" -> "STOP"
                         [] OTHER       -> "RUN"
      /\ eip' = IF hit THEN eip ELSE IF op = "iret" THEN ret ELSE Next_eip[eip]
      /\ ret' = IF op = "iret" THEN NoAddr ELSE ret
      /\ mem' = IF hit THEN [m EXCEPT ![eip] = byte] ELSE m
      /\ stopped' = IF hit THEN eip ELSE IF stopped = eip THEN NoAddr ELSE stopped
      /\ interrupted' = IF hit THEN FALSE ELSE interrupted
      /\ forgotten' = (forgotten /\ ~hit_break_rerun)
      /\ hit_break_rerun' = FALSE
      /\ n' = IF n = Forever THEN Forever ELSE n - 1
      /\ UNCHANGED <<head, free_, intr, doubled, lost>>
  <2>1. At(eip) # {} <=> eip \in Bp(head) BY AtBp
  <2> QED BY <2>1 DEF ExecInst, Fetched, overlap
<1>4. \A a \in Addr : m[a] = IF hit_break_rerun /\ a \in Bp(head) THEN INT3 ELSE mem[a]
  BY AtBp DEF Resumed
<1>5. m \in [Addr -> Op]
  <2>1. \A a \in Addr : m[a] \in Op BY <1>1, <1>4, Opcodes
  <2>2. m = [a \in Addr |-> m[a]] BY <1>1 DEF Resumed
  <2> HIDE DEF m
  <2> QED BY <2>1, <2>2
<1>6. \A a \in Addr : mem'[a] = IF hit /\ a = eip THEN byte
                             ELSE IF hit_break_rerun /\ a \in Bp(head) THEN INT3 ELSE mem[a]
  BY <1>1, <1>3, <1>4, <1>5
<1>7. mem' \in [Addr -> Op]
  <2>1. eip \in Bp(head) => byte \in Op BY <1>1, <1>2, Opcodes
  <2> QED BY <1>3, <1>5, <2>1
\* What is fetched is the program, or INT3 where the program has a plain
\* instruction.
<1>8. op = Prog[eip] \/ (op = INT3 /\ Prog[eip] # "iret")
  <2>1. Bp(head) \subseteq BpAddrs /\ lost \subseteq BpAddrs BY AtBp DEF Machine
  <2> QED BY <1>1, <2>1, Opcodes DEF Code
<1> HIDE DEF byte
<1> HIDE DEF m
<1>9. Lists(head', free_', doubled', lost') BY <1>3
<1>10. Code' BY <1>2, <1>3, <1>6, <1>7 DEF Code
<1>11. Machine'
  <2>1. n' \in Nat \cup {Forever} BY <1>1, <1>3 DEF Machine, Forever
  <2>2. stopped' \in Addr \cup {NoAddr} /\ interrupted' \in BOOLEAN /\ forgotten' \in BOOLEAN
    BY <1>1, <1>3 DEF Machine
  <2>3. nemu_state' \in {"READY", "RUN", "BREAK", "STOP"} BY <1>3
  <2>4. /\ eip' \in Addr /\ ret' \in Addr \cup {NoAddr}
        /\ IF ret' = NoAddr THEN eip' \notin H ELSE eip' \in H /\ ret' \notin H
    <3>1. CASE hit BY <1>3, <3>1, Opcodes DEF Machine
    <3>2. CASE ~hit /\ op = "iret"
      <4>1. Prog[eip] = "iret" BY <1>8, <3>2, Opcodes
      <4>2. eip \in H BY <1>1, <4>1, HandlerCode DEF Apart
      <4>3. ret \in Addr /\ ret \notin H BY <4>2 DEF Machine
      <4> QED BY <1>3, <3>2, <4>3
    <3>3. CASE ~hit /\ op # "iret"
      <4>1. Prog[eip] # "iret" BY <1>8, <3>3, Opcodes
      <4>2. Next_eip[eip] \in H <=> eip \in H BY <1>1, <4>1, HandlerCode DEF Apart
      <4>3. Next_eip[eip] \in Addr BY <1>1, DebuggerAssumption
      <4> QED BY <1>3, <3>3, <4>2, <4>3 DEF Machine
    <3> QED BY <3>1, <3>2, <3>3
  <2>5. intr' \in {"none", "timer", "keyboard"} /\ hit_break_rerun' \in BOOLEAN
    BY <1>3 DEF Machine
  <2> QED BY <1>1, <1>3, <2>1, <2>2, <2>3, <2>4, <2>5 DEF Machine
<1>12. Armed'
  <2> SUFFICES ASSUME ~forgotten', NEW a \in Bp(head) \ doubled, mem'[a] # INT3
               PROVE  a = stopped' /\ nemu_state' \in {"BREAK", "STOP"}
    BY <1>3 DEF Armed
  <2>1. a \in Addr BY AtBp, Opcodes
  <2>2. hit /\ a = eip
    <3>1. ~hit_break_rerun => ~forgotten BY <1>3 DEF Machine
    <3> QED BY <1>1, <1>6, <2>1, <3>1 DEF Armed
  <2> QED BY <1>3, <2>2
<1>13. Waiting'
  <2>1. CASE hit
    <3>1. stopped' = eip' /\ (mem'[eip'] # INT3 \/ eip' \in doubled')
      BY <1>1, <1>2, <1>3, <1>6, <2>1
    <3>2. nemu_state' = "BREAK" BY <1>3, <2>1, Opcodes
    <3>3. intr' # "timer" \/ ret' # NoAddr BY <1>1, <1>3, <2>1, Opcodes DEF Waiting
    <3> QED BY <1>1, <3>1, <3>2, <3>3 DEF Waiting
  <2>2. CASE ~hit
    <3>1. stopped' # NoAddr => interrupted' BY <1>1, <1>3, <2>2 DEF Waiting, Machine
    <3> QED BY <1>1, <3>1 DEF Waiting
  <2> QED BY <2>1, <2>2
<1> QED BY <1>9, <1>10, <1>11, <1>12, <1>13

LEMMA DevicesStep ==
  ASSUME IInv, DoDevices
  PROVE  IInv'
<1> USE DEF IInv
<1>1. /\ pc = "do_devices" /\ pc' = "do_intr"
      /\ \/ UNCHANGED <<intr, nemu_state>>
         \/ nemu_state = "RUN" /\ intr' \in {intr, "timer"} /\ UNCHANGED nemu_state
         \/ intr' = "keyboard" /\ UNCHANGED nemu_state
         \/ nemu_state' = "STOP" /\ UNCHANGED intr
      /\ UNCHANGED <<mem, head, free_, n, hit_break_rerun, eip, ret,
                     stopped, interrupted, forgotten, doubled, lost>>
  BY DEF DoDevices, TimerMayRaise, history, overlap
<1>2. Code' BY <1>1 DEF Code
<1>3. Machine' BY <1>1 DEF Machine
<1>4. Armed' BY <1>1 DEF Armed
<1>5. Waiting' BY <1>1 DEF Waiting
<1> QED BY <1>1, <1>2, <1>3, <1>4, <1>5

LEMMA IntrStep ==
  ASSUME IInv, DoIntr
  PROVE  IInv'
<1> USE DEF IInv
<1>1. /\ pc = "do_intr"
      /\ \/ /\ intr # "none" /\ ret = NoAddr
            /\ ret' = eip /\ eip' = Handler /\ intr' = "none"
            /\ interrupted' = (interrupted \/ intr = "keyboard")
         \/ /\ ~(intr # "none" /\ ret = NoAddr)
            /\ UNCHANGED <<eip, ret, intr, interrupted>>
      /\ \/ nemu_state = "RUN" /\ n # 0 /\ pc' = "exec_inst" /\ UNCHANGED <<nemu_state, forgotten>>
         \/ /\ ~(nemu_state = "RUN" /\ n # 0) /\ pc' = "ui"
            /\ nemu_state' = IF nemu_state # "STOP" /\ n = 0 THEN "READY" ELSE nemu_state
            /\ forgotten' = (forgotten \/ (nemu_state = "BREAK" /\ n = 0 /\ stopped # NoAddr))
      /\ UNCHANGED <<mem, head, free_, n, hit_break_rerun, stopped, doubled, lost>>
  BY DEF DoIntr, StateAtEnd, guest, overlap
<1>2. Handler \in Addr /\ Handler \in H /\ \A a \in Addr : a # NoAddr
  BY HandlerCode, Opcodes, DebuggerAssumption DEF Apart
<1>3. Code' BY <1>1 DEF Code
<1>4. Machine' BY <1>1, <1>2 DEF Machine
<1>5. Armed'
  <2> SUFFICES ASSUME ~forgotten', NEW b \in Bp(head) \ doubled, mem[b] # INT3
               PROVE  /\ b = stopped
                      /\ \/ nemu_state' \in {"BREAK", "STOP"}
                         \/ pc' = "exec_inst" /\ hit_break_rerun'
    BY <1>1 DEF Armed
  <2>1. b \in Addr /\ b # NoAddr BY AtBp, Opcodes
  <2>2. ~forgotten BY <1>1 DEF Machine
  <2>3. b = stopped /\ nemu_state \in {"BREAK", "STOP"} BY <1>1, <2>2 DEF Armed
  <2> QED BY <1>1, <2>1, <2>3
<1>6. Waiting'
  <2>1. pc' \in {"ui", "exec_inst"} /\ (intr' # "none" => ret' # NoAddr) BY <1>1
  <2>2. ASSUME stopped' # NoAddr, ~interrupted'
        PROVE  stopped' = eip' /\ (mem'[eip'] # INT3 \/ eip' \in doubled')
    <3>1. ~interrupted /\ ~(intr = "keyboard" /\ ret = NoAddr)
      <4>1. ~interrupted BY <1>1, <2>2 DEF Machine
      <4>2. CASE intr # "none" /\ ret = NoAddr
        <5>1. interrupted' = (interrupted \/ intr = "keyboard") BY <1>1, <4>2
        <5> QED BY <2>2, <4>1, <5>1
      <4>3. CASE ~(intr # "none" /\ ret = NoAddr) BY <4>1, <4>3
      <4> QED BY <4>2, <4>3
    <3>2. stopped = eip /\ (mem[eip] # INT3 \/ eip \in doubled) /\ (intr # "timer" \/ ret # NoAddr)
      BY <1>1, <2>2, <3>1 DEF Waiting
    <3>3. ~(intr # "none" /\ ret = NoAddr) BY <3>1, <3>2 DEF Machine
    <3> QED BY <1>1, <3>2, <3>3
  <2>3. pc' \notin {"do_devices", "do_intr"} BY <2>1
  <2> QED BY <2>1, <2>2, <2>3 DEF Waiting
<1> QED BY <1>1, <1>3, <1>4, <1>5, <1>6

-----------------------------------------------------------------------------

LEMMA InitIInv == Init => IInv
<1> SUFFICES ASSUME Init PROVE IInv OBVIOUS
<1>1. NR_BP \in Nat /\ NR_BP # 0 /\ Entry \in Addr /\ Entry \notin H /\ Prog \in [Addr -> Op]
  BY DebuggerAssumption, HandlerCode DEF Apart
<1>2. free_ \in Seq(Nos) /\ Len(free_) = NR_BP /\ \A i \in 1 .. NR_BP : free_[i] = i - 1
  BY <1>1 DEF Init, Nos
<1>3. <<>> \in Seq(BP) /\ Len(<<>>) = 0 /\ 1 .. 0 = {} OBVIOUS
<1>4. \A x \in Nos : \E i \in 1 .. Len(free_) : free_[i] = x
  <2> TAKE x \in Nos
  <2>1. x + 1 \in 1 .. NR_BP /\ (x + 1) - 1 = x BY <1>1 DEF Nos
  <2> QED BY <1>2, <2>1
<1>5. Lists(head, free_, doubled, lost) BY <1>1, <1>2, <1>3, <1>4 DEF Init, Lists
<1>6. Bp(head) = {} BY <1>3 DEF Init, Bp
<1>7. Code BY <1>1 DEF Init, Code
<1>8. Machine BY <1>1 DEF Init, Machine
<1>9. Armed BY <1>6 DEF Armed
<1>10. Waiting BY DEF Init, Waiting
<1> QED BY <1>5, <1>7, <1>8, <1>9, <1>10 DEF IInv

LEMMA Inductive == IInv /\ [Next]_vars => IInv'
<1> SUFFICES ASSUME IInv, [Next]_vars PROVE IInv' OBVIOUS
<1>1. CASE \E a \in BpAddrs : SetBreakpoint(a) BY <1>1, SetStep
<1>2. CASE \E NO \in Nos : DeleteBreakpoint(NO) BY <1>2, DeleteStep
<1>3. CASE DeleteAll BY <1>3, DeleteAllStep
<1>4. CASE \E k \in Steps \cup {Forever} : Exec(k) BY <1>4, ExecStep
<1>5. CASE ExecInst BY <1>5, InstStep
<1>6. CASE DoDevices BY <1>6, DevicesStep
<1>7. CASE DoIntr BY <1>7, IntrStep
<1>8. CASE UNCHANGED vars
  BY <1>8 DEF vars, IInv, Code, Machine, Armed, Waiting
<1> QED BY <1>1, <1>2, <1>3, <1>4, <1>5, <1>6, <1>7, <1>8 DEF Next, Command, Loop

\* The lists, the code and the two facts about stopping hold in every state
\* the monitor reaches.
THEOREM Invariance == Spec => []IInv
BY InitIInv, Inductive, PTL DEF Spec

\* The variables keep their types and each of the NR_BP breakpoints is in one
\* of the lists head and free_ (breakpoint.c:17), for a pool of any size.
THEOREM Partition == Spec => []PoolPartition
<1>1. IInv => PoolPartition
  <2> SUFFICES ASSUME IInv PROVE PoolPartition OBVIOUS
  <2>1. /\ head \in Seq(BP) /\ free_ \in Seq(Nos) /\ Len(head) + Len(free_) = NR_BP
        /\ \A x \in Nos :
             \/ \E i \in 1 .. Len(head) : head[i].NO = x
             \/ \E i \in 1 .. Len(free_) : free_[i] = x
    BY DEF IInv, Lists
  <2>2. /\ Len(head) \in Nat /\ DOMAIN head = 1 .. Len(head)
        /\ Len(free_) \in Nat /\ DOMAIN free_ = 1 .. Len(free_)
    BY <2>1, LenProperties
  <2>3. Len(head) <= NR_BP /\ Len(free_) <= NR_BP BY <2>1, <2>2
  <2>4. TypeOK BY <2>1, <2>3 DEF IInv, Code, Machine, TypeOK
  <2>5. \A i \in 1 .. Len(head) : head[i].NO \in Nos
    <3>1. \A i \in 1 .. Len(head) : head[i] \in BP BY <2>1
    <3> QED BY <3>1 DEF BP
  <2>6. \A i \in 1 .. Len(free_) : free_[i] \in Nos BY <2>1
  <2>7. {head[i].NO : i \in DOMAIN head} \cup {free_[i] : i \in DOMAIN free_} = Nos
    BY <2>1, <2>2, <2>5, <2>6
  <2> QED BY <2>1, <2>4, <2>7 DEF PoolPartition
<1> QED BY <1>1, Invariance, PTL

\* The monitor can put the program back as it was built, deleting from the newest
\* breakpoint to the oldest, unless the oldest of several at one address was
\* deleted first (breakpoint.c:57, 86, 118).
THEOREM Recover == Spec => []Recoverable
<1>1. IInv => Recoverable
  <2> SUFFICES ASSUME IInv PROVE Recoverable OBVIOUS
  <2>1. \A a \in Addr \ lost : At(a) = {} => mem[a] = Prog[a] BY AtBp DEF IInv, Code
  <2>2. DOMAIN head = 1 .. Len(head) BY DEF IInv, Lists
  <2> QED BY <2>1, <2>2 DEF Recoverable, IInv, Lists
<1> QED BY <1>1, Invariance, PTL

\* exec() stops once per arrival at a breakpoint, unless a keyboard interrupt
\* has been taken since the first stop (cpu.c:93, timer.c:13) or another
\* breakpoint was set at that address.
THEOREM StopsOnce == Spec => OneStopPerArrival
<1>1. ASSUME IInv, [Next]_vars
      PROVE  [pc = "exec_inst" /\ stopped = eip /\ nemu_state' = "BREAK"
                => interrupted \/ eip \in doubled]_vars
  <2> SUFFICES ASSUME pc = "exec_inst", stopped = eip, nemu_state' = "BREAK",
                      ~interrupted, eip \notin doubled
               PROVE  vars' = vars
    BY <1>1 DEF IInv, Machine
  <2>1. mem[eip] # INT3
    <3>1. stopped # NoAddr BY Opcodes, <1>1 DEF IInv, Machine
    <3> QED BY <1>1, <3>1 DEF IInv, Waiting
  <2>2. ~ExecInst BY <2>1 DEF ExecInst, Fetched
  <2> QED BY <1>1, <2>2 DEF Next, Command, Loop, SetBreakpoint, DeleteBreakpoint, DeleteAll,
                            Exec, DoDevices, DoIntr
<1> QED BY <1>1, Invariance, PTL DEF Spec, OneStopPerArrival

\* exec() runs the instruction under a breakpoint alone only after stopping there,
\* or after it has taken BREAK for READY at the end of its count (cpu.c:120).
THEOREM RunThrough == Spec => RunThroughOnlyForgotten
<1>1. ASSUME IInv, [Next]_vars PROVE [RunsThrough => forgotten \/ eip \in doubled]_vars
  <2> SUFFICES ASSUME RunsThrough, ~forgotten, eip \notin doubled PROVE vars' = vars
    BY <1>1 DEF IInv, Machine
  <2>1. pc = "exec_inst" /\ eip \in Bp(head) /\ nemu_state' # "BREAK" /\ stopped # eip
    BY <1>1, AtBp DEF RunsThrough, IInv
  <2>2. mem[eip] = INT3 BY <1>1, <2>1 DEF IInv, Armed
  <2>3. ~ExecInst BY <2>1, <2>2, Opcodes DEF ExecInst, Fetched
  <2> QED BY <1>1, <2>1, <2>3 DEF Next, Command, Loop, SetBreakpoint, DeleteBreakpoint,
                                  DeleteAll, Exec, DoDevices, DoIntr
<1> QED BY <1>1, Invariance, PTL DEF Spec, RunThroughOnlyForgotten
=============================================================================
