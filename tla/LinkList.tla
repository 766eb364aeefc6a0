------------------------------ MODULE LinkList ------------------------------
(***************************************************************************)
(* The doubly linked list with its own pool of elements that               *)
(* game/include/adt/linklist.h generates.  A list is a record l of the     *)
(* links of the pool's elements and of the head of the free list; whoever  *)
(* uses the list keeps the head of it.                                     *)
(***************************************************************************)
EXTENDS Integers, Sequences

CONSTANT SIZE            \* the pool has SIZE + 1 elements, of which SIZE are used

ASSUME LinkListAssumption == SIZE \in Nat \ {0}

NULL  == -1
Cells == 0 .. SIZE
Links == [prev : [Cells -> Cells \cup {NULL}],
          next : [Cells -> Cells \cup {NULL}],
          free_head : Cells \cup {NULL}]

EmptyPool == [prev |-> [c \in Cells |-> NULL], next |-> [c \in Cells |-> NULL],
              free_head |-> NULL]

\* The pool is linked together when there is no free list, that is at the
\* first call of new.
Built(l) ==
  IF l.free_head # NULL THEN l
  ELSE [l EXCEPT !.free_head = 0,
                 !.next = [c \in Cells |-> IF c < SIZE THEN c + 1 ELSE l.next[c]]]

\* The assertion of new: the last element of the free list is never given.
CanNew(l) == LET b == Built(l) IN b.next[b.free_head] # NULL

\* new returns this element and leaves this list.
NewCell(l) == Built(l).free_head
AfterNew(l) ==
  LET b == Built(l)
      ret == b.free_head
  IN  [b EXCEPT !.free_head = b.next[ret], !.prev[ret] = NULL, !.next[ret] = NULL]

\* The links when element a points forward to b and b back to a.
Linked(l, a, b) ==
  [l EXCEPT !.next = IF a = NULL THEN @ ELSE [@ EXCEPT ![a] = b],
            !.prev = IF b = NULL THEN @ ELSE [@ EXCEPT ![b] = a]]

Insert(l, prev, next, obj) == Linked(Linked(l, prev, obj), obj, next)

\* Bug: the successor keeps pointing back to the element removed.
RemoveForward(l, node) ==
  IF l.prev[node] = NULL THEN l
  ELSE [l EXCEPT !.next[l.prev[node]] = l.next[node]]

Remove(l, node) == Linked(l, l.prev[node], l.next[node])

Free(l, node) == [l EXCEPT !.next[node] = l.free_head, !.free_head = node]

-----------------------------------------------------------------------------

\* The elements from c on, as long as the links lead to another one.
Step(l, c) ==
  LET s[k \in 0 .. SIZE + 1] ==
        IF k = 0 THEN c ELSE IF s[k - 1] = NULL THEN NULL ELSE l.next[s[k - 1]]
  IN  s
ChainLen(l, c) == CHOOSE n \in 0 .. SIZE + 2 :
                    \A k \in 0 .. SIZE + 1 : Step(l, c)[k] # NULL <=> k < n
Chain(l, c) == [i \in 1 .. ChainLen(l, c) |-> Step(l, c)[i - 1]]
ChainCells(l, c) == {Step(l, c)[k] : k \in 0 .. SIZE + 1} \ {NULL}

\* The chain from c ends, and the links back follow the links forward.
WellLinked(l, c) ==
  /\ Step(l, c)[SIZE + 1] = NULL
  /\ c # NULL => l.prev[c] = NULL
  /\ \A x \in ChainCells(l, c) : l.next[x] # NULL => l.prev[l.next[x]] = x
=============================================================================
