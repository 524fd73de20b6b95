----------------------------- MODULE Allocator -----------------------------
(***************************************************************************)
(* What morselib is promised by mmosal_malloc, mmosal_calloc,              *)
(* mmosal_realloc and mmosal_free: every pointer handed out stands for as  *)
(* many bytes as were asked for, inside the pool, that no other pointer    *)
(* shares and that stay where they are until it is given back.             *)
(***************************************************************************)
EXTENDS Integers

CONSTANT HEAP_SIZE      \* bytes in the pool

VARIABLE live           \* [pointer handed out -> bytes asked for]

Fits(p, n) == p >= 0 /\ n > 0 /\ p + n <= HEAP_SIZE

Disjoint(p, n, q, m) == p + n <= q \/ q + m <= p

\* The bytes are nobody's but p's.
Vacant(p, n) == \A q \in DOMAIN live : q # p => Disjoint(p, n, q, live[q])

Acquire(p, n) ==
  /\ p \notin DOMAIN live
  /\ Fits(p, n) /\ Vacant(p, n)
  /\ live' = [q \in DOMAIN live \cup {p} |-> IF q = p THEN n ELSE live[q]]

\* A realloc that stays in place.
Resize(p, n) ==
  /\ p \in DOMAIN live
  /\ Fits(p, n) /\ Vacant(p, n)
  /\ live' = [live EXCEPT ![p] = n]

GiveBack(p) ==
  /\ p \in DOMAIN live
  /\ live' = [q \in DOMAIN live \ {p} |-> live[q]]

\* The pool is taken away, and every pointer with it.
Abandon == live' = << >>

Init == live = << >>

Next ==
  \/ \E p \in 0 .. HEAP_SIZE, n \in 1 .. HEAP_SIZE : Acquire(p, n) \/ Resize(p, n)
  \/ \E p \in DOMAIN live : GiveBack(p)
  \/ Abandon

Spec == Init /\ [][Next]_live
=============================================================================
