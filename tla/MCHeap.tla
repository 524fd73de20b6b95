------------------------------- MODULE MCHeap -------------------------------
(* Heap with values for TLC.                                               *)
EXTENDS Heap

\* Nothing, less than a unit, a unit, more than one, more than the pool, and the last
\* sizes of size_t, which round to zero.
MCSizes == {0, 1, 2, 5, HEAP_SIZE + 1, SIZE_MAX}

\* Twice the last of these is SIZE_MAX + 1, which wraps to nothing.
MCCounts == {0, 2, (SIZE_MAX \div 2) + 1}
=============================================================================
