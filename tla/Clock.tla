------------------------------- MODULE Clock -------------------------------
(***************************************************************************)
(* The millisecond counter every timeout of the driver is measured with:   *)
(* mm_halow_ticks_ms() is a uint32_t that wraps, and the code compares two *)
(* readings through the sign of their difference, (int32_t)(a - b) >= 0.   *)
(* CLOCK stands for 2^32, so that TLC can take a counter that wraps often. *)
(* The operators use a comparison where the code relies on the wrap-around *)
(* of unsigned arithmetic: on 0 .. CLOCK - 1 they are a % CLOCK, without   *)
(* the % that SMT solvers handle badly.                                    *)
(***************************************************************************)
EXTENDS Integers

CONSTANT CLOCK      \* 2^32: one more than UINT32_MAX

ASSUME ClockAssumption == CLOCK \in Nat /\ CLOCK >= 4 /\ CLOCK = 2 * (CLOCK \div 2)

Ticks == 0 .. CLOCK - 1     \* uint32_t

HALF == CLOCK \div 2        \* 2^31
INT_MAX == HALF - 1         \* INT32_MAX
UINT_MAX == CLOCK - 1       \* UINT32_MAX, which is also MMOSAL_WAIT_FOREVER

\* (uint32_t)(a + b)
TickAdd(a, b) == IF a + b < CLOCK THEN a + b ELSE a + b - CLOCK

\* (uint32_t)(a - b)
TickSub(a, b) == IF a >= b THEN a - b ELSE a - b + CLOCK

\* (int32_t)(a - b) >= 0: the reading a is at or after the instant b.
Reached(a, b) == TickSub(a, b) < HALF
=============================================================================
