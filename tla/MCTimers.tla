------------------------------ MODULE MCTimers ------------------------------
(* Timers with values for TLC.                                             *)
EXTENDS Timers

CONSTANTS u1, u2

MCTimer == {u1, u2}

\* A short period and the longest one.
MCPeriods == {1, HALF - MaxLate}

\* The clock is about to wrap when the driver starts.
MCBootTicks == {CLOCK - 2}

\* Every reading of the clock relative to the present one, and the expiry of a timer
\* only while it is active or somebody is at work on it: nothing looks at it before it
\* has been written again.
Ago(tick) == TickSub(ticks, tick)
Watched(t) == t \in allocated /\ (timer[t].active \/ \E c \in Agent : op[c].timer = t)
Expiry(t) == IF Watched(t) THEN <<Ago(timer[t].expires_at), since[t], wanted[t]>> ELSE <<>>
Settings(t) ==
  IF t \in allocated THEN <<timer[t].period, timer[t].auto_reload, timer[t].active>> ELSE <<>>
TimeFree ==
  <<list, allocated, age, [t \in Timer |-> <<Settings(t), Expiry(t)>>],
    IF poll = NoPoll THEN NoPoll ELSE [poll EXCEPT !.now = Ago(@)],
    [c \in Agent |-> IF op[c].at \in {"idle", "free"} THEN op[c]
                     ELSE [op[c] EXCEPT !.read = Ago(@)]]>>
=============================================================================
