------------------------------ MODULE MCSched ------------------------------
(* Sched with values for TLC.                                              *)
EXTENDS Sched, TLC

CONSTANTS t1, t2, sm

MCTask == {t1, t2}
MCOneTask == {t1}
MCSem == {sm}
Symmetry == Permutations(MCTask)

\* The clock is about to wrap when the driver starts.
MCBootTicks == {CLOCK - 2}

AllButIrq == Agent \ {"irq"}

MCThree == {1, UINT_MAX - 1, UINT_MAX}     \* a short wait, one that is capped, one for ever
ForeverOnly == {UINT_MAX}

\* Every reading of the clock relative to the present one, and a deadline only while
\* it means something: the specification looks at nothing else, so states that agree
\* on this have the same behaviours up to a shift of the clock.
Ago(tick) == TickSub(ticks, tick)
TimeFree ==
  <<task_state, task_list, task_cur, sched_woken, Ago(sched_wake_at), sched_running,
    IF sched_running THEN Ago(sched_deadline) ELSE 0, pass, cursor, claimVars, modeVars, pc,
    creating, wait_depth, sem,
    [a \in Agent |-> IF InWait(a) /\ ~wait[a].forever
                     THEN [wait[a] EXCEPT !.start = Ago(@)] ELSE [wait[a] EXCEPT !.start = 0]]>>
=============================================================================
