---------------------------- MODULE SchedProofs ----------------------------
(***************************************************************************)
(* The safety of the scheduler, for every set of tasks and semaphores and  *)
(* every clock: IInv of Sched is inductive, and the properties the runs    *)
(* check on small instances follow from it.  One lemma per action shows    *)
(* that it preserves IInv; the lemmas before them say what a jump, a run,  *)
(* a wait and a context switch leave alone.  TimeInv, on top of IInv, is   *)
(* for what depends on the clock: deadlines and the answer of pending.     *)
(***************************************************************************)
EXTENDS Sched, TLAPS

\* The clock's sums and differences are readings of the clock, and so are the constants.
LEMMA TickTypes ==
  /\ INT_MAX \in Ticks /\ BUDGET \in Ticks /\ WAIT_MAX \in Ticks /\ 0 \in Ticks /\ 1 \in Ticks
  /\ \A a, b \in Ticks : TickAdd(a, b) \in Ticks /\ TickSub(a, b) \in Ticks
BY ClockAssumption, SchedAssumption
   DEF Ticks, INT_MAX, HALF, TickAdd, TickSub

\* The part of TypeOK about places.
PcType ==
  /\ pc \in [Agent -> ContextPc \cup TaskPc]
  /\ \A c \in Context : pc[c] \in ContextPc
  /\ \A t \in Task : pc[t] \in TaskPc

\* A jump moves the agent that makes it and nobody else (it is how a step of any agent
\* begins).
LEMMA GotoPc ==
  ASSUME PcType, NEW a \in Agent, NEW label, Goto(a, label),
         a \in Context => label \in ContextPc, a \in Task => label \in TaskPc
  PROVE  PcType' /\ pc'[a] = label /\ \A b \in Agent : b # a => pc'[b] = pc[b]
BY SchedAssumption DEF PcType, Goto, Agent

\* A context that moves outside a walk of the list, and changes nothing a task sees,
\* disturbs no task and loses no wakeup.
LEMMA ContextMove ==
  ASSUME IInv, NEW c \in Context, NEW label \in ContextPc, Goto(c, label),
         pc[c] \notin {"walk", "turn", "wake", "link"}, label \notin {"turn", "link"},
         UNCHANGED <<task_state, task_list, task_cur, cursor, criticalVars, sem, sched_woken,
                     creating>>,
         \A t \in Task : wait'[t] = wait[t]
  PROVE  /\ ListOnce' /\ TaskShape' /\ CreateShape' /\ CriticalHeldByRunner'
         /\ NoMissedGive' /\ NoLostWakeup'
<1> USE DEF IInv
<1>0. PcType
  BY DEF PcType, TypeOK
<1>1. pc'[c] = label /\ \A b \in Agent : b # c => pc'[b] = pc[b]
  BY <1>0, GotoPc, SchedAssumption DEF Agent, Context
<1>2. \A t \in Task : pc'[t] = pc[t]
  BY <1>1, SchedAssumption DEF Agent, Context
<1>3. Listed' = Listed
  BY DEF Listed
<1>4. TaskShape' /\ CreateShape' /\ CriticalHeldByRunner'
  BY <1>1, <1>2, <1>3, SchedAssumption DEF TaskShape, CreateShape, CriticalHeldByRunner, InWait,
     Agent, Context, TypeOK, criticalVars
<1>5. pc["thread"] = "wake" => pc'["thread"] = "wake"
  BY <1>1 DEF Agent, Context
<1>6. NoMissedGive'
  BY <1>2, <1>5 DEF NoMissedGive
<1>7. NoLostWakeup'
  <2> SUFFICES ASSUME NEW t \in Task, Parked(t)', (sem[wait[t].on] > 0)'
               PROVE  (sched_woken \/ StillToVisit(t) \/ pc["thread"] = "wake")'
    BY DEF NoLostWakeup
  <2>1. Parked(t) /\ sem[wait[t].on] > 0
    BY <1>2, <1>3 DEF Parked
  <2>2. CASE sched_woken \/ pc["thread"] = "wake"
    BY <2>2, <1>5
  <2>3. CASE StillToVisit(t)
    <3>1. PICK d \in Context : /\ pc[d] \in {"walk", "turn"}
                              /\ \E i \in DOMAIN task_list : i >= cursor /\ task_list[i] = t
      BY <2>3 DEF StillToVisit
    <3>2. d # c /\ pc'[d] = pc[d]
      BY <3>1, <1>1 DEF Agent
    <3> QED BY <3>1, <3>2 DEF StillToVisit
  <2> QED BY <2>1, <2>2, <2>3 DEF NoLostWakeup
<1>8. ListOnce'
  BY DEF ListOnce
<1> QED BY <1>4, <1>6, <1>7, <1>8

-----------------------------------------------------------------------------
(* A poll *)

\* mm_halow_poll_func takes the claim: the claim is free or the context's own.
LEMMA PollEnterInv ==
  ASSUME IInv, NEW c \in Context, PollEnter(c)
  PROVE  IInv'
<1> USE SchedAssumption DEF IInv, PollEnter
<1>0. PcType /\ c \in Agent /\ c \notin Task
  BY DEF PcType, TypeOK, Agent, Context
<1>1. PcType' /\ pc'[c] = "polled" /\ \A b \in Agent : b # c => pc'[b] = pc[b]
  BY <1>0, GotoPc DEF ContextPc
<1>2. TypeOK'
  BY <1>1 DEF TypeOK, PcType, Claim, schedVars, runVars, waitVars, modeVars, criticalVars, Context
<1>3. ContextShape' /\ ClaimAccounting' /\ WaitDepthExact'
  BY <1>1 DEF ContextShape, ClaimAccounting, WaitDepthExact, Claim, Claimable, InPass, Servicing,
     Claims, InWait, RunPc, waitVars, Context, Agent
<1>4. RunShape'
  BY <1>1 DEF RunShape, RunPc, runVars, schedVars, Context, Agent
<1>5. /\ ListOnce' /\ TaskShape' /\ CreateShape' /\ CriticalHeldByRunner'
      /\ NoMissedGive' /\ NoLostWakeup'
  BY ContextMove DEF schedVars, runVars, waitVars, modeVars, criticalVars, ContextPc
<1> QED BY <1>2, <1>3, <1>4, <1>5

\* mm_halow_poll_func with nothing to do gives the claim back whole.
LEMMA PollIdleInv ==
  ASSUME IInv, NEW c \in Context, PollIdle(c)
  PROVE  IInv'
<1> USE SchedAssumption DEF IInv, PollIdle
<1>0. PcType /\ c \in Agent /\ c \notin Task
  BY DEF PcType, TypeOK, Agent, Context
<1>1. PcType' /\ pc'[c] = "base" /\ \A b \in Agent : b # c => pc'[b] = pc[b]
  BY <1>0, GotoPc DEF ContextPc
<1>2. service_owner = c /\ service_depth = 1 /\ service_owner' = "none" /\ service_depth' = 0
  BY DEF TypeOK, ContextShape, ClaimAccounting, Servicing, Claims, InPass, RunPc, Unclaim, Context
<1>3. TypeOK'
  BY <1>1, <1>2 DEF TypeOK, PcType, schedVars, runVars, waitVars, modeVars, criticalVars, Context
<1>4. ContextShape' /\ ClaimAccounting' /\ WaitDepthExact'
  BY <1>1, <1>2 DEF ContextShape, ClaimAccounting, WaitDepthExact, InPass, Servicing,
     Claims, InWait, RunPc, waitVars, Context, Agent
<1>5. RunShape'
  BY <1>1 DEF RunShape, RunPc, runVars, schedVars, Context, Agent
<1>6. /\ ListOnce' /\ TaskShape' /\ CreateShape' /\ CriticalHeldByRunner'
      /\ NoMissedGive' /\ NoLostWakeup'
  BY ContextMove DEF schedVars, runVars, waitVars, modeVars, criticalVars, ContextPc
<1> QED BY <1>3, <1>4, <1>5, <1>6

\* The steps of mm_halow_poll_func up to the scheduler change nothing but its place.
LEMMA PollStepInv ==
  ASSUME IInv, NEW c \in Context, PollWork(c) \/ PollRun(c)
  PROVE  IInv'
<1> USE SchedAssumption DEF IInv
<1>0. PcType /\ c \in Agent /\ c \notin Task
  BY DEF PcType, TypeOK, Agent, Context
<1>1. PICK label \in {"timers", "run"} :
        /\ Goto(c, label)
        /\ pc[c] \in {"polled", "timers"}
        /\ UNCHANGED <<ticks, schedVars, runVars, claimVars, waitVars, modeVars, creating>>
  BY DEF PollWork, PollRun
<1>2. PcType' /\ pc'[c] = label /\ \A b \in Agent : b # c => pc'[b] = pc[b]
  BY <1>0, <1>1, GotoPc DEF ContextPc
<1>3. TypeOK'
  BY <1>1, <1>2 DEF TypeOK, PcType, schedVars, runVars, claimVars, waitVars, modeVars, criticalVars
<1>4. ContextShape' /\ ClaimAccounting' /\ WaitDepthExact'
  BY <1>1, <1>2 DEF ContextShape, ClaimAccounting, WaitDepthExact, InPass, Servicing,
     Claims, InWait, RunPc, claimVars, waitVars, Context, Agent
<1>5. RunShape'
  BY <1>1, <1>2 DEF RunShape, RunPc, runVars, schedVars, Context, Agent
<1>6. /\ ListOnce' /\ TaskShape' /\ CreateShape' /\ CriticalHeldByRunner'
      /\ NoMissedGive' /\ NoLostWakeup'
  BY <1>1, ContextMove DEF schedVars, runVars, waitVars, modeVars, criticalVars, ContextPc
<1> QED BY <1>3, <1>4, <1>5, <1>6

-----------------------------------------------------------------------------
(* A run of the scheduler *)

\* mm_halow_sched_run starts only where no run is under way.
LEMMA RunEnterInv ==
  ASSUME IInv, NEW c \in Context, RunEnter(c)
  PROVE  IInv'
<1> USE SchedAssumption DEF IInv
<1>0. PcType /\ c \in Agent /\ c \notin Task
  BY DEF PcType, TypeOK, Agent, Context
<1>1. /\ pc[c] = "run"
      /\ UNCHANGED <<ticks, schedVars, claimVars, waitVars, modeVars, creating>>
      /\ \/ Goto(c, "release") /\ UNCHANGED runVars
         \/ /\ sched_running' = TRUE /\ sched_deadline' = TickAdd(ticks, BUDGET) /\ pass' = 0
            /\ Goto(c, "pass") /\ UNCHANGED cursor /\ task_cur = NoTask
  BY DEF RunEnter
<1>2. \E label \in {"release", "pass"} : Goto(c, label) /\ UNCHANGED cursor
  BY <1>1 DEF runVars
<1>3. /\ PcType' /\ pc'[c] \in {"release", "pass"}
      /\ \A b \in Agent : b # c => pc'[b] = pc[b]
  BY <1>0, <1>2, GotoPc DEF ContextPc
<1>4. TypeOK'
  <2>1. (sched_running \in BOOLEAN)'
    BY <1>1 DEF TypeOK, runVars
  <2>2. (sched_deadline \in Ticks /\ pass \in Nat /\ cursor \in Nat)'
    BY <1>1, TickTypes DEF TypeOK, runVars
  <2> QED BY <1>1, <1>3, <2>1, <2>2 DEF TypeOK, PcType, schedVars, claimVars, waitVars, modeVars, criticalVars
<1>5. ContextShape' /\ ClaimAccounting' /\ WaitDepthExact'
  BY <1>1, <1>3 DEF ContextShape, ClaimAccounting, WaitDepthExact, InPass, Servicing, Claims,
     InWait, RunPc, claimVars, waitVars, Context, Agent
<1>6. RunShape'
  BY <1>1, <1>3 DEF RunShape, RunPc, runVars, schedVars, Context, Agent, Goto, TypeOK
<1>7. /\ ListOnce' /\ TaskShape' /\ CreateShape' /\ CriticalHeldByRunner'
      /\ NoMissedGive' /\ NoLostWakeup'
  BY <1>1, <1>2, ContextMove DEF schedVars, waitVars, modeVars, criticalVars, ContextPc
<1> QED BY <1>4, <1>5, <1>6, <1>7

\* The context in a run has switched to nobody before it walks: it is alone in the
\* scheduler (mm_halow_sched_run under the claim), and every task is parked or ready.
LEMMA AloneInRun ==
  ASSUME IInv, NEW c \in Context, pc[c] \in {"pass", "walk", "reap"}
  PROVE  /\ sched_running
         /\ task_cur = NoTask
         /\ \A d \in Context : d # c => ~InPass(d)
         /\ \A t \in Task : pc[t] \in {"user", "cond"}
<1>1. \A d \in Context : d # c => ~InPass(d)
  BY DEF IInv, ClaimAccounting, Servicing, InPass, RunPc
<1>2. sched_running
  BY DEF IInv, RunShape, RunPc
<1>3. task_cur = NoTask
  BY <1>1 DEF IInv, RunShape, InPass, RunPc
<1> QED BY <1>1, <1>2, <1>3, SchedAssumption DEF IInv, TaskShape

\* A step of the run that touches no task leaves the tasks' part of the invariant alone.
LEMMA RunStepFrame ==
  ASSUME IInv, NEW c \in Context, pc[c] \in {"pass", "walk", "reap"}, pc'[c] # "link",
         \A b \in Agent : b # c => pc'[b] = pc[b],
         UNCHANGED <<task_state, task_list, wait, criticalVars, creating>>
  PROVE  ListOnce' /\ TaskShape' /\ CreateShape' /\ CriticalHeldByRunner' /\ NoMissedGive'
<1> USE SchedAssumption DEF IInv
<1>1. /\ task_cur = NoTask
      /\ \A t \in Task : pc'[t] = pc[t] /\ pc[t] \in {"user", "cond"}
  BY AloneInRun DEF Agent
<1>2. Listed' = Listed
  BY DEF Listed
<1>3. TaskShape'
  BY <1>1, <1>2 DEF TaskShape, InWait
<1>4. CreateShape'
  BY <1>2 DEF CreateShape, Agent, Context
<1>5. CriticalHeldByRunner'
  BY <1>1 DEF CriticalHeldByRunner, TypeOK, criticalVars
<1>6. NoMissedGive'
  BY <1>1 DEF NoMissedGive
<1>7. ListOnce'
  BY DEF ListOnce
<1> QED BY <1>3, <1>4, <1>5, <1>6, <1>7

\* A pass clears woken and starts at the head of the list: every parked task is still to
\* be visited, so nothing that was woken is forgotten (mm_halow_sched_run).
LEMMA PassStartInv ==
  ASSUME IInv, NEW c \in Context, PassStart(c)
  PROVE  IInv'
<1> USE SchedAssumption DEF IInv
<1>0. PcType /\ c \in Agent /\ c \notin Task /\ pc[c] = "pass"
  BY DEF PcType, TypeOK, Agent, Context, PassStart
<1>1. UNCHANGED <<ticks, task_state, task_list, task_cur, sched_running, sched_deadline, pass,
                  claimVars, waitVars, modeVars, creating>>
  BY DEF PassStart
<1>2. \/ /\ sched_woken' = FALSE /\ sched_wake_at' = TickAdd(ticks, INT_MAX)
         /\ cursor' = 1 /\ Goto(c, "walk")
      \/ Goto(c, "reap") /\ UNCHANGED <<sched_woken, sched_wake_at, cursor>>
  BY DEF PassStart, WakeAtReset
<1>3. /\ PcType' /\ pc'[c] \in {"walk", "reap"} /\ (pc'[c] = "walk" => cursor' = 1)
      /\ \A b \in Agent : b # c => pc'[b] = pc[b]
  BY <1>0, <1>2, GotoPc DEF ContextPc
<1>4. TypeOK'
  <2>1. (sched_woken \in BOOLEAN)'
    BY <1>2 DEF TypeOK
  <2>2. (sched_wake_at \in Ticks)'
    <3>1. TickAdd(ticks, INT_MAX) \in Ticks
      BY TickTypes DEF TypeOK
    <3> QED BY <1>2, <3>1 DEF TypeOK
  <2>3. (cursor \in Nat)'
    BY <1>2 DEF TypeOK
  <2> QED BY <1>1, <1>3, <2>1, <2>2, <2>3 DEF TypeOK, PcType, claimVars, waitVars, modeVars, criticalVars
<1>5. ContextShape' /\ ClaimAccounting' /\ WaitDepthExact'
  BY <1>0, <1>1, <1>3 DEF ContextShape, ClaimAccounting, WaitDepthExact, InPass, Servicing,
     Claims, InWait, RunPc, claimVars, waitVars, Context, Agent
<1>6. RunShape'
  BY <1>0, <1>1, <1>3, AloneInRun DEF RunShape, RunPc, InPass, Context, Agent
<1>7. ListOnce' /\ TaskShape' /\ CreateShape' /\ CriticalHeldByRunner' /\ NoMissedGive'
  BY <1>0, <1>1, <1>3, RunStepFrame DEF schedVars, waitVars, modeVars, criticalVars
<1>8. NoLostWakeup'
  <2>1. CASE Goto(c, "reap") /\ UNCHANGED <<sched_woken, sched_wake_at, cursor>>
    BY <2>1, <1>0, <1>1, ContextMove DEF ContextPc, waitVars, modeVars, criticalVars
  <2>2. CASE cursor' = 1 /\ Goto(c, "walk")
    <3>1. pc'[c] = "walk"
      BY <2>2, <1>0, GotoPc DEF ContextPc
    <3>2. \A t \in Listed : \E i \in DOMAIN task_list : i >= 1 /\ task_list[i] = t
      BY DEF TypeOK, Listed
    <3>3. \A t \in Listed : StillToVisit(t)'
      BY <2>2, <1>1, <3>1, <3>2 DEF StillToVisit
    <3> QED BY <1>1, <3>3 DEF NoLostWakeup, Parked, Listed
  <2> QED BY <1>2, <2>1, <2>2
<1> QED BY <1>4, <1>5, <1>6, <1>7, <1>8

\* The walk switches to a ready task or passes over a dead one.
LEMMA WalkInv ==
  ASSUME IInv, NEW c \in Context, Walk(c)
  PROVE  IInv'
<1> USE SchedAssumption DEF IInv
<1>0. PcType /\ c \in Agent /\ c \notin Task /\ pc[c] = "walk"
  BY DEF PcType, TypeOK, Agent, Context, Walk
<1>1. /\ UNCHANGED <<ticks, task_state, task_list, sched_woken, sched_wake_at, sched_running,
                     sched_deadline, pass, claimVars, waitVars, modeVars, creating>>
      /\ cursor \in DOMAIN task_list /\ task_list[cursor] \in Task
  BY <1>0 DEF Walk, TypeOK, RunShape
<1>2. \/ /\ task_cur' = task_list[cursor] /\ Goto(c, "turn") /\ UNCHANGED cursor
      \/ /\ cursor' = cursor + 1 /\ UNCHANGED <<task_cur, pc>>
         /\ task_state[task_list[cursor]] # "ready"
  BY DEF Walk
<1>3. /\ PcType' /\ pc'[c] \in {"walk", "turn"} /\ (pc'[c] = "turn" <=> task_cur' # NoTask)
      /\ \A b \in Agent : b # c => pc'[b] = pc[b]
  <2>1. CASE Goto(c, "turn") /\ task_cur' = task_list[cursor]
    BY <2>1, <1>0, <1>1, GotoPc DEF ContextPc
  <2>2. CASE UNCHANGED <<task_cur, pc>>
    BY <2>2, <1>0, AloneInRun DEF PcType
  <2> QED BY <1>2, <2>1, <2>2
<1>4. TypeOK'
  BY <1>1, <1>2, <1>3 DEF TypeOK, PcType, claimVars, waitVars, modeVars, criticalVars
<1>5. ContextShape' /\ ClaimAccounting' /\ WaitDepthExact'
  BY <1>0, <1>1, <1>3 DEF ContextShape, ClaimAccounting, WaitDepthExact, InPass, Servicing,
     Claims, InWait, RunPc, claimVars, waitVars, Context, Agent
<1>6. RunShape'
  BY <1>0, <1>1, <1>2, <1>3, AloneInRun DEF RunShape, RunPc, InPass, Context, Agent, TypeOK
<1>7. ListOnce' /\ TaskShape' /\ CreateShape' /\ CriticalHeldByRunner' /\ NoMissedGive'
  BY <1>0, <1>1, <1>3, RunStepFrame DEF schedVars, waitVars, modeVars, criticalVars
<1>8. NoLostWakeup'
  <2> SUFFICES ASSUME NEW t \in Task, Parked(t)', (sem[wait[t].on] > 0)'
               PROVE  (sched_woken \/ StillToVisit(t) \/ pc["thread"] = "wake")'
    BY DEF NoLostWakeup
  <2>1. Parked(t) /\ sem[wait[t].on] > 0 /\ task_cur' # t
    BY <1>0, <1>1, <1>3, AloneInRun DEF Parked, Listed, waitVars, Agent
  <2>2. pc["thread"] = "wake" => pc'["thread"] = "wake"
    BY <1>0, <1>3 DEF Agent, Context
  <2>3. ASSUME NEW i \in DOMAIN task_list, i >= cursor, task_list[i] = t
        PROVE  i >= cursor'
    BY <2>1, <2>3, <1>1, <1>2 DEF Parked, TypeOK
  <2>4. StillToVisit(t) => StillToVisit(t)'
    BY <2>3, <1>1, <1>3 DEF StillToVisit
  <2> QED BY <2>1, <2>2, <2>4, <1>1 DEF NoLostWakeup
<1> QED BY <1>4, <1>5, <1>6, <1>7, <1>8

\* At the end of the list every task has been visited: a parked task whose semaphore has
\* a count has woken set for it.
LEMMA PassEndInv ==
  ASSUME IInv, NEW c \in Context, PassEnd(c)
  PROVE  IInv'
<1> USE SchedAssumption DEF IInv
<1>0. PcType /\ c \in Agent /\ c \notin Task /\ pc[c] = "walk" /\ cursor > Len(task_list)
  BY DEF PcType, TypeOK, Agent, Context, PassEnd
<1>1. UNCHANGED <<ticks, schedVars, sched_running, sched_deadline, cursor,
                  claimVars, waitVars, modeVars, creating>>
  BY DEF PassEnd
<1>2. (Goto(c, "pass") /\ pass' = pass + 1) \/ (Goto(c, "reap") /\ UNCHANGED pass)
  BY DEF PassEnd
<1>3. /\ PcType' /\ pc'[c] \in {"pass", "reap"}
      /\ \A b \in Agent : b # c => pc'[b] = pc[b]
  BY <1>0, <1>2, GotoPc DEF ContextPc
<1>4. TypeOK'
  BY <1>1, <1>2, <1>3 DEF TypeOK, PcType, schedVars, claimVars, waitVars, modeVars, criticalVars
<1>5. ContextShape' /\ ClaimAccounting' /\ WaitDepthExact'
  BY <1>0, <1>1, <1>3 DEF ContextShape, ClaimAccounting, WaitDepthExact, InPass, Servicing,
     Claims, InWait, RunPc, claimVars, waitVars, Context, Agent
<1>6. RunShape'
  BY <1>0, <1>1, <1>3, AloneInRun DEF RunShape, RunPc, InPass, Context, Agent, schedVars
<1>7. ListOnce' /\ TaskShape' /\ CreateShape' /\ CriticalHeldByRunner' /\ NoMissedGive'
  BY <1>0, <1>1, <1>3, RunStepFrame DEF schedVars, waitVars, modeVars, criticalVars
<1>8. NoLostWakeup'
  <2> SUFFICES ASSUME NEW t \in Task, Parked(t)', (sem[wait[t].on] > 0)'
               PROVE  (sched_woken \/ StillToVisit(t) \/ pc["thread"] = "wake")'
    BY DEF NoLostWakeup
  <2>1. Parked(t) /\ sem[wait[t].on] > 0
    BY <1>0, <1>1, <1>3 DEF Parked, Listed, schedVars, waitVars, Agent
  <2>2. pc["thread"] = "wake" => pc'["thread"] = "wake"
    BY <1>0, <1>3 DEF Agent, Context
  <2>3. ~StillToVisit(t)
    BY <1>0 DEF StillToVisit, TypeOK
  <2> QED BY <2>1, <2>2, <2>3, <1>1 DEF NoLostWakeup, schedVars
<1> QED BY <1>4, <1>5, <1>6, <1>7, <1>8

\* A list without its i-th task holds the others, in order.
LEMMA UnlinkList ==
  ASSUME NEW list \in Seq(Task), NEW i \in DOMAIN list
  PROVE  /\ Unlink(list, i) \in Seq(Task)
         /\ DOMAIN Unlink(list, i) = 1 .. Len(list) - 1
         /\ \A j \in 1 .. Len(list) - 1 :
              LET k == IF j < i THEN j ELSE j + 1
              IN  k \in DOMAIN list /\ k # i /\ Unlink(list, i)[j] = list[k]
<1>1. Len(list) \in Nat /\ DOMAIN list = 1 .. Len(list) /\ Len(list) - 1 \in Nat
  OBVIOUS
<1>2. \A j \in 1 .. Len(list) - 1 : j \in DOMAIN list /\ j + 1 \in DOMAIN list
  BY <1>1
<1>3. Unlink(list, i) \in [1 .. Len(list) - 1 -> Task]
  BY <1>2 DEF Unlink
<1>4. Unlink(list, i) \in Seq(Task)
  BY <1>1, <1>3
<1> QED BY <1>1, <1>2, <1>4 DEF Unlink

\* mm_halow_sched_reap frees a dead task's slot and takes it, and it alone, off the list.
LEMMA ReapInv ==
  ASSUME IInv, NEW c \in Context, Reap(c)
  PROVE  IInv'
<1> USE SchedAssumption DEF IInv
<1>0. pc[c] = "reap" /\ c \in Agent /\ c \notin Task
  BY DEF Reap, Agent, Context
<1>1. UNCHANGED <<ticks, task_cur, sched_woken, sched_wake_at, runVars, claimVars, waitVars,
                  modeVars, pc, creating>>
  BY DEF Reap
<1>2. PICK i \in DOMAIN task_list :
        /\ task_list' = Unlink(task_list, i)
        /\ task_state' = [task_state EXCEPT ![task_list[i]] = "free"]
        /\ task_state[task_list[i]] = "dead"
  BY DEF Reap
<1>3. task_list[i] \in Task /\ i \in 1 .. Len(task_list) /\ Len(task_list) \in Nat
  BY DEF TypeOK
<1>4. /\ task_list' \in Seq(Task)
      /\ DOMAIN task_list' = 1 .. Len(task_list) - 1
      /\ \A j \in DOMAIN task_list' :
           LET k == IF j < i THEN j ELSE j + 1
           IN  k \in DOMAIN task_list /\ k # i /\ task_list'[j] = task_list[k]
  <2>1. task_list \in Seq(Task)
    BY DEF TypeOK
  <2>2. DOMAIN task_list' = 1 .. Len(task_list) - 1 /\ task_list' \in Seq(Task)
    BY <1>2, <2>1, UnlinkList
  <2>3. \A j \in 1 .. Len(task_list) - 1 :
          LET k == IF j < i THEN j ELSE j + 1
          IN  k \in DOMAIN task_list /\ k # i /\ Unlink(task_list, i)[j] = task_list[k]
    BY <2>1, UnlinkList
  <2> QED BY <1>2, <2>2, <2>3
<1>5. ListOnce'
  BY <1>3, <1>4 DEF ListOnce
<1>6. Listed' \subseteq Listed \ {task_list[i]}
  BY <1>4 DEF ListOnce, Listed
<1>7. /\ \A t \in Task : t # task_list[i] => task_state'[t] = task_state[t]
      /\ task_list[i] \in Listed
  BY <1>2 DEF TypeOK, Listed
<1>8. TypeOK'
  BY <1>1, <1>2, <1>4 DEF TypeOK, runVars, claimVars, waitVars, modeVars, criticalVars
<1>9. ContextShape' /\ ClaimAccounting' /\ WaitDepthExact'
  BY <1>1 DEF ContextShape, ClaimAccounting, WaitDepthExact, InPass, Servicing, Claims, InWait,
     claimVars, waitVars
<1>10. RunShape'
  BY <1>0, <1>1, AloneInRun DEF RunShape, RunPc, InPass, runVars
<1>11. TaskShape'
  BY <1>1, <1>6, <1>7 DEF TaskShape, InWait, waitVars
<1>12. CreateShape'
  BY <1>1, <1>6, <1>7 DEF CreateShape
<1>13. CriticalHeldByRunner' /\ NoMissedGive'
  BY <1>1 DEF CriticalHeldByRunner, NoMissedGive, waitVars, modeVars, criticalVars
<1>14. NoLostWakeup'
  <2> SUFFICES ASSUME NEW t \in Task, Parked(t)', (sem[wait[t].on] > 0)'
               PROVE  (sched_woken \/ StillToVisit(t) \/ pc["thread"] = "wake")'
    BY DEF NoLostWakeup
  <2>1. Parked(t) /\ sem[wait[t].on] > 0
    BY <1>1, <1>6, <1>7 DEF Parked, waitVars
  <2>2. ~StillToVisit(t)
    BY <1>0, AloneInRun DEF StillToVisit, InPass, RunPc
  <2> QED BY <2>1, <2>2, <1>1 DEF NoLostWakeup
<1> QED BY <1>5, <1>8, <1>9, <1>10, <1>11, <1>12, <1>13, <1>14

\* mm_halow_sched_run ends.
LEMMA RunExitInv ==
  ASSUME IInv, NEW c \in Context, RunExit(c)
  PROVE  IInv'
<1> USE SchedAssumption DEF IInv, RunExit
<1>0. PcType /\ c \in Agent /\ c \notin Task
  BY DEF PcType, TypeOK, Agent, Context
<1>1. PcType' /\ pc'[c] = "release" /\ \A b \in Agent : b # c => pc'[b] = pc[b]
  BY <1>0, GotoPc DEF ContextPc
<1>2. TypeOK'
  <2>1. (sched_running \in BOOLEAN)'
    OBVIOUS
  <2> QED BY <1>1, <2>1, TickTypes DEF TypeOK, PcType, schedVars, claimVars, waitVars, modeVars, criticalVars
<1>3. ContextShape' /\ ClaimAccounting' /\ WaitDepthExact'
  BY <1>1 DEF ContextShape, ClaimAccounting, WaitDepthExact, InPass, Servicing, Claims, InWait,
     RunPc, claimVars, waitVars, Context, Agent
<1>4. RunShape'
  BY <1>0, <1>1, AloneInRun DEF RunShape, RunPc, InPass, schedVars, Context, Agent
<1>5. ListOnce' /\ TaskShape' /\ CreateShape' /\ CriticalHeldByRunner' /\ NoMissedGive'
  BY <1>1, RunStepFrame DEF schedVars, waitVars, modeVars, criticalVars
<1>6. NoLostWakeup'
  <2> SUFFICES ASSUME NEW t \in Task, Parked(t)', (sem[wait[t].on] > 0)'
               PROVE  (sched_woken \/ StillToVisit(t) \/ pc["thread"] = "wake")'
    BY DEF NoLostWakeup
  <2>1. Parked(t) /\ sem[wait[t].on] > 0
    BY <1>0, <1>1 DEF Parked, Listed, schedVars, waitVars, Agent
  <2>2. ~StillToVisit(t)
    BY AloneInRun DEF StillToVisit, InPass, RunPc
  <2>3. pc["thread"] = "wake" => pc'["thread"] = "wake"
    BY <1>1 DEF Agent, Context
  <2> QED BY <2>1, <2>2, <2>3 DEF NoLostWakeup, schedVars
<1> QED BY <1>2, <1>3, <1>4, <1>5, <1>6

\* mm_halow_sched_release after a run: the claim goes back one level.
LEMMA ReleaseInv ==
  ASSUME IInv, NEW c \in Context, Release(c)
  PROVE  IInv'
<1> USE SchedAssumption DEF IInv
<1>0. PcType /\ c \in Agent /\ c \notin Task /\ pc[c] = "release"
  BY DEF PcType, TypeOK, Agent, Context, Release
<1>1. /\ Unclaim
      /\ UNCHANGED <<ticks, schedVars, runVars, waitVars, modeVars, creating>>
  BY DEF Release
<1>2. \/ InWait(c) /\ Goto(c, "cond") /\ UNCHANGED polling
      \/ ~InWait(c) /\ Goto(c, "base") /\ polling' = polling \ {c}
  BY DEF Release
<1>3. /\ PcType' /\ pc'[c] = (IF InWait(c) THEN "cond" ELSE "base")
      /\ polling' = (IF InWait(c) THEN polling ELSE polling \ {c})
      /\ \A b \in Agent : b # c => pc'[b] = pc[b]
  <2>1. CASE InWait(c) /\ Goto(c, "cond") /\ UNCHANGED polling
    BY <2>1, <1>0, GotoPc DEF ContextPc
  <2>2. CASE ~InWait(c) /\ Goto(c, "base") /\ polling' = polling \ {c}
    BY <2>2, <1>0, GotoPc DEF ContextPc
  <2> QED BY <1>2, <2>1, <2>2
<1>4. /\ service_depth > 0
      /\ service_depth' = service_depth - 1
      /\ service_owner' = IF service_depth = 1 THEN "none" ELSE service_owner
  BY <1>0, <1>1 DEF TypeOK, ContextShape, ClaimAccounting, Servicing, Claims, InPass, RunPc,
     Unclaim, Context
<1>5. TypeOK'
  BY <1>1, <1>3, <1>4 DEF TypeOK, PcType, schedVars, runVars, waitVars, modeVars, criticalVars
<1>6. ContextShape' /\ WaitDepthExact'
  BY <1>0, <1>1, <1>3 DEF ContextShape, WaitDepthExact, InPass, InWait, RunPc, waitVars,
     Context, Agent
<1>7. ClaimAccounting'
  BY <1>0, <1>1, <1>3, <1>4 DEF ContextShape, ClaimAccounting, InPass, Servicing, Claims, InWait,
     RunPc, waitVars, Context, Agent, TypeOK
<1>8. RunShape'
  BY <1>0, <1>1, <1>3 DEF RunShape, RunPc, runVars, schedVars, Context, Agent
<1>9. /\ ListOnce' /\ TaskShape' /\ CreateShape' /\ CriticalHeldByRunner'
      /\ NoMissedGive' /\ NoLostWakeup'
  BY <1>0, <1>1, <1>2, ContextMove DEF schedVars, runVars, waitVars, modeVars, criticalVars, ContextPc
<1> QED BY <1>5, <1>6, <1>7, <1>8, <1>9

\* mm_halow_sched_yield outside a task takes a claim of its own, or makes no pass.
LEMMA YieldClaimInv ==
  ASSUME IInv, NEW c \in Context, YieldClaim(c)
  PROVE  IInv'
<1> USE SchedAssumption DEF IInv
<1>0. PcType /\ c \in Agent /\ c \notin Task /\ pc[c] = "yield"
  BY DEF PcType, TypeOK, Agent, Context, YieldClaim
<1>1. UNCHANGED <<ticks, schedVars, runVars, polling, waitVars, modeVars, creating>>
  BY DEF YieldClaim
<1>2. \/ Claimable(c) /\ Claim(c) /\ Goto(c, "run")
      \/ Goto(c, "cond") /\ UNCHANGED <<service_owner, service_depth>>
  BY DEF YieldClaim
<1>3. /\ PcType' /\ \A b \in Agent : b # c => pc'[b] = pc[b]
      /\ \/ /\ pc'[c] = "run" /\ service_owner \in {"none", c} /\ service_owner' = c
            /\ service_depth' = service_depth + 1
         \/ pc'[c] = "cond" /\ UNCHANGED <<service_owner, service_depth>>
  <2>1. CASE Claimable(c) /\ Claim(c) /\ Goto(c, "run")
    BY <2>1, <1>0, GotoPc DEF ContextPc, Claim, Claimable
  <2>2. CASE Goto(c, "cond") /\ UNCHANGED <<service_owner, service_depth>>
    BY <2>2, <1>0, GotoPc DEF ContextPc
  <2> QED BY <1>2, <2>1, <2>2
<1>4. TypeOK'
  BY <1>1, <1>3 DEF TypeOK, PcType, schedVars, runVars, waitVars, modeVars, criticalVars
<1>5. ContextShape' /\ WaitDepthExact'
  BY <1>0, <1>1, <1>3 DEF ContextShape, WaitDepthExact, InPass, InWait, RunPc, waitVars,
     Context, Agent
<1>6. ClaimAccounting'
  BY <1>0, <1>1, <1>3 DEF ContextShape, ClaimAccounting, InPass, Servicing, Claims, InWait,
     RunPc, waitVars, Context, Agent, TypeOK
<1>7. RunShape'
  BY <1>0, <1>1, <1>3 DEF RunShape, RunPc, runVars, schedVars, Context, Agent
<1>8. /\ ListOnce' /\ TaskShape' /\ CreateShape' /\ CriticalHeldByRunner'
      /\ NoMissedGive' /\ NoLostWakeup'
  BY <1>0, <1>1, <1>2, ContextMove DEF schedVars, runVars, waitVars, modeVars, criticalVars, ContextPc
<1> QED BY <1>4, <1>5, <1>6, <1>7, <1>8

-----------------------------------------------------------------------------
(* A wait *)

\* An agent that takes a step of mm_halow_sched_wait, taking a count or not, disturbs only
\* its own place: what it saw false and has come true since has set woken.
LEMMA WaitMove ==
  ASSUME IInv, NEW a \in Agent, Runs(a),
         pc[a] \notin RunPc \cup {"run", "release", "wake", "link", "polled"},
         pc'[a] \notin RunPc \cup {"run", "release", "wake", "link", "polled"},
         a \in Task => critical_nesting = 0,
         PcType',
         \A b \in Agent : b # a => pc'[b] = pc[b] /\ wait'[b] = wait[b],
         pc'[a] \in WaitPc => InWait(a)',
         \A s \in Sem : sem'[s] <= sem[s] /\ sem'[s] \in Int,
         sched_woken => sched_woken',
         a \in Task /\ pc'[a] \in {"check", "park"} /\ sem'[wait'[a].on] > 0
            => sched_woken' \/ pc'["thread"] = "wake",
         UNCHANGED <<task_state, task_list, task_cur, runVars, claimVars, modeVars, creating>>
  PROVE  /\ ClaimAccounting' /\ RunShape' /\ ListOnce' /\ TaskShape' /\ CreateShape'
         /\ CriticalHeldByRunner' /\ NoMissedGive' /\ NoLostWakeup'
<1> USE SchedAssumption DEF IInv
<1>1. a \in Task => task_cur = a
  BY DEF Runs, OnCPU
<1>2. Listed' = Listed
  BY DEF Listed
<1>3. /\ \A c \in Context : InPass(c)' <=> InPass(c)
      /\ \A c \in Context : InPass(c) => InWait(c)' = InWait(c)
      /\ \A c \in Context : pc'[c] \in RunPc \cup {"wake"} \/ pc[c] \in RunPc \cup {"wake"} => pc'[c] = pc[c]
  BY DEF InPass, InWait, Agent
<1>4. ClaimAccounting'
  BY <1>3 DEF ClaimAccounting, Servicing, Claims, claimVars, Context
<1>5. RunShape'
  BY <1>3 DEF RunShape, runVars, RunPc
<1>6. ListOnce'
  BY DEF ListOnce
<1>7. TaskShape'
  BY <1>1, <1>2 DEF TaskShape, InWait, Agent
<1>8. CreateShape'
  BY <1>2 DEF CreateShape, Agent, Context
<1>9. CriticalHeldByRunner'
  BY <1>1 DEF CriticalHeldByRunner, modeVars, criticalVars, RunShape, Agent, TypeOK
<1>10. NoMissedGive'
  <2> SUFFICES ASSUME NEW t \in Task, pc'[t] \in {"check", "park"}, sem'[wait'[t].on] > 0
               PROVE  sched_woken' \/ pc'["thread"] = "wake"
    BY DEF NoMissedGive
  <2>1. CASE t = a
    BY <2>1
  <2>2. CASE t # a
    <3>1. pc'[t] = pc[t] /\ wait'[t] = wait[t]
      BY <2>2 DEF Agent
    <3>2. wait[t].on \in Sem
      BY <3>1 DEF TaskShape, WaitPc, InWait, TypeOK, Wait, Agent
    <3>3. sem[wait[t].on] > 0
      BY <3>1, <3>2 DEF TypeOK
    <3> QED BY <1>3, <3>1, <3>3 DEF NoMissedGive, Context
  <2> QED BY <2>1, <2>2
<1>11. NoLostWakeup'
  <2> SUFFICES ASSUME NEW t \in Task, Parked(t)', (sem[wait[t].on] > 0)'
               PROVE  (sched_woken \/ StillToVisit(t) \/ pc["thread"] = "wake")'
    BY DEF NoLostWakeup
  <2>1. t # a /\ t \in Agent
    BY <1>1 DEF Parked, Agent
  <2>2. Parked(t) /\ wait'[t] = wait[t]
    BY <1>2, <2>1 DEF Parked
  <2>3. wait[t].on \in Sem
    BY <2>1, <2>2 DEF Parked, TaskShape, WaitPc, InWait, TypeOK, Wait
  <2>4. sem[wait[t].on] > 0
    BY <2>2, <2>3 DEF TypeOK
  <2>5. StillToVisit(t) => StillToVisit(t)'
    BY <1>3 DEF StillToVisit, runVars, RunPc
  <2>6. pc["thread"] = "wake" => pc'["thread"] = "wake"
    BY <1>3 DEF Context
  <2> QED BY <2>2, <2>4, <2>5, <2>6 DEF NoLostWakeup
<1> QED BY <1>4, <1>5, <1>6, <1>7, <1>8, <1>9, <1>10, <1>11

\* An agent inside the loop of a wait has a semaphore it waits on, and no critical section.
LEMMA WaitAgent ==
  ASSUME IInv, NEW a \in Agent, Runs(a), pc[a] \in {"cond", "check", "recheck", "taken"}
  PROVE  /\ PcType
         /\ wait[a] \in Wait /\ wait[a].on \in Sem /\ InWait(a)
         /\ a \in Task => critical_nesting = 0
<1>1. a \in Task => task_cur = a /\ task_cur # NoTask
  BY SchedAssumption DEF Runs, OnCPU
<1>2. InWait(a)
  BY SchedAssumption DEF IInv, ContextShape, TaskShape, WaitPc, Agent
<1>3. a \in Task => critical_nesting = 0
  BY <1>1 DEF IInv, CriticalHeldByRunner, TypeOK
<1>4. PcType /\ wait[a] \in Wait
  BY DEF IInv, TypeOK, PcType
<1> QED BY <1>2, <1>3, <1>4 DEF InWait, Wait

\* Leaving mm_halow_sched_wait gives wait_depth back exactly when entering counted it.
LEMMA WaitLeaveShape ==
  ASSUME IInv, NEW a \in Agent, Runs(a), pc[a] \in {"cond", "check", "recheck", "taken"},
         WaitLeave(a), UNCHANGED polling
  PROVE  /\ PcType' /\ pc'[a] \in {"user", "timers", "base"}
         /\ wait' \in [Agent -> Wait]
         /\ wait_depth' \in Nat
         /\ \A b \in Agent : b # a => pc'[b] = pc[b] /\ wait'[b] = wait[b]
         /\ ContextShape' /\ WaitDepthExact'
<1> USE SchedAssumption DEF IInv
<1>0. PcType /\ InWait(a)
  BY WaitAgent
<1>1. /\ PcType' /\ pc'[a] = Home(a)
      /\ \A b \in Agent : b # a => pc'[b] = pc[b]
  BY <1>0, GotoPc DEF WaitLeave, Home, ContextPc, TaskPc, Agent
<1>2. NoWait \in Wait /\ NoWait.on = NoSem
  BY TickTypes DEF NoWait, Wait
<1>3. /\ wait' \in [Agent -> Wait]
      /\ wait'[a] = NoWait
      /\ \A b \in Agent : b # a => wait'[b] = wait[b]
  BY <1>2 DEF WaitLeave, TypeOK
<1>4. ~InWait(a)' /\ \A b \in Agent : b # a => InWait(b)' = InWait(b)
  BY <1>2, <1>3 DEF InWait
<1>5. wait_depth' = wait_depth - (IF a \in Context THEN 1 ELSE 0)
  BY DEF WaitLeave
<1>6. WaitDepthExact'
  BY <1>0, <1>4, <1>5 DEF WaitDepthExact, Context, Agent, TypeOK
<1>7. wait_depth' \in Nat
  BY <1>6 DEF WaitDepthExact
<1>8. ContextShape'
  BY <1>1, <1>4 DEF ContextShape, InPass, RunPc, Home, Context, Agent
<1> QED BY <1>1, <1>3, <1>6, <1>7, <1>8 DEF Home

\* Entering mm_halow_sched_wait: a context is counted, a task is not.
LEMMA WaitBeginInv ==
  ASSUME IInv, NEW a \in Agent, NEW s \in Sem, NEW timeout \in Ticks, WaitBegin(a, s, timeout)
  PROVE  IInv'
<1> USE SchedAssumption DEF IInv
<1> DEFINE capped == timeout > WAIT_MAX /\ (~(timeout = UINT_MAX) \/ sched_teardown)
           begun == [on |-> s, timeout |-> IF capped THEN WAIT_MAX ELSE timeout,
                     start |-> ticks, forever |-> timeout = UINT_MAX]
<1>1. /\ Runs(a) /\ MayWait(a)
      /\ wait' = [wait EXCEPT ![a] = begun]
      /\ wait_depth' = wait_depth + (IF task_cur = NoTask THEN 1 ELSE 0)
      /\ Goto(a, "cond")
      /\ UNCHANGED <<ticks, schedVars, runVars, claimVars, sem, modeVars, creating>>
  BY DEF WaitBegin
<1>2. begun \in Wait /\ begun.on = s
  <2>1. (timeout = UINT_MAX) \in BOOLEAN
    OBVIOUS
  <2>2. (IF capped THEN WAIT_MAX ELSE timeout) \in Ticks
    BY TickTypes
  <2>3. ticks \in Ticks
    BY DEF TypeOK
  <2> QED BY <2>1, <2>2, <2>3 DEF Wait
<1> HIDE DEF begun
<1>3. /\ PcType' /\ pc'[a] = "cond"
      /\ \A b \in Agent : b # a => pc'[b] = pc[b]
  BY <1>1, GotoPc DEF TypeOK, PcType, ContextPc, TaskPc
<1>4. /\ wait' \in [Agent -> Wait] /\ InWait(a)'
      /\ \A b \in Agent : b # a => wait'[b] = wait[b]
  BY <1>1, <1>2 DEF TypeOK, InWait
<1>5. /\ a \in Task => task_cur = a /\ critical_nesting = 0 /\ pc[a] = "user"
      /\ a \in Context => ~InWait(a) /\ task_cur = NoTask /\ pc[a] \in {"timers", "base"}
  <2>1. CASE a \in Task
    BY <1>1, <2>1 DEF Runs, OnCPU, MayWait, Context
  <2>2. CASE a \in Context
    <3>1. a \notin Task /\ Executing(a) /\ pc[a] \in {"timers", "base"} /\ (pc[a] = "base" => a = "thread")
      BY <1>1, <2>2 DEF Runs, MayWait, Context
    <3>2. ~InWait(a)
      BY <2>2, <3>1 DEF ContextShape
    <3>3. \A c \in Context : pc[c] # "turn"
      BY <2>2, <3>1 DEF Executing, Context, ContextShape, ClaimAccounting, Servicing, InPass, RunPc
    <3> QED BY <3>1, <3>2, <3>3 DEF RunShape
  <2> QED BY <2>1, <2>2 DEF Agent, Context
<1>6. TypeOK'
  BY <1>1, <1>3, <1>4 DEF TypeOK, PcType, schedVars, runVars, claimVars, modeVars, criticalVars
<1>7. ContextShape'
  <2>1. polling' = polling
    BY <1>1 DEF claimVars
  <2>2. \A c \in Context : c # a => pc'[c] = pc[c] /\ InWait(c)' = InWait(c)
    BY <1>3, <1>4 DEF InWait, Agent
  <2>3. a \in Context => pc'[a] = "cond" /\ InWait(a)'
                         /\ (pc[a] = "timers" => a \in polling) /\ (a = "irq" => pc[a] = "timers")
    BY <1>1, <1>3, <1>4, <1>5 DEF ContextShape, MayWait
  <2> QED BY <2>1, <2>2, <2>3 DEF ContextShape, InPass, RunPc, Context
<1>8. WaitDepthExact'
  BY <1>1, <1>4, <1>5 DEF WaitDepthExact, InWait, Context, Agent, TypeOK
<1>9. /\ ClaimAccounting' /\ RunShape' /\ ListOnce' /\ TaskShape' /\ CreateShape'
      /\ CriticalHeldByRunner' /\ NoMissedGive' /\ NoLostWakeup'
  <2>1. pc[a] \notin RunPc \cup {"run", "release", "wake", "link", "polled"}
    BY <1>5 DEF RunPc, Agent
  <2>2. /\ pc'[a] \notin RunPc \cup {"run", "release", "wake", "link", "polled"}
        /\ pc'[a] \notin {"check", "park"}
    BY <1>3 DEF RunPc
  <2>3. \A r \in Sem : sem'[r] <= sem[r] /\ sem'[r] \in Int
    BY <1>1 DEF TypeOK
  <2>4. sched_woken' = sched_woken
    BY <1>1 DEF schedVars
  <2> QED BY <1>1, <1>3, <1>4, <1>5, <2>1, <2>2, <2>3, <2>4, WaitMove DEF schedVars
<1> QED BY <1>6, <1>7, <1>8, <1>9

\* mm_halow_sem_taken takes one count from a semaphore that has one.
LEMMA SemTakenShape ==
  ASSUME IInv, NEW a \in Agent, Runs(a), pc[a] \in {"cond", "recheck"}, SemTaken(a)
  PROVE  /\ PcType' /\ pc'[a] = "taken"
         /\ \A b \in Agent : b # a => pc'[b] = pc[b]
         /\ sem' \in [Sem -> 0 .. MaxCount]
         /\ \A s \in Sem : sem'[s] <= sem[s] /\ sem'[s] \in Int
<1>1. PcType /\ wait[a].on \in Sem
  BY WaitAgent
<1>2. PcType' /\ pc'[a] = "taken" /\ \A b \in Agent : b # a => pc'[b] = pc[b]
  BY <1>1, GotoPc DEF SemTaken, ContextPc, TaskPc
<1>3. sem \in [Sem -> 0 .. MaxCount] /\ MaxCount \in Nat
  BY SchedAssumption DEF IInv, TypeOK
<1> QED BY <1>1, <1>2, <1>3 DEF SemTaken

\* An agent that stays in its wait leaves wait_depth exact.
LEMMA WaitStays ==
  ASSUME IInv, NEW a \in Agent, Runs(a), pc[a] \in {"cond", "check", "recheck"},
         PcType', pc'[a] \in {"check", "recheck", "taken", "park", "yield"},
         \A b \in Agent : b # a => pc'[b] = pc[b],
         \A b \in Agent : wait'[b].on = wait[b].on,
         UNCHANGED <<wait_depth, polling>>
  PROVE  ContextShape' /\ WaitDepthExact' /\ InWait(a)'
<1>1. InWait(a) /\ \A b \in Agent : InWait(b)' = InWait(b)
  BY WaitAgent DEF InWait
<1>2. ContextShape'
  BY <1>1 DEF IInv, ContextShape, InPass, RunPc, Context, Agent
<1> QED BY <1>1, <1>2 DEF IInv, WaitDepthExact, Context, Agent

\* The condition of mm_halow_sched_wait: seen false only with a count of zero.
LEMMA WaitCondInv ==
  ASSUME IInv, NEW a \in Agent, WaitCond(a)
  PROVE  IInv'
<1> USE SchedAssumption DEF IInv
<1>1. /\ Runs(a) /\ pc[a] = "cond"
      /\ UNCHANGED <<ticks, schedVars, runVars, claimVars, wait, wait_depth, modeVars, creating>>
  BY DEF WaitCond
<1>2. SemTaken(a) \/ (sem[wait[a].on] = 0 /\ Goto(a, "check") /\ UNCHANGED sem)
  BY DEF WaitCond
<1>3. PcType /\ wait[a].on \in Sem /\ (a \in Task => critical_nesting = 0)
  BY <1>1, WaitAgent
<1>4. /\ PcType' /\ pc'[a] \in {"taken", "check"}
      /\ \A b \in Agent : b # a => pc'[b] = pc[b]
      /\ sem' \in [Sem -> 0 .. MaxCount]
      /\ \A s \in Sem : sem'[s] <= sem[s] /\ sem'[s] \in Int
      /\ pc'[a] = "check" => sem'[wait[a].on] = 0
  <2>1. CASE SemTaken(a)
    BY <1>1, <2>1, SemTakenShape
  <2>2. CASE sem[wait[a].on] = 0 /\ Goto(a, "check") /\ UNCHANGED sem
    <3>1. sem \in [Sem -> 0 .. MaxCount]
      BY DEF TypeOK
    <3> QED BY <1>3, <2>2, <3>1, GotoPc DEF ContextPc, TaskPc
  <2> QED BY <1>2, <2>1, <2>2
<1>5. TypeOK'
  BY <1>1, <1>4 DEF TypeOK, PcType, schedVars, runVars, claimVars, modeVars, criticalVars
<1>6. ContextShape' /\ WaitDepthExact' /\ InWait(a)'
  BY <1>1, <1>4, WaitStays DEF claimVars
<1>7. /\ ClaimAccounting' /\ RunShape' /\ ListOnce' /\ TaskShape' /\ CreateShape'
      /\ CriticalHeldByRunner' /\ NoMissedGive' /\ NoLostWakeup'
  <2>1. /\ pc[a] \notin RunPc \cup {"run", "release", "wake", "link", "polled"}
        /\ pc'[a] \notin RunPc \cup {"run", "release", "wake", "link", "polled"}
    BY <1>1, <1>4 DEF RunPc
  <2>2. ~(pc'[a] \in {"check", "park"} /\ sem'[wait'[a].on] > 0)
    BY <1>1, <1>4
  <2>3. sched_woken' = sched_woken
    BY <1>1 DEF schedVars
  <2> QED BY <1>1, <1>3, <1>4, <1>6, <2>1, <2>2, <2>3, WaitMove DEF schedVars
<1> QED BY <1>5, <1>6, <1>7

\* A satisfied wait leaves, and wakes the scheduler.
LEMMA WaitTakenInv ==
  ASSUME IInv, NEW a \in Agent, WaitTaken(a)
  PROVE  IInv'
<1> USE SchedAssumption DEF IInv
<1>1. /\ Runs(a) /\ pc[a] = "taken" /\ WaitLeave(a) /\ sched_woken' = TRUE
      /\ UNCHANGED <<ticks, task_state, task_list, task_cur, sched_wake_at, runVars, claimVars,
                     sem, modeVars, creating>>
  BY DEF WaitTaken, Wake
<1>2. /\ PcType' /\ pc'[a] \in {"user", "timers", "base"}
      /\ wait' \in [Agent -> Wait] /\ wait_depth' \in Nat
      /\ \A b \in Agent : b # a => pc'[b] = pc[b] /\ wait'[b] = wait[b]
      /\ ContextShape' /\ WaitDepthExact'
  BY <1>1, WaitLeaveShape DEF claimVars
<1>3. (sched_woken \in BOOLEAN)'
  BY <1>1
<1>4. TypeOK'
  BY <1>1, <1>2, <1>3 DEF TypeOK, PcType, runVars, claimVars, modeVars, criticalVars
<1>5. /\ ClaimAccounting' /\ RunShape' /\ ListOnce' /\ TaskShape' /\ CreateShape'
      /\ CriticalHeldByRunner' /\ NoMissedGive' /\ NoLostWakeup'
  <2>1. /\ pc[a] \notin RunPc \cup {"run", "release", "wake", "link", "polled"}
        /\ pc'[a] \notin RunPc \cup {"run", "release", "wake", "link", "polled"} \cup WaitPc
    BY <1>1, <1>2 DEF RunPc, WaitPc
  <2>2. \A s \in Sem : sem'[s] <= sem[s] /\ sem'[s] \in Int
    BY <1>1 DEF TypeOK
  <2>3. a \in Task => critical_nesting = 0
    BY <1>1, WaitAgent
  <2> QED BY <1>1, <1>2, <2>1, <2>2, <2>3, WaitMove
<1> QED BY <1>2, <1>4, <1>5

\* The tests of mm_halow_sched_wait after a false condition.
LEMMA WaitCheckInv ==
  ASSUME IInv, NEW a \in Agent, WaitCheck(a)
  PROVE  IInv'
<1> USE SchedAssumption DEF IInv
<1> DEFINE w == wait[a]
           graced == [w EXCEPT !.timeout = WAIT_MAX, !.start = ticks, !.forever = FALSE]
           now == IF w.forever /\ sched_teardown THEN graced ELSE w
           label == IF now.forever \/ TickSub(ticks, now.start) < now.timeout
                    THEN (IF a \in Task THEN "park" ELSE "yield") ELSE "recheck"
<1>1. /\ Runs(a) /\ pc[a] = "check"
      /\ UNCHANGED <<ticks, schedVars, runVars, claimVars, sem, modeVars, creating>>
  BY DEF WaitCheck
<1>2. \/ WaitLeave(a)
      \/ wait' = [wait EXCEPT ![a] = now] /\ Goto(a, label) /\ UNCHANGED wait_depth
  BY DEF WaitCheck
<1>3. PcType /\ wait[a] \in Wait /\ wait[a].on \in Sem /\ (a \in Task => critical_nesting = 0)
  BY <1>1, WaitAgent
<1>4. now \in Wait /\ now.on = wait[a].on
  <2>1. WAIT_MAX \in Ticks /\ ticks \in Ticks
    BY TickTypes DEF TypeOK
  <2>2. graced \in Wait /\ graced.on = wait[a].on
    BY <1>3, <2>1 DEF Wait
  <2> QED BY <1>3, <2>2
<1>5. /\ label \in {"park", "yield", "recheck"}
      /\ a \in Task => label \in TaskPc
      /\ a \in Context => label \in ContextPc
  BY DEF Agent, Context, TaskPc, ContextPc
<1> HIDE DEF now, label
<1>6. /\ PcType' /\ pc'[a] \in {"user", "timers", "base", "park", "yield", "recheck"}
      /\ wait' \in [Agent -> Wait] /\ wait_depth' \in Nat
      /\ \A b \in Agent : b # a => pc'[b] = pc[b] /\ wait'[b] = wait[b]
      /\ ContextShape' /\ WaitDepthExact'
      /\ pc'[a] \in WaitPc => InWait(a)' /\ wait'[a].on = wait[a].on
  <2>1. CASE WaitLeave(a)
    BY <1>1, <2>1, WaitLeaveShape DEF claimVars, WaitPc
  <2>2. CASE wait' = [wait EXCEPT ![a] = now] /\ Goto(a, label) /\ UNCHANGED wait_depth
    <3>1. /\ PcType' /\ pc'[a] = label
          /\ \A b \in Agent : b # a => pc'[b] = pc[b]
      BY <1>3, <1>5, <2>2, GotoPc
    <3>2. /\ wait' \in [Agent -> Wait] /\ wait'[a] = now
          /\ \A b \in Agent : b # a => wait'[b] = wait[b]
      BY <1>4, <2>2 DEF TypeOK
    <3>3. \A b \in Agent : wait'[b].on = wait[b].on
      BY <1>4, <3>2
    <3>4. ContextShape' /\ WaitDepthExact' /\ InWait(a)'
      BY <1>1, <1>5, <2>2, <3>1, <3>3, WaitStays DEF claimVars
    <3>5. wait_depth' \in Nat
      BY <2>2 DEF TypeOK
    <3> QED BY <1>5, <3>1, <3>2, <3>3, <3>4, <3>5
  <2> QED BY <1>2, <2>1, <2>2
<1>7. TypeOK'
  BY <1>1, <1>6 DEF TypeOK, PcType, schedVars, runVars, claimVars, modeVars, criticalVars
<1>8. /\ ClaimAccounting' /\ RunShape' /\ ListOnce' /\ TaskShape' /\ CreateShape'
      /\ CriticalHeldByRunner' /\ NoMissedGive' /\ NoLostWakeup'
  <2>1. /\ pc[a] \notin RunPc \cup {"run", "release", "wake", "link", "polled"}
        /\ pc'[a] \notin RunPc \cup {"run", "release", "wake", "link", "polled"}
    BY <1>1, <1>6 DEF RunPc
  <2>2. \A s \in Sem : sem'[s] <= sem[s] /\ sem'[s] \in Int
    BY <1>1 DEF TypeOK
  <2>3. sched_woken' = sched_woken
    BY <1>1 DEF schedVars
  <2>4. a \in Task /\ pc'[a] \in {"check", "park"} /\ sem'[wait'[a].on] > 0
           => sched_woken' \/ pc'["thread"] = "wake"
    BY <1>1, <1>6, <2>3 DEF NoMissedGive, WaitPc, Agent, Context
  <2> QED BY <1>1, <1>3, <1>6, <2>1, <2>2, <2>3, <2>4, WaitMove DEF schedVars
<1> QED BY <1>6, <1>7, <1>8

\* The last look at the condition past the deadline.
LEMMA WaitRecheckInv ==
  ASSUME IInv, NEW a \in Agent, WaitRecheck(a)
  PROVE  IInv'
<1> USE SchedAssumption DEF IInv
<1>1. /\ Runs(a) /\ pc[a] = "recheck"
      /\ UNCHANGED <<ticks, schedVars, runVars, claimVars, modeVars, creating>>
  BY DEF WaitRecheck
<1>2. \/ SemTaken(a) /\ UNCHANGED <<wait, wait_depth>>
      \/ WaitLeave(a) /\ UNCHANGED sem
  BY DEF WaitRecheck
<1>3. /\ PcType' /\ pc'[a] \in {"user", "timers", "base", "taken"}
      /\ wait' \in [Agent -> Wait] /\ wait_depth' \in Nat
      /\ \A b \in Agent : b # a => pc'[b] = pc[b] /\ wait'[b] = wait[b]
      /\ ContextShape' /\ WaitDepthExact'
      /\ pc'[a] \in WaitPc => InWait(a)'
      /\ sem' \in [Sem -> 0 .. MaxCount]
      /\ \A s \in Sem : sem'[s] <= sem[s] /\ sem'[s] \in Int
  <2>0. sem \in [Sem -> 0 .. MaxCount] /\ wait \in [Agent -> Wait] /\ wait_depth \in Nat
    BY DEF TypeOK
  <2>1. CASE SemTaken(a) /\ UNCHANGED <<wait, wait_depth>>
    <3>1. /\ PcType' /\ pc'[a] = "taken"
          /\ \A b \in Agent : b # a => pc'[b] = pc[b]
          /\ sem' \in [Sem -> 0 .. MaxCount]
          /\ \A s \in Sem : sem'[s] <= sem[s] /\ sem'[s] \in Int
      BY <1>1, <2>1, SemTakenShape
    <3>2. ContextShape' /\ WaitDepthExact' /\ InWait(a)'
      BY <1>1, <2>1, <3>1, WaitStays DEF claimVars
    <3> QED BY <2>0, <2>1, <3>1, <3>2
  <2>2. CASE WaitLeave(a) /\ UNCHANGED sem
    <3>1. /\ PcType' /\ pc'[a] \in {"user", "timers", "base"}
          /\ wait' \in [Agent -> Wait] /\ wait_depth' \in Nat
          /\ \A b \in Agent : b # a => pc'[b] = pc[b] /\ wait'[b] = wait[b]
          /\ ContextShape' /\ WaitDepthExact'
      BY <1>1, <2>2, WaitLeaveShape DEF claimVars
    <3>2. pc'[a] \notin WaitPc
      BY <3>1 DEF WaitPc
    <3> QED BY <2>0, <2>2, <3>1, <3>2
  <2> QED BY <1>2, <2>1, <2>2
<1>4. TypeOK'
  BY <1>1, <1>3 DEF TypeOK, PcType, schedVars, runVars, claimVars, modeVars, criticalVars
<1>5. /\ ClaimAccounting' /\ RunShape' /\ ListOnce' /\ TaskShape' /\ CreateShape'
      /\ CriticalHeldByRunner' /\ NoMissedGive' /\ NoLostWakeup'
  <2>1. /\ pc[a] \notin RunPc \cup {"run", "release", "wake", "link", "polled"}
        /\ pc'[a] \notin RunPc \cup {"run", "release", "wake", "link", "polled"}
        /\ pc'[a] \notin {"check", "park"}
    BY <1>1, <1>3 DEF RunPc
  <2>2. a \in Task => critical_nesting = 0
    BY <1>1, WaitAgent
  <2>3. sched_woken' = sched_woken
    BY <1>1 DEF schedVars
  <2> QED BY <1>1, <1>3, <2>1, <2>2, <2>3, WaitMove DEF schedVars
<1> QED BY <1>3, <1>4, <1>5

-----------------------------------------------------------------------------
(* A running task *)

\* The context switch from a task back to the walk, whichever way the task gave up the
\* CPU: the cursor moves past it and nobody else, and if it parked on what was given
\* since it looked, woken is set.
LEMMA SwitchOutInv ==
  ASSUME IInv, NEW t \in Task, NEW label \in {"user", "cond"},
         OnCPU(t), SwitchOut(t, label), critical_nesting = 0,
         label = "cond" => pc[t] = "park",
         sched_woken => sched_woken', sched_woken' \in BOOLEAN, sched_wake_at' \in Ticks,
         task_state' \in [Task -> {"free", "ready", "dead"}], task_state'[t] # "free",
         \A u \in Task : u # t => task_state'[u] = task_state[u],
         UNCHANGED <<ticks, task_list, sched_running, sched_deadline, pass, claimVars, waitVars,
                     modeVars, creating>>
  PROVE  IInv'
<1> USE SchedAssumption DEF IInv
<1>1. PICK c \in Context : task_cur = t /\ pc[c] = "turn"
  BY DEF OnCPU
<1>2. \A d \in Context : d # c => pc[d] \notin RunPc
  BY <1>1 DEF ClaimAccounting, Servicing, InPass, RunPc
<1>3. /\ PcType' /\ pc'[c] = "walk" /\ pc'[t] = label
      /\ \A b \in Agent : b \notin {c, t} => pc'[b] = pc[b]
  BY <1>1, <1>2 DEF SwitchOut, PcType, TypeOK, TaskPc, ContextPc, RunPc, Context, Agent
<1>4. task_cur' = NoTask /\ cursor' = cursor + 1
  BY DEF SwitchOut
<1>5. Listed' = Listed /\ t \in Listed /\ cursor \in DOMAIN task_list /\ task_list[cursor] = t
  BY <1>1 DEF Listed, RunShape, TypeOK
<1>6. TypeOK'
  BY <1>3, <1>4 DEF TypeOK, PcType, claimVars, waitVars, modeVars, criticalVars
<1>7. ContextShape'
  BY <1>1, <1>3 DEF ContextShape, InPass, InWait, RunPc, claimVars, waitVars, Context, Agent
<1>8. ClaimAccounting' /\ WaitDepthExact'
  BY <1>1, <1>3 DEF ClaimAccounting, WaitDepthExact, InPass, Servicing, Claims, InWait, RunPc,
     claimVars, waitVars, Context, Agent
<1>9. RunShape'
  <2>1. sched_running' /\ cursor \in Nat
    BY <1>1 DEF RunShape, RunPc, TypeOK
  <2>2. \A d \in Context : pc'[d] \in RunPc <=> d = c
    BY <1>2, <1>3 DEF RunPc, Context, Agent
  <2>3. pc'[c] = "walk" /\ cursor' >= 1
    BY <1>3, <1>4, <2>1
  <2> QED BY <1>4, <2>1, <2>2, <2>3 DEF RunShape, RunPc
<1>10. ListOnce'
  BY DEF ListOnce
<1>11. TaskShape'
  BY <1>1, <1>3, <1>5 DEF TaskShape, InWait, WaitPc, waitVars, Agent, Context
<1>12. CreateShape'
  BY <1>1, <1>3, <1>5 DEF CreateShape, Agent, Context
<1>13. CriticalHeldByRunner'
  BY DEF CriticalHeldByRunner, modeVars, criticalVars
<1>14. pc["thread"] = "wake" => pc'["thread"] = "wake"
  BY <1>1, <1>3 DEF Agent, Context
<1>15. NoMissedGive'
  BY <1>3, <1>14 DEF NoMissedGive, waitVars, Agent, Context
<1>16. NoLostWakeup'
  <2> SUFFICES ASSUME NEW u \in Task, Parked(u)', (sem[wait[u].on] > 0)'
               PROVE  (sched_woken \/ StillToVisit(u) \/ pc["thread"] = "wake")'
    BY DEF NoLostWakeup
  <2>1. sem[wait[u].on] > 0
    BY DEF waitVars
  <2>2. CASE u = t
    <3>1. pc[t] = "park"
      BY <1>3, <2>2 DEF Parked
    <3> QED BY <1>14, <2>1, <2>2, <3>1 DEF NoMissedGive
  <2>3. CASE u # t
    <3>1. Parked(u)
      BY <1>1, <1>3, <1>5, <2>3 DEF Parked, Agent, Context
    <3>2. ASSUME NEW i \in DOMAIN task_list, i >= cursor, task_list[i] = u
          PROVE  i >= cursor'
      BY <1>4, <1>5, <2>3, <3>2 DEF TypeOK
    <3>3. StillToVisit(u) => StillToVisit(u)'
      BY <1>3, <3>2 DEF StillToVisit
    <3> QED BY <1>14, <2>1, <3>1, <3>3 DEF NoLostWakeup
  <2> QED BY <2>2, <2>3
<1> QED BY <1>6, <1>7, <1>8, <1>9, <1>10, <1>11, <1>12, <1>13, <1>15, <1>16

\* mm_halow_sched_park in a task.
LEMMA ParkInv ==
  ASSUME IInv, NEW t \in Task, Park(t)
  PROVE  IInv'
<1> USE SchedAssumption DEF IInv
<1>1. /\ OnCPU(t) /\ pc[t] = "park" /\ SwitchOut(t, "cond")
      /\ sched_wake_at' \in {WaitUntil(wait[t]), sched_wake_at}
      /\ UNCHANGED <<ticks, task_state, task_list, sched_woken, sched_running, sched_deadline,
                     pass, claimVars, waitVars, modeVars, creating>>
  BY DEF Park
<1>2. sched_wake_at' \in Ticks
  <2>1. wait[t] \in Wait /\ sched_wake_at \in Ticks
    BY DEF TypeOK, Agent
  <2>2. WaitUntil(wait[t]) \in Ticks
    BY <2>1, TickTypes DEF WaitUntil, Wait
  <2> QED BY <1>1, <2>1, <2>2
<1>3. critical_nesting = 0 /\ task_cur = t
  BY <1>1 DEF OnCPU, CriticalHeldByRunner, TypeOK
<1>4. /\ task_state \in [Task -> {"free", "ready", "dead"}] /\ sched_woken \in BOOLEAN
      /\ task_state[t] # "free"
  BY <1>3 DEF TypeOK, RunShape, TaskShape, Listed
<1> QED BY <1>1, <1>2, <1>3, <1>4, SwitchOutInv

\* mm_halow_sched_yield in a task, called by it or by the bus path.
LEMMA TaskYieldInv ==
  ASSUME IInv, NEW t \in Task, OnCPU(t), critical_nesting = 0, TaskYield(t)
  PROVE  IInv'
<1>1. /\ task_state \in [Task -> {"free", "ready", "dead"}] /\ sched_wake_at \in Ticks
      /\ task_state[t] # "free"
  BY SchedAssumption DEF IInv, TypeOK, RunShape, TaskShape, Listed, OnCPU
<1>2. sched_woken' /\ sched_woken' \in BOOLEAN
  BY DEF TaskYield, Wake
<1> QED BY <1>1, <1>2, SwitchOutInv DEF TaskYield

\* A task that returns or deletes itself.
LEMMA TaskExitInv ==
  ASSUME IInv, NEW t \in Task, TaskExit(t)
  PROVE  IInv'
<1>1. /\ task_state' \in [Task -> {"free", "ready", "dead"}] /\ sched_wake_at \in Ticks
      /\ task_state'[t] = "dead"
      /\ \A u \in Task : u # t => task_state'[u] = task_state[u]
  BY DEF IInv, TypeOK, TaskExit
<1>2. sched_woken' /\ sched_woken' \in BOOLEAN
  BY DEF TaskExit, Wake
<1> QED BY <1>1, <1>2, SwitchOutInv DEF TaskExit

\* A step that moves nobody.
LEMMA NobodyMoves ==
  ASSUME IInv, UNCHANGED <<pc, task_list, task_cur, runVars, claimVars, wait, wait_depth, creating>>
  PROVE  /\ ContextShape' /\ ClaimAccounting' /\ WaitDepthExact' /\ RunShape' /\ ListOnce'
         /\ \A t \in Task : StillToVisit(t)' = StillToVisit(t)
BY DEF IInv, ContextShape, ClaimAccounting, WaitDepthExact, RunShape, ListOnce, InPass, Servicing,
   Claims, InWait, StillToVisit, runVars, claimVars

\* mm_halow_sched_task_delete from a task or a callback only marks the task.
LEMMA TaskDeleteInv ==
  ASSUME IInv, NEW t \in Task, TaskDelete(t)
  PROVE  IInv'
<1> USE SchedAssumption DEF IInv, TaskDelete
<1>1. (sched_woken \in BOOLEAN)'
  BY DEF Wake
<1>2. /\ task_state' \in [Task -> {"free", "ready", "dead"}]
      /\ \A u \in Task : u # t => task_state'[u] = task_state[u]
      /\ task_state'[t] = "dead" /\ t \in Listed
  BY DEF TypeOK
<1>3. TypeOK'
  BY <1>1, <1>2 DEF TypeOK, runVars, claimVars, waitVars, modeVars, criticalVars
<1>4. TaskShape' /\ CreateShape' /\ CriticalHeldByRunner'
  BY <1>2 DEF TaskShape, CreateShape, CriticalHeldByRunner, Listed, InWait, waitVars, modeVars, criticalVars
<1>5. NoMissedGive' /\ NoLostWakeup'
  BY DEF NoMissedGive, NoLostWakeup, Wake
<1> QED BY <1>3, <1>4, <1>5, NobodyMoves DEF waitVars

\* A critical section is entered and left by the running task.
LEMMA CriticalInv ==
  ASSUME IInv, NEW t \in Task, EnterCritical(t) \/ ExitCritical(t)
  PROVE  IInv'
<1> USE SchedAssumption DEF IInv
<1>1. UNCHANGED <<ticks, schedVars, runVars, claimVars, waitVars, sched_teardown, pc, creating>>
  BY DEF EnterCritical, ExitCritical
<1>2. task_cur = t /\ task_cur # NoTask /\ pc[t] = "user"
  BY DEF EnterCritical, ExitCritical, OnCPU
<1>a. /\ critical_nesting \in 0 .. MaxNest /\ critical_state \in BOOLEAN /\ masked \in BOOLEAN
      /\ masked <=> critical_nesting > 0
      /\ critical_nesting > 0 => ~critical_state
  BY DEF TypeOK, CriticalHeldByRunner
<1>b. /\ critical_nesting' \in 0 .. MaxNest /\ critical_state' \in BOOLEAN /\ masked' \in BOOLEAN
      /\ masked' <=> critical_nesting' > 0
      /\ critical_nesting' > 0 => ~critical_state'
  <2>1. CASE EnterCritical(t)
    BY <2>1, <1>a DEF EnterCritical
  <2>2. CASE ExitCritical(t)
    <3>1. CASE critical_nesting = 1
      BY <2>2, <3>1, <1>a DEF ExitCritical
    <3>2. CASE critical_nesting # 1
      BY <2>2, <3>2, <1>a DEF ExitCritical
    <3> QED BY <3>1, <3>2
  <2> QED BY <2>1, <2>2
<1>3. TypeOK'
  BY <1>1, <1>b DEF TypeOK, schedVars, runVars, claimVars, waitVars
<1>4. /\ ContextShape' /\ ClaimAccounting' /\ WaitDepthExact' /\ RunShape' /\ ListOnce'
      /\ \A u \in Task : StillToVisit(u)' = StillToVisit(u)
  BY <1>1, NobodyMoves DEF schedVars, waitVars
<1>5. TaskShape' /\ CreateShape' /\ NoMissedGive'
  BY <1>1 DEF TaskShape, CreateShape, NoMissedGive, Listed, InWait, schedVars, waitVars
<1>6. CriticalHeldByRunner'
  BY <1>1, <1>2, <1>b DEF CriticalHeldByRunner, schedVars
<1>7. NoLostWakeup'
  BY <1>1, <1>4 DEF NoLostWakeup, Parked, Listed, schedVars, waitVars
<1> QED BY <1>3, <1>4, <1>5, <1>6, <1>7

\* mmosal_sem_give where nothing comes between the count and the wake.
LEMMA GiveInv ==
  ASSUME IInv, NEW s \in Sem, Give(s)
  PROVE  IInv'
<1> USE SchedAssumption DEF IInv, Give
<1>1. (sched_woken \in BOOLEAN)'
  BY DEF Wake
<1>2. (sem \in [Sem -> 0 .. MaxCount])'
  BY DEF TypeOK
<1>3. TypeOK'
  BY <1>1, <1>2 DEF TypeOK, runVars, claimVars, modeVars, criticalVars
<1>4. TaskShape' /\ CreateShape' /\ CriticalHeldByRunner'
  BY DEF TaskShape, CreateShape, CriticalHeldByRunner, Listed, InWait, modeVars, criticalVars
<1>5. NoMissedGive' /\ NoLostWakeup'
  BY DEF NoMissedGive, NoLostWakeup, Wake
<1> QED BY <1>3, <1>4, <1>5, NobodyMoves

-----------------------------------------------------------------------------
(* The thread outside the scheduler, and time *)

\* The thread outside the scheduler moves between places where it holds no claim and is
\* in no wait.
LEMMA ThreadMove ==
  ASSUME IInv, pc["thread"] \in {"base", "link", "wake"}, pc'["thread"] \in {"base", "link", "wake"},
         \A c \in Context : c # "thread" => pc'[c] = pc[c],
         \A c \in Context : wait'[c] = wait[c],
         UNCHANGED <<claimVars, wait_depth>>
  PROVE  /\ ContextShape' /\ ClaimAccounting' /\ WaitDepthExact'
         /\ \A c \in Context : pc'[c] \in RunPc \/ pc[c] \in RunPc => pc'[c] = pc[c]
BY DEF IInv, ContextShape, ClaimAccounting, WaitDepthExact, InPass, Servicing, Claims, InWait,
   RunPc,
   claimVars, Context

\* mmosal_sem_give from the thread: until it has woken the scheduler, it is about to.
LEMMA ThreadGiveInv ==
  ASSUME IInv, NEW s \in Sem, ThreadGive(s)
  PROVE  IInv'
<1> USE SchedAssumption DEF IInv, ThreadGive, ThreadIdle
<1>1. PcType' /\ pc'["thread"] = "wake" /\ \A b \in Agent : b # "thread" => pc'[b] = pc[b]
  BY GotoPc DEF PcType, TypeOK, ContextPc, Agent, Context
<1>2. (sem \in [Sem -> 0 .. MaxCount])'
  BY DEF TypeOK
<1>3. TypeOK'
  BY <1>1, <1>2 DEF TypeOK, PcType, schedVars, runVars, claimVars, modeVars, criticalVars
<1>4. /\ ContextShape' /\ ClaimAccounting' /\ WaitDepthExact'
      /\ \A c \in Context : pc'[c] \in RunPc \/ pc[c] \in RunPc => pc'[c] = pc[c]
  BY <1>1, ThreadMove DEF Agent
<1>5. RunShape' /\ ListOnce'
  BY <1>4 DEF RunShape, RunPc, ListOnce, runVars, schedVars
<1>6. TaskShape' /\ CreateShape' /\ CriticalHeldByRunner'
  <2>1. Listed' = Listed /\ \A u \in Task : pc'[u] = pc[u]
    BY <1>1 DEF Listed, Agent, Context, schedVars
  <2>2. TaskShape'
    BY <2>1 DEF TaskShape, InWait, waitVars, schedVars
  <2>3. CreateShape'
    BY <1>1 DEF CreateShape
  <2>4. CriticalHeldByRunner'
    BY <2>1 DEF CriticalHeldByRunner, TypeOK, schedVars, modeVars, criticalVars
  <2> QED BY <2>2, <2>3, <2>4
<1>7. NoMissedGive' /\ NoLostWakeup'
  BY <1>1 DEF NoMissedGive, NoLostWakeup
<1> QED BY <1>3, <1>4, <1>5, <1>6, <1>7

\* mm_halow_sched_task_delete from the thread.
LEMMA ThreadDeleteInv ==
  ASSUME IInv, NEW t \in Task, ThreadDelete(t)
  PROVE  IInv'
<1> USE SchedAssumption DEF IInv, ThreadDelete, ThreadIdle
<1>1. PcType' /\ pc'["thread"] = "wake" /\ \A b \in Agent : b # "thread" => pc'[b] = pc[b]
  BY GotoPc DEF PcType, TypeOK, ContextPc, Agent, Context
<1>2. /\ task_state' \in [Task -> {"free", "ready", "dead"}]
      /\ \A u \in Task : u # t => task_state'[u] = task_state[u]
      /\ task_state'[t] = "dead"
  BY DEF TypeOK
<1>3. TypeOK'
  BY <1>1, <1>2 DEF TypeOK, PcType, runVars, claimVars, waitVars, modeVars, criticalVars
<1>4. /\ ContextShape' /\ ClaimAccounting' /\ WaitDepthExact'
      /\ \A c \in Context : pc'[c] \in RunPc \/ pc[c] \in RunPc => pc'[c] = pc[c]
  BY <1>1, ThreadMove DEF Agent, waitVars
<1>5. RunShape' /\ ListOnce'
  BY <1>4 DEF RunShape, RunPc, ListOnce, runVars
<1>6. TaskShape' /\ CreateShape' /\ CriticalHeldByRunner'
  <2>1. Listed' = Listed /\ \A u \in Task : pc'[u] = pc[u]
    BY <1>1 DEF Listed, Agent, Context, schedVars
  <2>2. TaskShape'
    BY <1>2, <2>1 DEF TaskShape, InWait, waitVars, schedVars
  <2>3. CreateShape'
    BY <1>1 DEF CreateShape
  <2>4. CriticalHeldByRunner'
    BY <2>1 DEF CriticalHeldByRunner, TypeOK, schedVars, modeVars, criticalVars
  <2> QED BY <2>2, <2>3, <2>4
<1>7. NoMissedGive' /\ NoLostWakeup'
  BY <1>1 DEF NoMissedGive, NoLostWakeup
<1> QED BY <1>3, <1>4, <1>5, <1>6, <1>7

\* mm_halow_sched_wake at the end of a call from the thread.
LEMMA ThreadWakeInv ==
  ASSUME IInv, ThreadWake
  PROVE  IInv'
<1> USE SchedAssumption DEF IInv, ThreadWake
<1>1. PcType' /\ pc'["thread"] = "base" /\ \A b \in Agent : b # "thread" => pc'[b] = pc[b]
  BY GotoPc DEF PcType, TypeOK, ContextPc, Agent, Context
<1>2. sched_woken' /\ (sched_woken \in BOOLEAN)'
  BY DEF Wake
<1>3. TypeOK'
  BY <1>1, <1>2 DEF TypeOK, PcType, runVars, claimVars, waitVars, modeVars, criticalVars
<1>4. /\ ContextShape' /\ ClaimAccounting' /\ WaitDepthExact'
      /\ \A c \in Context : pc'[c] \in RunPc \/ pc[c] \in RunPc => pc'[c] = pc[c]
  BY <1>1, ThreadMove DEF Agent, waitVars
<1>5. RunShape' /\ ListOnce'
  BY <1>4 DEF RunShape, RunPc, ListOnce, runVars
<1>6. TaskShape' /\ CreateShape' /\ CriticalHeldByRunner'
  <2>1. Listed' = Listed /\ \A u \in Task : pc'[u] = pc[u]
    BY <1>1 DEF Listed, Agent, Context, schedVars
  <2>2. TaskShape'
    BY <2>1 DEF TaskShape, InWait, waitVars, schedVars
  <2>3. CreateShape'
    BY <1>1 DEF CreateShape
  <2>4. CriticalHeldByRunner'
    BY <2>1 DEF CriticalHeldByRunner, TypeOK, schedVars, modeVars, criticalVars
  <2> QED BY <2>2, <2>3, <2>4
<1>7. NoMissedGive' /\ NoLostWakeup'
  BY <1>2 DEF NoMissedGive, NoLostWakeup
<1> QED BY <1>3, <1>4, <1>5, <1>6, <1>7

\* mm_halow_sched_task_create up to the link: the slot is filled in, off the list.
LEMMA CreateFindInv ==
  ASSUME IInv, NEW t \in Task, CreateFind(t)
  PROVE  IInv'
<1> USE SchedAssumption DEF IInv, CreateFind, ThreadIdle
<1>1. t \notin Listed /\ task_list \in Seq(Task)
  BY DEF TaskShape, TypeOK
<1>2. /\ PcType' /\ pc'["thread"] = "link" /\ pc'[t] = "user"
      /\ \A b \in Agent : b \notin {"thread", t} => pc'[b] = pc[b]
  <2>1. "thread" \in Agent /\ t \in Agent /\ t # "thread" /\ t \notin Context /\ "thread" \notin Task
    BY DEF Agent, Context
  <2>2. pc \in [Agent -> ContextPc \cup TaskPc] /\ PcType
    BY DEF TypeOK, PcType
  <2>3. "link" \in ContextPc /\ "user" \in TaskPc
    BY DEF ContextPc, TaskPc
  <2>4. /\ pc'["thread"] = "link" /\ pc'[t] = "user"
        /\ \A b \in Agent : b \notin {"thread", t} => pc'[b] = pc[b]
    BY <2>1, <2>2
  <2>5. pc' \in [Agent -> ContextPc \cup TaskPc]
    BY <2>1, <2>2, <2>3
  <2> QED BY <2>1, <2>2, <2>3, <2>4, <2>5 DEF PcType, Agent
<1>3. /\ task_state' \in [Task -> {"free", "ready", "dead"}]
      /\ \A u \in Task : u # t => task_state'[u] = task_state[u]
      /\ task_state'[t] = "ready"
  BY DEF TypeOK
<1>4. NoWait \in Wait
  BY TickTypes DEF NoWait, Wait
<1>5. /\ wait' \in [Agent -> Wait]
      /\ \A b \in Agent : b # t => wait'[b] = wait[b]
  BY <1>4 DEF TypeOK
<1>6. creating'.slot = t /\ creating' \in [slot : Task \cup {NoTask}, tail : Task \cup {NoTask}]
  <2>1. task_list # <<>> => task_list[Len(task_list)] \in Task
    BY <1>1
  <2> QED BY <2>1
<1>7. TypeOK'
  BY <1>2, <1>3, <1>5, <1>6 DEF TypeOK, PcType, runVars, claimVars, modeVars, criticalVars
<1>8. /\ ContextShape' /\ ClaimAccounting' /\ WaitDepthExact'
      /\ \A c \in Context : pc'[c] \in RunPc \/ pc[c] \in RunPc => pc'[c] = pc[c]
  BY <1>2, <1>5, ThreadMove DEF Agent
<1>9. RunShape' /\ ListOnce'
  BY <1>8 DEF RunShape, RunPc, ListOnce, runVars
<1>10. Listed' = Listed /\ task_cur # t
  BY <1>1 DEF Listed, RunShape, TypeOK
<1>11. TaskShape' /\ CreateShape'
  <2>1. \A u \in Task : u # t => pc'[u] = pc[u] /\ wait'[u] = wait[u]
    BY <1>2, <1>5 DEF Agent, Context
  <2>2. TaskShape'
    BY <1>2, <1>3, <1>10, <2>1 DEF TaskShape, InWait, WaitPc
  <2> QED BY <1>1, <1>3, <1>6, <1>10, <2>2 DEF CreateShape
<1>12. CriticalHeldByRunner'
  BY <1>2, <1>10 DEF CriticalHeldByRunner, RunShape, TypeOK, modeVars, criticalVars, Agent, Context
<1>13. NoMissedGive'
  BY <1>2, <1>5 DEF NoMissedGive, Agent, Context
<1>14. NoLostWakeup'
  <2> SUFFICES ASSUME NEW u \in Task, Parked(u)', (sem[wait[u].on] > 0)'
               PROVE  (sched_woken \/ StillToVisit(u) \/ pc["thread"] = "wake")'
    BY DEF NoLostWakeup
  <2>1. u # t
    BY <1>2 DEF Parked
  <2>2. Parked(u) /\ sem[wait[u].on] > 0
    BY <1>2, <1>3, <1>5, <1>10, <2>1 DEF Parked, Agent, Context
  <2>3. StillToVisit(u) => StillToVisit(u)'
    BY <1>8 DEF StillToVisit, RunPc, runVars
  <2> QED BY <2>2, <2>3 DEF NoLostWakeup
<1> QED BY <1>7, <1>8, <1>9, <1>11, <1>12, <1>13, <1>14

\* mm_halow_sched_task_create links the task at the tail, or to a tail reaped since.
LEMMA CreateLinkInv ==
  ASSUME IInv, CreateLink
  PROVE  IInv'
<1> USE SchedAssumption DEF IInv, CreateLink
<1>1. PcType' /\ pc'["thread"] = "wake" /\ \A b \in Agent : b # "thread" => pc'[b] = pc[b]
  BY GotoPc DEF PcType, TypeOK, ContextPc, Agent, Context
<1>2. /\ task_list \in Seq(Task)
      /\ creating.slot \in Task \ Listed /\ task_state[creating.slot] = "ready"
  BY DEF TypeOK, CreateShape
<1>3. /\ task_list' \in Seq(Task)
      /\ DOMAIN task_list \subseteq DOMAIN task_list'
      /\ Len(task_list') >= Len(task_list)
      /\ \A i \in DOMAIN task_list : task_list'[i] = task_list[i]
      /\ \A i \in DOMAIN task_list' : i \notin DOMAIN task_list =>
           i = Len(task_list) + 1 /\ task_list'[i] = creating.slot
  <2>1. CASE task_list' = Append(task_list, creating.slot)
    BY <1>2, <2>1
  <2>2. CASE task_list' = task_list
    BY <1>2, <2>2
  <2> QED BY <2>1, <2>2
<1>4. TypeOK'
  BY <1>1, <1>3 DEF TypeOK, PcType, runVars, claimVars, waitVars, modeVars, criticalVars, NoCreate
<1>5. /\ ContextShape' /\ ClaimAccounting' /\ WaitDepthExact'
      /\ \A c \in Context : pc'[c] \in RunPc \/ pc[c] \in RunPc => pc'[c] = pc[c]
  BY <1>1, ThreadMove DEF Agent, waitVars
<1>6. RunShape'
  <2>1. task_cur # NoTask => cursor \in DOMAIN task_list
    BY <1>2 DEF RunShape, TypeOK
  <2>2. Len(task_list) \in Nat /\ Len(task_list') \in Nat /\ cursor \in Nat
    BY <1>2, <1>3 DEF TypeOK
  <2>3. task_cur # NoTask => cursor <= Len(task_list') /\ task_list'[cursor] = task_cur
    BY <1>3, <2>1, <2>2 DEF RunShape
  <2> QED BY <1>5, <2>3 DEF RunShape, RunPc, runVars
<1>7. ListOnce'
  BY <1>2, <1>3 DEF ListOnce, Listed
<1>8. Listed' \subseteq Listed \cup {creating.slot}
  BY <1>3 DEF Listed
<1>9. TaskShape' /\ CreateShape'
  BY <1>1, <1>2, <1>8 DEF TaskShape, CreateShape, InWait, waitVars, Agent, Context
<1>10. CriticalHeldByRunner'
  BY <1>1 DEF CriticalHeldByRunner, RunShape, TypeOK, modeVars, criticalVars, Agent, Context
<1>11. NoMissedGive' /\ NoLostWakeup'
  BY <1>1 DEF NoMissedGive, NoLostWakeup
<1> QED BY <1>4, <1>5, <1>6, <1>7, <1>9, <1>10, <1>11

\* mm_halow_sched_teardown is set and cleared.
LEMMA TeardownInv ==
  ASSUME IInv, TeardownBegin \/ TeardownEnd
  PROVE  IInv'
<1> USE SchedAssumption DEF IInv
<1>1. UNCHANGED <<ticks, schedVars, runVars, claimVars, waitVars, criticalVars, pc, creating>>
  BY DEF TeardownBegin, TeardownEnd
<1>2. (sched_teardown \in BOOLEAN)'
  BY DEF TeardownBegin, TeardownEnd
<1>3. TypeOK'
  BY <1>1, <1>2 DEF TypeOK, schedVars, runVars, claimVars, waitVars, criticalVars
<1>4. /\ ContextShape' /\ ClaimAccounting' /\ WaitDepthExact' /\ RunShape' /\ ListOnce'
      /\ \A u \in Task : StillToVisit(u)' = StillToVisit(u)
  BY <1>1, NobodyMoves DEF schedVars, waitVars
<1>5. TaskShape' /\ CreateShape' /\ NoMissedGive' /\ CriticalHeldByRunner'
  BY <1>1 DEF TaskShape, CreateShape, NoMissedGive, CriticalHeldByRunner, Listed, InWait, schedVars,
     waitVars, criticalVars
<1>6. NoLostWakeup'
  BY <1>1, <1>4 DEF NoLostWakeup, Parked, Listed, schedVars, waitVars
<1> QED BY <1>3, <1>4, <1>5, <1>6

\* mm_halow_sched_deinit from outside the scheduler leaves it as it starts out.
LEMMA DeinitInv ==
  ASSUME IInv, Deinit
  PROVE  IInv'
<1> USE SchedAssumption DEF IInv, Deinit, ThreadIdle
<1>1. pc["irq"] = "base" /\ pc["thread"] = "base"
  BY DEF Executing, Context
<1>2. /\ PcType' /\ \A c \in Context : pc'[c] = "base"
      /\ \A t \in Task : pc'[t] = "user"
  BY <1>1 DEF PcType, TypeOK, ContextPc, TaskPc, Agent, Context
<1>3. \A c \in Context : c \notin polling /\ ~InWait(c)
  BY <1>1 DEF ContextShape, Context
<1>4. NoWait \in Wait /\ NoWait.on = NoSem
  BY TickTypes DEF NoWait, Wait
<1>5. wait' \in [Agent -> Wait] /\ \A c \in Context : ~InWait(c)'
  BY <1>4 DEF InWait, Agent
<1>6. (sched_running \in BOOLEAN /\ sched_woken \in BOOLEAN)'
  OBVIOUS
<1>7. (sched_wake_at \in Ticks)'
  BY TickTypes DEF WakeAtReset, TypeOK
<1>8. task_list' \in Seq(Task) /\ task_state' \in [Task -> {"free", "ready", "dead"}]
  OBVIOUS
<1>9. TypeOK'
  BY <1>2, <1>5, <1>6, <1>7, <1>8 DEF TypeOK, PcType, modeVars, criticalVars
<1>10. ContextShape' /\ ClaimAccounting' /\ WaitDepthExact'
  BY <1>2, <1>3, <1>5 DEF ContextShape, ClaimAccounting, WaitDepthExact, InPass, Servicing, Claims,
     RunPc, Context
<1>11. RunShape' /\ ListOnce'
  <2>1. DOMAIN task_list' = {}
    OBVIOUS
  <2>2. RunShape'
    BY <1>2 DEF RunShape, RunPc
  <2> QED BY <2>1, <2>2 DEF ListOnce
<1>12. Listed' = {}
  BY DEF Listed
<1>13. TaskShape' /\ CreateShape' /\ NoMissedGive' /\ NoLostWakeup'
  BY <1>2, <1>12 DEF TaskShape, CreateShape, NoMissedGive, NoLostWakeup, Parked, WaitPc, Context
<1>14. CriticalHeldByRunner'
  BY <1>1 DEF CriticalHeldByRunner, RunShape, TypeOK, modeVars, criticalVars, Context
<1> QED BY <1>9, <1>10, <1>11, <1>13, <1>14

\* Time passes.
LEMMA TickInv ==
  ASSUME IInv, Tick
  PROVE  IInv'
<1> USE SchedAssumption DEF IInv, Tick
<1>1. TypeOK'
  BY TickTypes DEF TypeOK, schedVars, runVars, claimVars, waitVars, modeVars, criticalVars
<1>2. /\ ContextShape' /\ ClaimAccounting' /\ WaitDepthExact' /\ RunShape' /\ ListOnce'
      /\ \A u \in Task : StillToVisit(u)' = StillToVisit(u)
  BY NobodyMoves DEF schedVars, waitVars
<1>3. TaskShape' /\ CreateShape' /\ NoMissedGive' /\ CriticalHeldByRunner'
  BY DEF TaskShape, CreateShape, NoMissedGive, CriticalHeldByRunner, Listed, InWait, schedVars,
     waitVars, modeVars, criticalVars
<1>4. NoLostWakeup'
  BY <1>2 DEF NoLostWakeup, Parked, Listed, schedVars, waitVars
<1> QED BY <1>1, <1>2, <1>3, <1>4

-----------------------------------------------------------------------------
(* The theorems *)

\* The driver starts out in the invariant.
LEMMA InitInv == Init => IInv
<1> SUFFICES ASSUME Init PROVE IInv
  OBVIOUS
<1> USE SchedAssumption, TickTypes DEF Init
<1>1. /\ \A c \in Context : pc[c] = "base" /\ c \in Agent
      /\ \A t \in Task : pc[t] = "user" /\ t \in Agent
      /\ pc \in [Agent -> ContextPc \cup TaskPc]
  BY DEF ContextPc, TaskPc, Agent, Context
<1>2. NoWait \in Wait /\ NoWait.on = NoSem
  BY DEF NoWait, Wait
<1>3. wait \in [Agent -> Wait] /\ \A a \in Agent : ~InWait(a)
  BY <1>2 DEF InWait
<1>4. Listed = {} /\ DOMAIN task_list = {} /\ task_list \in Seq(Task)
  BY DEF Listed
<1>5. (sched_woken \in BOOLEAN) /\ (sched_running \in BOOLEAN) /\ (sched_teardown \in BOOLEAN)
  OBVIOUS
<1>a. critical_nesting \in 0 .. MaxNest
  OBVIOUS
<1>b. (critical_state \in BOOLEAN) /\ (masked \in BOOLEAN)
  OBVIOUS
<1>6. TypeOK
  BY <1>1, <1>3, <1>4, <1>5, <1>a, <1>b DEF TypeOK, ContextPc, TaskPc, NoCreate
<1>7. ContextShape /\ ClaimAccounting /\ WaitDepthExact
  BY <1>1, <1>3 DEF ContextShape, ClaimAccounting, WaitDepthExact, InPass, Servicing, Claims, RunPc,
     Context
<1>8. RunShape /\ ListOnce
  BY <1>1, <1>4 DEF RunShape, RunPc, ListOnce, Context
<1>9. /\ TaskShape /\ CreateShape /\ CriticalHeldByRunner /\ NoMissedGive /\ NoLostWakeup
  BY <1>1, <1>4 DEF TaskShape, CreateShape, CriticalHeldByRunner, NoMissedGive, NoLostWakeup,
     Parked, WaitPc, Context
<1> QED BY <1>6, <1>7, <1>8, <1>9 DEF IInv

\* Every step of the scheduler preserves the invariant: one lemma per action above.
LEMMA NextInv == IInv /\ [Next]_vars => IInv'
<1> SUFFICES ASSUME IInv, [Next]_vars PROVE IInv'
  OBVIOUS
<1>1. ASSUME NEW c \in Context, PollEnter(c) \/ ContextStep(c) PROVE IInv'
  BY <1>1, PollEnterInv, PollIdleInv, PollStepInv, RunEnterInv, PassStartInv, WalkInv, PassEndInv,
     ReapInv, RunExitInv, ReleaseInv, YieldClaimInv DEF ContextStep
<1>2. ASSUME NEW a \in Waiter, NEW s \in Sem, NEW timeout \in Timeouts, WaitBegin(a, s, timeout)
      PROVE  IInv'
  BY <1>2, WaitBeginInv, SchedAssumption
<1>3. ASSUME NEW a \in Agent, WaitStep(a) PROVE IInv'
  BY <1>3, WaitCondInv, WaitTakenInv, WaitCheckInv, WaitRecheckInv DEF WaitStep
<1>4. ASSUME NEW t \in Task, TaskStep(t) PROVE IInv'
  <2>1. CASE Yield(t) \/ CsAssert(t)
    BY <2>1, TaskYieldInv DEF Yield, CsAssert
  <2> QED BY <1>4, <2>1, ParkInv, TaskExitInv, TaskDeleteInv, CriticalInv DEF TaskStep
<1>5. ASSUME NEW s \in Sem, Give(s) PROVE IInv'
  BY <1>5, GiveInv
<1>6. CASE ThreadStep
  BY <1>6, ThreadGiveInv, ThreadDeleteInv, ThreadWakeInv, CreateFindInv, CreateLinkInv, TeardownInv,
     DeinitInv DEF ThreadStep
<1>7. CASE UNCHANGED vars
  <2>1. UNCHANGED <<ticks, schedVars, runVars, claimVars, waitVars, modeVars, pc, creating>>
    BY <1>7 DEF vars
  <2>2. TypeOK'
    BY <2>1 DEF IInv, TypeOK, schedVars, runVars, claimVars, waitVars, modeVars, criticalVars
  <2>3. /\ ContextShape' /\ ClaimAccounting' /\ WaitDepthExact' /\ RunShape' /\ ListOnce'
        /\ \A u \in Task : StillToVisit(u)' = StillToVisit(u)
    BY <2>1, NobodyMoves DEF schedVars, waitVars
  <2>4. TaskShape' /\ CreateShape' /\ NoMissedGive' /\ CriticalHeldByRunner'
    BY <2>1 DEF IInv, TaskShape, CreateShape, NoMissedGive, CriticalHeldByRunner, Listed, InWait,
       schedVars, waitVars, modeVars, criticalVars
  <2>5. NoLostWakeup'
    BY <2>1, <2>3 DEF IInv, NoLostWakeup, Parked, Listed, schedVars, waitVars
  <2> QED BY <2>2, <2>3, <2>4, <2>5 DEF IInv
<1> QED BY <1>1, <1>2, <1>3, <1>4, <1>5, <1>6, <1>7, TickInv DEF Next, Goes

\* The inductive invariant holds in every reachable state, for any number of tasks and
\* semaphores, any clock, budget and number of passes.
THEOREM Inductive == Spec => []IInv
BY InitInv, NextInv, PTL DEF Spec

\* Every variable keeps its type; in particular no count leaves its range
\* (mmosal_sem_give, mm_halow_sched_release, the wait_depth of mm_halow_sched_wait).
THEOREM TypeCorrect == Spec => []TypeOK
<1>1. IInv => TypeOK
  BY DEF IInv
<1> QED BY <1>1, Inductive, PTL

\* The claim is held by whoever services the transceiver, as deep as its polls and
\* waits have nested (mm_halow_sched_claim, mm_halow_sched_release and their callers).
THEOREM ClaimsCorrect == Spec => []ClaimAccounting
<1>1. IInv => ClaimAccounting
  BY DEF IInv
<1> QED BY <1>1, Inductive, PTL

\* The thread and PendSV never service the transceiver at the same time
\* (mm_halow_poll_func, mm_halow_sched_yield).
THEOREM ServiceExclusive == Spec => []ServiceExclusion
<1>1. IInv => ServiceExclusion
  BY DEF IInv, ClaimAccounting, ServiceExclusion, Context
<1> QED BY <1>1, Inductive, PTL

\* A wait that wants to make a pass is never refused the claim, however deep in a poll
\* it is: mm_halow_sched_yield cannot spin against a holder that cannot run.
THEOREM WaitersGranted == Spec => []WaiterNotRefused
<1>1. IInv => WaiterNotRefused
  <2> SUFFICES ASSUME IInv, NEW c \in Context, Executing(c), pc[c] = "yield"
               PROVE  Claimable(c)
    BY DEF WaiterNotRefused
  <2>1. CASE c = "irq"
    BY <2>1 DEF IInv, ContextShape, ClaimAccounting, Servicing, TypeOK, Claimable, Context
  <2>2. CASE c = "thread"
    <3>1. pc["irq"] = "base"
      BY <2>2 DEF Executing
    <3>2. ~Servicing("irq")
      BY <3>1 DEF IInv, ContextShape, Servicing, InPass, RunPc, Context
    <3> QED BY <2>2, <3>2 DEF IInv, ClaimAccounting, TypeOK, Claimable, Context
  <2> QED BY <2>1, <2>2 DEF Context
<1> QED BY <1>1, Inductive, PTL

\* mm_halow_sched_in_wait() tells exactly whether the thread or PendSV is in a wait.
THEOREM WaitDepthCorrect == Spec => []WaitDepthExact
<1>1. IInv => WaitDepthExact
  BY DEF IInv
<1> QED BY <1>1, Inductive, PTL

\* The stack the CPU runs on is live and run by one context only (mm_halow_sched_run,
\* mm_halow_sched_reap, mm_halow_sched_task_delete).
THEOREM StackLive == Spec => []RunningStackLive
<1>1. IInv => RunningStackLive
  <2> SUFFICES ASSUME IInv PROVE RunningStackLive
    OBVIOUS
  <2>1. CASE task_cur = NoTask
    BY <2>1 DEF IInv, RunShape, RunningStackLive
  <2>2. CASE task_cur # NoTask
    <3>1. PICK c \in Context : pc[c] = "turn"
      BY <2>2 DEF IInv, RunShape
    <3>2. \A d \in Context : pc[d] = "turn" => d = c
      BY <3>1 DEF IInv, ClaimAccounting, Servicing, InPass, RunPc
    <3>3. sched_running
      BY <3>1 DEF IInv, RunShape, RunPc
    <3>4. task_cur \in Listed /\ task_state[task_cur] # "free"
      BY <2>2 DEF IInv, RunShape, TaskShape, TypeOK, Listed
    <3> QED BY <2>2, <3>1, <3>2, <3>3, <3>4 DEF RunningStackLive
  <2> QED BY <2>1, <2>2
<1> QED BY <1>1, Inductive, PTL

\* A critical section is open only under the task that opened it: the bus path never
\* takes the CPU from inside one (mmhal_wlan_spi_cs_assert).
THEOREM CriticalSafe == Spec => []CriticalHeldByRunner
<1>1. IInv => CriticalHeldByRunner
  BY DEF IInv
<1> QED BY <1>1, Inductive, PTL

\* No wakeup is lost, whatever gives and at whatever point of a pass
\* (mm_halow_sched_run, mm_halow_sched_wait, mmosal_sem_give).
THEOREM WakeupsKept == Spec => []NoLostWakeup
<1>1. IInv => NoLostWakeup
  BY DEF IInv
<1> QED BY <1>1, Inductive, PTL

-----------------------------------------------------------------------------
(* Deadlines and turns: TimeInv is preserved by every step that preserves IInv. *)

\* Readings of the clock keep their distances when they are measured from another one.
LEMMA SinceShift ==
  ASSUME NEW a \in Ticks, NEW b \in Ticks, NEW p \in Ticks
  PROVE  /\ TickSub(a, b) = TickSub(TickSub(a, p), TickSub(b, p))
         /\ TickSub(TickAdd(a, b), p) = TickAdd(TickSub(a, p), b)
         /\ TickSub(a, a) = 0
         /\ TickSub(TickAdd(a, b), a) = b
BY ClockAssumption DEF Ticks, TickSub, TickAdd

\* Clock readings of the state, and the room that InReach leaves below half the clock.
LEMMA Readings ==
  ASSUME IInv
  PROVE  /\ ticks \in Ticks /\ sched_wake_at \in Ticks /\ sched_deadline \in Ticks
         /\ \A t \in Task : /\ wait[t].start \in Ticks /\ wait[t].timeout \in Ticks
                            /\ WaitUntil(wait[t]) \in Ticks
         /\ HALF \in Nat /\ HALF >= 2 /\ CLOCK = 2 * HALF /\ INT_MAX = HALF - 1
         /\ BUDGET \in 1 .. INT_MAX /\ WAIT_MAX \in 1 .. INT_MAX /\ MaxLate \in Nat
         /\ RUN_MAX = BUDGET + MaxLate
<1>1. \A t \in Task : wait[t] \in Wait
  BY DEF IInv, TypeOK, Agent
<1>2. \A t \in Task : wait[t].start \in Ticks /\ wait[t].timeout \in Ticks
  BY <1>1 DEF Wait
<1>3. \A t \in Task : WaitUntil(wait[t]) \in Ticks
  BY <1>2, TickTypes DEF WaitUntil
<1>4. /\ HALF \in Nat /\ HALF >= 2 /\ CLOCK = 2 * HALF /\ INT_MAX = HALF - 1
  BY ClockAssumption DEF HALF, INT_MAX
<1> QED BY <1>2, <1>3, <1>4, SchedAssumption DEF IInv, TypeOK, RUN_MAX

\* The task the CPU runs is one the pass under way has not dealt with.
LEMMA CurrentVisited ==
  ASSUME IInv, NEW t \in Task, task_cur = t
  PROVE  MidPass /\ StillToVisit(t) /\ t \in Listed /\ sched_running
BY SchedAssumption DEF IInv, RunShape, TypeOK, MidPass, StillToVisit, Listed, RunPc

\* A step that leaves wake_at and the tasks the pass has dealt with alone keeps the
\* deadlines in order; the deadline of a task about to park is ahead of it.
LEMMA DeadlinesKept ==
  ASSUME InReach, IInv, IInv', TimesShape', NEW p \in Ticks, PassBeganAt(p),
         UNCHANGED <<ticks, sched_wake_at>>,
         MidPass' => MidPass /\ sched_deadline' = sched_deadline,
         \A t \in Task : Dealt(t)' => Dealt(t) /\ wait'[t] = wait[t],
         \A t \in Task : pc'[t] = "park" /\ ~wait'[t].forever =>
            \/ pc[t] = "park" /\ wait'[t] = wait[t]
            \/ MidPass /\ TickSub(ticks, wait'[t].start) < wait'[t].timeout
  PROVE  PassBeganAt(p)'
<1>1. TickSub(sched_wake_at', p) \in 1 .. INT_MAX
  BY DEF PassBeganAt
<1>2. MidPass' => /\ TickSub(sched_deadline', p) \in 1 .. BUDGET
                  /\ TickSub(ticks', p) <= TickSub(sched_deadline', p) + MaxLate
  BY DEF PassBeganAt
<1>3. ASSUME NEW t \in Task, pc'[t] = "park", ~wait'[t].forever
      PROVE  TickSub(WaitUntil(wait'[t]), p) \in 1 .. WAIT_MAX + RUN_MAX
  <2>1. CASE pc[t] = "park" /\ wait'[t] = wait[t]
    BY <1>3, <2>1 DEF PassBeganAt
  <2>2. CASE MidPass /\ TickSub(ticks, wait'[t].start) < wait'[t].timeout
    <3> DEFINE s == wait'[t].start
               d == wait'[t].timeout
               deadline == TickSub(sched_deadline, p)
               now == TickSub(ticks, p)
               late == TickSub(ticks, s)
    <3>1. s \in Ticks /\ d \in Ticks /\ d <= WAIT_MAX
      <4>1. wait'[t] \in Wait
        BY DEF IInv, TypeOK, Agent
      <4>2. InWait(t)'
        BY <1>3 DEF IInv, TaskShape, WaitPc
      <4> QED BY <1>3, <4>1, <4>2 DEF Wait, TimesShape
    <3>2. late \in Ticks /\ late < d
      BY <2>2, <3>1, Readings, TickTypes
    <3>3. deadline \in 1 .. BUDGET /\ now <= deadline + MaxLate /\ now \in Ticks
      BY <2>2, Readings, TickTypes DEF PassBeganAt
    <3>4. TickSub(TickAdd(s, d), ticks) = d - late
      BY <3>1, <3>2, Readings, ClockAssumption DEF Ticks, TickSub, TickAdd
    <3>5. TickAdd(s, d) \in Ticks /\ TickSub(TickAdd(s, d), p) \in Ticks
      BY <3>1, TickTypes
    <3>6. TickSub(TickAdd(s, d), ticks) = TickSub(TickSub(TickAdd(s, d), p), now)
      BY <3>5, Readings, SinceShift
    <3> HIDE DEF s, d, deadline, now, late
    <3>7. TickSub(TickAdd(s, d), p) = now + (d - late)
      BY <3>1, <3>2, <3>3, <3>4, <3>5, <3>6, Readings DEF InReach, TickSub, Ticks
    <3>8. TickSub(TickAdd(s, d), p) \in 1 .. WAIT_MAX + RUN_MAX
      BY <3>1, <3>2, <3>3, <3>7, Readings DEF Ticks
    <3> QED BY <3>8 DEF WaitUntil, s, d
  <2> QED BY <1>3, <2>1, <2>2
<1>4. ASSUME NEW t \in Task, Dealt(t)'
      PROVE  /\ TickSub(sched_wake_at', p) <= TickSub(WaitUntil(wait'[t]), p)
             /\ TickSub(WaitUntil(wait'[t]), p) <= WAIT_MAX + RUN_MAX
             /\ TickSub(ticks', p) <= TickSub(sched_wake_at', p) + RUN_MAX
  BY <1>4 DEF PassBeganAt
<1> QED BY <1>1, <1>2, <1>3, <1>4 DEF PassBeganAt

\* The thread is about to wake the scheduler, or it has been woken.
Told == sched_woken \/ pc["thread"] = "wake"

\* A step that changes no reading of the clock but the deadline of a run, and after which
\* every task stands where it stood, or is the running one in its wait, or is not listed,
\* keeps deadlines and turns.
LEMMA TasksKept ==
  ASSUME InReach, IInv, IInv', TimeInv,
         UNCHANGED <<ticks, sched_wake_at, task_cur>>,
         \A t \in Task :
            \/ pc'[t] = pc[t] /\ wait'[t] = wait[t]
            \/ t \notin Listed' /\ pc'[t] = "user" /\ ~InWait(t)'
            \/ /\ task_cur = t
               /\ InWait(t)' /\ ~wait'[t].forever => wait'[t].timeout <= WAIT_MAX
               /\ pc'[t] = "park" /\ ~wait'[t].forever =>
                    TickSub(ticks, wait'[t].start) < wait'[t].timeout,
         \A t \in Listed' :
            \/ t \in Listed /\ task_state'[t] = task_state[t]
            \/ t \in Listed /\ task_state'[t] = "dead" /\ Told'
            \/ pc'[t] = "user" /\ Told',
         pc'["thread"] = "link" => pc'[creating'.slot] = "user",
         MidPass' => MidPass /\ sched_deadline' = sched_deadline,
         sched_running' => \/ sched_running /\ sched_deadline' = sched_deadline
                           \/ sched_deadline' = TickAdd(ticks, BUDGET),
         sched_running => sched_running' \/ \A t \in Listed : task_state[t] # "dead",
         \A t \in Task : StillToVisit(t) => StillToVisit(t)',
         Told => Told'
  PROVE  TimeInv'
<1>1. TimesShape'
  <2>1. \A t \in Task : InWait(t)' /\ ~wait'[t].forever => wait'[t].timeout <= WAIT_MAX
    BY DEF TimeInv, TimesShape, InWait
  <2>2. sched_running' => \/ Reached(ticks', sched_deadline')
                          \/ TickSub(sched_deadline', ticks') <= BUDGET
    <3>1. TickSub(TickAdd(ticks, BUDGET), ticks) = BUDGET
      BY Readings, TickTypes, SinceShift
    <3> QED BY <3>1, Readings DEF TimeInv, TimesShape
  <2> QED BY <2>1, <2>2 DEF TimesShape
<1>2. NoLostTurn'
  <2> SUFFICES ASSUME NEW t \in Listed', ~Told', ~StillToVisit(t)'
               PROVE  Parked(t)' \/ (task_state'[t] = "dead" /\ sched_running')
    BY DEF NoLostTurn, Told
  <2>1. t \in Task
    BY DEF IInv, TypeOK, Listed
  <2>2. t \in Listed /\ task_state'[t] = task_state[t] /\ ~Told /\ ~StillToVisit(t)
    BY <2>1
  <2>3. task_cur # t
    BY <2>1, <2>2, CurrentVisited
  <2>4. pc'[t] = pc[t]
    BY <2>1, <2>3
  <2>5. CASE Parked(t)
    BY <2>2, <2>3, <2>4, <2>5 DEF Parked
  <2>6. CASE task_state[t] = "dead" /\ sched_running
    BY <2>2, <2>6
  <2> QED BY <2>2, <2>5, <2>6 DEF TimeInv, NoLostTurn, Told
<1>3. \A t \in Task : Dealt(t)' => Dealt(t) /\ wait'[t] = wait[t]
  <2> SUFFICES ASSUME NEW t \in Task, Dealt(t)'
               PROVE  Dealt(t) /\ wait'[t] = wait[t]
    OBVIOUS
  <2>1. t \in Listed' /\ task_state'[t] = "ready" /\ pc'[t] = "cond" /\ task_cur # t
    BY DEF Dealt, Parked
  <2>2. pc'[t] = pc[t] /\ wait'[t] = wait[t] /\ ~StillToVisit(t)
    BY <2>1 DEF Dealt
  <2>3. t \in Listed /\ task_state[t] = "ready"
    BY <2>1
  <2> QED BY <2>1, <2>2, <2>3 DEF Dealt, Parked
<1>4. \A t \in Task : pc'[t] = "park" /\ ~wait'[t].forever =>
         \/ pc[t] = "park" /\ wait'[t] = wait[t]
         \/ MidPass /\ TickSub(ticks, wait'[t].start) < wait'[t].timeout
  BY CurrentVisited
<1>5. PICK p \in Ticks : PassBeganAt(p)
  BY DEF TimeInv
<1>6. PassBeganAt(p)'
  BY <1>1, <1>3, <1>4, <1>5, DeadlinesKept
<1> QED BY <1>1, <1>2, <1>6 DEF TimeInv

\* A step of a context outside a walk of the list that touches no task.
LEMMA ContextKept ==
  ASSUME InReach, IInv, IInv', TimeInv, NEW c \in Context,
         pc[c] \notin {"walk", "turn"}, pc'[c] \notin {"walk", "turn", "link"},
         pc[c] = "wake" => sched_woken',
         \A b \in Agent : b # c => pc'[b] = pc[b],
         \A t \in Task : wait'[t] = wait[t],
         UNCHANGED <<ticks, sched_wake_at, task_cur, task_state, task_list, cursor, creating>>,
         sched_woken => sched_woken',
         sched_running' => sched_deadline' = IF sched_running THEN sched_deadline
                                             ELSE TickAdd(ticks, BUDGET),
         sched_running => sched_running' \/ \A t \in Listed : task_state[t] # "dead"
  PROVE  TimeInv'
<1>1. \A t \in Task : pc'[t] = pc[t]
  BY SchedAssumption DEF Agent
<1>2. Listed' = Listed /\ Listed \subseteq Task
  BY DEF Listed, IInv, TypeOK
<1>3. \A d \in Context : pc'[d] \in {"walk", "turn"} <=> pc[d] \in {"walk", "turn"}
  BY DEF Agent
<1>4. MidPass' = MidPass /\ \A t \in Task : StillToVisit(t)' = StillToVisit(t)
  BY <1>3 DEF MidPass, StillToVisit
<1>5. MidPass' => MidPass /\ sched_deadline' = sched_deadline
  <2>1. (MidPass => sched_running) /\ (MidPass' => sched_running')
    BY DEF IInv, RunShape, RunPc, MidPass
  <2> QED BY <1>4, <2>1
<1>6. pc'["thread"] = "link" => pc'[creating'.slot] = "user"
  <2>1. pc'["thread"] = "link" => pc["thread"] = "link"
    BY DEF Agent, Context
  <2> QED BY <1>1, <2>1 DEF IInv, CreateShape, TimeInv, TimesShape
<1>7. Told => Told'
  BY DEF Told, Agent, Context
<1> QED BY <1>1, <1>2, <1>4, <1>5, <1>6, <1>7, TasksKept

\* A step in which nobody moves, which may declare tasks dead and wake the scheduler.
LEMMA StandingKept ==
  ASSUME InReach, IInv, IInv', TimeInv,
         UNCHANGED <<pc, wait, ticks, sched_wake_at, task_cur, task_list, runVars, creating>>,
         \A t \in Task : \/ task_state'[t] = task_state[t]
                         \/ task_state'[t] = "dead" /\ sched_woken',
         sched_woken => sched_woken'
  PROVE  TimeInv'
<1>1. Listed' = Listed /\ Listed \subseteq Task
  BY DEF Listed, IInv, TypeOK
<1>2. MidPass' = MidPass /\ \A t \in Task : StillToVisit(t)' = StillToVisit(t)
  BY DEF MidPass, StillToVisit, runVars
<1>3. (Told => Told') /\ (sched_woken' => Told')
  BY DEF Told
<1>4. pc'["thread"] = "link" => pc'[creating'.slot] = "user"
  BY DEF TimeInv, TimesShape
<1>5. UNCHANGED <<ticks, sched_wake_at, task_cur, sched_running, sched_deadline>>
  BY DEF runVars
<1> QED BY <1>1, <1>2, <1>3, <1>4, <1>5, TasksKept

\* The steps of a poll and of a wait's pass outside mm_halow_sched_run.
LEMMA ServiceTime ==
  ASSUME InReach, IInv, IInv', TimeInv, NEW c \in Context,
         \/ PollEnter(c) \/ PollIdle(c) \/ PollWork(c) \/ PollRun(c) \/ Release(c) \/ YieldClaim(c)
  PROVE  TimeInv'
<1>1. PICK label \in {"base", "polled", "timers", "cond", "run"} :
        /\ Goto(c, label)
        /\ pc[c] \in {"base", "polled", "timers", "release", "yield"}
        /\ UNCHANGED <<ticks, schedVars, runVars, waitVars, creating>>
  BY DEF PollEnter, PollIdle, PollWork, PollRun, Release, YieldClaim
<1>2. pc'[c] = label /\ \A b \in Agent : b # c => pc'[b] = pc[b]
  BY <1>1 DEF Goto, IInv, TypeOK, Agent
<1> QED BY <1>1, <1>2, ContextKept DEF schedVars, runVars, waitVars

\* mm_halow_sched_run sets the deadline of the run, and ends when the dead are reaped.
LEMMA RunTime ==
  ASSUME InReach, IInv, IInv', TimeInv, NEW c \in Context, RunEnter(c) \/ RunExit(c)
  PROVE  TimeInv'
<1>1. PICK label \in {"release", "pass"} :
        /\ Goto(c, label)
        /\ pc[c] \in {"run", "reap"}
        /\ UNCHANGED <<ticks, schedVars, waitVars, creating>>
  BY DEF RunEnter, RunExit
<1>2. pc'[c] = label /\ \A b \in Agent : b # c => pc'[b] = pc[b]
  BY <1>1 DEF Goto, IInv, TypeOK, Agent
<1>3. CASE RunEnter(c)
  <2>1. /\ sched_running' => sched_deadline' = IF sched_running THEN sched_deadline
                                               ELSE TickAdd(ticks, BUDGET)
        /\ sched_running => sched_running'
        /\ cursor' = cursor
    BY <1>3 DEF RunEnter, runVars
  <2> QED BY <1>1, <1>2, <2>1, ContextKept DEF schedVars, waitVars
<1>4. CASE RunExit(c)
  <2>1. \A t \in Task : ~StillToVisit(t)
    BY <1>4, AloneInRun DEF RunExit, StillToVisit, InPass, RunPc
  <2>2. ~MidPass'
    <3>1. ~sched_running'
      BY <1>4 DEF RunExit
    <3> QED BY <3>1 DEF IInv, RunShape, RunPc, MidPass
  <2>3. Listed' = Listed /\ Listed \subseteq Task /\ \A t \in Listed : task_state[t] # "dead"
    BY <1>4 DEF RunExit, schedVars, Listed, IInv, TypeOK
  <2>4. /\ \A t \in Task : pc'[t] = pc[t] /\ wait'[t] = wait[t]
        /\ Told => Told'
        /\ pc'["thread"] = "link" => pc["thread"] = "link"
    BY <1>1, <1>2, SchedAssumption DEF Told, Agent, Context, schedVars, waitVars
  <2>5. pc'["thread"] = "link" => pc'[creating'.slot] = "user"
    BY <1>1, <2>4 DEF IInv, CreateShape, TimeInv, TimesShape
  <2>6. ~sched_running' /\ UNCHANGED <<ticks, sched_wake_at, task_cur, task_state>>
    BY <1>4 DEF RunExit, schedVars
  <2> QED BY <2>1, <2>2, <2>3, <2>4, <2>5, <2>6, TasksKept
<1> QED BY <1>3, <1>4

\* A pass begins: every task has its turn and its deadline ahead of it.
LEMMA PassStartTime ==
  ASSUME InReach, IInv, IInv', TimeInv, NEW c \in Context, PassStart(c)
  PROVE  TimeInv'
<1>1. /\ pc[c] = "pass"
      /\ UNCHANGED <<ticks, task_state, task_list, task_cur, sched_running, sched_deadline, wait,
                     creating>>
  BY DEF PassStart, waitVars
<1>2. CASE Goto(c, "reap") /\ UNCHANGED <<sched_woken, sched_wake_at, cursor>>
  <2>1. pc'[c] = "reap" /\ \A b \in Agent : b # c => pc'[b] = pc[b]
    BY <1>2 DEF Goto, IInv, TypeOK, Agent
  <2> QED BY <1>1, <1>2, <2>1, AloneInRun, ContextKept
<1>3. CASE /\ ~PassExpired /\ Goto(c, "walk") /\ cursor' = 1
           /\ sched_wake_at' = TickAdd(ticks, INT_MAX)
  <2>1. pc'[c] = "walk" /\ \A b \in Agent : b # c => pc'[b] = pc[b]
    BY <1>3 DEF Goto, IInv, TypeOK, Agent
  <2>2. \A t \in Task : pc'[t] = pc[t] /\ pc[t] \in {"user", "cond"}
    BY <1>1, <2>1, AloneInRun, SchedAssumption DEF Agent
  <2>3. Listed' = Listed /\ Listed \subseteq Task
    BY <1>1 DEF Listed, IInv, TypeOK
  <2>4. \A t \in Listed : StillToVisit(t)'
    BY <1>1, <1>3, <2>1 DEF StillToVisit, Listed, IInv, TypeOK
  <2>5. TimesShape'
    <3>1. pc'["thread"] = "link" => pc["thread"] = "link"
      BY <2>1 DEF Agent, Context
    <3> QED BY <1>1, <2>2, <3>1 DEF TimeInv, TimesShape, InWait, IInv, CreateShape
  <2>6. NoLostTurn'
    BY <2>3, <2>4 DEF NoLostTurn
  <2>7. PassBeganAt(ticks)'
    <3>1. TickSub(sched_wake_at', ticks) = INT_MAX /\ TickSub(ticks, ticks) = 0
      BY <1>3, Readings, TickTypes, SinceShift
    <3>2. sched_running /\ ~Reached(ticks, sched_deadline)
      BY <1>1, <1>3, AloneInRun DEF PassExpired
    <3>3. TickSub(sched_deadline, ticks) \in 1 .. BUDGET
      <4>1. TickSub(sched_deadline, ticks) <= BUDGET
        BY <3>2 DEF TimeInv, TimesShape
      <4>2. TickSub(sched_deadline, ticks) # 0
        BY <3>2, Readings DEF Reached, TickSub, Ticks
      <4>3. TickSub(sched_deadline, ticks) \in Ticks
        BY Readings, TickTypes
      <4> QED BY <4>1, <4>2, <4>3, Readings DEF Ticks
    <3>4. \A t \in Task : ~Dealt(t)' /\ pc'[t] # "park"
      BY <2>2, <2>3, <2>4 DEF Dealt, Parked
    <3> QED BY <1>1, <3>1, <3>3, <3>4, Readings DEF PassBeganAt
  <2> QED BY <1>1, <2>5, <2>6, <2>7, Readings DEF TimeInv
<1> QED BY <1>2, <1>3 DEF PassStart, WakeAtReset

\* The walk comes to a task, or passes over one that is dead.
LEMMA WalkTime ==
  ASSUME InReach, IInv, IInv', TimeInv, NEW c \in Context, Walk(c)
  PROVE  TimeInv'
<1>1. /\ pc[c] = "walk" /\ cursor \in DOMAIN task_list /\ cursor \in Nat
      /\ UNCHANGED <<ticks, task_state, task_list, sched_woken, sched_wake_at, sched_running,
                     sched_deadline, wait, creating>>
  BY DEF Walk, IInv, TypeOK, RunShape, waitVars
<1>2. sched_running /\ task_cur = NoTask /\ \A t \in Task : pc[t] \in {"user", "cond"}
  BY <1>1, AloneInRun
<1>3. \/ /\ task_cur' = task_list[cursor] /\ Goto(c, "turn") /\ UNCHANGED cursor
      \/ /\ task_cur' = task_cur /\ cursor' = cursor + 1 /\ UNCHANGED pc
         /\ task_state[task_list[cursor]] # "ready"
  BY DEF Walk
<1>4. /\ pc'[c] \in {"walk", "turn"}
      /\ \A b \in Agent : b # c => pc'[b] = pc[b]
  BY <1>1, <1>3 DEF Goto, IInv, TypeOK, Agent
<1>5. /\ \A t \in Task : pc'[t] = pc[t]
      /\ pc'["thread"] = "link" => pc["thread"] = "link"
      /\ pc["thread"] = "wake" => pc'["thread"] = "wake"
  BY <1>1, <1>4, SchedAssumption DEF Agent, Context
<1>6. Listed' = Listed /\ Listed \subseteq Task /\ MidPass
  BY <1>1 DEF Listed, IInv, TypeOK, MidPass
<1>7. \A t \in Task : task_state[t] = "ready" /\ StillToVisit(t) => StillToVisit(t)'
  <2> SUFFICES ASSUME NEW t \in Task, task_state[t] = "ready", StillToVisit(t)
               PROVE  StillToVisit(t)'
    OBVIOUS
  <2>1. PICK i \in DOMAIN task_list : i >= cursor /\ task_list[i] = t
    BY DEF StillToVisit
  <2>2. i \in Nat /\ i >= cursor'
    BY <1>1, <1>3, <2>1 DEF IInv, TypeOK
  <2> QED BY <1>1, <1>4, <2>1, <2>2 DEF StillToVisit
<1>8. TimesShape'
  BY <1>1, <1>5 DEF TimeInv, TimesShape, InWait, IInv, CreateShape
<1>9. NoLostTurn'
  <2> SUFFICES ASSUME NEW t \in Listed,
                      ~sched_woken', pc'["thread"] # "wake", ~StillToVisit(t)', task_state[t] # "dead"
               PROVE  Parked(t)'
    BY <1>1, <1>2, <1>6 DEF NoLostTurn
  <2>1. task_state[t] = "ready" /\ t \in Task
    BY <1>6 DEF IInv, TaskShape, TypeOK
  <2>2. Parked(t)
    BY <1>1, <1>5, <1>7, <2>1 DEF TimeInv, NoLostTurn
  <2>3. task_cur' # t
    BY <1>1, <1>2, <1>3, <1>4, <2>1, SchedAssumption DEF StillToVisit
  <2> QED BY <1>1, <1>5, <1>6, <2>1, <2>2, <2>3 DEF Parked
<1>10. \A t \in Task : Dealt(t)' => Dealt(t) /\ wait'[t] = wait[t]
  BY <1>1, <1>2, <1>5, <1>6, <1>7, SchedAssumption DEF Dealt, Parked
<1>11. PICK p \in Ticks : PassBeganAt(p)
  BY DEF TimeInv
<1>12. PassBeganAt(p)'
  BY <1>1, <1>2, <1>5, <1>6, <1>8, <1>10, <1>11, DeadlinesKept
<1> QED BY <1>8, <1>9, <1>12 DEF TimeInv

\* The end of the list: no task is still to be visited.
LEMMA PassEndTime ==
  ASSUME InReach, IInv, IInv', TimeInv, NEW c \in Context, PassEnd(c)
  PROVE  TimeInv'
<1>1. /\ pc[c] = "walk" /\ cursor > Len(task_list)
      /\ UNCHANGED <<ticks, schedVars, sched_running, sched_deadline, cursor, wait, creating>>
      /\ Goto(c, "pass") \/ Goto(c, "reap")
  BY DEF PassEnd, waitVars
<1>2. /\ pc'[c] \in {"pass", "reap"}
      /\ \A b \in Agent : b # c => pc'[b] = pc[b]
  BY <1>1 DEF Goto, IInv, TypeOK, Agent
<1>3. /\ \A t \in Task : pc'[t] = pc[t]
      /\ pc'["thread"] = "link" => pc["thread"] = "link"
      /\ Told => Told'
  BY <1>1, <1>2, SchedAssumption DEF Agent, Context, Told, schedVars
<1>4. \A t \in Task : ~StillToVisit(t)
  BY <1>1 DEF StillToVisit, IInv, TypeOK
<1>5. ~MidPass'
  BY <1>1, <1>2, AloneInRun DEF MidPass, InPass, RunPc, Agent
<1>6. Listed' = Listed
  BY <1>1 DEF Listed, schedVars
<1>7. pc'["thread"] = "link" => pc'[creating'.slot] = "user"
  BY <1>1, <1>3 DEF IInv, CreateShape, TimeInv, TimesShape
<1>8. UNCHANGED <<ticks, sched_wake_at, task_cur, task_state, sched_running, sched_deadline, wait>>
  BY <1>1 DEF schedVars
<1> QED BY <1>3, <1>4, <1>5, <1>6, <1>7, <1>8, TasksKept

\* mm_halow_sched_reap takes a dead task off the list.
LEMMA ReapTime ==
  ASSUME InReach, IInv, IInv', TimeInv, NEW c \in Context, Reap(c)
  PROVE  TimeInv'
<1>1. /\ pc[c] = "reap"
      /\ UNCHANGED <<ticks, task_cur, sched_woken, sched_wake_at, runVars, waitVars, pc, creating>>
  BY DEF Reap
<1>2. PICK i \in DOMAIN task_list :
        /\ task_list' = Unlink(task_list, i)
        /\ task_state' = [task_state EXCEPT ![task_list[i]] = "free"]
  BY DEF Reap
<1>3. \A t \in Listed' : t \in Listed /\ t # task_list[i]
  <2>1. task_list \in Seq(Task)
    BY DEF IInv, TypeOK
  <2>2. /\ DOMAIN task_list' = 1 .. Len(task_list) - 1
        /\ \A j \in 1 .. Len(task_list) - 1 :
             LET k == IF j < i THEN j ELSE j + 1
             IN  k \in DOMAIN task_list /\ k # i /\ Unlink(task_list, i)[j] = task_list[k]
    BY <1>2, <2>1, UnlinkList
  <2> QED BY <1>2, <2>2 DEF Listed, IInv, ListOnce
<1>4. \A t \in Listed' : t \in Listed /\ task_state'[t] = task_state[t]
  <2>1. Listed \subseteq Task /\ task_state \in [Task -> {"free", "ready", "dead"}]
    BY DEF IInv, TypeOK, Listed
  <2> QED BY <1>2, <1>3, <2>1
<1>5. (\A t \in Task : ~StillToVisit(t)) /\ ~MidPass'
  BY <1>1, AloneInRun DEF StillToVisit, MidPass, InPass, RunPc
<1>6. /\ pc'["thread"] = "link" => pc'[creating'.slot] = "user"
      /\ Told => Told'
  BY <1>1 DEF TimeInv, TimesShape, Told
<1>7. UNCHANGED <<ticks, sched_wake_at, task_cur, sched_running, sched_deadline, wait, pc>>
  BY <1>1 DEF runVars, waitVars
<1> QED BY <1>4, <1>5, <1>6, <1>7, TasksKept

-----------------------------------------------------------------------------
(* Deadlines and turns: waits *)

\* A step of an agent in its wait: a context, or the running task, whose deadline is ahead
\* when it is about to park.
LEMMA WaitKept ==
  ASSUME InReach, IInv, IInv', TimeInv, NEW a \in Agent, Runs(a),
         pc[a] \notin {"walk", "turn", "wake", "link"},
         pc'[a] \notin {"walk", "turn", "wake", "link"},
         \A b \in Agent : b # a => pc'[b] = pc[b] /\ wait'[b] = wait[b],
         UNCHANGED <<ticks, sched_wake_at, task_cur, task_state, task_list, runVars, creating>>,
         sched_woken => sched_woken',
         InWait(a)' /\ ~wait'[a].forever => a \in Context \/ wait'[a].timeout <= WAIT_MAX,
         pc'[a] = "park" /\ ~wait'[a].forever =>
            TickSub(ticks, wait'[a].start) < wait'[a].timeout
  PROVE  TimeInv'
<1>1. CASE a \in Context
  <2>1. \A t \in Task : t # a /\ t \in Agent
    BY <1>1, SchedAssumption DEF Agent
  <2> QED BY <1>1, <2>1, ContextKept DEF runVars
<1>2. CASE a \in Task
  <2>1. task_cur = a /\ a \notin Context
    BY <1>2, SchedAssumption DEF Runs, OnCPU
  <2>2. \A t \in Task : t # a => pc'[t] = pc[t] /\ wait'[t] = wait[t]
    BY DEF Agent
  <2>3. \A c \in Context : pc'[c] = pc[c]
    BY <2>1 DEF Agent
  <2>4. MidPass' = MidPass /\ \A t \in Task : StillToVisit(t)' = StillToVisit(t)
    BY <2>3 DEF MidPass, StillToVisit, runVars
  <2>5. Listed' = Listed /\ a \in Listed /\ (Told => Told')
    BY <2>1, <2>3, <1>2, CurrentVisited DEF Listed, Told, Context
  <2>6. pc'["thread"] = "link" => pc'[creating'.slot] = "user"
    BY <2>2, <2>3, <2>5 DEF IInv, CreateShape, TimeInv, TimesShape, Context
  <2>7. UNCHANGED <<sched_running, sched_deadline>>
    BY DEF runVars
  <2> QED BY <1>2, <2>1, <2>2, <2>4, <2>5, <2>6, <2>7, TasksKept
<1> QED BY <1>1, <1>2 DEF Agent

\* mm_halow_sched_wait begins: its timeout is capped unless it is for ever.
LEMMA WaitBeginTime ==
  ASSUME InReach, IInv, IInv', TimeInv,
         NEW a \in Agent, NEW s \in Sem, NEW timeout \in Ticks, WaitBegin(a, s, timeout)
  PROVE  TimeInv'
<1> DEFINE forever == timeout = UINT_MAX
           capped == timeout > WAIT_MAX /\ (~forever \/ sched_teardown)
           w == [on |-> s, timeout |-> IF capped THEN WAIT_MAX ELSE timeout,
                 start |-> ticks, forever |-> forever]
<1>1. /\ Runs(a) /\ MayWait(a) /\ Goto(a, "cond") /\ wait' = [wait EXCEPT ![a] = w]
      /\ UNCHANGED <<ticks, schedVars, runVars, creating>>
  BY DEF WaitBegin
<1>2. /\ pc'[a] = "cond" /\ wait'[a] = w
      /\ \A b \in Agent : b # a => pc'[b] = pc[b] /\ wait'[b] = wait[b]
  BY <1>1 DEF Goto, IInv, TypeOK
<1>3. ~w.forever => w.timeout <= WAIT_MAX
  <2>1. timeout \in Int /\ WAIT_MAX \in Int
    BY Readings DEF Ticks
  <2>2. w.forever = forever /\ w.timeout = IF capped THEN WAIT_MAX ELSE timeout
    OBVIOUS
  <2>3. ~forever => (capped <=> timeout > WAIT_MAX)
    OBVIOUS
  <2> HIDE DEF w, forever, capped
  <2> QED BY <2>1, <2>2, <2>3
<1>4. pc[a] \in {"user", "timers", "base"}
  BY <1>1 DEF MayWait
<1> QED BY <1>1, <1>2, <1>3, <1>4, WaitKept DEF schedVars

\* The conditions of mm_halow_sched_wait, and its ends.
LEMMA WaitStepTime ==
  ASSUME InReach, IInv, IInv', TimeInv, NEW a \in Agent,
         WaitCond(a) \/ WaitTaken(a) \/ WaitRecheck(a)
  PROVE  TimeInv'
<1>1. /\ Runs(a) /\ pc[a] \in {"cond", "taken", "recheck"}
      /\ UNCHANGED <<ticks, task_state, task_list, task_cur, sched_wake_at, runVars, creating>>
      /\ sched_woken => sched_woken'
  BY DEF WaitCond, WaitTaken, WaitRecheck, Wake, schedVars
<1>2. \/ \E label \in {"taken", "check"} : Goto(a, label) /\ wait' = wait
      \/ Goto(a, Home(a)) /\ wait' = [wait EXCEPT ![a] = NoWait]
  BY DEF WaitCond, WaitTaken, WaitRecheck, SemTaken, WaitLeave
<1>3. Home(a) \in {"user", "timers", "base"}
  BY DEF Home
<1>4. /\ pc'[a] \in {"taken", "check", "user", "timers", "base"}
      /\ wait'[a] \in {wait[a], NoWait}
      /\ \A b \in Agent : b # a => pc'[b] = pc[b] /\ wait'[b] = wait[b]
  BY <1>2, <1>3 DEF Goto, IInv, TypeOK
<1>5. InWait(a)' /\ ~wait'[a].forever => a \in Context \/ wait'[a].timeout <= WAIT_MAX
  BY <1>4 DEF TimeInv, TimesShape, InWait, NoWait, Agent
<1> QED BY <1>1, <1>4, <1>5, WaitKept

\* The tests after a false condition: who goes on to park has its deadline ahead.
LEMMA WaitCheckTime ==
  ASSUME InReach, IInv, IInv', TimeInv, NEW a \in Agent, WaitCheck(a)
  PROVE  TimeInv'
<1> DEFINE w == wait[a]
           graced == [w EXCEPT !.timeout = WAIT_MAX, !.start = ticks, !.forever = FALSE]
           now == IF w.forever /\ sched_teardown THEN graced ELSE w
           label == IF now.forever \/ TickSub(ticks, now.start) < now.timeout
                    THEN (IF a \in Task THEN "park" ELSE "yield") ELSE "recheck"
<1>1. /\ Runs(a) /\ pc[a] = "check"
      /\ UNCHANGED <<ticks, schedVars, runVars, creating>>
  BY DEF WaitCheck
<1>2. wait \in [Agent -> Wait] /\ w \in Wait /\ pc \in [Agent -> ContextPc \cup TaskPc]
  BY DEF IInv, TypeOK
<1>3. CASE WaitLeave(a)
  <2>1. Home(a) \in {"user", "timers", "base"}
    BY DEF Home
  <2>2. /\ pc'[a] \in {"user", "timers", "base"} /\ wait'[a] = NoWait
        /\ \A b \in Agent : b # a => pc'[b] = pc[b] /\ wait'[b] = wait[b]
    BY <1>2, <1>3, <2>1 DEF WaitLeave, Goto
  <2>3. ~InWait(a)'
    BY <2>2 DEF InWait, NoWait
  <2> QED BY <1>1, <2>2, <2>3, WaitKept DEF schedVars
<1>4. CASE wait' = [wait EXCEPT ![a] = now] /\ Goto(a, label)
  <2>1. /\ pc'[a] = label /\ wait'[a] = now
        /\ \A b \in Agent : b # a => pc'[b] = pc[b] /\ wait'[b] = wait[b]
    BY <1>2, <1>4 DEF Goto
  <2>2. label \in {"park", "yield", "recheck"}
    OBVIOUS
  <2>3. label = "park" /\ ~now.forever => TickSub(ticks, now.start) < now.timeout
    OBVIOUS
  <2>4. InWait(a)' /\ ~now.forever => a \in Context \/ now.timeout <= WAIT_MAX
    <3>1. CASE w.forever /\ sched_teardown
      <4>1. now.timeout = WAIT_MAX
        BY <1>2, <3>1 DEF Wait
      <4> QED BY <4>1, Readings
    <3>2. CASE ~(w.forever /\ sched_teardown)
      BY <2>1, <3>2 DEF TimeInv, TimesShape, InWait, Agent
    <3> QED BY <3>1, <3>2
  <2> HIDE DEF now, label
  <2> QED BY <1>1, <2>1, <2>2, <2>3, <2>4, WaitKept DEF schedVars
<1> QED BY <1>3, <1>4 DEF WaitCheck

-----------------------------------------------------------------------------
(* Deadlines and turns: running tasks *)

\* A context switch back to the walk moves the cursor past the task and past nobody else.
LEMMA SwitchOutVisits ==
  ASSUME IInv, NEW t \in Task, NEW label \in {"user", "cond"}, OnCPU(t), SwitchOut(t, label),
         UNCHANGED task_list
  PROVE  /\ MidPass /\ MidPass' /\ sched_running
         /\ task_cur = t /\ task_cur' = NoTask /\ t \in Listed /\ Listed' = Listed
         /\ pc'[t] = label
         /\ \A u \in Task : u # t => pc'[u] = pc[u] /\ (StillToVisit(u) => StillToVisit(u)')
         /\ pc'["thread"] = "link" <=> pc["thread"] = "link"
         /\ pc'["thread"] = "wake" <=> pc["thread"] = "wake"
<1> USE SchedAssumption
<1>1. task_cur = t /\ \E c \in Context : pc[c] = "turn"
  BY DEF OnCPU
<1>2. MidPass /\ sched_running /\ t \in Listed /\ cursor \in DOMAIN task_list /\ task_list[cursor] = t
  BY <1>1, CurrentVisited DEF IInv, RunShape, TypeOK
<1>3. /\ pc'[t] = label
      /\ \A u \in Task : u # t => pc'[u] = pc[u]
      /\ \A c \in Context : pc'[c] = IF pc[c] = "turn" THEN "walk" ELSE pc[c]
  BY DEF SwitchOut, Agent
<1>4. MidPass'
  BY <1>1, <1>3 DEF MidPass
<1>5. ASSUME NEW u \in Task, u # t, StillToVisit(u)
      PROVE  StillToVisit(u)'
  <2>1. PICK c \in Context : /\ pc[c] \in {"walk", "turn"}
                             /\ \E i \in DOMAIN task_list : i >= cursor /\ task_list[i] = u
    BY <1>5 DEF StillToVisit
  <2>2. PICK i \in DOMAIN task_list : i >= cursor /\ task_list[i] = u
    BY <2>1
  <2>3. i >= cursor + 1
    BY <1>2, <1>5, <2>2 DEF IInv, TypeOK
  <2>4. pc'[c] \in {"walk", "turn"}
    BY <1>3, <2>1
  <2>5. cursor' = cursor + 1
    BY DEF SwitchOut
  <2> QED BY <2>2, <2>3, <2>4, <2>5 DEF StillToVisit
<1>6. Listed' = Listed
  BY DEF Listed
<1>7. /\ pc'["thread"] = "link" <=> pc["thread"] = "link"
      /\ pc'["thread"] = "wake" <=> pc["thread"] = "wake"
  BY <1>3 DEF Context
<1> QED BY <1>1, <1>2, <1>3, <1>4, <1>5, <1>6, <1>7 DEF SwitchOut

\* A task that yields, is made to yield, or exits wakes the scheduler.
LEMMA YieldTime ==
  ASSUME InReach, IInv, IInv', TimeInv, NEW t \in Task,
         Yield(t) \/ CsAssert(t) \/ TaskExit(t)
  PROVE  TimeInv'
<1>1. /\ OnCPU(t) /\ pc[t] = "user" /\ SwitchOut(t, "user") /\ sched_woken'
      /\ UNCHANGED <<ticks, task_list, sched_wake_at, sched_running, sched_deadline, wait, creating>>
      /\ \A u \in Task : u # t => task_state'[u] = task_state[u]
  BY DEF Yield, CsAssert, TaskExit, TaskYield, Wake, waitVars, IInv, TypeOK
<1>2. /\ MidPass /\ MidPass' /\ sched_running /\ task_cur = t /\ t \in Listed /\ Listed' = Listed
      /\ pc'[t] = "user"
      /\ \A u \in Task : u # t => pc'[u] = pc[u] /\ (StillToVisit(u) => StillToVisit(u)')
      /\ pc'["thread"] = "link" <=> pc["thread"] = "link"
  BY <1>1, SwitchOutVisits
<1>3. TimesShape'
  BY <1>1, <1>2 DEF TimeInv, TimesShape, InWait, IInv, CreateShape
<1>4. NoLostTurn'
  BY <1>1 DEF NoLostTurn
<1>5. \A u \in Task : Dealt(u)' => Dealt(u) /\ wait'[u] = wait[u]
  BY <1>1, <1>2 DEF Dealt, Parked
<1>6. PICK p \in Ticks : PassBeganAt(p)
  BY DEF TimeInv
<1>7. PassBeganAt(p)'
  BY <1>1, <1>2, <1>3, <1>5, <1>6, DeadlinesKept
<1> QED BY <1>3, <1>4, <1>7 DEF TimeInv

\* Two readings less than half the clock after a third are compared as they come.
LEMMA ReachedSince ==
  ASSUME NEW a \in Ticks, NEW b \in Ticks, NEW p \in Ticks,
         TickSub(a, p) <= INT_MAX, TickSub(b, p) <= INT_MAX
  PROVE  Reached(a, b) <=> TickSub(a, p) >= TickSub(b, p)
<1> DEFINE x == TickSub(a, p)
           y == TickSub(b, p)
<1>1. TickSub(a, b) = TickSub(x, y) /\ x \in Ticks /\ y \in Ticks
  BY SinceShift, TickTypes
<1>2. HALF \in Nat /\ CLOCK = 2 * HALF /\ INT_MAX = HALF - 1
  BY ClockAssumption DEF HALF, INT_MAX
<1>3. x <= INT_MAX /\ y <= INT_MAX
  OBVIOUS
<1> HIDE DEF x, y
<1>4. TickSub(x, y) < HALF <=> x >= y
  BY <1>1, <1>2, <1>3 DEF TickSub, Ticks
<1> QED BY <1>1, <1>4 DEF Reached, x, y

\* mm_halow_sched_park: wake_at becomes the task's deadline if that is the earlier one,
\* and no task that parked before it in this pass has an earlier one still.
LEMMA ParkTime ==
  ASSUME InReach, IInv, IInv', TimeInv, NEW t \in Task, Park(t)
  PROVE  TimeInv'
<1> DEFINE until == WaitUntil(wait[t])
<1>1. /\ OnCPU(t) /\ pc[t] = "park" /\ SwitchOut(t, "cond")
      /\ UNCHANGED <<ticks, task_state, task_list, sched_woken, sched_running, sched_deadline,
                     wait, creating>>
      /\ sched_wake_at' = IF ~wait[t].forever /\ ~Reached(until, sched_wake_at)
                          THEN until ELSE sched_wake_at
  BY DEF Park, waitVars
<1>2. /\ MidPass /\ MidPass' /\ sched_running /\ task_cur = t /\ task_cur' = NoTask
      /\ t \in Listed /\ Listed' = Listed /\ pc'[t] = "cond"
      /\ \A u \in Task : u # t => pc'[u] = pc[u] /\ (StillToVisit(u) => StillToVisit(u)')
      /\ pc'["thread"] = "link" <=> pc["thread"] = "link"
      /\ pc'["thread"] = "wake" <=> pc["thread"] = "wake"
  BY <1>1, SwitchOutVisits
<1>3. TimesShape'
  BY <1>1, <1>2 DEF TimeInv, TimesShape, InWait, IInv, CreateShape
<1>4. NoLostTurn'
  <2> SUFFICES ASSUME NEW u \in Listed, ~StillToVisit(u)', ~sched_woken', pc'["thread"] # "wake",
                      task_state[u] # "dead"
               PROVE  Parked(u)'
    BY <1>1, <1>2 DEF NoLostTurn
  <2>1. u \in Task /\ task_state[u] = "ready"
    BY DEF IInv, TypeOK, TaskShape, Listed
  <2>2. CASE u = t
    BY <1>1, <1>2, <2>1, <2>2, SchedAssumption DEF Parked
  <2>3. CASE u # t
    <3>1. Parked(u)
      BY <1>1, <1>2, <2>1, <2>3 DEF TimeInv, NoLostTurn
    <3> QED BY <1>1, <1>2, <2>1, <2>3, <3>1, SchedAssumption DEF Parked
  <2> QED BY <2>2, <2>3
<1>5. \A u \in Task : Dealt(u)' /\ u # t => Dealt(u)
  BY <1>1, <1>2 DEF Dealt, Parked
<1>6. PICK p \in Ticks : PassBeganAt(p)
  BY DEF TimeInv
<1> DEFINE woke == TickSub(sched_wake_at, p)
           wakes == TickSub(sched_wake_at', p)
           due(u) == TickSub(WaitUntil(wait[u]), p)
           now == TickSub(ticks, p)
<1>7. /\ woke \in 1 .. INT_MAX /\ now <= RUN_MAX /\ now \in Ticks
      /\ \A u \in Task : due(u) \in Ticks
      /\ ~wait[t].forever => due(t) \in 1 .. WAIT_MAX + RUN_MAX
      /\ \A u \in Task : Dealt(u) => woke <= due(u) /\ due(u) <= WAIT_MAX + RUN_MAX
  <2>1. TickSub(sched_deadline, p) \in 1 .. BUDGET /\ now <= TickSub(sched_deadline, p) + MaxLate
    BY <1>2, <1>6 DEF PassBeganAt
  <2>2. now \in Ticks /\ \A u \in Task : due(u) \in Ticks
    BY Readings, TickTypes
  <2>3. now <= RUN_MAX
    BY <2>1, <2>2, Readings DEF Ticks
  <2> QED BY <1>1, <1>6, <2>2, <2>3 DEF PassBeganAt
<1>8. ~wait[t].forever => (Reached(until, sched_wake_at) <=> due(t) >= woke)
  BY <1>7, Readings, ReachedSince DEF InReach, Ticks
<1>9. /\ wakes \in 1 .. INT_MAX /\ wakes <= woke
      /\ ~wait[t].forever => wakes <= due(t)
  <2>1. CASE wait[t].forever
    BY <1>1, <1>7, <2>1
  <2>2. CASE ~wait[t].forever
    <3>1. due(t) \in 1 .. INT_MAX /\ woke \in 1 .. INT_MAX
      BY <1>7, <2>2, Readings DEF InReach
    <3>2. wakes = IF due(t) >= woke THEN woke ELSE due(t)
      BY <1>1, <1>8, <2>2
    <3> HIDE DEF due, woke, wakes
    <3> QED BY <2>2, <3>1, <3>2, Readings
  <2> QED BY <2>1, <2>2
<1>10. MidPass' => /\ TickSub(sched_deadline', p) \in 1 .. BUDGET
                   /\ TickSub(ticks', p) <= TickSub(sched_deadline', p) + MaxLate
  BY <1>1, <1>2, <1>6 DEF PassBeganAt
<1>11. ASSUME NEW u \in Task, pc'[u] = "park", ~wait'[u].forever
       PROVE  TickSub(WaitUntil(wait'[u]), p) \in 1 .. WAIT_MAX + RUN_MAX
  BY <1>1, <1>2, <1>6, <1>11 DEF PassBeganAt
<1>12. ASSUME NEW u \in Task, Dealt(u)'
       PROVE  wakes <= due(u) /\ due(u) <= WAIT_MAX + RUN_MAX /\ now <= wakes + RUN_MAX
  <2>1. now <= wakes + RUN_MAX
    BY <1>7, <1>9, Readings DEF Ticks
  <2>2. CASE u = t
    <3>1. ~wait[t].forever
      BY <1>1, <1>12, <2>2 DEF Dealt
    <3> QED BY <1>7, <1>9, <2>1, <2>2, <3>1
  <2>3. CASE u # t
    <3>1. woke <= due(u) /\ due(u) <= WAIT_MAX + RUN_MAX /\ due(u) \in Ticks
      BY <1>5, <1>7, <1>12, <2>3
    <3> HIDE DEF due, woke, wakes, now
    <3> QED BY <1>7, <1>9, <2>1, <3>1, Readings DEF Ticks
  <2> QED BY <2>2, <2>3
<1>13. PassBeganAt(p)'
  BY <1>1, <1>9, <1>10, <1>11, <1>12 DEF PassBeganAt
<1> QED BY <1>3, <1>4, <1>13 DEF TimeInv

\* A task declares another dead, gives, or opens or closes a critical section; the thread
\* sets or clears the teardown flag; nothing happens.
LEMMA StandingTime ==
  ASSUME InReach, IInv, IInv', TimeInv,
         \/ \E t \in Task : TaskDelete(t) \/ EnterCritical(t) \/ ExitCritical(t)
         \/ \E s \in Sem : Give(s)
         \/ TeardownBegin \/ TeardownEnd \/ UNCHANGED vars
  PROVE  TimeInv'
<1>1. UNCHANGED <<pc, wait, ticks, sched_wake_at, task_cur, task_list, runVars, creating>>
  BY DEF TaskDelete, EnterCritical, ExitCritical, Give, TeardownBegin, TeardownEnd, vars, schedVars,
     waitVars, modeVars, criticalVars
<1>2. sched_woken => sched_woken'
  BY DEF TaskDelete, EnterCritical, ExitCritical, Give, TeardownBegin, TeardownEnd, vars,
     schedVars, Wake
<1>3. \A t \in Task : \/ task_state'[t] = task_state[t]
                      \/ task_state'[t] = "dead" /\ sched_woken'
  <2>1. ASSUME NEW u \in Task, TaskDelete(u)
        PROVE  \A t \in Task : \/ task_state'[t] = task_state[t]
                               \/ task_state'[t] = "dead" /\ sched_woken'
    <3>1. task_state' = [task_state EXCEPT ![u] = "dead"] /\ sched_woken' = TRUE
      BY <2>1 DEF TaskDelete, Wake
    <3> QED BY <3>1 DEF IInv, TypeOK
  <2>2. (\E u \in Task : TaskDelete(u)) \/ UNCHANGED task_state
    BY DEF EnterCritical, ExitCritical, Give, TeardownBegin, TeardownEnd, vars, schedVars
  <2>3. CASE \E u \in Task : TaskDelete(u)
    BY <2>1, <2>3
  <2>4. CASE UNCHANGED task_state
    BY <2>4
  <2> QED BY <2>2, <2>3, <2>4
<1> QED BY <1>1, <1>2, <1>3, StandingKept

-----------------------------------------------------------------------------
(* Deadlines and turns: the thread outside the scheduler, and time *)

\* The thread gives, and wakes the scheduler.
LEMMA ThreadTime ==
  ASSUME InReach, IInv, IInv', TimeInv, ThreadWake \/ \E s \in Sem : ThreadGive(s)
  PROVE  TimeInv'
<1>1. PICK label \in {"wake", "base"} :
        /\ Goto("thread", label) /\ pc["thread"] \in {"base", "wake"}
        /\ UNCHANGED <<ticks, task_state, task_list, task_cur, sched_wake_at, runVars, wait, creating>>
        /\ sched_woken => sched_woken'
        /\ pc["thread"] = "wake" => sched_woken'
  BY DEF ThreadWake, ThreadGive, ThreadIdle, Wake, schedVars, waitVars
<1>2. pc'["thread"] = label /\ \A b \in Agent : b # "thread" => pc'[b] = pc[b]
  BY <1>1 DEF Goto, IInv, TypeOK, Agent, Context
<1>3. "thread" \in Context
  BY DEF Context
<1> QED BY <1>1, <1>2, <1>3, ContextKept DEF runVars

\* A step of the thread outside the scheduler leaves the pass under way where it is.
LEMMA ThreadPass ==
  ASSUME pc["thread"] \in {"base", "link"}, pc'["thread"] \in {"wake", "link"},
         pc'["irq"] = pc["irq"], UNCHANGED runVars
  PROVE  /\ MidPass' = MidPass
         /\ task_list' = task_list => \A t \in Task : StillToVisit(t)' = StillToVisit(t)
BY DEF MidPass, StillToVisit, Context, runVars

\* mm_halow_sched_task_delete from the thread.
LEMMA ThreadDeleteTime ==
  ASSUME InReach, IInv, IInv', TimeInv, NEW t \in Task, ThreadDelete(t)
  PROVE  TimeInv'
<1>1. /\ pc["thread"] = "base" /\ Goto("thread", "wake")
      /\ task_state' = [task_state EXCEPT ![t] = "dead"]
      /\ UNCHANGED <<ticks, task_list, task_cur, sched_woken, sched_wake_at, runVars, wait, creating>>
  BY DEF ThreadDelete, ThreadIdle, waitVars
<1>2. pc'["thread"] = "wake" /\ \A b \in Agent : b # "thread" => pc'[b] = pc[b]
  BY <1>1 DEF Goto, IInv, TypeOK, Agent, Context
<1>3. (\A u \in Task : pc'[u] = pc[u]) /\ pc'["irq"] = pc["irq"]
  BY <1>2, SchedAssumption DEF Agent, Context
<1>4. MidPass' = MidPass /\ \A u \in Task : StillToVisit(u)' = StillToVisit(u)
  BY <1>1, <1>2, <1>3, ThreadPass
<1>5. Told' /\ Listed' = Listed /\ Listed \subseteq Task
  BY <1>1, <1>2 DEF Told, Listed, IInv, TypeOK
<1>6. \A u \in Task : task_state'[u] = task_state[u] \/ task_state'[u] = "dead"
  BY <1>1 DEF IInv, TypeOK
<1>7. UNCHANGED <<sched_running, sched_deadline>>
  BY <1>1 DEF runVars
<1> QED BY <1>1, <1>2, <1>3, <1>4, <1>5, <1>6, <1>7, TasksKept

\* mm_halow_sched_task_create fills in a free slot.
LEMMA CreateFindTime ==
  ASSUME InReach, IInv, IInv', TimeInv, NEW t \in Task, CreateFind(t)
  PROVE  TimeInv'
<1>1. /\ pc["thread"] = "base" /\ task_state[t] = "free"
      /\ task_state' = [task_state EXCEPT ![t] = "ready"]
      /\ creating'.slot = t
      /\ wait' = [wait EXCEPT ![t] = NoWait]
      /\ pc' = [pc EXCEPT !["thread"] = "link", ![t] = "user"]
      /\ UNCHANGED <<ticks, task_list, task_cur, sched_woken, sched_wake_at, runVars>>
  BY DEF CreateFind, ThreadIdle
<1>2. pc'["thread"] = "link" /\ pc'[t] = "user" /\ pc'["irq"] = pc["irq"]
  BY <1>1, SchedAssumption DEF IInv, TypeOK, Agent, Context
<1>3. \A u \in Task : u # t => pc'[u] = pc[u] /\ wait'[u] = wait[u] /\ task_state'[u] = task_state[u]
  BY <1>1, SchedAssumption DEF IInv, TypeOK, Agent, Context
<1>4. MidPass' = MidPass /\ \A u \in Task : StillToVisit(u)' = StillToVisit(u)
  BY <1>1, <1>2, ThreadPass
<1>5. Listed' = Listed /\ Listed \subseteq Task /\ t \notin Listed
  BY <1>1 DEF Listed, IInv, TypeOK, TaskShape
<1>6. ~InWait(t)'
  BY <1>1 DEF InWait, NoWait, IInv, TypeOK, Agent
<1>7. UNCHANGED <<sched_running, sched_deadline>> /\ (Told => Told')
  BY <1>1 DEF runVars, Told
<1> QED BY <1>1, <1>2, <1>3, <1>4, <1>5, <1>6, <1>7, TasksKept

\* mm_halow_sched_task_create links the task, and is about to wake the scheduler for it.
LEMMA CreateLinkTime ==
  ASSUME InReach, IInv, IInv', TimeInv, CreateLink
  PROVE  TimeInv'
<1>1. /\ pc["thread"] = "link" /\ Goto("thread", "wake")
      /\ task_list' = Append(task_list, creating.slot) \/ task_list' = task_list
      /\ UNCHANGED <<ticks, task_state, task_cur, sched_woken, sched_wake_at, runVars, wait>>
  BY DEF CreateLink, waitVars
<1>2. pc'["thread"] = "wake" /\ \A b \in Agent : b # "thread" => pc'[b] = pc[b]
  BY <1>1 DEF Goto, IInv, TypeOK, Agent, Context
<1>3. (\A u \in Task : pc'[u] = pc[u]) /\ pc'["irq"] = pc["irq"]
  BY <1>2, SchedAssumption DEF Agent, Context
<1>4. creating.slot \in Task /\ pc[creating.slot] = "user" /\ task_list \in Seq(Task)
  BY <1>1 DEF IInv, CreateShape, TypeOK, TimeInv, TimesShape
<1>5. /\ DOMAIN task_list \subseteq DOMAIN task_list'
      /\ \A i \in DOMAIN task_list : task_list'[i] = task_list[i]
      /\ \A i \in DOMAIN task_list' : i \notin DOMAIN task_list => task_list'[i] = creating.slot
  <2>1. CASE task_list' = Append(task_list, creating.slot)
    BY <1>4, <2>1
  <2>2. CASE task_list' = task_list
    BY <2>2
  <2> QED BY <1>1, <2>1, <2>2
<1>6. Listed' \subseteq Listed \cup {creating.slot} /\ Listed \subseteq Task
  BY <1>4, <1>5 DEF Listed
<1>7. MidPass' = MidPass
  BY <1>1, <1>2, <1>3, ThreadPass
<1>8. \A u \in Task : StillToVisit(u) => StillToVisit(u)'
  <2>1. cursor' = cursor /\ \A c \in Context : pc'[c] \in {"walk", "turn"} <=> pc[c] \in {"walk", "turn"}
    BY <1>1, <1>2, <1>3 DEF runVars, Context
  <2> QED BY <1>5, <2>1 DEF StillToVisit
<1>9. UNCHANGED <<sched_running, sched_deadline>> /\ Told'
  BY <1>1, <1>2 DEF runVars, Told
<1> QED BY <1>1, <1>2, <1>3, <1>4, <1>6, <1>7, <1>8, <1>9, TasksKept

\* mm_halow_sched_deinit leaves nobody to be visited.
LEMMA DeinitTime ==
  ASSUME InReach, IInv, IInv', TimeInv, Deinit
  PROVE  TimeInv'
<1>1. /\ pc["thread"] = "base" /\ pc["irq"] = "base"
      /\ task_list' = <<>> /\ ~sched_running' /\ ticks' = ticks
      /\ sched_wake_at' = TickAdd(ticks, INT_MAX)
      /\ wait' = [a \in Agent |-> NoWait]
      /\ pc' = [a \in Agent |-> IF a \in Task THEN "user" ELSE pc[a]]
  BY DEF Deinit, ThreadIdle, Executing, WakeAtReset
<1>2. /\ \A t \in Task : pc'[t] = "user" /\ ~InWait(t)'
      /\ \A c \in Context : pc'[c] = "base"
  BY <1>1, SchedAssumption DEF Agent, Context, InWait, NoWait
<1>3. Listed' = {} /\ ~MidPass'
  BY <1>1, <1>2 DEF Listed, MidPass
<1>4. TimesShape' /\ NoLostTurn'
  BY <1>1, <1>2, <1>3 DEF TimesShape, NoLostTurn, Context
<1>5. PassBeganAt(ticks)'
  <2>1. TickSub(sched_wake_at', ticks) = INT_MAX
    BY <1>1, Readings, TickTypes, SinceShift
  <2> QED BY <1>1, <1>2, <1>3, <2>1, Readings DEF PassBeganAt, Dealt, Parked
<1> QED BY <1>1, <1>4, <1>5, Readings DEF TimeInv

\* Time passes, and what is due does not stay so for longer than MaxLate.
LEMMA TickTime ==
  ASSUME InReach, IInv, IInv', TimeInv, Tick
  PROVE  TimeInv'
<1>1. /\ ticks' = TickAdd(ticks, 1) /\ Punctual
      /\ UNCHANGED <<schedVars, runVars, waitVars, pc, creating>>
  BY DEF Tick
<1>2. UNCHANGED <<sched_running, sched_deadline, sched_wake_at, wait, Listed, MidPass>>
  BY <1>1 DEF schedVars, runVars, waitVars, Listed, MidPass
<1>3. \A t \in Task : /\ Parked(t)' = Parked(t) /\ StillToVisit(t)' = StillToVisit(t)
                      /\ Dealt(t)' = Dealt(t)
  BY <1>1 DEF Dealt, Parked, StillToVisit, Listed, schedVars, runVars, waitVars
<1>4. TimesShape'
  <2>1. ASSUME sched_running
        PROVE  \/ Reached(ticks', sched_deadline')
               \/ TickSub(sched_deadline', ticks') <= BUDGET
    <3>1. Late(sched_deadline) < MaxLate
      BY <1>1, <2>1 DEF Punctual
    <3>2. Reached(ticks, sched_deadline) \/ TickSub(sched_deadline, ticks) <= BUDGET
      BY <2>1 DEF TimeInv, TimesShape
    <3> QED BY <1>1, <1>2, <3>1, <3>2, Readings DEF InReach, Late, Reached, TickSub, TickAdd, Ticks
  <2> QED BY <1>1, <1>2, <2>1 DEF TimeInv, TimesShape, InWait
<1>5. NoLostTurn'
  <2>1. Listed \subseteq Task
    BY DEF Listed, IInv, TypeOK
  <2> QED BY <1>1, <1>2, <1>3, <2>1 DEF TimeInv, NoLostTurn, schedVars
<1>6. PICK p \in Ticks : PassBeganAt(p)
  BY DEF TimeInv
<1> DEFINE now == TickSub(ticks, p)
           next == TickSub(ticks', p)
           woke == TickSub(sched_wake_at, p)
           ends == TickSub(sched_deadline, p)
<1>7. /\ now \in Ticks /\ woke \in 1 .. INT_MAX /\ ends \in Ticks
      /\ next = TickAdd(now, 1)
      /\ Late(sched_wake_at) = IF TickSub(now, woke) < HALF THEN TickSub(now, woke) ELSE 0
      /\ Late(sched_deadline) = IF TickSub(now, ends) < HALF THEN TickSub(now, ends) ELSE 0
  <2>1. now \in Ticks /\ woke \in 1 .. INT_MAX /\ ends \in Ticks
    BY <1>6, Readings, TickTypes DEF PassBeganAt
  <2>2. next = TickAdd(now, 1)
    BY <1>1, Readings, TickTypes, SinceShift
  <2>3. /\ TickSub(ticks, sched_wake_at) = TickSub(now, woke)
        /\ TickSub(ticks, sched_deadline) = TickSub(now, ends)
    BY Readings, SinceShift
  <2> HIDE DEF now, woke, ends, next
  <2> QED BY <2>1, <2>2, <2>3 DEF Late, Reached
<1>8. MidPass => ends \in 1 .. BUDGET /\ now <= ends + MaxLate
  BY <1>6 DEF PassBeganAt
<1>9. MidPass => next <= ends + MaxLate
  <2>1. MidPass => Late(sched_deadline) < MaxLate
    BY <1>1 DEF IInv, RunShape, RunPc, MidPass, Punctual
  <2> HIDE DEF now, next, woke, ends
  <2> QED BY <1>7, <1>8, <2>1, Readings DEF InReach, TickSub, TickAdd, Ticks
<1>10. now <= woke + RUN_MAX => next <= woke + RUN_MAX
  <2>1. CASE MidPass
    <3> HIDE DEF now, next, woke, ends
    <3> QED BY <1>7, <1>8, <1>9, <2>1, Readings DEF InReach, TickAdd, Ticks
  <2>2. CASE ~MidPass
    <3>1. Late(sched_wake_at) < MaxLate
      BY <1>1, <2>2 DEF Punctual
    <3> HIDE DEF now, next, woke, ends
    <3> QED BY <1>7, <3>1, Readings DEF InReach, TickSub, TickAdd, Ticks
  <2> QED BY <2>1, <2>2
<1>11. PassBeganAt(p)'
  BY <1>1, <1>2, <1>3, <1>6, <1>9, <1>10 DEF PassBeganAt
<1> QED BY <1>4, <1>5, <1>11 DEF TimeInv

\* The driver starts out with no deadline to keep.
LEMMA InitTime ==
  ASSUME Init, IInv
  PROVE  TimeInv
<1>1. /\ \A t \in Task : pc[t] = "user" /\ ~InWait(t)
      /\ \A c \in Context : pc[c] = "base"
      /\ Listed = {} /\ ~sched_running /\ sched_wake_at = 0
  BY SchedAssumption DEF Init, InWait, NoWait, Agent, Context, Listed
<1>2. TimesShape /\ NoLostTurn
  BY <1>1 DEF TimesShape, NoLostTurn, Context
<1>3. PassBeganAt(UINT_MAX) /\ UINT_MAX \in Ticks
  <2>1. TickSub(0, UINT_MAX) = 1 /\ UINT_MAX \in Ticks
    BY Readings DEF TickSub, UINT_MAX, Ticks
  <2>2. ~MidPass /\ \A t \in Task : ~Dealt(t) /\ pc[t] # "park"
    BY <1>1 DEF MidPass, Dealt, Parked
  <2> QED BY <1>1, <2>1, <2>2, Readings DEF PassBeganAt
<1> QED BY <1>2, <1>3 DEF TimeInv

\* Every step keeps deadlines and turns: one lemma per kind of step above.
LEMMA NextTime ==
  ASSUME InReach, IInv, IInv', TimeInv, [Next]_vars
  PROVE  TimeInv'
<1>1. ASSUME NEW c \in Context, PollEnter(c) \/ ContextStep(c) PROVE TimeInv'
  BY <1>1, ServiceTime, RunTime, PassStartTime, WalkTime, PassEndTime, ReapTime DEF ContextStep
<1>2. ASSUME NEW a \in Waiter, NEW s \in Sem, NEW timeout \in Timeouts, WaitBegin(a, s, timeout)
      PROVE  TimeInv'
  BY <1>2, WaitBeginTime, SchedAssumption
<1>3. ASSUME NEW a \in Agent, WaitStep(a) PROVE TimeInv'
  BY <1>3, WaitStepTime, WaitCheckTime DEF WaitStep
<1>4. ASSUME NEW t \in Task, TaskStep(t) PROVE TimeInv'
  BY <1>4, ParkTime, YieldTime, StandingTime DEF TaskStep
<1>5. ASSUME NEW s \in Sem, Give(s) PROVE TimeInv'
  BY <1>5, StandingTime
<1>6. CASE ThreadStep
  BY <1>6, ThreadTime, ThreadDeleteTime, CreateFindTime, CreateLinkTime, StandingTime, DeinitTime
     DEF ThreadStep
<1>7. CASE UNCHANGED vars
  BY <1>7, StandingTime
<1> QED BY <1>1, <1>2, <1>3, <1>4, <1>5, <1>6, <1>7, TickTime DEF Next, Goes

\* Where every wait and every run are in reach of the clock, the invariant about time holds
\* in every reachable state.
THEOREM TimeInductive ==
  ASSUME InReach
  PROVE  Spec => [](IInv /\ TimeInv)
<1>1. Init => IInv /\ TimeInv
  BY InitInv, InitTime
<1>2. IInv /\ TimeInv /\ [Next]_vars => (IInv /\ TimeInv)'
  BY NextInv, NextTime
<1> QED BY <1>1, <1>2, PTL DEF Spec

\* No deadline is lost: the scheduler wakes itself no later than the first task it has
\* parked is due, over every wrap of the clock (mm_halow_sched_park, mm_halow_sched_run),
\* provided the longest wait and a late run together are short of 2^31 milliseconds.
THEOREM DeadlinesAreKept ==
  ASSUME InReach
  PROVE  Spec => []NoLostDeadline
<1>1. IInv /\ TimeInv => NoLostDeadline
  <2> SUFFICES ASSUME IInv, TimeInv, NEW t \in Task, Dealt(t)
               PROVE  Reached(WaitUntil(wait[t]), sched_wake_at)
    BY DEF NoLostDeadline, Dealt
  <2>1. PICK p \in Ticks : PassBeganAt(p)
    BY DEF TimeInv
  <2> DEFINE woke == TickSub(sched_wake_at, p)
             due == TickSub(WaitUntil(wait[t]), p)
  <2>2. woke \in 1 .. INT_MAX /\ woke <= due /\ due <= WAIT_MAX + RUN_MAX
    BY <2>1 DEF PassBeganAt
  <2>3. due \in Ticks /\ due <= INT_MAX
    <3>1. due \in Ticks
      BY Readings, TickTypes
    <3> QED BY <2>2, <3>1, Readings DEF InReach, Ticks
  <2> QED BY <2>2, <2>3, Readings, ReachedSince
<1> QED BY <1>1, TimeInductive, PTL

\* mm_halow_sched_pending() may be trusted: while it is false a run would find every task
\* parked, with nothing given to it and its deadline ahead, and nothing to reap.
THEOREM PendingIsSound ==
  ASSUME InReach
  PROVE  Spec => []PendingSound
<1>1. IInv /\ TimeInv => PendingSound
  <2> SUFFICES ASSUME IInv, TimeInv, ~Pending, ~sched_running, pc["thread"] # "wake", NEW t \in Listed
               PROVE  /\ Parked(t)
                      /\ sem[wait[t].on] = 0
                      /\ ~wait[t].forever => ~Reached(ticks, WaitUntil(wait[t]))
    BY DEF PendingSound
  <2>1. ~sched_woken /\ ~Reached(ticks, sched_wake_at)
    BY DEF Pending
  <2>2. t \in Task /\ ~StillToVisit(t)
    BY DEF IInv, TypeOK, Listed, RunShape, RunPc, StillToVisit
  <2>3. Parked(t)
    BY <2>1, <2>2 DEF TimeInv, NoLostTurn
  <2>4. sem[wait[t].on] = 0
    <3>1. wait[t].on \in Sem
      <4>1. wait[t] \in Wait /\ InWait(t)
        BY <2>2, <2>3 DEF IInv, TypeOK, TaskShape, WaitPc, Parked, Agent
      <4> QED BY <4>1 DEF Wait, InWait
    <3>2. sem[wait[t].on] \in Nat
      BY <3>1, SchedAssumption DEF IInv, TypeOK
    <3> QED BY <2>1, <2>2, <2>3, <3>2 DEF IInv, NoLostWakeup
  <2>5. ASSUME ~wait[t].forever PROVE ~Reached(ticks, WaitUntil(wait[t]))
    <3>1. PICK p \in Ticks : PassBeganAt(p)
      BY DEF TimeInv
    <3> DEFINE woke == TickSub(sched_wake_at, p)
               due == TickSub(WaitUntil(wait[t]), p)
               now == TickSub(ticks, p)
    <3>2. Dealt(t)
      BY <2>2, <2>3, <2>5 DEF Dealt
    <3>3. /\ woke \in 1 .. INT_MAX /\ woke <= due /\ due <= WAIT_MAX + RUN_MAX
          /\ now <= woke + RUN_MAX
      BY <2>2, <3>1, <3>2 DEF PassBeganAt
    <3>4. now \in Ticks /\ due \in Ticks
      BY <2>2, Readings, TickTypes
    <3>5. TickSub(ticks, sched_wake_at) = TickSub(now, woke)
          /\ TickSub(ticks, WaitUntil(wait[t])) = TickSub(now, due)
      BY <2>2, Readings, SinceShift
    <3> HIDE DEF woke, due, now
    <3>6. now < woke
      BY <2>1, <3>3, <3>4, <3>5, Readings DEF InReach, Reached, TickSub, Ticks
    <3>7. ~(TickSub(now, due) < HALF)
      BY <3>3, <3>4, <3>6, Readings DEF InReach, TickSub, Ticks
    <3> QED BY <3>5, <3>7 DEF Reached
  <2> QED BY <2>3, <2>4, <2>5
<1> QED BY <1>1, TimeInductive, PTL

=============================================================================
