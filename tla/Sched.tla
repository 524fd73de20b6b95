------------------------------- MODULE Sched -------------------------------
(***************************************************************************)
(* The cooperative scheduler of mm_halow_sched.c, with the two contexts    *)
(* that enter it (MicroPython's thread and the PendSV poll of              *)
(* mm_halow_ctrl.c), the semaphore and critical section of mm_halow_osal.c *)
(* that its waits are built on, and the bus path of mm_halow_hal.c that    *)
(* takes the CPU back from a task that does not yield.                     *)
(*                                                                         *)
(* PendSV ("irq") preempts the thread between any two of its steps and     *)
(* runs to completion; a pin interrupt preempts both, and is the action    *)
(* Give.  A task runs on whichever context switched to it.  What runs      *)
(* inside an atomic section, or in irq context where nothing can observe   *)
(* it half done, is one step; what the thread does in between is not.      *)
(***************************************************************************)
EXTENDS Clock, Sequences

CONSTANTS
  Task,         \* the slots of mm_halow_tasks[]
  NoTask,       \* the NULL task pointer
  Sem,          \* the semaphores that waits are on
  NoSem,        \* what an agent outside a wait waits on
  MaxCount,     \* max_count of every semaphore
  PASSES,       \* MM_HALOW_SCHED_PASSES
  BUDGET,       \* MM_HALOW_SCHED_BUDGET_MS
  WAIT_MAX,     \* MM_HALOW_SCHED_WAIT_MAX_MS
  Waiter,       \* the agents that call mm_halow_sched_wait(): contexts and tasks
  Timeouts,     \* the timeout_ms arguments they pass
  BootTicks,    \* readings of the clock when the driver first starts
  MaxNest,      \* bound: how deep morselib nests critical sections
  MaxLate       \* bound: the longest a due poll, a due yield or a waiter's next step is late

Context == {"thread", "irq"}
Agent == Context \cup Task

ASSUME SchedAssumption ==
  /\ Task \cap Context = {}
  /\ NoTask \notin Task
  /\ NoSem \notin Sem
  /\ MaxCount \in Nat /\ PASSES \in Nat /\ MaxLate \in Nat /\ MaxNest \in Nat
  /\ BUDGET \in 1 .. INT_MAX
  /\ WAIT_MAX \in 1 .. INT_MAX
  /\ Waiter \subseteq Agent
  /\ Timeouts \subseteq Ticks /\ BootTicks \subseteq Ticks

VARIABLES
  ticks,             \* mm_halow_ticks_ms()
  task_state,        \* [Task -> "free" (no stack), "ready", "dead"]
  task_list,         \* mm_halow_task_list, in creation order
  task_cur,          \* mm_halow_task_cur
  sched_woken,       \* mm_halow_sched_woken
  sched_wake_at,     \* mm_halow_sched_wake_at
  sched_running,     \* mm_halow_sched_running
  sched_deadline,    \* mm_halow_sched_deadline
  service_owner,     \* mm_halow_service_owner: a context, or "none"
  service_depth,     \* mm_halow_service_depth
  wait_depth,        \* mm_halow_wait_depth
  sched_teardown,    \* mm_halow_sched_teardown
  critical_nesting,  \* mm_halow_critical_nesting, opened by the running task
  critical_state,    \* mm_halow_critical_state: interrupts were masked at the outermost entry
  masked,            \* interrupts are masked
  sem,               \* [Sem -> count]
  pc,                \* [Agent -> where its code stands]
  wait,              \* [Agent -> the locals of its mm_halow_sched_wait(), or NoWait]
  pass,              \* the pass counter of the mm_halow_sched_run() under way
  cursor,            \* the place in task_list of the task that pass has come to
  polling,           \* the contexts inside mm_halow_poll_func()
  creating           \* the thread's locals in task_create: [slot, tail]

schedVars == <<task_state, task_list, task_cur, sched_woken, sched_wake_at>>
runVars == <<sched_running, sched_deadline, pass, cursor>>
claimVars == <<service_owner, service_depth, polling>>
waitVars == <<wait, wait_depth, sem>>
criticalVars == <<critical_nesting, critical_state, masked>>
modeVars == <<sched_teardown, criticalVars>>
vars == <<ticks, schedVars, runVars, claimVars, waitVars, modeVars, pc, creating>>

-----------------------------------------------------------------------------
(* Types *)

ContextPc == {"base", "polled", "timers", "cond", "check", "recheck", "taken", "yield",
              "run", "pass", "walk", "turn", "reap", "release", "link", "wake"}
TaskPc == {"user", "cond", "check", "recheck", "taken", "park"}
WaitPc == {"cond", "check", "recheck", "taken", "park"}     \* inside the loop of a wait
RunPc == {"pass", "walk", "turn", "reap"}                   \* inside mm_halow_sched_run()

\* The locals of mm_halow_sched_wait(): what it is on, timeout_ms, start and forever.
NoWait == [on |-> NoSem, timeout |-> 0, start |-> 0, forever |-> FALSE]
Wait == [on : Sem \cup {NoSem}, timeout : Ticks, start : Ticks, forever : BOOLEAN]
NoCreate == [slot |-> NoTask, tail |-> NoTask]

Listed == {task_list[i] : i \in DOMAIN task_list}

\* The context executes: PendSV always when it is active, the thread when it is not.
Executing(c) == c = "irq" \/ pc["irq"] = "base"

\* The task is the one the CPU runs: its context executes and has switched to it.
OnCPU(t) == task_cur = t /\ \E c \in Context : pc[c] = "turn" /\ Executing(c)

Runs(a) == IF a \in Context THEN Executing(a) ELSE OnCPU(a)

\* The agent is inside mm_halow_sched_wait().
InWait(a) == wait[a].on # NoSem

\* Where a context goes on when its wait is over.
Home(a) == IF a \in Task THEN "user" ELSE IF a \in polling THEN "timers" ELSE "base"

Goto(a, label) == pc' = [pc EXCEPT ![a] = label]

-----------------------------------------------------------------------------
(* What the code asks of its state *)

\* mm_halow_sched_pending
Pending == sched_woken \/ Reached(ticks, sched_wake_at)

\* mm_halow_pass_expired
PassExpired == sched_running /\ Reached(ticks, sched_deadline)

\* Fault: asks the budget of the scheduler instead of the running task.
FaultOverBudget == task_cur = NoTask /\ PassExpired

\* mm_halow_sched_over_budget
OverBudget == task_cur # NoTask /\ PassExpired

\* Fault: the holder is not looked at.
FaultClaimAny(c) == service_depth < 4

\* Fault: a nested claim is refused.
FaultClaimNested(c) == service_owner = "none"

\* The answer mm_halow_sched_claim gives the context.
Claimable(c) == service_owner \in {"none", c}

Claim(c) ==
  /\ service_owner' = c
  /\ service_depth' = service_depth + 1

\* Fault: the first release gives the claim up, however deep it was nested.
FaultUnclaim ==
  /\ service_depth' = IF service_depth > 0 THEN service_depth - 1 ELSE 0
  /\ service_owner' = "none"

\* mm_halow_sched_release
Unclaim ==
  IF service_depth > 0
  THEN /\ service_depth' = service_depth - 1
       /\ service_owner' = IF service_depth = 1 THEN "none" ELSE service_owner
  ELSE UNCHANGED <<service_owner, service_depth>>

\* mm_halow_sched_wake
Wake == sched_woken' = TRUE

WakeAtReset == sched_wake_at' = TickAdd(ticks, INT_MAX)

\* The context switch from the running task back to the scheduler, which goes on
\* with task->next; the task will resume at the given label.
SwitchOut(t, label) ==
  /\ pc' = [a \in Agent |-> IF a = t THEN label
                            ELSE IF a \in Context /\ pc[a] = "turn" THEN "walk" ELSE pc[a]]
  /\ task_cur' = NoTask
  /\ cursor' = cursor + 1

-----------------------------------------------------------------------------
(* mm_halow_poll_func: one network poll, dispatched on PendSV or reached by *)
(* the thread through the transmit path.  A poll that finds a task current  *)
(* or the claim taken returns without a trace.                              *)

PollEnter(c) ==
  /\ Executing(c) /\ pc[c] = "base"
  /\ c = "irq" => ~masked
  /\ task_cur = NoTask
  /\ Claimable(c)
  /\ Claim(c)
  /\ polling' = polling \cup {c}
  /\ Goto(c, "polled")
  /\ UNCHANGED <<ticks, schedVars, runVars, waitVars, modeVars, creating>>

\* Nothing to do: no request, interrupt or timer, and no task can make progress.
PollIdle(c) ==
  /\ Executing(c) /\ pc[c] = "polled"
  /\ ~Pending
  /\ Unclaim
  /\ polling' = polling \ {c}
  /\ Goto(c, "base")
  /\ UNCHANGED <<ticks, schedVars, runVars, waitVars, modeVars, creating>>

\* A poll request, an interrupt, a due timer or a pending task: the interrupt
\* handlers and timer callbacks run, and may give, delete and wait.
PollWork(c) ==
  /\ Executing(c) /\ pc[c] = "polled"
  /\ Goto(c, "timers")
  /\ UNCHANGED <<ticks, schedVars, runVars, claimVars, waitVars, modeVars, creating>>

PollRun(c) ==
  /\ Executing(c) /\ pc[c] = "timers"
  /\ Goto(c, "run")
  /\ UNCHANGED <<ticks, schedVars, runVars, claimVars, waitVars, modeVars, creating>>

-----------------------------------------------------------------------------
(* mm_halow_sched_run *)

RunEnter(c) ==
  /\ Executing(c) /\ pc[c] = "run"
  /\ IF sched_running \/ task_cur # NoTask
     THEN /\ Goto(c, "release")
          /\ UNCHANGED runVars
     ELSE /\ sched_running' = TRUE
          /\ sched_deadline' = TickAdd(ticks, BUDGET)
          /\ pass' = 0
          /\ Goto(c, "pass")
          /\ UNCHANGED cursor
  /\ UNCHANGED <<ticks, schedVars, claimVars, waitVars, modeVars, creating>>

PassStart(c) ==
  /\ Executing(c) /\ pc[c] = "pass"
  /\ \/ /\ pass < PASSES /\ ~PassExpired
        /\ sched_woken' = FALSE
        /\ WakeAtReset
        /\ cursor' = 1
        /\ Goto(c, "walk")
     \/ /\ ~(pass < PASSES /\ ~PassExpired)
        /\ Goto(c, "reap")
        /\ UNCHANGED <<sched_woken, sched_wake_at, cursor>>
  /\ UNCHANGED <<ticks, task_state, task_list, task_cur, sched_running, sched_deadline, pass,
                 claimVars, waitVars, modeVars, creating>>

\* The next task of the list: resumed when it is ready, passed over when it is dead.
Walk(c) ==
  /\ Executing(c) /\ pc[c] = "walk"
  /\ cursor <= Len(task_list)
  /\ \/ /\ task_state[task_list[cursor]] = "ready"
        /\ task_cur' = task_list[cursor]
        /\ Goto(c, "turn")
        /\ UNCHANGED cursor
     \/ /\ task_state[task_list[cursor]] # "ready"
        /\ cursor' = cursor + 1
        /\ UNCHANGED <<task_cur, pc>>
  /\ UNCHANGED <<ticks, task_state, task_list, sched_woken, sched_wake_at, sched_running,
                 sched_deadline, pass, claimVars, waitVars, modeVars, creating>>

\* Fault: woken is cleared when a pass ends instead of when it starts.
FaultPassEnd(c) ==
  /\ Executing(c) /\ pc[c] = "walk"
  /\ cursor > Len(task_list)
  /\ sched_woken' = FALSE
  /\ pass' = pass
  /\ Goto(c, "reap")
  /\ UNCHANGED <<ticks, task_state, task_list, task_cur, sched_wake_at, sched_running,
                 sched_deadline, cursor, claimVars, waitVars, modeVars, creating>>

\* The end of the list: another pass only if something was woken in this one.
PassEnd(c) ==
  /\ Executing(c) /\ pc[c] = "walk"
  /\ cursor > Len(task_list)
  /\ \/ sched_woken /\ pass' = pass + 1 /\ Goto(c, "pass")
     \/ ~sched_woken /\ Goto(c, "reap") /\ UNCHANGED pass
  /\ UNCHANGED <<ticks, schedVars, sched_running, sched_deadline, cursor,
                 claimVars, waitVars, modeVars, creating>>

\* The list without its i-th task.
Unlink(list, i) == [j \in 1 .. Len(list) - 1 |-> IF j < i THEN list[j] ELSE list[j + 1]]

\* mm_halow_sched_reap: a dead task is unlinked and its stack freed.
Reap(c) ==
  /\ Executing(c) /\ pc[c] = "reap"
  /\ \E i \in DOMAIN task_list :
       /\ task_state[task_list[i]] = "dead"
       /\ \A j \in DOMAIN task_list : j < i => task_state[task_list[j]] # "dead"
       /\ task_list' = Unlink(task_list, i)
       /\ task_state' = [task_state EXCEPT ![task_list[i]] = "free"]
  /\ UNCHANGED <<ticks, task_cur, sched_woken, sched_wake_at, runVars, claimVars, waitVars,
                 modeVars, pc, creating>>

\* Fault: the run does not clear sched_running on its way out.
FaultRunExit(c) ==
  /\ Executing(c) /\ pc[c] = "reap"
  /\ \A t \in Listed : task_state[t] # "dead"
  /\ pass' = 0
  /\ cursor' = 0
  /\ Goto(c, "release")
  /\ UNCHANGED <<ticks, schedVars, sched_running, sched_deadline, claimVars, waitVars,
                 modeVars, creating>>

\* The end of the run, when no dead task is left.  The deadline means nothing from
\* here on: it is read behind sched_running only.
RunExit(c) ==
  /\ Executing(c) /\ pc[c] = "reap"
  /\ \A t \in Listed : task_state[t] # "dead"
  /\ sched_running' = FALSE
  /\ sched_deadline' = 0
  /\ pass' = 0
  /\ cursor' = 0
  /\ Goto(c, "release")
  /\ UNCHANGED <<ticks, schedVars, claimVars, waitVars, modeVars, creating>>

\* mm_halow_sched_release after the run: back to the condition of the wait that
\* yielded, or out of the poll.
Release(c) ==
  /\ Executing(c) /\ pc[c] = "release"
  /\ Unclaim
  /\ \/ InWait(c) /\ Goto(c, "cond") /\ UNCHANGED polling
     \/ ~InWait(c) /\ Goto(c, "base") /\ polling' = polling \ {c}
  /\ UNCHANGED <<ticks, schedVars, runVars, waitVars, modeVars, creating>>

-----------------------------------------------------------------------------
(* mm_halow_sched_wait on a semaphore *)

\* osal.c: "morselib only ever holds a critical section across straight-line work (list
\* and counter updates), never across a blocking call".  Nor does it return from a task.
MayWait(a) ==
  IF a \in Task THEN pc[a] = "user" /\ critical_nesting = 0
                ELSE pc[a] = "timers" \/ (a = "thread" /\ pc[a] = "base")

\* Fault: tasks are counted too.
FaultWaitBegin(a, s, timeout) ==
  /\ Runs(a) /\ MayWait(a)
  /\ wait' = [wait EXCEPT ![a] = [on |-> s, timeout |-> timeout,
                                  start |-> ticks, forever |-> timeout = UINT_MAX]]
  /\ wait_depth' = wait_depth + 1
  /\ Goto(a, "cond")
  /\ UNCHANGED <<ticks, schedVars, runVars, claimVars, sem, modeVars, creating>>

\* Callers outside a task are counted in wait_depth.
WaitBegin(a, s, timeout) ==
  LET forever == timeout = UINT_MAX
      capped == timeout > WAIT_MAX /\ (~forever \/ sched_teardown)
  IN /\ Runs(a) /\ MayWait(a)
     /\ wait' = [wait EXCEPT ![a] = [on |-> s,
                                     timeout |-> IF capped THEN WAIT_MAX ELSE timeout,
                                     start |-> ticks, forever |-> forever]]
     /\ wait_depth' = wait_depth + (IF task_cur = NoTask THEN 1 ELSE 0)
     /\ Goto(a, "cond")
     /\ UNCHANGED <<ticks, schedVars, runVars, claimVars, sem, modeVars, creating>>

\* The locals of the wait go with its frame.
WaitLeave(a) ==
  /\ wait' = [wait EXCEPT ![a] = NoWait]
  /\ wait_depth' = wait_depth - (IF a \in Context THEN 1 ELSE 0)
  /\ Goto(a, Home(a))

\* mm_halow_sem_taken, in its atomic section.
SemTaken(a) ==
  /\ sem[wait[a].on] > 0
  /\ sem' = [sem EXCEPT ![wait[a].on] = @ - 1]
  /\ Goto(a, "taken")

WaitCond(a) ==
  /\ Runs(a) /\ pc[a] = "cond"
  /\ \/ SemTaken(a)
     \/ /\ sem[wait[a].on] = 0
        /\ Goto(a, "check")
        /\ UNCHANGED sem
  /\ UNCHANGED <<ticks, schedVars, runVars, claimVars, wait, wait_depth, modeVars, creating>>

\* Satisfied: what was taken may be what another task waits to give.
WaitTaken(a) ==
  /\ Runs(a) /\ pc[a] = "taken"
  /\ WaitLeave(a)
  /\ Wake
  /\ UNCHANGED <<ticks, task_state, task_list, task_cur, sched_wake_at, runVars, claimVars,
                 sem, modeVars, creating>>

\* Fault: every round of the wait starts its time over.
FaultWaitCheck(a) ==
  /\ Runs(a) /\ pc[a] = "check"
  /\ wait' = [wait EXCEPT ![a].start = ticks]
  /\ Goto(a, IF wait[a].timeout = 0 THEN "recheck" ELSE IF a \in Task THEN "park" ELSE "yield")
  /\ UNCHANGED <<ticks, schedVars, runVars, claimVars, wait_depth, sem, modeVars, creating>>

\* The tests after a false condition: poll once, honour or cap a wait for ever,
\* find the deadline passed, or give up the turn.
WaitCheck(a) ==
  LET w == wait[a]
      graced == [w EXCEPT !.timeout = WAIT_MAX, !.start = ticks, !.forever = FALSE]
      now == IF w.forever /\ sched_teardown THEN graced ELSE w
      label == IF now.forever \/ TickSub(ticks, now.start) < now.timeout
               THEN (IF a \in Task THEN "park" ELSE "yield") ELSE "recheck"
  IN /\ Runs(a) /\ pc[a] = "check"
     /\ \/ w.timeout = 0 /\ WaitLeave(a)
        \/ /\ w.timeout # 0
           /\ wait' = [wait EXCEPT ![a] = now]
           /\ Goto(a, label)
           /\ UNCHANGED wait_depth
     /\ UNCHANGED <<ticks, schedVars, runVars, claimVars, sem, modeVars, creating>>

\* Past the deadline: the condition once more, then the wait is over either way.
WaitRecheck(a) ==
  /\ Runs(a) /\ pc[a] = "recheck"
  /\ \/ SemTaken(a) /\ UNCHANGED <<wait, wait_depth>>
     \/ sem[wait[a].on] = 0 /\ WaitLeave(a) /\ UNCHANGED sem
  /\ UNCHANGED <<ticks, schedVars, runVars, claimVars, modeVars, creating>>

WaitUntil(w) == TickAdd(w.start, w.timeout)

\* Fault: the last deadline is kept instead of the earliest.
FaultPark(t) ==
  /\ OnCPU(t) /\ pc[t] = "park"
  /\ sched_wake_at' = IF wait[t].forever THEN sched_wake_at ELSE WaitUntil(wait[t])
  /\ SwitchOut(t, "cond")
  /\ UNCHANGED <<ticks, task_state, task_list, sched_woken, sched_running, sched_deadline,
                 pass, claimVars, waitVars, modeVars, creating>>

\* mm_halow_sched_park in a task: it leaves its deadline behind and switches away.
Park(t) ==
  LET until == WaitUntil(wait[t])
  IN /\ OnCPU(t) /\ pc[t] = "park"
     /\ sched_wake_at' = IF ~wait[t].forever /\ ~Reached(until, sched_wake_at)
                         THEN until ELSE sched_wake_at
     /\ SwitchOut(t, "cond")
     /\ UNCHANGED <<ticks, task_state, task_list, sched_woken, sched_running, sched_deadline,
                    pass, claimVars, waitVars, modeVars, creating>>

\* mm_halow_sched_yield outside a task, from park: a pass under a claim of its own.
YieldClaim(c) ==
  /\ Executing(c) /\ pc[c] = "yield"
  /\ IF Claimable(c)
     THEN Claim(c) /\ Goto(c, "run")
     ELSE Goto(c, "cond") /\ UNCHANGED <<service_owner, service_depth>>
  /\ UNCHANGED <<ticks, schedVars, runVars, polling, waitVars, modeVars, creating>>

-----------------------------------------------------------------------------
(* What a running task does besides waiting *)

\* Fault: a task that yields does not ask for another turn.
FaultTaskYield(t) ==
  /\ SwitchOut(t, "user")
  /\ UNCHANGED <<ticks, task_state, task_list, sched_woken, sched_wake_at, sched_running,
                 sched_deadline, pass, claimVars, waitVars, modeVars, creating>>

\* mm_halow_sched_yield in a task: it wants another turn.
TaskYield(t) ==
  /\ SwitchOut(t, "user")
  /\ Wake
  /\ UNCHANGED <<ticks, task_state, task_list, sched_wake_at, sched_running, sched_deadline,
                 pass, claimVars, waitVars, modeVars, creating>>

\* mmosal_task_yield, not in a critical section (as for a wait).
Yield(t) ==
  /\ OnCPU(t) /\ pc[t] = "user" /\ critical_nesting = 0
  /\ TaskYield(t)

\* mmhal_wlan_spi_cs_assert: where a task out of time is made to give up its turn.
\* A bus access with time left changes nothing here.
CsAssert(t) ==
  /\ OnCPU(t) /\ pc[t] = "user"
  /\ OverBudget /\ critical_nesting = 0
  /\ TaskYield(t)

\* The task returns, or deletes itself: task_delete(NULL).
TaskExit(t) ==
  /\ OnCPU(t) /\ pc[t] = "user" /\ critical_nesting = 0
  /\ task_state' = [task_state EXCEPT ![t] = "dead"]
  /\ Wake
  /\ SwitchOut(t, "user")
  /\ UNCHANGED <<ticks, task_list, sched_wake_at, sched_running, sched_deadline,
                 pass, claimVars, waitVars, modeVars, creating>>

\* Fault: a deleted task is reaped on the spot.
FaultTaskDelete(t) ==
  /\ task_state[t] = "ready" /\ t \in Listed
  /\ \E u \in Task : OnCPU(u) /\ pc[u] = "user"
  /\ task_state' = [task_state EXCEPT ![t] = "free"]
  /\ task_list' = SelectSeq(task_list, LAMBDA u : u # t)
  /\ Wake
  /\ UNCHANGED <<ticks, task_cur, sched_wake_at, runVars, claimVars, waitVars, modeVars, pc,
                 creating>>

\* task_delete of any task, from a running task or a timer callback.
TaskDelete(t) ==
  /\ task_state[t] = "ready" /\ t \in Listed
  /\ \/ \E u \in Task : OnCPU(u) /\ pc[u] = "user"
     \/ \E c \in Context : Executing(c) /\ pc[c] = "timers"
  /\ task_state' = [task_state EXCEPT ![t] = "dead"]
  /\ Wake
  /\ UNCHANGED <<ticks, task_list, task_cur, sched_wake_at, runVars, claimVars, waitVars,
                 modeVars, pc, creating>>

\* Fault: every entry saves the state, so that the outermost exit restores a masked one.
FaultEnterCritical(t) ==
  /\ OnCPU(t) /\ pc[t] = "user" /\ critical_nesting < MaxNest
  /\ critical_nesting' = critical_nesting + 1
  /\ critical_state' = masked
  /\ masked' = TRUE
  /\ UNCHANGED <<ticks, schedVars, runVars, claimVars, waitVars, sched_teardown, pc, creating>>

\* mmosal_task_enter_critical by a task.  By a caller outside the tasks the section is over
\* before anything else can happen.
EnterCritical(t) ==
  /\ OnCPU(t) /\ pc[t] = "user" /\ critical_nesting < MaxNest
  /\ critical_nesting' = critical_nesting + 1
  /\ critical_state' = IF critical_nesting = 0 THEN masked ELSE critical_state
  /\ masked' = TRUE
  /\ UNCHANGED <<ticks, schedVars, runVars, claimVars, waitVars, sched_teardown, pc, creating>>

\* mmosal_task_exit_critical: the outermost one restores what the first entry found.
ExitCritical(t) ==
  /\ OnCPU(t) /\ pc[t] = "user" /\ critical_nesting > 0
  /\ critical_nesting' = critical_nesting - 1
  /\ masked' = IF critical_nesting = 1 THEN critical_state ELSE masked
  /\ UNCHANGED <<ticks, schedVars, runVars, claimVars, waitVars, sched_teardown, critical_state,
                 pc, creating>>

\* Fault: the count is not held to max_count.
FaultGive(s) ==
  /\ sem[s] <= MaxCount
  /\ sem' = [sem EXCEPT ![s] = @ + 1]
  /\ Wake
  /\ UNCHANGED <<ticks, task_state, task_list, task_cur, sched_wake_at, runVars, claimVars,
                 wait, wait_depth, modeVars, pc, creating>>

\* mmosal_sem_give where nothing can come between the count and the wake that
\* clears the flag: in an interrupt, in a running task, in a timer callback.
Give(s) ==
  /\ sem[s] < MaxCount
  /\ sem' = [sem EXCEPT ![s] = @ + 1]
  /\ Wake
  /\ UNCHANGED <<ticks, task_state, task_list, task_cur, sched_wake_at, runVars, claimVars,
                 wait, wait_depth, modeVars, pc, creating>>

-----------------------------------------------------------------------------
(* What the thread does outside the scheduler.  PendSV may come between the *)
(* change it makes and the mm_halow_sched_wake() that ends the call.        *)

ThreadIdle == Executing("thread") /\ pc["thread"] = "base"

ThreadGive(s) ==
  /\ ThreadIdle
  /\ sem[s] < MaxCount
  /\ sem' = [sem EXCEPT ![s] = @ + 1]
  /\ Goto("thread", "wake")
  /\ UNCHANGED <<ticks, schedVars, runVars, claimVars, wait, wait_depth, modeVars, creating>>

ThreadDelete(t) ==
  /\ ThreadIdle
  /\ task_state[t] = "ready" /\ t \in Listed
  /\ task_state' = [task_state EXCEPT ![t] = "dead"]
  /\ Goto("thread", "wake")
  /\ UNCHANGED <<ticks, task_list, task_cur, sched_woken, sched_wake_at, runVars, claimVars,
                 waitVars, modeVars, creating>>

ThreadWake ==
  /\ Executing("thread") /\ pc["thread"] = "wake"
  /\ Wake
  /\ Goto("thread", "base")
  /\ UNCHANGED <<ticks, task_state, task_list, task_cur, sched_wake_at, runVars, claimVars,
                 waitVars, modeVars, creating>>

\* mm_halow_sched_task_create up to the end of its search for the tail: the slot
\* is filled in, and the last task of the list found.
CreateFind(t) ==
  /\ ThreadIdle
  /\ task_state[t] = "free"
  /\ task_state' = [task_state EXCEPT ![t] = "ready"]
  /\ creating' = [slot |-> t, tail |-> IF task_list = <<>> THEN NoTask
                                       ELSE task_list[Len(task_list)]]
  /\ wait' = [wait EXCEPT ![t] = NoWait]
  /\ pc' = [pc EXCEPT !["thread"] = "link", ![t] = "user"]
  /\ UNCHANGED <<ticks, task_list, task_cur, sched_woken, sched_wake_at, runVars, claimVars,
                 wait_depth, sem, modeVars>>

\* *tail = task.  A tail reaped since it was found is no longer on the list, and
\* what is linked to it is not either.
CreateLink ==
  /\ Executing("thread") /\ pc["thread"] = "link"
  /\ task_list' = IF creating.tail \in Listed \cup {NoTask}
                  THEN Append(task_list, creating.slot) ELSE task_list
  /\ creating' = NoCreate
  /\ Goto("thread", "wake")
  /\ UNCHANGED <<ticks, task_state, task_cur, sched_woken, sched_wake_at, runVars, claimVars,
                 waitVars, modeVars>>

\* mm_halow_sched_teardown around mmwlan_shutdown().
TeardownBegin ==
  /\ ThreadIdle /\ ~sched_teardown
  /\ sched_teardown' = TRUE
  /\ UNCHANGED <<ticks, schedVars, runVars, claimVars, waitVars, criticalVars, pc, creating>>

TeardownEnd ==
  /\ ThreadIdle /\ sched_teardown
  /\ sched_teardown' = FALSE
  /\ UNCHANGED <<ticks, schedVars, runVars, claimVars, waitVars, criticalVars, pc, creating>>

\* mm_halow_sched_deinit, from outside the scheduler: tasks are abandoned.
Deinit ==
  /\ ThreadIdle /\ ~sched_teardown
  /\ task_list' = <<>>
  /\ task_cur' = NoTask
  /\ sched_running' = FALSE
  /\ service_owner' = "none"
  /\ service_depth' = 0
  /\ sched_woken' = FALSE
  /\ WakeAtReset
  /\ task_state' = [t \in Task |-> "free"]
  /\ wait' = [a \in Agent |-> NoWait]
  /\ pc' = [a \in Agent |-> IF a \in Task THEN "user" ELSE pc[a]]
  /\ UNCHANGED <<ticks, sched_deadline, pass, cursor, polling, wait_depth, sem, modeVars, creating>>

-----------------------------------------------------------------------------
(* Time *)

\* How long ago an instant came due.
Late(due) == IF Reached(ticks, due) THEN TickSub(ticks, due) ELSE 0

\* A context walks the list of tasks, or has switched to one of them.
MidPass == \E c \in Context : pc[c] \in {"walk", "turn"}

\* Within MaxLate of being due a run out of budget is over (its task has reached a bus
\* access), the network poll has come (it runs every millisecond or so), and a context
\* in a wait has taken its next step.
Punctual ==
  /\ sched_running => Late(sched_deadline) < MaxLate
  /\ ~MidPass =>
       /\ Late(sched_wake_at) < MaxLate
       /\ \A c \in Context : InWait(c) /\ ~wait[c].forever =>
                                TickSub(ticks, wait[c].start) < wait[c].timeout + MaxLate

Tick ==
  /\ Punctual
  /\ ticks' = TickAdd(ticks, 1)
  /\ UNCHANGED <<schedVars, runVars, claimVars, waitVars, modeVars, pc, creating>>

-----------------------------------------------------------------------------
Init ==
  /\ ticks \in BootTicks
  /\ task_state = [t \in Task |-> "free"]
  /\ task_list = <<>>
  /\ task_cur = NoTask
  /\ sched_woken = FALSE
  /\ sched_wake_at = 0
  /\ sched_running = FALSE
  /\ sched_deadline = 0
  /\ service_owner = "none"
  /\ service_depth = 0
  /\ wait_depth = 0
  /\ sched_teardown = FALSE
  /\ critical_nesting = 0 /\ critical_state = FALSE /\ masked = FALSE
  /\ sem = [s \in Sem |-> 0]
  /\ pc = [a \in Agent |-> IF a \in Task THEN "user" ELSE "base"]
  /\ wait = [a \in Agent |-> NoWait]
  /\ pass = 0
  /\ cursor = 0
  /\ polling = {}
  /\ creating = NoCreate

\* The steps of a context through a poll, a wait's pass, and the scheduler.
ContextStep(c) ==
  \/ PollIdle(c) \/ PollWork(c) \/ PollRun(c)
  \/ RunEnter(c) \/ PassStart(c) \/ Walk(c) \/ PassEnd(c)
  \/ Reap(c) \/ RunExit(c) \/ Release(c) \/ YieldClaim(c)

\* The steps of a wait once it has begun.
WaitStep(a) == WaitCond(a) \/ WaitTaken(a) \/ WaitCheck(a) \/ WaitRecheck(a)

TaskStep(t) ==
  \/ Park(t) \/ Yield(t) \/ CsAssert(t) \/ TaskExit(t) \/ TaskDelete(t)
  \/ EnterCritical(t) \/ ExitCritical(t)

ThreadStep ==
  \/ \E s \in Sem : ThreadGive(s)
  \/ \E t \in Task : ThreadDelete(t) \/ CreateFind(t)
  \/ ThreadWake \/ CreateLink
  \/ TeardownBegin \/ TeardownEnd \/ Deinit

\* Everything but the beginning of a poll
Goes ==
  \/ \E c \in Context : ContextStep(c)
  \/ \E a \in Waiter, s \in Sem, timeout \in Timeouts : WaitBegin(a, s, timeout)
  \/ \E a \in Agent : WaitStep(a)
  \/ \E t \in Task : TaskStep(t)
  \/ \E s \in Sem : Give(s)
  \/ ThreadStep
  \/ Tick

Next == Goes \/ \E c \in Context : PollEnter(c)

Spec == Init /\ [][Next]_vars

\* What the code's scheduling guarantees.  The network poll is dispatched again and again;
\* PendSV runs to completion, and so does a task that has the CPU: it goes through its waits
\* and leaves its critical sections.  The thread runs on whenever PendSV is done, which is
\* often but not for ever, hence strong fairness.  Handlers and timer callbacks do not wait
\* without end, nor do critical sections nest without end; a task that never gives up the CPU
\* accesses the bus again and again; the clock advances.  Nothing makes anybody give, wait,
\* poll from the thread, yield or exit.
Fairness ==
  /\ WF_vars(PollEnter("irq"))
  /\ WF_vars(\/ ContextStep("irq") \/ WaitStep("irq")
             \/ \E t \in Task : WaitStep(t) \/ Park(t) \/ ExitCritical(t))
  /\ SF_vars(ContextStep("thread") \/ WaitStep("thread") \/ ThreadWake \/ CreateLink)
  /\ SF_vars(\E c \in Context : PollRun(c))
  /\ \A t \in Task : SF_vars(critical_nesting = 1 /\ ExitCritical(t)) /\ SF_vars(CsAssert(t))
  /\ WF_vars(Tick)

\* The thread gets the CPU between two polls: PendSV does not come again before a thread
\* that is late in its wait has taken a step.
Unstarved ==
  InWait("thread") /\ ~wait["thread"].forever =>
    TickSub(ticks, wait["thread"].start) < wait["thread"].timeout + MaxLate
NextUnstarved == Goes \/ PollEnter("thread") \/ (Unstarved /\ PollEnter("irq"))

FairSpec == Init /\ [][NextUnstarved]_vars /\ Fairness

-----------------------------------------------------------------------------
(* Properties *)

TypeOK ==
  /\ ticks \in Ticks
  /\ task_state \in [Task -> {"free", "ready", "dead"}]
  /\ task_list \in Seq(Task)
  /\ task_cur \in Task \cup {NoTask}
  /\ sched_woken \in BOOLEAN
  /\ sched_wake_at \in Ticks
  /\ sched_running \in BOOLEAN
  /\ sched_deadline \in Ticks
  /\ service_owner \in Context \cup {"none"}
  /\ service_depth \in Nat
  /\ wait_depth \in Nat
  /\ sched_teardown \in BOOLEAN
  /\ critical_nesting \in 0 .. MaxNest /\ critical_state \in BOOLEAN /\ masked \in BOOLEAN
  /\ sem \in [Sem -> 0 .. MaxCount]
  /\ pc \in [Agent -> ContextPc \cup TaskPc]
  /\ \A c \in Context : pc[c] \in ContextPc
  /\ \A t \in Task : pc[t] \in TaskPc
  /\ wait \in [Agent -> Wait]
  /\ pass \in Nat
  /\ cursor \in Nat
  /\ polling \subseteq Context
  /\ creating \in [slot : Task \cup {NoTask}, tail : Task \cup {NoTask}]

\* The context has driver work of the transceiver under way: it is inside a poll, or
\* in a pass that one of its waits makes.
InPass(c) == pc[c] \in RunPc \cup {"run", "release"}
Servicing(c) == c \in polling \/ InPass(c)

\* The claims a context has taken and not released: one for its poll, one for the
\* pass a wait of its own is making.
Claims(c) == (IF c \in polling THEN 1 ELSE 0) + (IF InPass(c) /\ InWait(c) THEN 1 ELSE 0)

\* sched.h: "without this the poll can start a bus transaction on top of one in
\* flight".  The thread and PendSV never service the transceiver at the same time,
\* however polls and waits nest (mm_halow_sched_claim and its two callers).
ServiceExclusion == ~(Servicing("thread") /\ Servicing("irq"))

\* The claim is held by the context that services the transceiver, exactly as deep
\* as its polls and waits have nested, and by nobody when neither does: a claim is
\* neither lost with a nested release nor left behind (claim/release, poll_func, yield).
ClaimAccounting ==
  /\ \A c \in Context : Servicing(c) <=> service_owner = c
  /\ service_depth = Claims("thread") + Claims("irq")

\* mm_halow_sched_in_wait() is true exactly while the thread or PendSV is inside a
\* wait: the count that tasks leave alone comes back to zero after every exit.
WaitDepthExact ==
  wait_depth = (IF InWait("thread") THEN 1 ELSE 0) + (IF InWait("irq") THEN 1 ELSE 0)

\* sched.h: "refusing a nested one deadlocks, as the nested caller is a wait only the
\* scheduler it was refused can satisfy".  A context whose wait wants to make a pass
\* is always granted the claim, be it inside a poll or not (claim, yield).
WaiterNotRefused == \A c \in Context : Executing(c) /\ pc[c] = "yield" => Claimable(c)

\* The task the scheduler has switched to is one it has not reaped, on its list, and
\* exactly one context is switched to it: no stack is resumed twice or after its free
\* (run, reap, task_delete).
RunningStackLive ==
  IF task_cur = NoTask
  THEN \A c \in Context : pc[c] # "turn"
  ELSE /\ task_cur \in Listed /\ task_state[task_cur] # "free"
       /\ sched_running
       /\ \E c \in Context : \A d \in Context : pc[d] = "turn" <=> d = c

\* However deep critical sections nest, interrupts are masked exactly while one is open,
\* and an open one belongs to the task that is running: none is left on the stack of a task
\* that has been switched away from, and the outermost exit lets PendSV in again
\* (enter_critical, exit_critical, cs_assert, osal_in_critical).
CriticalHeldByRunner ==
  /\ masked <=> critical_nesting > 0
  /\ critical_nesting > 0 => /\ ~critical_state
                             /\ task_cur # NoTask /\ pc[task_cur] = "user"

\* The rest of the pass under way will come to the task.
StillToVisit(t) ==
  \E c \in Context : /\ pc[c] \in {"walk", "turn"}
                    /\ \E i \in DOMAIN task_list : i >= cursor /\ task_list[i] = t

Parked(t) == t \in Listed /\ task_state[t] = "ready" /\ pc[t] = "cond" /\ task_cur # t

\* No lost wakeup: a task parked on a semaphore that has a count is either still to
\* be visited by the pass under way, or the scheduler has been woken, or the thread
\* is just about to wake it.  (woken is cleared at the start of a pass, set by every
\* give, from any context and at any moment of a pass.)
NoLostWakeup ==
  \A t \in Task : Parked(t) /\ sem[wait[t].on] > 0 =>
     sched_woken \/ StillToVisit(t) \/ pc["thread"] = "wake"

\* No lost deadline: the instant the scheduler will wake itself at is not after the
\* deadline of any parked task the pass under way has already dealt with.
NoLostDeadline ==
  \A t \in Task : Parked(t) /\ ~wait[t].forever =>
     StillToVisit(t) \/ Reached(WaitUntil(wait[t]), sched_wake_at)

\* sched.h on mm_halow_sched_pending(): "While false, mm_halow_sched_run() would find
\* every task exactly where the last pass left it" - parked, on a semaphore with no
\* count, before its deadline - and nothing is waiting to be reaped.
PendingSound ==
  ~Pending /\ ~sched_running /\ pc["thread"] # "wake" =>
     \A t \in Listed : /\ Parked(t)
                       /\ sem[wait[t].on] = 0
                       /\ ~wait[t].forever => ~Reached(ticks, WaitUntil(wait[t]))

\* A pass always comes to an end, however long a task means to keep the CPU: the bus
\* path takes it back once the budget is spent (over_budget, cs_assert).
RunEnds == sched_running ~> ~sched_running

\* A wait with a timeout ends: its caller leaves it with or without the semaphore, whether
\* it is a task that parked or a context that makes passes meanwhile.  So does a context's
\* wait for ever during a teardown ("deinit on a dead bus has to complete").
TimedWaitEnds ==
  \A a \in Waiter : InWait(a) /\ (wait[a].forever => a \in Context /\ sched_teardown) ~>
     ~InWait(a) \/ (a \in Task /\ task_state[a] # "ready")

\* A task parked on a semaphore that has been given is let out of its wait, unless
\* somebody else takes the count first or the task is deleted.
TokenServed ==
  \A t \in Task : Parked(t) /\ sem[wait[t].on] > 0 ~>
     ~Parked(t) \/ sem[wait[t].on] = 0

-----------------------------------------------------------------------------
(* What the safety properties rest on: together with TypeOK, ClaimAccounting,     *)
(* WaitDepthExact and CriticalHeldByRunner, an inductive invariant.               *)

\* Where a context stands says whether it is inside a poll and inside a wait; PendSV
\* does nothing outside a poll.
ContextShape ==
  /\ \A c \in Context :
       /\ pc[c] \in {"base", "wake", "link"} => c \notin polling /\ ~InWait(c)
       /\ pc[c] \in {"polled", "timers"} => c \in polling /\ ~InWait(c)
       /\ pc[c] \in {"cond", "check", "recheck", "taken", "yield"} => InWait(c)
       /\ InPass(c) => c \in polling \/ InWait(c)
  /\ pc["irq"] # "base" => "irq" \in polling

\* The run under way is that of the one context in it, a task is current exactly while
\* that context has switched to it, and the cursor is on that task.
RunShape ==
  /\ sched_running <=> \E c \in Context : pc[c] \in RunPc
  /\ task_cur # NoTask <=> \E c \in Context : pc[c] = "turn"
  /\ (\E c \in Context : pc[c] \in {"walk", "turn"}) => cursor >= 1
  /\ task_cur # NoTask => cursor <= Len(task_list) /\ task_list[cursor] = task_cur

\* A task is on the list once.
ListOnce == \A i, j \in DOMAIN task_list : task_list[i] = task_list[j] => i = j

\* A task on the list has its stack; a task in a wait has what it waits on; a task
\* that does not have the CPU is parked in its wait or outside one.
TaskShape ==
  \A t \in Task :
    /\ t \in Listed => task_state[t] # "free"
    /\ pc[t] \in WaitPc => InWait(t)
    /\ task_cur # t => pc[t] \in {"user", "cond"}

\* The task being created has its stack, and is not on the list before it is linked.
CreateShape ==
  pc["thread"] = "link" =>
    /\ creating.slot \in Task \ Listed
    /\ task_state[creating.slot] = "ready"

\* A running task that has found its condition false, and has not given up the CPU
\* yet, will find the scheduler woken if the condition has come true since.
NoMissedGive ==
  \A t \in Task : pc[t] \in {"check", "park"} /\ sem[wait[t].on] > 0 =>
     sched_woken \/ pc["thread"] = "wake"

IInv ==
  /\ TypeOK
  /\ ContextShape
  /\ ClaimAccounting
  /\ WaitDepthExact
  /\ RunShape
  /\ ListOnce
  /\ TaskShape
  /\ CreateShape
  /\ CriticalHeldByRunner
  /\ NoMissedGive
  /\ NoLostWakeup

\* What the deadlines rest on besides, as long as a wait and a run together are short of
\* half the clock's range (InReach): together with IInv, an inductive invariant.

\* A wait with a timeout has one the scheduler accepts; a task being created waits for
\* nothing; the deadline of a run is at most the budget ahead.
TimesShape ==
  /\ \A t \in Task : InWait(t) /\ ~wait[t].forever => wait[t].timeout <= WAIT_MAX
  /\ pc["thread"] = "link" => pc[creating.slot] = "user"
  /\ sched_running => Reached(ticks, sched_deadline) \/ TickSub(sched_deadline, ticks) <= BUDGET

\* No lost turn: a listed task that is not parked has its turn in the pass under way, or
\* has woken the scheduler, or is dead and will be reaped before the run is over.
NoLostTurn ==
  \A t \in Listed : \/ Parked(t) \/ StillToVisit(t) \/ sched_woken \/ pc["thread"] = "wake"
                    \/ task_state[t] = "dead" /\ sched_running

\* The last pass began at p.  Measured from there, the task that is about to park and the
\* tasks that have parked since have deadlines ahead of p and within reach, wake_at is no
\* later than any of them, and the clock is not much past it.
RUN_MAX == BUDGET + MaxLate
InReach == WAIT_MAX + RUN_MAX <= INT_MAX
Dealt(t) == Parked(t) /\ ~wait[t].forever /\ ~StillToVisit(t)
PassBeganAt(p) ==
  LET since(tick) == TickSub(tick, p)
  IN /\ since(sched_wake_at) \in 1 .. INT_MAX
     /\ MidPass => /\ since(sched_deadline) \in 1 .. BUDGET
                   /\ since(ticks) <= since(sched_deadline) + MaxLate
     /\ \A t \in Task : pc[t] = "park" /\ ~wait[t].forever =>
          since(WaitUntil(wait[t])) \in 1 .. WAIT_MAX + RUN_MAX
     /\ \A t \in Task : Dealt(t) =>
          /\ since(sched_wake_at) <= since(WaitUntil(wait[t]))
          /\ since(WaitUntil(wait[t])) <= WAIT_MAX + RUN_MAX
          /\ since(ticks) <= since(sched_wake_at) + RUN_MAX

TimeInv == TimesShape /\ NoLostTurn /\ \E p \in Ticks : PassBeganAt(p)

-----------------------------------------------------------------------------
(* What comments of the repository say that the code does not do. *)

\* sched.h on task_create: "It starts out ready and first runs on the next
\* mm_halow_sched_run()" - so a task that has been created is on the list.
CreatedIsListed ==
  \A t \in Task : task_state[t] = "ready" /\ creating.slot # t => t \in Listed

=============================================================================
