------------------------------- MODULE Timers -------------------------------
(***************************************************************************)
(* The software timers of mm_halow_osal.c.  The poll of                    *)
(* mm_halow_osal_timer_poll() and the tasks run in one service at a time   *)
(* (ServiceExclusion in Sched); when PendSV is the one serving, it cuts in *)
(* between any two accesses of a thread that is starting, changing or      *)
(* deleting a timer, and returns before the thread goes on.                *)
(*                                                                         *)
(* morselib is the caller: nobody uses a timer somebody deletes, a         *)
(* callback deletes no timer but its own, and no callback waits.  Accesses *)
(* happen in program order, though expires_at is not volatile.             *)
(***************************************************************************)
EXTENDS Clock, SequencesExt

CONSTANTS
  Timer,        \* blocks of the heap that can hold a struct mmosal_timer
  NoTimer,      \* NULL
  Periods,      \* the periods timers are given
  BootTicks,    \* readings of the clock when the driver starts
  MaxLate       \* the longest time between two polls, and the longest call

ASSUME TimersAssumption ==
  /\ NoTimer \notin Timer
  /\ Periods \subseteq 0 .. HALF - MaxLate
  /\ BootTicks \subseteq Ticks
  /\ MaxLate \in Nat \ {0} /\ 2 * MaxLate < HALF

Agent == {"thread", "service"}

VARIABLES
  ticks,        \* mm_halow_ticks_ms()
  list,         \* mm_halow_timer_list, first to last
  timer,        \* [Timer -> the fields of struct mmosal_timer]
  allocated,    \* the blocks that are not free
  poll,         \* where mm_halow_osal_timer_poll() is
  op,           \* [Agent -> the call it is in, and where]
  age,          \* time since the last poll began
  since,        \* [Timer -> time since the clock was read for its expires_at]
  wanted        \* [Timer -> the period that was added to that reading]

ghosts == <<since, wanted>>
vars == <<ticks, list, timer, allocated, poll, op, age, since, wanted>>

NoPoll == [at |-> "idle", now |-> 0, timer |-> NoTimer, next |-> NoTimer]
NoOp == [at |-> "idle", timer |-> NoTimer, period |-> 0, read |-> 0]

Return(c) == op' = [op EXCEPT ![c] = NoOp]
Goto(c, place) == op' = [op EXCEPT ![c].at = place]
At(c, place) ==
  /\ op[c].at = place
  /\ c = "thread" => poll = NoPoll /\ op["service"] = NoOp
Idle(c) == At(c, "idle") /\ (c = "service" => poll.at \in {"idle", "callback"})

\* c may use t: it is linked, and not being deleted.
Uses(c, t) == Idle(c) /\ Contains(list, t)

\* The period p counts for t, and elapsed ticks of it are gone.
Counts(t, p, elapsed) ==
  /\ wanted' = [wanted EXCEPT ![t] = p]
  /\ since' = [since EXCEPT ![t] = elapsed]

-----------------------------------------------------------------------------
(* Create, delete, start, stop, change *)

Create(c, t, p, auto) ==
  /\ Idle(c) /\ t \notin allocated
  /\ allocated' = allocated \union {t}
  /\ timer' = [timer EXCEPT ![t] =
                 [period |-> p, expires_at |-> 0, auto_reload |-> auto, active |-> FALSE]]
  /\ list' = <<t>> \o list
  /\ UNCHANGED <<ticks, poll, op, age, ghosts>>

\* Unlinked in an atomic section, and freed after it.
Delete(c, t) ==
  /\ Uses(c, t) /\ \A d \in Agent : op[d].timer # t
  /\ poll.at = "callback" => t = poll.timer
  /\ \E i \in DOMAIN list : list[i] = t /\ list' = RemoveAt(list, i)
  /\ op' = [op EXCEPT ![c] = [NoOp EXCEPT !.at = "free", !.timer = t]]
  /\ UNCHANGED <<ticks, timer, allocated, poll, age, ghosts>>

DeleteFree(c) ==
  /\ At(c, "free")
  /\ allocated' = allocated \ {op[c].timer}
  /\ Return(c)
  /\ UNCHANGED <<ticks, list, timer, poll, age, ghosts>>

\* The clock and the period are read, then expires_at and active written.
Start(c, t) ==
  /\ Uses(c, t)
  /\ op' = [op EXCEPT ![c] = [at |-> "start", timer |-> t, period |-> timer[t].period,
                              read |-> ticks]]
  /\ IF timer[t].active THEN UNCHANGED ghosts ELSE Counts(t, timer[t].period, 0)
  /\ UNCHANGED <<ticks, list, timer, allocated, poll, age>>

\* expires_at is written: the last write of either call.
Expires(c, place) ==
  LET o == op[c]
  IN /\ At(c, place)
     /\ timer' = [timer EXCEPT ![o.timer].expires_at = TickAdd(o.read, o.period)]
     /\ Counts(o.timer, o.period, TickSub(ticks, o.read))

\* Fault: active is written first.
FaultStartExpires(c) ==
  /\ At(c, "start")
  /\ timer' = [timer EXCEPT ![op[c].timer].active = TRUE]
  /\ op' = [op EXCEPT ![c].at = "change"]
  /\ UNCHANGED <<ticks, list, allocated, poll, age, ghosts>>

StartExpires(c) ==
  /\ Expires(c, "start")
  /\ Goto(c, "activate")
  /\ UNCHANGED <<ticks, list, allocated, poll, age>>

StartActive(c) ==
  /\ At(c, "activate")
  /\ timer' = [timer EXCEPT ![op[c].timer].active = TRUE]
  /\ Return(c)
  /\ UNCHANGED <<ticks, list, allocated, poll, age, ghosts>>

Stop(c, t) ==
  /\ Uses(c, t)
  /\ timer' = [timer EXCEPT ![t].active = FALSE]
  /\ UNCHANGED <<ticks, list, allocated, poll, op, age, ghosts>>

ChangePeriod(c, t, p) ==
  /\ Uses(c, t)
  /\ timer' = [timer EXCEPT ![t].period = p]
  /\ op' = [op EXCEPT ![c] = [at |-> "changed", timer |-> t, period |-> p, read |-> ticks]]
  /\ UNCHANGED <<ticks, list, allocated, poll, age, ghosts>>

ChangeActive(c) ==
  /\ At(c, "changed")
  /\ IF timer[op[c].timer].active
     THEN op' = [op EXCEPT ![c].at = "change", ![c].read = ticks]
     ELSE Return(c)
  /\ UNCHANGED <<ticks, list, timer, allocated, poll, age, ghosts>>

ChangeExpires(c) ==
  /\ Expires(c, "change")
  /\ Return(c)
  /\ UNCHANGED <<ticks, list, allocated, poll, age>>

\* mm_halow_osal_deinit: the list is dropped before the heap its timers live in.
Deinit ==
  /\ \A c \in Agent : Idle(c)
  /\ list' = <<>>
  /\ allocated' = {}
  /\ UNCHANGED <<ticks, timer, poll, op, age, ghosts>>

-----------------------------------------------------------------------------
(* The poll *)

\* Fault: the readings are compared as they are.
FaultDue(t, now) == timer[t].active /\ now >= timer[t].expires_at

Due(t, now) == timer[t].active /\ Reached(now, timer[t].expires_at)

\* mm_halow_osal_timer_pending
TimerPending == \E t \in ToSet(list) : Due(t, ticks)

NextOf(t) ==
  LET i == CHOOSE i \in DOMAIN list : list[i] = t
  IN IF i = Len(list) THEN NoTimer ELSE list[i + 1]

Visit(t) ==
  poll' = IF t = NoTimer THEN NoPoll
          ELSE [poll EXCEPT !.at = "look", !.timer = t, !.next = NoTimer]

\* No timer is due and nothing else calls for a pass.
PollSkip ==
  /\ poll = NoPoll /\ op["service"] = NoOp /\ ~TimerPending
  /\ age' = 0
  /\ UNCHANGED <<ticks, list, timer, allocated, poll, op, ghosts>>

PollBegin ==
  /\ poll = NoPoll /\ op["service"] = NoOp
  /\ poll' = IF list = <<>> THEN NoPoll
             ELSE [at |-> "look", now |-> ticks, timer |-> Head(list), next |-> NoTimer]
  /\ age' = 0
  /\ UNCHANGED <<ticks, list, timer, allocated, op, ghosts>>

\* A timer that is not due is passed by.
PassBy ==
  /\ poll.at = "look" /\ ~Due(poll.timer, poll.now)
  /\ Visit(NextOf(poll.timer))
  /\ UNCHANGED <<ticks, list, timer, allocated, op, age, ghosts>>

\* A timer that is due is set for the next time, or made inactive, and then called back.
Expire ==
  LET t == poll.timer
  IN /\ poll.at = "look" /\ Due(t, poll.now)
     /\ poll' = [poll EXCEPT !.at = "callback", !.next = NextOf(t)]
     /\ IF timer[t].auto_reload
        THEN /\ timer' = [timer EXCEPT ![t].expires_at = TickAdd(poll.now, timer[t].period)]
             /\ Counts(t, timer[t].period, TickSub(ticks, poll.now))
        ELSE timer' = [timer EXCEPT ![t].active = FALSE] /\ UNCHANGED ghosts
     /\ UNCHANGED <<ticks, list, allocated, op, age>>

\* Fault: next is read from the timer after its callback.
FaultCalledBack ==
  /\ poll.at = "callback" /\ op["service"] = NoOp
  /\ Visit(IF Contains(list, poll.timer) THEN NextOf(poll.timer) ELSE poll.timer)
  /\ UNCHANGED <<ticks, list, timer, allocated, op, age, ghosts>>

\* The callback has returned.
CalledBack ==
  /\ poll.at = "callback" /\ op["service"] = NoOp
  /\ Visit(poll.next)
  /\ UNCHANGED <<ticks, list, timer, allocated, op, age, ghosts>>

-----------------------------------------------------------------------------
(* The clock.  The network poll comes every millisecond, and a call takes no longer. *)

Tick ==
  /\ age < MaxLate
  /\ \A c \in Agent : op[c] = NoOp \/ TickSub(ticks, op[c].read) < MaxLate \/ op[c].at = "free"
  /\ ticks' = TickAdd(ticks, 1)
  /\ age' = age + 1
  /\ since' = [t \in Timer |-> IF since[t] < CLOCK THEN since[t] + 1 ELSE since[t]]
  /\ UNCHANGED <<list, timer, allocated, poll, op, wanted>>

Init ==
  /\ ticks \in BootTicks
  /\ list = <<>>
  /\ timer = [t \in Timer |->
                [period |-> 0, expires_at |-> 0, auto_reload |-> FALSE, active |-> FALSE]]
  /\ allocated = {}
  /\ poll = NoPoll
  /\ op = [c \in Agent |-> NoOp]
  /\ age = 0
  /\ since = [t \in Timer |-> 0]
  /\ wanted = [t \in Timer |-> 0]

Call(c, t) ==
  \/ \E p \in Periods : ChangePeriod(c, t, p) \/ \E auto \in BOOLEAN : Create(c, t, p, auto)
  \/ Delete(c, t) \/ Start(c, t) \/ Stop(c, t)

CallStep(c) ==
  \/ DeleteFree(c) \/ StartExpires(c) \/ StartActive(c) \/ ChangeActive(c) \/ ChangeExpires(c)

Next ==
  \/ \E c \in Agent : CallStep(c) \/ \E t \in Timer : Call(c, t)
  \/ Deinit \/ PollSkip \/ PollBegin \/ PassBy \/ Expire \/ CalledBack
  \/ Tick

Spec == Init /\ [][Next]_vars

-----------------------------------------------------------------------------
(* Properties *)

Span == 0 .. HALF - MaxLate
Linked == ToSet(list)
Fields == [period : Span, expires_at : Ticks, auto_reload : BOOLEAN, active : BOOLEAN]
Poll == [at : {"idle", "look", "callback"}, now : Ticks, timer : Timer \union {NoTimer},
         next : Timer \union {NoTimer}]
Op == [at : {"idle", "free", "start", "activate", "changed", "change"},
       timer : Timer \union {NoTimer}, period : Span, read : Ticks]

\* The types, with a list that holds allocated timers only, each once.
TypeOK ==
  /\ ticks \in Ticks /\ age \in 0 .. MaxLate
  /\ list \in Seq(Timer) /\ IsInjective(list)
  /\ Linked \subseteq allocated /\ allocated \subseteq Timer
  /\ timer \in [Timer -> Fields] /\ poll \in Poll /\ op \in [Agent -> Op]
  /\ since \in [Timer -> 0 .. CLOCK] /\ wanted \in [Timer -> Span]

\* "Read before the callback: deleting the timer from inside its own callback is
\* allowed": the poll looks at no timer that has been freed (mm_halow_osal_timer_poll).
NoStaleVisit == poll.at = "look" => poll.timer \in allocated

\* A timer fires no earlier than its period after it was started, reloaded or changed,
\* wherever the poll cuts in and whenever the clock wraps (mmosal_timer_start,
\* mmosal_timer_change_period, mm_halow_osal_timer_poll).
NotEarly ==
  [][poll.at = "look" /\ poll'.at = "callback" => since[poll.timer] >= wanted[poll.timer]]_vars

\* A linked timer that is active has its callback no later after its period than the
\* call that started it, the wait for a poll and that poll take together: it is neither
\* passed by nor lost over a wrap of the clock (mm_halow_osal_timer_pending).
NotLate ==
  \A t \in Linked : timer[t].active => since[t] <= wanted[t] + 3 * MaxLate
=============================================================================
