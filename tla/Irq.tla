-------------------------------- MODULE Irq ---------------------------------
(***************************************************************************)
(* The transceiver's IRQ and BUSY lines (mm_halow_hal.c) and the poll that *)
(* picks them up (mm_halow_poll_func in mm_halow_ctrl.c).  The lines are   *)
(* read by level; an edge of IRQ only asks for a poll sooner, and the edge *)
(* interrupt stays off until a poll turns it on again.                     *)
(*                                                                         *)
(* The thread and PendSV poll; the thread also runs the tasks in passes of *)
(* its waits, which hold the service but read no line.  The edge interrupt *)
(* cuts in anywhere.                                                       *)
(***************************************************************************)
EXTENDS Integers

Context == {"thread", "irq"}
Line == {"spi", "busy"}

VARIABLES
  powered,          \* mmhal_wlan_init has run, and mmhal_wlan_deinit has not since
  asserted,         \* [Line -> its level]
  enabled,          \* [Line -> mm_halow_spi_irq_enabled, mm_halow_busy_irq_enabled]
  handler,          \* [Line -> a handler is registered]
  busy_seen,        \* static of mm_halow_hal_irq_pending
  armed,            \* the port's edge interrupt is on
  poll_requested,   \* mm_halow_poll_requested
  service_owner,    \* mm_halow_service_owner
  initted,          \* mm_halow_state.initted
  pc,               \* [Context -> where it is]
  told              \* [Line -> its handler has been called since it was asserted]

lines == <<powered, asserted, enabled, handler>>
vars == <<powered, asserted, enabled, handler, busy_seen, armed, poll_requested, service_owner,
          initted, pc, told>>

Executing(c) == c = "irq" \/ pc["irq"] = "base"
At(c, place) == Executing(c) /\ pc[c] = place
Goto(c, place) == pc' = [pc EXCEPT ![c] = place]

Watched(l) == enabled[l] /\ handler[l]
Raised(l) == Watched(l) /\ asserted[l]

-----------------------------------------------------------------------------
(* The transceiver, which holds IRQ until it has been serviced *)

Assert(l) ==
  /\ powered /\ ~asserted[l]
  /\ asserted' = [asserted EXCEPT ![l] = TRUE]
  /\ told' = [told EXCEPT ![l] = FALSE]
  /\ IF l = "spi" /\ armed
     THEN armed' = FALSE /\ poll_requested' = TRUE      \* mm_halow_port_irq_handler
     ELSE UNCHANGED <<armed, poll_requested>>
  /\ UNCHANGED <<powered, enabled, handler, busy_seen, service_owner, initted, pc>>

Deassert(l) ==
  /\ asserted[l]
  /\ l = "spi" => told[l]
  /\ asserted' = [asserted EXCEPT ![l] = FALSE]
  /\ UNCHANGED <<powered, enabled, handler, busy_seen, armed, poll_requested, service_owner,
                 initted, pc, told>>

-----------------------------------------------------------------------------
(* What morselib calls: from the thread, or from the tasks of a pass *)

MorselibRuns ==
  \/ pc["irq"] = "tasks"
  \/ pc["irq"] = "base" /\ pc["thread"] \in {"base", "pass", "tasks"}

\* The port turns the edge interrupt on with the pin.
WlanInit ==
  /\ MorselibRuns /\ ~powered
  /\ powered' = TRUE
  /\ armed' = TRUE
  /\ UNCHANGED <<asserted, enabled, handler, busy_seen, poll_requested, service_owner, initted,
                 pc, told>>

\* The transceiver ends in reset.  Neither busy_seen nor poll_requested is reset.
WlanDeinit ==
  /\ MorselibRuns /\ powered
  /\ powered' = FALSE
  /\ armed' = FALSE
  /\ enabled' = [l \in Line |-> FALSE]
  /\ handler' = [l \in Line |-> FALSE]
  /\ asserted' = [l \in Line |-> FALSE]
  /\ UNCHANGED <<busy_seen, poll_requested, service_owner, initted, pc, told>>

Register(l) ==
  /\ MorselibRuns /\ powered /\ ~handler[l]
  /\ handler' = [handler EXCEPT ![l] = TRUE]
  /\ UNCHANGED <<powered, asserted, enabled, busy_seen, armed, poll_requested, service_owner,
                 initted, pc, told>>

\* IRQ calls its handler at once if it is asserted when it is enabled.
SetIrqEnabled(l, on) ==
  /\ MorselibRuns /\ powered
  /\ enabled' = [enabled EXCEPT ![l] = on]
  /\ told' = [told EXCEPT ![l] = @ \/ (l = "spi" /\ on /\ asserted[l] /\ handler[l])]
  /\ UNCHANGED <<powered, asserted, handler, busy_seen, armed, poll_requested, service_owner,
                 initted, pc>>

\* mm_halow_request_poll, which the transmit path calls too
RequestPoll ==
  /\ poll_requested' = TRUE
  /\ UNCHANGED <<lines, busy_seen, armed, service_owner, initted, pc, told>>

-----------------------------------------------------------------------------
(* mm_halow_poll_func.  A poll that is refused the service, comes from a task, or comes *)
(* when the driver is not running does nothing, and re-arms nothing.                    *)

Claims(c) == service_owner = "none" /\ service_owner' = c

PollEnter(c) ==
  /\ At(c, "base") /\ initted
  /\ Claims(c)
  /\ Goto(c, "claimed")
  /\ UNCHANGED <<lines, busy_seen, armed, poll_requested, initted, told>>

Busy == Raised("busy")

\* Fault: only a change of BUSY counts.
FaultIrqPending == Busy # busy_seen

\* mm_halow_hal_irq_pending, which also sets busy_seen
IrqPending == Busy # busy_seen \/ Raised("spi")

\* The lines are not looked at if a poll was requested; a timer or a task may be due.
PollDecide(c) ==
  /\ At(c, "claimed")
  /\ \/ poll_requested /\ Goto(c, "work") /\ UNCHANGED busy_seen
     \/ /\ ~poll_requested
        /\ busy_seen' = Busy
        /\ \E due \in BOOLEAN : Goto(c, IF IrqPending \/ due THEN "work" ELSE "idle")
  /\ UNCHANGED <<lines, armed, poll_requested, service_owner, initted, told>>

PollWork(c) ==
  /\ At(c, "work")
  /\ poll_requested' = FALSE
  /\ Goto(c, "irqs")
  /\ UNCHANGED <<lines, busy_seen, armed, service_owner, initted, told>>

\* mm_halow_hal_poll_irqs; then the timers and the tasks
PollIrqs(c) ==
  /\ At(c, "irqs")
  /\ told' = [l \in Line |-> told[l] \/ Raised(l)]
  /\ Goto(c, "tasks")
  /\ UNCHANGED <<lines, busy_seen, armed, poll_requested, service_owner, initted>>

PollRelease(c) ==
  /\ At(c, "tasks") \/ At(c, "idle")
  /\ service_owner' = "none"
  /\ Goto(c, "rearm")
  /\ UNCHANGED <<lines, busy_seen, armed, poll_requested, initted, told>>

\* Fault: left off.
FaultRearm(c) ==
  /\ At(c, "rearm")
  /\ Goto(c, "base")
  /\ UNCHANGED <<lines, busy_seen, armed, poll_requested, service_owner, initted, told>>

\* mm_halow_hal_irq_rearm
Rearm(c) ==
  /\ At(c, "rearm")
  /\ armed' = TRUE
  /\ Goto(c, "base")
  /\ UNCHANGED <<lines, busy_seen, poll_requested, service_owner, initted, told>>

-----------------------------------------------------------------------------
(* A pass of the tasks in a wait of the thread; init and deinit *)

WaitPass ==
  /\ At("thread", "base")
  /\ Claims("thread")
  /\ Goto("thread", "pass")
  /\ UNCHANGED <<lines, busy_seen, armed, poll_requested, initted, told>>

WaitPassEnd ==
  /\ At("thread", "pass")
  /\ service_owner' = "none"
  /\ Goto("thread", "base")
  /\ UNCHANGED <<lines, busy_seen, armed, poll_requested, initted, told>>

SetInitted ==
  /\ At("thread", "base")
  /\ initted' = ~initted
  /\ UNCHANGED <<lines, busy_seen, armed, poll_requested, service_owner, pc, told>>

Init ==
  /\ powered = FALSE
  /\ asserted = [l \in Line |-> FALSE]
  /\ enabled = [l \in Line |-> FALSE]
  /\ handler = [l \in Line |-> FALSE]
  /\ busy_seen = FALSE
  /\ armed = FALSE
  /\ poll_requested = FALSE
  /\ service_owner = "none"
  /\ initted = FALSE
  /\ pc = [c \in Context |-> "base"]
  /\ told = [l \in Line |-> FALSE]

PollStep(c) == PollDecide(c) \/ PollWork(c) \/ PollIrqs(c) \/ PollRelease(c) \/ Rearm(c)

Next ==
  \/ \E l \in Line : Assert(l) \/ Deassert(l) \/ Register(l)
                     \/ \E on \in BOOLEAN : SetIrqEnabled(l, on)
  \/ \E c \in Context : PollEnter(c) \/ PollStep(c)
  \/ WlanInit \/ WlanDeinit \/ RequestPoll \/ WaitPass \/ WaitPassEnd \/ SetInitted

Spec == Init /\ [][Next]_vars

\* PendSV runs to completion, and so does the thread whenever PendSV is done.  The
\* network poll is dispatched every millisecond; one that comes during a pass of the
\* thread is refused, but the thread gives the service up between passes, and not every
\* dispatch misses those gaps.
FairSpec ==
  /\ Spec
  /\ SF_vars(PollEnter("irq"))
  /\ WF_vars(PollStep("irq"))
  /\ SF_vars(PollStep("thread") \/ WaitPassEnd)

-----------------------------------------------------------------------------
(* Properties *)

\* While the edge interrupt is off a poll has been asked for, or is under way and will
\* turn it on: no early return of a poll leaves it off for good (mm_halow_port_irq_handler,
\* mm_halow_poll_func).
RearmComing ==
  powered /\ ~armed =>
    poll_requested \/ \E c \in Context : pc[c] \in {"irqs", "tasks", "idle", "rearm"}

\* An IRQ that stays asserted has its handler called, whether it rose while the edge
\* interrupt was off, before it was enabled, or between the look at the lines that
\* decides about a poll and the poll itself; and so has a BUSY that the last look did not
\* see (mm_halow_hal_irq_pending, mm_halow_hal_poll_irqs).  A BUSY that falls and rises
\* again between two looks, or is disabled and enabled again between them, waits for a
\* poll that something else calls for.
LinesServiced ==
  /\ initted /\ Raised("spi") ~> told["spi"] \/ ~Raised("spi") \/ ~initted
  /\ initted /\ Raised("busy") /\ ~busy_seen ~> told["busy"] \/ ~Raised("busy") \/ ~initted
=============================================================================
