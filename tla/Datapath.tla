------------------------------ MODULE Datapath ------------------------------
(***************************************************************************)
(* Ethernet frames between lwIP and morselib: mm_halow_send_ethernet       *)
(* (mm_halow_ctrl.c), mm_halow_netif_output and                            *)
(* mm_halow_cb_process_ethernet (mm_halow_lwip.c).                         *)
(*                                                                         *)
(* lwIP sends from the thread, which holds PendSV off meanwhile, or from   *)
(* its timers in PendSV, which may cut in on a pass the thread makes in a  *)
(* wait.  A send waits for morselib's transmit path by polling the driver, *)
(* so that tasks run inside lwIP; they enter it again with a received      *)
(* frame or a change of the link, and lwIP answers with a send of its own. *)
(* Nothing keeps lwIP's timers from cutting in on such a task either, when *)
(* it runs in a pass of one of the thread's waits.  Assumed of the tasks:  *)
(* none parks inside lwIP.                                                 *)
(***************************************************************************)
EXTENDS Integers

CONSTANTS
  Frame,          \* frames lwIP sends
  Chained,        \* those of more than one pbuf, which are linearised
  TX_READY        \* MM_HALOW_TX_READY_MS, in ticks of the clock

ASSUME DatapathAssumption == Chained \subseteq Frame /\ TX_READY \in Nat

Context == {"thread", "pendsv"}

VARIABLES
  rx_deferred,    \* mm_halow_state.rx_deferred
  tx_buf,         \* the frame mm_halow_tx_buf holds
  poll_requested, \* mm_halow_poll_requested
  service_owner,  \* who makes a pass over the tasks
  ready,          \* mmwlan_tx_wait_until_ready(0) would succeed
  link_up,        \* the interface has the link flag
  send,           \* the send lwIP makes outside the tasks, and where it is
  elapsed,        \* ticks since it began
  task            \* what a task does inside lwIP, and where it is

vars == <<rx_deferred, tx_buf, poll_requested, service_owner, ready, link_up, send, elapsed, task>>

Idle == [at |-> "idle"]
SendState ==
  {Idle} \cup [at : {"check", "poll", "append"}, by : Context, frame : Frame]
TaskState == {Idle} \cup [at : {"input", "append"}, by : {"rx", "link"}, frame : Frame]

TypeOK ==
  /\ {rx_deferred, poll_requested, ready, link_up} \subseteq BOOLEAN
  /\ tx_buf \in Frame \cup {"none"}
  /\ service_owner \in Context \cup {"none"}
  /\ send \in SendState /\ task \in TaskState
  /\ elapsed \in 0 .. TX_READY

Init ==
  /\ rx_deferred = FALSE /\ tx_buf = "none" /\ poll_requested = FALSE
  /\ service_owner = "none" /\ ready = TRUE /\ link_up = FALSE
  /\ send = Idle /\ elapsed = 0 /\ task = Idle

-----------------------------------------------------------------------------
(* mm_halow_send_ethernet, called outside the tasks *)

\* Fault: the frame is linearised before the wait.
FaultLinearisedAt == "check"

\* When the frame is linearised
LinearisedAt == "append"

Linearise(at, frame) ==
  tx_buf' = IF LinearisedAt = at /\ frame \in Chained THEN frame ELSE tx_buf

\* What is handed to morselib: the linear copy, or the only pbuf itself
Data(frame) == IF frame \in Chained THEN tx_buf ELSE frame

\* With no task current, hence none inside lwIP
SendBegin(c, frame) ==
  /\ send = Idle /\ task = Idle
  /\ service_owner \in {"none"} \cup (IF c = "pendsv" THEN {"thread"} ELSE {})
  /\ send' = [at |-> "check", by |-> c, frame |-> frame]
  /\ elapsed' = 0
  /\ rx_deferred' = TRUE
  /\ Linearise("check", frame)
  /\ UNCHANGED <<poll_requested, service_owner, ready, link_up, task>>

\* From PendSV, over a task the thread is running, be it inside lwIP or not: taken for a
\* call by that task, which does not wait.
SendOverTask(frame) ==
  /\ send = Idle
  /\ service_owner = "thread" /\ ready
  /\ tx_buf' = IF frame \in Chained THEN frame ELSE tx_buf
  /\ send' = [at |-> "append", by |-> "pendsv", frame |-> frame]
  /\ UNCHANGED <<rx_deferred, poll_requested, service_owner, ready, link_up, elapsed, task>>

SendReady ==
  /\ send.at = "check" /\ ready
  /\ rx_deferred' = FALSE
  /\ Linearise("append", send.frame)
  /\ send' = [send EXCEPT !.at = "append"]
  /\ UNCHANGED <<poll_requested, service_owner, ready, link_up, elapsed, task>>

\* Fault: the flag is left set.
FaultSendTimesOut ==
  /\ send.at = "check" /\ ~ready /\ elapsed >= TX_READY
  /\ send' = Idle
  /\ UNCHANGED <<rx_deferred, tx_buf, poll_requested, service_owner, ready, link_up, elapsed, task>>

\* mm_halow_netif_output drops the frame.
SendTimesOut ==
  /\ send.at = "check" /\ ~ready /\ elapsed >= TX_READY
  /\ rx_deferred' = FALSE
  /\ send' = Idle
  /\ UNCHANGED <<tx_buf, poll_requested, service_owner, ready, link_up, elapsed, task>>

\* Fault: the time is counted from the last poll.
FaultSendPolls ==
  /\ send.at = "check" /\ ~ready /\ elapsed < TX_READY
  /\ service_owner = "none"
  /\ service_owner' = send.by
  /\ poll_requested' = FALSE
  /\ send' = [send EXCEPT !.at = "poll"]
  /\ elapsed' = 0
  /\ UNCHANGED <<rx_deferred, tx_buf, ready, link_up, task>>

\* mm_halow_poll_func makes a pass, if the thread is not in the middle of one.
SendPolls ==
  /\ send.at = "check" /\ ~ready /\ elapsed < TX_READY
  /\ service_owner = "none"
  /\ service_owner' = send.by
  /\ poll_requested' = FALSE
  /\ send' = [send EXCEPT !.at = "poll"]
  /\ UNCHANGED <<rx_deferred, tx_buf, ready, link_up, elapsed, task>>

\* Packet memory is taken, filled and queued, which may use up the transmit window; or
\* there is none, or morselib refuses it.
SendAppend ==
  /\ send.at = "append"
  /\ \/ ready' \in {FALSE, ready} /\ poll_requested' = TRUE
     \/ UNCHANGED <<ready, poll_requested>>
  /\ send' = Idle
  /\ UNCHANGED <<rx_deferred, tx_buf, service_owner, link_up, elapsed, task>>

Tick ==
  /\ send.at \in {"check", "poll"} /\ elapsed < TX_READY
  /\ elapsed' = elapsed + 1
  /\ UNCHANGED <<rx_deferred, tx_buf, poll_requested, service_owner, ready, link_up, send, task>>

-----------------------------------------------------------------------------
(* Passes over the tasks: of the poll in PendSV and of the thread's waits, or in a send *)

PassBegin(c) ==
  /\ send = Idle /\ service_owner = "none"
  /\ service_owner' = c
  /\ poll_requested' = (poll_requested /\ c = "thread")
  /\ UNCHANGED <<rx_deferred, tx_buf, ready, link_up, send, elapsed, task>>

\* The tasks run, and none is inside lwIP.
InPass ==
  /\ task = Idle
  /\ IF send = Idle THEN service_owner # "none" ELSE send.at = "poll"

PassEnd ==
  /\ InPass
  /\ service_owner' = "none"
  /\ send' = IF send = Idle THEN Idle ELSE [send EXCEPT !.at = "check"]
  /\ UNCHANGED <<rx_deferred, tx_buf, poll_requested, ready, link_up, elapsed, task>>

\* morselib's transmit path drains or is held up
TxPath(r) ==
  /\ InPass
  /\ ready' = r
  /\ UNCHANGED <<rx_deferred, tx_buf, poll_requested, service_owner, link_up, send, elapsed, task>>

\* mm_halow_cb_process_ethernet, for a frame it does not drop
Receive(answer) ==
  /\ InPass
  /\ ~rx_deferred /\ link_up
  /\ task' = [at |-> "input", by |-> "rx", frame |-> answer]
  /\ UNCHANGED <<rx_deferred, tx_buf, poll_requested, service_owner, ready, link_up, send, elapsed>>

\* mm_halow_link_state_cb; with the link up, dhcp_start sends
LinkState(up, request) ==
  /\ InPass
  /\ link_up # up
  /\ link_up' = up
  /\ task' = IF up THEN [at |-> "input", by |-> "link", frame |-> request] ELSE task
  /\ UNCHANGED <<rx_deferred, tx_buf, poll_requested, service_owner, ready, send, elapsed>>

\* No send has cut in on the task: PendSV runs to completion.
TaskRuns == send = Idle \/ send.at = "poll"

\* mm_halow_send_ethernet called by a task, which does not wait.  A task that is done
\* inside lwIP, or finds the path held up, leaves it.
TaskSend ==
  /\ TaskRuns /\ task.at = "input" /\ ready
  /\ tx_buf' = IF task.frame \in Chained THEN task.frame ELSE tx_buf
  /\ task' = [task EXCEPT !.at = "append"]
  /\ UNCHANGED <<rx_deferred, poll_requested, service_owner, ready, link_up, send, elapsed>>

TaskLeaves ==
  /\ TaskRuns /\ task.at = "input"
  /\ task' = Idle
  /\ UNCHANGED <<rx_deferred, tx_buf, poll_requested, service_owner, ready, link_up, send, elapsed>>

TaskAppend ==
  /\ TaskRuns /\ task.at = "append"
  /\ \/ ready' \in {FALSE, ready} /\ poll_requested' = TRUE
     \/ UNCHANGED <<ready, poll_requested>>
  /\ task' = Idle
  /\ UNCHANGED <<rx_deferred, tx_buf, service_owner, link_up, send, elapsed>>

-----------------------------------------------------------------------------
SendStep == SendReady \/ SendTimesOut \/ SendPolls \/ SendAppend
TaskStep == TaskSend \/ TaskLeaves \/ TaskAppend

Next ==
  \/ \E c \in Context : PassBegin(c) \/ \E f \in Frame : SendBegin(c, f)
  \/ \E f \in Frame : SendOverTask(f)
  \/ SendStep \/ Tick \/ PassEnd \/ TaskStep
  \/ \E r \in BOOLEAN : TxPath(r)
  \/ \E f \in Frame : Receive(f) \/ \E up \in BOOLEAN : LinkState(up, f)

Spec == Init /\ [][Next]_vars

\* The CPU is given to the send and to the tasks it runs, a pass comes to an end (RunEnds
\* of Sched), and the clock ticks.
FairSpec == Spec /\ WF_vars(SendStep) /\ WF_vars(TaskStep) /\ SF_vars(PassEnd) /\ WF_vars(Tick)

-----------------------------------------------------------------------------
(* Properties *)

\* The tasks run in a pass of one of the thread's waits, where lwIP's timers may cut in on
\* them; in a send's pass PendSV is held off or busy.
Exposed == service_owner = "thread" /\ send.at # "poll"

\* What is handed to morselib is the frame lwIP asked to send, though the linear copy is
\* shared with the sends of tasks that run while another send waits; so it is for a task's
\* own send, unless it runs in a pass of one of the thread's waits (mm_halow_send_ethernet).
FramesIntact ==
  /\ send.at = "append" => Data(send.frame) = send.frame
  /\ task.at = "append" /\ ~Exposed => Data(task.frame) = task.frame

\* A received frame never enters lwIP while a send waits, whoever makes the passes
\* meanwhile, and frames are dropped only during that wait: no way out of a send leaves the
\* flag set, and no task's send clears it (mm_halow_send_ethernet,
\* mm_halow_cb_process_ethernet).
RxHeldOff ==
  /\ send.at \in {"check", "poll"} /\ task # Idle => task.by # "rx"
  /\ rx_deferred <=> send.at \in {"check", "poll"}

\* While a task is inside lwIP, a send stands in its poll, or has cut in on the task.
TaskInPoll ==
  task # Idle => TaskRuns \/ (send.at = "append" /\ send.by = "pendsv" /\ Exposed)

\* What the first two need to be inductive
IInv == TypeOK /\ TaskInPoll /\ FramesIntact /\ RxHeldOff

\* A send returns: sent or dropped, also when the transmit path stays held up, or when the
\* thread that PendSV has cut in on holds the service and no poll can run
\* (MM_HALOW_TX_READY_MS).
SendEnds == send # Idle ~> send = Idle
=============================================================================
