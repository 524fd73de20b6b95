----------------------------- MODULE DatapathProofs -----------------------------
(***************************************************************************)
(* Frames stay intact and received ones are held off, for every set of     *)
(* frames and every time limit.                                            *)
(***************************************************************************)
EXTENDS Datapath, TLAPS

\* A send that moves on stays one.
LEMMA SendMoves ==
  ASSUME send \in SendState, send # Idle, NEW p \in {"check", "poll", "append"}
  PROVE  [send EXCEPT !.at = p] \in SendState
<1>1. send \in [at : {"check", "poll", "append"}, by : Context, frame : Frame]
  BY DEF SendState
<1> QED BY <1>1 DEF SendState

\* Before the first send nothing is in flight.
LEMMA InitInv == Init => IInv
<1> SUFFICES ASSUME Init PROVE IInv
  OBVIOUS
<1> USE DatapathAssumption DEF Init, Idle
<1>1. TypeOK
  <2>1. {rx_deferred, poll_requested, ready, link_up} \subseteq BOOLEAN
    BY Zenon
  <2>2. send \in SendState /\ task \in TaskState
    BY Zenon DEF SendState, TaskState
  <2>3. elapsed \in 0 .. TX_READY
    BY SMT
  <2> QED BY <2>1, <2>2, <2>3, Zenon DEF TypeOK
<1>2. FramesIntact
  BY DEF FramesIntact
<1>3. TaskInPoll /\ RxHeldOff
  BY DEF TaskInPoll, RxHeldOff, TaskRuns, Exposed
<1> QED BY <1>1, <1>2, <1>3 DEF IInv

\* A send begins only outside the tasks' visits to lwIP, and holds receive off from then on.
LEMMA SendBeginInv ==
  ASSUME IInv, NEW c \in Context, NEW f \in Frame, SendBegin(c, f)
  PROVE  IInv'
<1> USE DatapathAssumption DEF IInv, SendBegin, Linearise, LinearisedAt, Idle
<1>1. TypeOK'
  BY DEF TypeOK, SendState, TaskState, Context, TaskInPoll, TaskRuns, Exposed
<1>2. TaskInPoll'
  BY DEF TypeOK, SendState, TaskState, TaskInPoll, TaskRuns, Exposed
<1>3. FramesIntact'
  BY DEF TypeOK, SendState, TaskState, TaskInPoll, FramesIntact, Data,
     TaskRuns, Exposed
<1>4. RxHeldOff'
  BY DEF TypeOK, SendState, TaskState, TaskInPoll, RxHeldOff, TaskRuns, Exposed
<1> QED BY <1>1, <1>2, <1>3, <1>4

\* Over a task, a send goes straight to its copy, and nothing runs before it is handed on;
\* it may cost that task the copy of its own frame.
LEMMA SendOverTaskInv ==
  ASSUME IInv, NEW f \in Frame, SendOverTask(f)
  PROVE  IInv'
<1> USE DatapathAssumption DEF IInv, SendOverTask, Idle
<1>1. TypeOK'
  BY DEF TypeOK, SendState, TaskState, Context, TaskInPoll, TaskRuns, Exposed
<1>2. TaskInPoll'
  BY DEF TypeOK, SendState, TaskState, TaskInPoll, TaskRuns, Exposed
<1>3. FramesIntact'
  BY DEF TypeOK, SendState, TaskState, TaskInPoll, FramesIntact, Data,
     TaskRuns, Exposed
<1>4. RxHeldOff'
  BY DEF TypeOK, SendState, TaskState, TaskInPoll, RxHeldOff, TaskRuns, Exposed
<1> QED BY <1>1, <1>2, <1>3, <1>4

\* The frame is linearised after the wait, when no task can run any more.
LEMMA SendReadyInv ==
  ASSUME IInv, SendReady
  PROVE  IInv'
<1> USE DatapathAssumption DEF IInv, SendReady, Linearise, LinearisedAt, Idle
<1>1. TypeOK'
  <2>1. send' \in SendState
    <3>1. send # Idle
      OBVIOUS
    <3> QED BY <3>1, SendMoves DEF TypeOK
  <2> QED BY <2>1 DEF TypeOK, Context, SendState
<1>2. TaskInPoll'
  BY DEF TypeOK, SendState, TaskState, TaskInPoll, TaskRuns, Exposed
<1>3. FramesIntact'
  BY DEF TypeOK, SendState, TaskState, TaskInPoll, FramesIntact, Data,
     TaskRuns, Exposed
<1>4. RxHeldOff'
  BY DEF TypeOK, SendState, TaskState, TaskInPoll, RxHeldOff, TaskRuns, Exposed
<1> QED BY <1>1, <1>2, <1>3, <1>4

\* Giving up clears the flag with the send.
LEMMA SendTimesOutInv ==
  ASSUME IInv, SendTimesOut
  PROVE  IInv'
<1> USE DatapathAssumption DEF IInv, SendTimesOut, Idle
<1>1. TypeOK'
  BY DEF TypeOK, SendState, TaskState, Context, TaskInPoll, TaskRuns, Exposed
<1>2. TaskInPoll'
  BY DEF TypeOK, SendState, TaskState, TaskInPoll, TaskRuns, Exposed
<1>3. FramesIntact'
  BY DEF TypeOK, SendState, TaskState, TaskInPoll, FramesIntact, Data,
     TaskRuns, Exposed
<1>4. RxHeldOff'
  BY DEF TypeOK, SendState, TaskState, TaskInPoll, RxHeldOff, TaskRuns, Exposed
<1> QED BY <1>1, <1>2, <1>3, <1>4

\* The pass of a send runs with receive held off.
LEMMA SendPollsInv ==
  ASSUME IInv, SendPolls
  PROVE  IInv'
<1> USE DatapathAssumption DEF IInv, SendPolls, Idle
<1>1. TypeOK'
  <2>1. send' \in SendState
    <3>1. send # Idle
      OBVIOUS
    <3> QED BY <3>1, SendMoves DEF TypeOK
  <2> QED BY <2>1 DEF TypeOK, Context, SendState
<1>2. TaskInPoll'
  BY DEF TypeOK, SendState, TaskState, TaskInPoll, TaskRuns, Exposed
<1>3. FramesIntact'
  BY DEF TypeOK, SendState, TaskState, TaskInPoll, FramesIntact, Data,
     TaskRuns, Exposed
<1>4. RxHeldOff'
  BY DEF TypeOK, SendState, TaskState, TaskInPoll, RxHeldOff, TaskRuns, Exposed
<1> QED BY <1>1, <1>2, <1>3, <1>4

\* Handing the frame on ends the send.
LEMMA SendAppendInv ==
  ASSUME IInv, SendAppend
  PROVE  IInv'
<1> USE DatapathAssumption DEF IInv, SendAppend, Idle
<1>1. TypeOK'
  BY DEF TypeOK, SendState, TaskState, Context, TaskInPoll, TaskRuns, Exposed
<1>2. TaskInPoll'
  BY DEF TypeOK, SendState, TaskState, TaskInPoll, TaskRuns, Exposed
<1>3. FramesIntact'
  BY DEF TypeOK, SendState, TaskState, TaskInPoll, FramesIntact, Data,
     TaskRuns, Exposed
<1>4. RxHeldOff'
  BY DEF TypeOK, SendState, TaskState, TaskInPoll, RxHeldOff, TaskRuns, Exposed
<1> QED BY <1>1, <1>2, <1>3, <1>4

\* The clock stops mattering at the limit.
LEMMA TickInv ==
  ASSUME IInv, Tick
  PROVE  IInv'
<1> USE DatapathAssumption DEF IInv, Tick, Idle
<1>1. TypeOK'
  BY DEF TypeOK, SendState, TaskState, Context, TaskInPoll, TaskRuns, Exposed
<1>2. TaskInPoll'
  BY DEF TypeOK, SendState, TaskState, TaskInPoll, TaskRuns, Exposed
<1>3. FramesIntact'
  BY DEF TypeOK, SendState, TaskState, TaskInPoll, FramesIntact, Data,
     TaskRuns, Exposed
<1>4. RxHeldOff'
  BY DEF TypeOK, SendState, TaskState, TaskInPoll, RxHeldOff, TaskRuns, Exposed
<1> QED BY <1>1, <1>2, <1>3, <1>4

\* A pass outside a send.
LEMMA PassBeginInv ==
  ASSUME IInv, NEW c \in Context, PassBegin(c)
  PROVE  IInv'
<1> USE DatapathAssumption DEF IInv, PassBegin, Idle
<1>1. TypeOK'
  BY DEF TypeOK, SendState, TaskState, Context, TaskInPoll, TaskRuns, Exposed
<1>2. TaskInPoll'
  BY DEF TypeOK, SendState, TaskState, TaskInPoll, TaskRuns, Exposed
<1>3. FramesIntact'
  BY DEF TypeOK, SendState, TaskState, TaskInPoll, FramesIntact, Data,
     TaskRuns, Exposed
<1>4. RxHeldOff'
  BY DEF TypeOK, SendState, TaskState, TaskInPoll, RxHeldOff, TaskRuns, Exposed
<1> QED BY <1>1, <1>2, <1>3, <1>4

\* Back from the pass, no task is inside lwIP.
LEMMA PassEndInv ==
  ASSUME IInv, PassEnd
  PROVE  IInv'
<1> USE DatapathAssumption DEF IInv, PassEnd, InPass, Idle
<1>1. TypeOK'
  BY DEF TypeOK, SendState, TaskState, Context, TaskInPoll, TaskRuns, Exposed
<1>2. TaskInPoll'
  BY DEF TypeOK, SendState, TaskState, TaskInPoll, TaskRuns, Exposed
<1>3. FramesIntact'
  BY DEF TypeOK, SendState, TaskState, TaskInPoll, FramesIntact, Data,
     TaskRuns, Exposed
<1>4. RxHeldOff'
  BY DEF TypeOK, SendState, TaskState, TaskInPoll, RxHeldOff, TaskRuns, Exposed
<1> QED BY <1>1, <1>2, <1>3, <1>4

\* The transmit path drains or is held up.
LEMMA TxPathInv ==
  ASSUME IInv, NEW r \in BOOLEAN, TxPath(r)
  PROVE  IInv'
<1> USE DatapathAssumption DEF IInv, TxPath, InPass, Idle
<1>1. TypeOK'
  BY DEF TypeOK, SendState, TaskState, Context, TaskInPoll, TaskRuns, Exposed
<1>2. TaskInPoll'
  BY DEF TypeOK, SendState, TaskState, TaskInPoll, TaskRuns, Exposed
<1>3. FramesIntact'
  BY DEF TypeOK, SendState, TaskState, TaskInPoll, FramesIntact, Data,
     TaskRuns, Exposed
<1>4. RxHeldOff'
  BY DEF TypeOK, SendState, TaskState, TaskInPoll, RxHeldOff, TaskRuns, Exposed
<1> QED BY <1>1, <1>2, <1>3, <1>4

\* A received frame gets past the flag only when no send is under way.
LEMMA ReceiveInv ==
  ASSUME IInv, NEW f \in Frame, Receive(f)
  PROVE  IInv'
<1> USE DatapathAssumption DEF IInv, Receive, InPass, Idle
<1>1. TypeOK'
  BY DEF TypeOK, SendState, TaskState, Context, TaskInPoll, TaskRuns, Exposed
<1>2. TaskInPoll'
  BY DEF TypeOK, SendState, TaskState, TaskInPoll, TaskRuns, Exposed
<1>3. FramesIntact'
  BY DEF TypeOK, SendState, TaskState, TaskInPoll, FramesIntact, Data,
     TaskRuns, Exposed
<1>4. RxHeldOff'
  BY DEF TypeOK, SendState, TaskState, TaskInPoll, RxHeldOff, TaskRuns, Exposed
<1> QED BY <1>1, <1>2, <1>3, <1>4

\* A change of the link may enter lwIP inside a send's poll.
LEMMA LinkStateInv ==
  ASSUME IInv, NEW f \in Frame, NEW up \in BOOLEAN, LinkState(up, f)
  PROVE  IInv'
<1> USE DatapathAssumption DEF IInv, LinkState, InPass, Idle
<1>1. TypeOK'
  BY DEF TypeOK, SendState, TaskState, Context, TaskInPoll, TaskRuns, Exposed
<1>2. TaskInPoll'
  BY DEF TypeOK, SendState, TaskState, TaskInPoll, TaskRuns, Exposed
<1>3. FramesIntact'
  BY DEF TypeOK, SendState, TaskState, TaskInPoll, FramesIntact, Data,
     TaskRuns, Exposed
<1>4. RxHeldOff'
  BY DEF TypeOK, SendState, TaskState, TaskInPoll, RxHeldOff, TaskRuns, Exposed
<1> QED BY <1>1, <1>2, <1>3, <1>4

\* A task's copy may overwrite the buffer: the send under it has not made its own yet.
LEMMA TaskSendInv ==
  ASSUME IInv, TaskSend
  PROVE  IInv'
<1> USE DatapathAssumption DEF IInv, TaskSend, Idle
<1>1. TypeOK'
  BY DEF TypeOK, SendState, TaskState, Context, TaskInPoll, TaskRuns, Exposed
<1>2. TaskInPoll'
  BY DEF TypeOK, SendState, TaskState, TaskInPoll, TaskRuns, Exposed
<1>3. FramesIntact'
  BY DEF TypeOK, SendState, TaskState, TaskInPoll, FramesIntact, Data,
     TaskRuns, Exposed
<1>4. RxHeldOff'
  BY DEF TypeOK, SendState, TaskState, TaskInPoll, RxHeldOff, TaskRuns, Exposed
<1> QED BY <1>1, <1>2, <1>3, <1>4

\* A task that leaves lwIP takes nothing with it.
LEMMA TaskLeavesInv ==
  ASSUME IInv, TaskLeaves
  PROVE  IInv'
<1> USE DatapathAssumption DEF IInv, TaskLeaves, Idle
<1>1. TypeOK'
  BY DEF TypeOK, SendState, TaskState, Context, TaskInPoll, TaskRuns, Exposed
<1>2. TaskInPoll'
  BY DEF TypeOK, SendState, TaskState, TaskInPoll, TaskRuns, Exposed
<1>3. FramesIntact'
  BY DEF TypeOK, SendState, TaskState, TaskInPoll, FramesIntact, Data,
     TaskRuns, Exposed
<1>4. RxHeldOff'
  BY DEF TypeOK, SendState, TaskState, TaskInPoll, RxHeldOff, TaskRuns, Exposed
<1> QED BY <1>1, <1>2, <1>3, <1>4

\* Handing a task's frame on leaves the buffer and the flag alone.
LEMMA TaskAppendInv ==
  ASSUME IInv, TaskAppend
  PROVE  IInv'
<1> USE DatapathAssumption DEF IInv, TaskAppend, Idle
<1>1. TypeOK'
  BY DEF TypeOK, SendState, TaskState, Context, TaskInPoll, TaskRuns, Exposed
<1>2. TaskInPoll'
  BY DEF TypeOK, SendState, TaskState, TaskInPoll, TaskRuns, Exposed
<1>3. FramesIntact'
  BY DEF TypeOK, SendState, TaskState, TaskInPoll, FramesIntact, Data,
     TaskRuns, Exposed
<1>4. RxHeldOff'
  BY DEF TypeOK, SendState, TaskState, TaskInPoll, RxHeldOff, TaskRuns, Exposed
<1> QED BY <1>1, <1>2, <1>3, <1>4

\* One step of Next.
LEMMA NextInv == IInv /\ [Next]_vars => IInv'
<1> SUFFICES ASSUME IInv, [Next]_vars PROVE IInv'
  OBVIOUS
<1>1. ASSUME NEW c \in Context, PassBegin(c) \/ \E f \in Frame : SendBegin(c, f) PROVE IInv'
  BY <1>1, PassBeginInv, SendBeginInv
<1>2. ASSUME NEW f \in Frame, SendOverTask(f) PROVE IInv'
  BY <1>2, SendOverTaskInv
<1>3. CASE SendStep
  BY <1>3, SendReadyInv, SendTimesOutInv, SendPollsInv, SendAppendInv DEF SendStep
<1>4. CASE Tick
  BY <1>4, TickInv
<1>5. CASE PassEnd
  BY <1>5, PassEndInv
<1>6. CASE TaskStep
  BY <1>6, TaskSendInv, TaskLeavesInv, TaskAppendInv DEF TaskStep
<1>7. ASSUME NEW r \in BOOLEAN, TxPath(r) PROVE IInv'
  BY <1>7, TxPathInv
<1>8. ASSUME NEW f \in Frame, Receive(f) \/ \E up \in BOOLEAN : LinkState(up, f) PROVE IInv'
  BY <1>8, ReceiveInv, LinkStateInv
<1>9. CASE UNCHANGED vars
  BY <1>9 DEF vars, IInv, TypeOK, TaskInPoll, FramesIntact, Data, RxHeldOff,
     TaskRuns, Exposed
<1> QED BY <1>1, <1>2, <1>3, <1>4, <1>5, <1>6, <1>7, <1>8, <1>9 DEF Next

\* The inductive invariant holds in every reachable state.
THEOREM Invariant == Spec => []IInv
BY InitInv, NextInv, PTL DEF Spec

\* The variables keep their types; the time of a send stays within its limit.
THEOREM TypeCorrect == Spec => []TypeOK
<1>1. IInv => TypeOK
  BY DEF IInv
<1> QED BY <1>1, Invariant, PTL

\* For every set of frames, what mm_halow_send_ethernet hands to morselib is the frame it
\* was given, though tasks send from the same buffer while it waits, and whoever runs them;
\* and so is a task's frame wherever PendSV cannot cut in on it.
THEOREM FramesCorrect == Spec => []FramesIntact
<1>1. IInv => FramesIntact
  BY DEF IInv
<1> QED BY <1>1, Invariant, PTL

\* mm_halow_cb_process_ethernet hands lwIP no frame while a send waits, and the flag is set
\* exactly then.
THEOREM ReceiveHeldOff == Spec => []RxHeldOff
<1>1. IInv => RxHeldOff
  BY DEF IInv
<1> QED BY <1>1, Invariant, PTL
================================================================================
