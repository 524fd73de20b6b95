------------------------------ MODULE IrqProofs -----------------------------
(***************************************************************************)
(* Proofs about the interrupt lines and the poll (Irq).                    *)
(***************************************************************************)
EXTENDS Irq, TLAPS

Place == {"base", "claimed", "work", "irqs", "tasks", "idle", "rearm", "pass"}

\* Where a context has the service.
Claimed == {"claimed", "work", "irqs", "tasks", "idle", "pass"}

TypeOK ==
  /\ powered \in BOOLEAN
  /\ asserted \in [Line -> BOOLEAN]
  /\ enabled \in [Line -> BOOLEAN]
  /\ handler \in [Line -> BOOLEAN]
  /\ busy_seen \in BOOLEAN
  /\ armed \in BOOLEAN
  /\ poll_requested \in BOOLEAN
  /\ service_owner \in Context \cup {"none"}
  /\ initted \in BOOLEAN
  /\ pc \in [Context -> Place]
  /\ told \in [Line -> BOOLEAN]

\* A context is where a claim brought it exactly while it owns the service, so the two
\* contexts never look at the lines, call the handlers or run the tasks together.
OwnerExact == \A c \in Context : service_owner = c <=> pc[c] \in Claimed

IInv == TypeOK /\ OwnerExact /\ RearmComing

LEMMA InitInv == Init => IInv
BY DEF Init, IInv, TypeOK, OwnerExact, RearmComing, Context, Line, Place, Claimed

LEMMA AssertInv == ASSUME IInv, NEW l \in Line, Assert(l) PROVE IInv'
<1> USE DEF IInv, Assert
<1>1. TypeOK'
  BY DEF TypeOK
<1>2. OwnerExact'
  BY DEF OwnerExact
<1>3. RearmComing'
  BY DEF RearmComing, TypeOK
<1> QED
  BY <1>1, <1>2, <1>3

LEMMA DeassertInv == ASSUME IInv, NEW l \in Line, Deassert(l) PROVE IInv'
<1> USE DEF IInv, Deassert
<1>1. TypeOK'
  BY DEF TypeOK
<1>2. OwnerExact' /\ RearmComing'
  BY DEF OwnerExact, RearmComing
<1> QED
  BY <1>1, <1>2

\* What morselib calls, and the requests for a poll.
LEMMA MorselibInv ==
  ASSUME IInv,
         \/ WlanInit \/ WlanDeinit \/ RequestPoll
         \/ \E l \in Line : Register(l) \/ \E on \in BOOLEAN : SetIrqEnabled(l, on)
  PROVE  IInv'
<1> USE DEF IInv, lines
<1>1. CASE WlanInit
  BY <1>1 DEF WlanInit, TypeOK, OwnerExact, RearmComing
<1>2. CASE WlanDeinit
  BY <1>2 DEF WlanDeinit, TypeOK, OwnerExact, RearmComing
<1>3. CASE RequestPoll
  BY <1>3 DEF RequestPoll, TypeOK, OwnerExact, RearmComing
<1>4. ASSUME NEW l \in Line, Register(l) PROVE IInv'
  BY <1>4 DEF Register, TypeOK, OwnerExact, RearmComing
<1>5. ASSUME NEW l \in Line, NEW on \in BOOLEAN, SetIrqEnabled(l, on) PROVE IInv'
  <2>1. TypeOK'
    <3>1. told' \in [Line -> BOOLEAN]
      BY <1>5 DEF SetIrqEnabled, TypeOK
    <3>2. enabled' \in [Line -> BOOLEAN]
      BY <1>5 DEF SetIrqEnabled, TypeOK
    <3> QED
      BY <1>5, <3>1, <3>2 DEF SetIrqEnabled, TypeOK
  <2>2. OwnerExact' /\ RearmComing'
    BY <1>5 DEF SetIrqEnabled, OwnerExact, RearmComing
  <2> QED
    BY <2>1, <2>2
<1> QED
  BY <1>1, <1>2, <1>3, <1>4, <1>5

\* The claims, and the end of a pass.
LEMMA ClaimInv ==
  ASSUME IInv, WaitPass \/ WaitPassEnd \/ SetInitted \/ \E c \in Context : PollEnter(c)
  PROVE  IInv'
<1> USE DEF IInv, lines, At, Goto, Claims, Context, Place, Claimed
<1>1. CASE WaitPass
  BY <1>1 DEF WaitPass, TypeOK, OwnerExact, RearmComing
<1>2. CASE WaitPassEnd
  BY <1>2 DEF WaitPassEnd, TypeOK, OwnerExact, RearmComing
<1>3. CASE SetInitted
  BY <1>3 DEF SetInitted, TypeOK, OwnerExact, RearmComing
<1>4. ASSUME NEW c \in Context, PollEnter(c) PROVE IInv'
  BY <1>4 DEF PollEnter, TypeOK, OwnerExact, RearmComing
<1> QED
  BY <1>1, <1>2, <1>3, <1>4

LEMMA PollStepInv == ASSUME IInv, NEW c \in Context, PollStep(c) PROVE IInv'
<1> USE DEF IInv, lines, At, Goto, Context, Place, Claimed
<1>1. CASE PollDecide(c)
  <2>1. busy_seen' \in BOOLEAN
    BY <1>1 DEF PollDecide, TypeOK, Busy, Raised, Watched, Line
  <2>2. TypeOK'
    BY <1>1, <2>1 DEF PollDecide, TypeOK
  <2>3. OwnerExact' /\ RearmComing'
    BY <1>1 DEF PollDecide, TypeOK, OwnerExact, RearmComing
  <2> QED
    BY <2>2, <2>3
\* The request is dropped only on the way to where the interrupt is turned on.
<1>2. CASE PollWork(c)
  BY <1>2 DEF PollWork, TypeOK, OwnerExact, RearmComing
<1>3. CASE PollIrqs(c)
  <2>1. told' \in [Line -> BOOLEAN]
    BY <1>3 DEF PollIrqs, TypeOK, Raised, Watched
  <2> QED
    BY <1>3, <2>1 DEF PollIrqs, TypeOK, OwnerExact, RearmComing
<1>4. CASE PollRelease(c)
  BY <1>4 DEF PollRelease, TypeOK, OwnerExact, RearmComing
<1>5. CASE Rearm(c)
  BY <1>5 DEF Rearm, TypeOK, OwnerExact, RearmComing
<1> QED
  BY <1>1, <1>2, <1>3, <1>4, <1>5 DEF PollStep

LEMMA NextInv == IInv /\ [Next]_vars => IInv'
<1> SUFFICES ASSUME IInv, [Next]_vars PROVE IInv'
  OBVIOUS
<1>1. CASE UNCHANGED vars
  BY <1>1 DEF vars, IInv, TypeOK, OwnerExact, RearmComing
<1>2. ASSUME NEW l \in Line, Assert(l) \/ Deassert(l) PROVE IInv'
  BY <1>2, AssertInv, DeassertInv
<1>3. ASSUME NEW c \in Context, PollStep(c) PROVE IInv'
  BY <1>3, PollStepInv
<1> QED
  BY <1>1, <1>2, <1>3, MorselibInv, ClaimInv DEF Next

LEMMA Invariant == Spec => []IInv
BY InitInv, NextInv, PTL DEF Spec

\* The variables keep their types in every behaviour.
THEOREM TypeCorrect == Spec => []TypeOK
<1>1. IInv => TypeOK
  BY DEF IInv
<1> QED
  BY <1>1, Invariant, PTL

\* Whenever the transceiver is powered and the edge interrupt off, a poll has been asked
\* for or is on its way to mm_halow_hal_irq_rearm: neither a refused poll nor one that
\* finds nothing to do leaves the interrupt off for good (mm_halow_poll_func).
THEOREM RearmIsComing == Spec => []RearmComing
<1>1. IInv => RearmComing
  BY DEF IInv
<1> QED
  BY <1>1, Invariant, PTL

\* The service has the owner whose poll or pass is under way, so the handlers of the
\* lines are never called by the thread and by PendSV at once (mm_halow_service_owner).
THEOREM ServiceIsExclusive ==
  Spec => [](~(pc["thread"] \in Claimed /\ pc["irq"] \in Claimed))
<1>1. IInv => ~(pc["thread"] \in Claimed /\ pc["irq"] \in Claimed)
  BY DEF IInv, OwnerExact, Context
<1> QED
  BY <1>1, Invariant, PTL
=============================================================================
