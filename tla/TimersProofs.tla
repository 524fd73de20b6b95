---------------------------- MODULE TimersProofs ----------------------------
(***************************************************************************)
(* Proofs about the software timers (Timers).                              *)
(***************************************************************************)
EXTENDS Timers, SequenceTheorems, TLAPS

Ago(tick) == TickSub(ticks, tick)
Busy(c) == op[c].at \in {"start", "activate", "changed", "change"}

-----------------------------------------------------------------------------
(* The list, and who is where *)

\* The timer the poll looks at is linked, and so is the one it goes on with, which is
\* never the one whose callback may delete itself.
PollShape ==
  /\ poll.at = "idle" => poll = NoPoll
  /\ poll.at = "look" => poll.timer \in Linked
  /\ poll.at = "callback" =>
       /\ poll.timer \in Timer
       /\ poll.next # NoTimer => poll.next \in Linked /\ poll.next # poll.timer

\* A call works on a linked timer, or frees one that is unlinked and still allocated.
OpShape ==
  /\ \A c \in Agent :
       /\ op[c].at = "idle" => op[c] = NoOp
       /\ op[c].at = "free" => op[c].timer \in allocated \ Linked
       /\ Busy(c) => op[c].timer \in Linked
  /\ op["thread"].at = "free" /\ op["service"].at = "free" => op["thread"].timer # op["service"].timer
  /\ op["service"].at # "idle" => poll.at # "look"

-----------------------------------------------------------------------------
(* Time *)

\* Readings of the clock are recent; the service's are younger than those of the thread
\* it cut in on, and those of a callback younger than those of its poll.
Recent ==
  /\ poll.at # "idle" => Ago(poll.now) = age
  /\ \A c \in Agent : Busy(c) => Ago(op[c].read) <= MaxLate
  /\ Busy("thread") /\ poll.at # "idle" => age <= Ago(op["thread"].read)
  /\ Busy("thread") /\ Busy("service") => Ago(op["service"].read) <= Ago(op["thread"].read)

\* Its expires_at is t's period after the reading that was made for it.
Exact(t) == Ago(timer[t].expires_at) = TickSub(since[t], wanted[t])

\* Somebody is about to make t active, and nobody is at its expires_at.
Set(t) ==
  \E c \in Agent : /\ op[c].at = "activate" /\ op[c].timer = t
                   /\ ~(op["service"].at = "start" /\ op["service"].timer = t)

ExpiryExact == \A t \in Linked : timer[t].active \/ Set(t) => Exact(t)

JustSet ==
  \A c \in Agent : op[c].at = "activate" => since[op[c].timer] <= Ago(op[c].read)

\* The timers the poll still has before it.
Cursor == IF poll.at = "look" THEN poll.timer
          ELSE IF poll.at = "callback" THEN poll.next ELSE NoTimer
Ahead(t) == \E i, j \in DOMAIN list : list[i] = Cursor /\ list[j] = t /\ i <= j

\* A timer is at most a call and the time since the last poll began late; one that the
\* poll has still before it may have waited for that poll as well.
Lateness ==
  \A t \in Linked : timer[t].active =>
    since[t] <= wanted[t] + MaxLate + age + (IF Ahead(t) THEN MaxLate ELSE 0)

IInv ==
  /\ TypeOK
  /\ PollShape
  /\ OpShape
  /\ Recent
  /\ ExpiryExact
  /\ JustSet
  /\ Lateness

-----------------------------------------------------------------------------
(* The clock *)

LEMMA HalfFact == HALF \in Nat /\ CLOCK = 2 * HALF /\ HALF >= 2 /\ CLOCK \in Nat
BY ClockAssumption DEF HALF

LEMMA SpanFact ==
  /\ MaxLate \in Nat /\ MaxLate > 0 /\ 2 * MaxLate < HALF
  /\ Span \subseteq Ticks /\ Periods \subseteq Span /\ 0 \in Span
BY TimersAssumption, HalfFact DEF Span, Ticks

LEMMA TickTypes ==
  ASSUME NEW a \in Ticks, NEW b \in Ticks
  PROVE  TickAdd(a, b) \in Ticks /\ TickSub(a, b) \in Ticks /\ TickSub(a, a) = 0
BY HalfFact DEF Ticks, TickAdd, TickSub

\* The reading x is a tick older after a tick.
LEMMA TickOlder ==
  ASSUME NEW a \in Ticks, NEW x \in Ticks
  PROVE  /\ TickAdd(a, 1) \in Ticks
         /\ TickSub(TickAdd(a, 1), x) = IF TickSub(a, x) = CLOCK - 1 THEN 0 ELSE TickSub(a, x) + 1
BY HalfFact DEF Ticks, TickAdd, TickSub

\* An expiry p after the reading r.
LEMMA ExpiryAfter ==
  ASSUME NEW a \in Ticks, NEW r \in Ticks, NEW p \in Ticks
  PROVE  TickSub(a, TickAdd(r, p)) = TickSub(TickSub(a, r), p)
BY HalfFact DEF Ticks, TickAdd, TickSub

\* The sign of the difference tells whether a period w was over g ticks ago, of which s
\* are gone now: also over a wrap of the clock, as long as neither is out of range.
LEMMA ReachedElapsed ==
  ASSUME NEW a \in Ticks, NEW n \in Ticks, NEW e \in Ticks, NEW s \in Nat, NEW w \in Span,
         TickSub(a, n) <= MaxLate, TickSub(a, e) = TickSub(s, w),
         s <= w + 2 * MaxLate + TickSub(a, n)
  PROVE  Reached(n, e) <=> s >= w + TickSub(a, n)
<1>1. w \in 0 .. HALF - MaxLate
  BY DEF Span
<1>2. TickSub(n, e) = TickSub(TickSub(a, e), TickSub(a, n))
  BY HalfFact DEF Ticks, TickSub
<1>3. TickSub(a, n) \in Nat /\ TickSub(a, e) \in Ticks
  BY HalfFact DEF Ticks, TickSub
<1> DEFINE g == TickSub(a, n)
<1>4. g \in Nat /\ g <= MaxLate /\ s <= w + 2 * MaxLate + g
  BY <1>3
<1>5. TickSub(n, e) = TickSub(TickSub(s, w), g)
  BY <1>2
<1> HIDE DEF g
<1>6. TickSub(TickSub(s, w), g) < HALF <=> s >= w + g
  BY <1>1, <1>4, HalfFact, SpanFact DEF TickSub
<1> QED
  BY <1>5, <1>6 DEF Reached, g

-----------------------------------------------------------------------------
(* The list *)

LEMMA LinkedIndex ==
  ASSUME NEW s \in Seq(Timer), NEW t
  PROVE  /\ t \in ToSet(s) <=> \E i \in 1 .. Len(s) : s[i] = t
         /\ ToSet(s) \subseteq Timer
BY DEF ToSet

LEMMA Pushed ==
  ASSUME NEW s \in Seq(Timer), NEW t \in Timer, IsInjective(s), t \notin ToSet(s)
  PROVE  /\ <<t>> \o s \in Seq(Timer) /\ IsInjective(<<t>> \o s)
         /\ ToSet(<<t>> \o s) = {t} \cup ToSet(s)
         /\ Len(<<t>> \o s) = Len(s) + 1
         /\ \A i \in 1 .. Len(s) : (<<t>> \o s)[i + 1] = s[i]
<1> DEFINE u == <<t>> \o s
<1>1. <<t>> \in Seq(Timer) /\ Len(<<t>>) = 1 /\ <<t>>[1] = t /\ Len(s) \in Nat
  OBVIOUS
<1>2. /\ u \in Seq(Timer) /\ Len(u) = Len(s) + 1 /\ u[1] = t
      /\ \A i \in 1 .. Len(s) : u[i + 1] = s[i]
      /\ \A i \in 1 .. Len(s) + 1 : i # 1 => i - 1 \in 1 .. Len(s) /\ u[i] = s[i - 1]
  BY <1>1, ConcatProperties
<1> HIDE DEF u
<1>3. ToSet(u) = {t} \cup ToSet(s)
  <2>1. ASSUME NEW x \in ToSet(u) PROVE x \in {t} \cup ToSet(s)
    <3>1. PICK i \in 1 .. Len(u) : u[i] = x
      BY <1>2, <2>1, LinkedIndex
    <3> QED
      BY <1>1, <1>2, <3>1, LinkedIndex
  <2>2. ASSUME NEW x \in ToSet(s) PROVE x \in ToSet(u)
    <3>1. PICK i \in 1 .. Len(s) : s[i] = x
      BY <2>2, LinkedIndex
    <3>2. i + 1 \in 1 .. Len(u) /\ u[i + 1] = x
      BY <1>1, <1>2, <3>1
    <3> QED
      BY <1>2, <3>2, LinkedIndex
  <2>3. t \in ToSet(u)
    <3>1. 1 \in 1 .. Len(u)
      BY <1>1, <1>2
    <3> QED
      BY <1>2, <3>1, LinkedIndex
  <2> QED
    BY <2>1, <2>2, <2>3
<1>4. IsInjective(u)
  <2>1. DOMAIN u = 1 .. Len(s) + 1 /\ DOMAIN s = 1 .. Len(s)
    BY <1>2
  <2>2. SUFFICES ASSUME NEW i \in 1 .. Len(s) + 1, NEW j \in 1 .. Len(s) + 1, u[i] = u[j] PROVE i = j
    BY <2>1 DEF IsInjective
  <2>3. \A k \in 1 .. Len(s) : s[k] # t
    BY LinkedIndex
  <2>4. CASE i = 1 \/ j = 1
    BY <1>2, <2>2, <2>3, <2>4
  <2>5. CASE i # 1 /\ j # 1
    <3>1. i - 1 \in 1 .. Len(s) /\ j - 1 \in 1 .. Len(s) /\ s[i - 1] = s[j - 1]
      BY <1>2, <2>2, <2>5
    <3>2. i - 1 = j - 1
      BY <2>1, <3>1 DEF IsInjective
    <3> QED
      BY <3>2
  <2> QED
    BY <2>4, <2>5
<1> QED
  BY <1>2, <1>3, <1>4 DEF u

LEMMA Dropped ==
  ASSUME NEW s \in Seq(Timer), NEW i \in 1 .. Len(s), IsInjective(s)
  PROVE  /\ RemoveAt(s, i) \in Seq(Timer) /\ IsInjective(RemoveAt(s, i))
         /\ ToSet(RemoveAt(s, i)) = ToSet(s) \ {s[i]}
         /\ Len(RemoveAt(s, i)) = Len(s) - 1
         /\ \A j \in 1 .. Len(s) : /\ j < i => RemoveAt(s, i)[j] = s[j]
                                   /\ j > i => RemoveAt(s, i)[j - 1] = s[j]
<1> DEFINE a == SubSeq(s, 1, i - 1)
           b == SubSeq(s, i + 1, Len(s))
           u == RemoveAt(s, i)
<1>1. Len(s) \in Nat /\ DOMAIN s = 1 .. Len(s) /\ \A k \in 1 .. Len(s) : s[k] \in Timer
  OBVIOUS
<1>2. a \in Seq(Timer) /\ Len(a) = i - 1 /\ \A k \in 1 .. i - 1 : a[k] = s[k]
  BY <1>1, SubSeqProperties
<1>3. b \in Seq(Timer) /\ Len(b) = Len(s) - i /\ \A k \in 1 .. Len(s) - i : b[k] = s[i + k]
  <2>1. i + 1 \in Int /\ Len(s) \in Int /\ \A k \in i + 1 .. Len(s) : s[k] \in Timer
    BY <1>1
  <2>2. /\ b \in Seq(Timer) /\ Len(b) = (IF i + 1 <= Len(s) THEN Len(s) - (i + 1) + 1 ELSE 0)
        /\ \A k \in 1 .. Len(s) - (i + 1) + 1 : b[k] = s[(i + 1) + k - 1]
    BY <2>1, SubSeqProperties
  <2> HIDE DEF b
  <2>3. Len(b) = Len(s) - i
    <3>1. Len(s) \in Nat /\ i \in Nat /\ i <= Len(s)
      BY <1>1
    <3> HIDE DEF a, u
    <3>2. CASE i + 1 <= Len(s)
      BY <2>2, <3>1, <3>2
    <3>3. CASE ~(i + 1 <= Len(s))
      BY <2>2, <3>1, <3>3
    <3> QED
      BY <3>2, <3>3
  <2>4. ASSUME NEW k \in 1 .. Len(s) - i PROVE b[k] = s[i + k]
    <3>1. k \in 1 .. Len(s) - (i + 1) + 1 /\ (i + 1) + k - 1 = i + k
      BY <1>1
    <3> QED
      BY <2>2, <3>1
  <2> QED
    BY <2>2, <2>3, <2>4
<1>4. u = a \o b
  BY DEF RemoveAt
<1> HIDE DEF a, b, u
<1>5. /\ u \in Seq(Timer) /\ Len(u) = Len(s) - 1
      /\ \A k \in 1 .. Len(s) - 1 : u[k] = IF k <= i - 1 THEN a[k] ELSE b[k - (i - 1)]
  <2>1. /\ u \in Seq(Timer) /\ Len(u) = Len(a) + Len(b)
        /\ \A k \in 1 .. Len(a) + Len(b) : u[k] = IF k <= Len(a) THEN a[k] ELSE b[k - Len(a)]
    BY <1>2, <1>3, <1>4, ConcatProperties
  <2>2. Len(a) + Len(b) = Len(s) - 1
    BY <1>1, <1>2, <1>3
  <2> QED
    BY <1>2, <2>1, <2>2
<1>6. \A k \in 1 .. Len(s) - 1 : u[k] = IF k < i THEN s[k] ELSE s[k + 1]
  <2>1. SUFFICES ASSUME NEW k \in 1 .. Len(s) - 1 PROVE u[k] = IF k < i THEN s[k] ELSE s[k + 1]
    OBVIOUS
  <2>2. CASE k < i
    BY <1>1, <1>2, <1>5, <2>2
  <2>3. CASE ~(k < i)
    <3>1. k - (i - 1) \in 1 .. Len(s) - i /\ i + (k - (i - 1)) = k + 1
      BY <1>1, <2>3
    <3> QED
      BY <1>1, <1>3, <1>5, <2>3, <3>1
  <2> QED
    BY <2>2, <2>3
<1>7. \A j \in 1 .. Len(s) : (j < i => u[j] = s[j]) /\ (j > i => u[j - 1] = s[j])
  <2>1. SUFFICES ASSUME NEW j \in 1 .. Len(s) PROVE (j < i => u[j] = s[j]) /\ (j > i => u[j - 1] = s[j])
    OBVIOUS
  <2>2. CASE j > i
    <3>1. j - 1 \in 1 .. Len(s) - 1 /\ ~(j - 1 < i) /\ (j - 1) + 1 = j
      BY <1>1, <2>2
    <3> QED
      BY <1>6, <2>2, <3>1
  <2>3. CASE ~(j > i)
    BY <1>1, <1>6, <2>3
  <2> QED
    BY <2>2, <2>3
<1>8. ToSet(u) = ToSet(s) \ {s[i]}
  <2>1. ASSUME NEW x \in ToSet(u) PROVE x \in ToSet(s) \ {s[i]}
    <3>1. PICK k \in 1 .. Len(s) - 1 : u[k] = x
      BY <1>5, <2>1, LinkedIndex
    <3>2. PICK j \in 1 .. Len(s) : s[j] = x /\ j # i
      BY <1>1, <1>6, <3>1
    <3> QED
      BY <1>1, <3>2, LinkedIndex DEF IsInjective
  <2>2. ASSUME NEW x \in ToSet(s), x # s[i] PROVE x \in ToSet(u)
    <3>1. PICK j \in 1 .. Len(s) : s[j] = x
      BY LinkedIndex
    <3>2. PICK k \in 1 .. Len(u) : u[k] = x
      <4>1. CASE j < i
        BY <1>1, <1>5, <1>7, <3>1, <4>1
      <4>2. CASE j > i
        <5>1. j - 1 \in 1 .. Len(u) /\ u[j - 1] = x
          BY <1>1, <1>5, <1>7, <3>1, <4>2
        <5> QED
          BY <5>1
      <4> QED
        BY <1>1, <2>2, <3>1, <4>1, <4>2
    <3> QED
      BY <1>5, <3>2, LinkedIndex
  <2> QED
    BY <2>1, <2>2
<1>9. IsInjective(u)
  <2>1. DOMAIN u = 1 .. Len(s) - 1
    BY <1>5
  <2>2. SUFFICES ASSUME NEW j \in 1 .. Len(s) - 1, NEW k \in 1 .. Len(s) - 1, u[j] = u[k] PROVE j = k
    BY <2>1 DEF IsInjective
  <2>3. /\ (IF j < i THEN j ELSE j + 1) \in 1 .. Len(s) /\ (IF k < i THEN k ELSE k + 1) \in 1 .. Len(s)
        /\ s[IF j < i THEN j ELSE j + 1] = s[IF k < i THEN k ELSE k + 1]
    BY <1>1, <1>6, <2>2
  <2>4. (IF j < i THEN j ELSE j + 1) = (IF k < i THEN k ELSE k + 1)
    BY <1>1, <2>3 DEF IsInjective
  <2> QED
    BY <1>1, <2>4
<1> QED
  BY <1>5, <1>7, <1>8, <1>9 DEF u

\* The timer after t: none, or another one that is linked.
LEMMA NextOfFact ==
  ASSUME TypeOK, NEW t \in Linked
  PROVE  \E k \in 1 .. Len(list) :
           /\ list[k] = t
           /\ k = Len(list) => NextOf(t) = NoTimer
           /\ k < Len(list) => /\ k + 1 \in 1 .. Len(list) /\ NextOf(t) = list[k + 1]
                               /\ NextOf(t) \in Linked /\ NextOf(t) # t
<1> DEFINE k == CHOOSE i \in DOMAIN list : list[i] = t
<1>1. list \in Seq(Timer) /\ DOMAIN list = 1 .. Len(list) /\ Len(list) \in Nat /\ IsInjective(list)
  BY DEF TypeOK
<1>2. \E i \in DOMAIN list : list[i] = t
  BY <1>1 DEF Linked, ToSet
<1>3. k \in DOMAIN list /\ list[k] = t
  BY <1>2
<1>4. NextOf(t) = IF k = Len(list) THEN NoTimer ELSE list[k + 1]
  BY DEF NextOf
<1> HIDE DEF k
<1>5. ASSUME k < Len(list)
      PROVE  /\ k + 1 \in 1 .. Len(list) /\ NextOf(t) = list[k + 1]
             /\ NextOf(t) \in Linked /\ NextOf(t) # t
  <2>1. k + 1 \in 1 .. Len(list) /\ k + 1 # k
    BY <1>1, <1>3, <1>5
  <2>2. NextOf(t) = list[k + 1]
    BY <1>1, <1>3, <1>4, <1>5
  <2>3. list[k + 1] # list[k]
    BY <1>1, <1>3, <2>1 DEF IsInjective
  <2> QED
    BY <1>1, <1>3, <2>1, <2>2, <2>3, LinkedIndex DEF Linked
<1> QED
  BY <1>1, <1>3, <1>4, <1>5

-----------------------------------------------------------------------------
(* One lemma per action *)

LEMMA NoneTypes == NoPoll \in Poll /\ NoOp \in Op
BY SpanFact, HalfFact DEF NoPoll, NoOp, Poll, Op, Ticks

LEMMA InitInv == Init => IInv
<1> SUFFICES ASSUME Init PROVE IInv
  OBVIOUS
<1> USE DEF Init
<1>1. list \in Seq(Timer) /\ IsInjective(list) /\ Linked = {}
  BY DEF IsInjective, Linked, ToSet
<1>2. TypeOK
  <2>1. ticks \in Ticks /\ age \in 0 .. MaxLate
    BY TimersAssumption
  <2>2. timer \in [Timer -> Fields]
    BY SpanFact, HalfFact DEF Fields, Ticks
  <2>3. since \in [Timer -> 0 .. CLOCK] /\ wanted \in [Timer -> Span]
    BY SpanFact, HalfFact
  <2> QED
    BY <1>1, <2>1, <2>2, <2>3, NoneTypes DEF TypeOK
<1>3. poll.at = "idle" /\ \A c \in Agent : op[c].at = "idle" /\ op[c] = NoOp
  BY DEF NoPoll, NoOp
<1>4. PollShape /\ OpShape
  BY <1>3 DEF PollShape, OpShape, Busy, Agent
<1>5. Recent /\ JustSet
  BY <1>3 DEF Recent, JustSet, Busy, Agent
<1>6. ExpiryExact /\ Lateness
  BY <1>1 DEF ExpiryExact, Lateness
<1> QED
  BY <1>2, <1>4, <1>5, <1>6 DEF IInv

\* Who may begin a call.
LEMMA IdleFacts ==
  ASSUME IInv, NEW c \in Agent, Idle(c)
  PROVE  /\ op[c] = NoOp /\ op[c].at = "idle"
         /\ c = "thread" => poll.at = "idle" /\ op["service"] = NoOp /\ op["service"].at = "idle"
         /\ c = "service" => poll.at # "look"
BY DEF IInv, OpShape, Idle, At, NoPoll, NoOp, Agent

\* And who may go on with one.
LEMMA AtFacts ==
  ASSUME NEW c \in Agent, NEW place, At(c, place)
  PROVE  /\ op[c].at = place
         /\ c = "thread" => poll.at = "idle" /\ op["service"].at = "idle"
BY DEF At, NoPoll, NoOp

LEMMA Readings ==
  ASSUME TypeOK
  PROVE  /\ TickSub(ticks, ticks) = 0 /\ age \in Nat /\ MaxLate \in Nat
         /\ \A d \in Agent : op[d].read \in Ticks /\ TickSub(ticks, op[d].read) \in Nat
         /\ poll.now \in Ticks /\ TickSub(ticks, poll.now) \in Nat
<1>1. ticks \in Ticks /\ poll.now \in Ticks /\ \A d \in Agent : op[d].read \in Ticks
  BY DEF TypeOK, Op, Poll
<1>2. \A x \in Ticks : TickSub(ticks, x) \in Ticks
  BY <1>1, TickTypes
<1>3. Ticks \subseteq Nat
  BY HalfFact DEF Ticks
<1>4. age \in Nat /\ MaxLate \in Nat
  BY SpanFact DEF TypeOK
<1> QED
  BY <1>1, <1>2, <1>3, <1>4, TickTypes

LEMMA TimerTypes ==
  ASSUME TypeOK, NEW x \in Timer
  PROVE  /\ since[x] \in Nat /\ wanted[x] \in Span /\ wanted[x] \in Nat
         /\ timer[x].expires_at \in Ticks /\ timer[x].period \in Span
         /\ timer[x].active \in BOOLEAN /\ timer[x].auto_reload \in BOOLEAN
<1>1. since[x] \in 0 .. CLOCK /\ wanted[x] \in Span /\ timer[x] \in Fields
  BY DEF TypeOK
<1>2. since[x] \in Nat /\ wanted[x] \in Nat
  BY <1>1, HalfFact, SpanFact DEF Span
<1> QED
  BY <1>1, <1>2 DEF Fields

LEMMA StartInv == ASSUME IInv, NEW c \in Agent, NEW t \in Timer, Start(c, t) PROVE IInv'
<1> USE DEF IInv
<1>1. /\ t \in Linked /\ Idle(c)
      /\ op' = [op EXCEPT ![c] = [at |-> "start", timer |-> t, period |-> timer[t].period,
                                  read |-> ticks]]
      /\ IF timer[t].active THEN since' = since /\ wanted' = wanted
         ELSE Counts(t, timer[t].period, 0)
      /\ UNCHANGED <<ticks, list, timer, allocated, poll, age>>
  BY DEF Start, Uses, Contains, Linked, ToSet, ghosts, TypeOK
<1>2. /\ op[c] = NoOp /\ op[c].at = "idle"
      /\ c = "thread" => poll.at = "idle" /\ op["service"].at = "idle"
      /\ c = "service" => poll.at # "look"
  BY <1>1, IdleFacts
<1>3. timer[t].period \in Span /\ timer[t].active \in BOOLEAN
  BY DEF TypeOK, Fields
<1>4. /\ op' \in [Agent -> Op] /\ op'[c].at = "start" /\ op'[c].timer = t /\ op'[c].read = ticks
      /\ \A d \in Agent \ {c} : op'[d] = op[d]
  BY <1>1, <1>3 DEF TypeOK, Op
<1>5. since' \in [Timer -> 0 .. CLOCK] /\ wanted' \in [Timer -> Span]
  <2>1. 0 \in 0 .. CLOCK
    BY HalfFact
  <2> QED
    BY <1>1, <1>3, <2>1 DEF Counts, TypeOK
<1>6. /\ \A x \in Timer \ {t} : since'[x] = since[x] /\ wanted'[x] = wanted[x]
      /\ timer[t].active => since' = since /\ wanted' = wanted
      /\ since'[t] = since[t] \/ since'[t] = 0
  BY <1>1, <1>3 DEF Counts, TypeOK
<1>7. Linked' = Linked /\ \A x : Ago(x)' = TickSub(ticks, x')
  BY <1>1 DEF Linked, Ago
<1>8. TypeOK'
  BY <1>1, <1>4, <1>5, <1>7 DEF TypeOK
<1>9. PollShape'
  BY <1>1, <1>7 DEF PollShape
<1>10. OpShape'
  BY <1>1, <1>2, <1>4, <1>7 DEF OpShape, Busy, Agent
<1>11. \A d \in Agent : op'[d].at = "activate" => op[d].at = "activate" /\ op'[d] = op[d] /\ d # c
  BY <1>4
<1>12. Recent'
  <2>1. /\ TickSub(ticks, ticks) = 0 /\ age \in Nat /\ MaxLate \in Nat
        /\ \A d \in Agent : TickSub(ticks, op[d].read) \in Nat
    BY Readings
  <2> QED
    BY <1>1, <1>2, <1>4, <2>1 DEF Recent, Busy, Ago, Agent
<1>13. ExpiryExact'
  <2>1. SUFFICES ASSUME NEW x \in Linked, timer[x].active \/ Set(x)' PROVE Exact(x)'
    BY <1>1, <1>7 DEF ExpiryExact
  <2>2. x \in Timer
    BY DEF TypeOK
  <2>3. CASE x # t \/ timer[t].active
    <3>1. Set(x)' => Set(x) \/ timer[x].active
      BY <1>2, <1>4, <1>11, <2>3 DEF Set, Agent
    <3>2. Exact(x)
      BY <2>1, <3>1 DEF ExpiryExact
    <3> QED
      BY <1>1, <1>6, <2>2, <2>3, <3>2 DEF Exact, Ago
  <2>4. CASE x = t /\ ~timer[t].active
    BY <1>2, <1>4, <1>11, <2>1, <2>4 DEF Set, Agent
  <2> QED
    BY <2>3, <2>4
<1>14. JustSet'
  <2>1. \A d \in Agent : op[d].at = "activate" => op[d].timer \in Timer
    BY DEF OpShape, Busy, TypeOK
  <2>2. \A d \in Agent : TickSub(ticks, op[d].read) \in Nat
    BY Readings
  <2> QED
    BY <1>1, <1>6, <1>11, <2>1, <2>2 DEF JustSet, Ago
<1>15. Lateness'
  <2>1. \A x : Ahead(x)' <=> Ahead(x)
    BY <1>1 DEF Ahead, Cursor
  <2>2. Linked \subseteq Timer
    BY DEF TypeOK
  <2> QED
    BY <1>1, <1>6, <1>7, <2>1, <2>2 DEF Lateness
<1> QED
  BY <1>8, <1>9, <1>10, <1>12, <1>13, <1>14, <1>15

\* The list and the poll's place in it stay as they are.
LEMMA Unmoved ==
  ASSUME UNCHANGED <<list, poll>>
  PROVE  Linked' = Linked /\ \A x : Ahead(x)' <=> Ahead(x)
BY DEF Linked, Ahead, Cursor

LEMMA StopInv == ASSUME IInv, NEW c \in Agent, NEW t \in Timer, Stop(c, t) PROVE IInv'
<1> USE DEF IInv
<1>1. /\ timer' = [timer EXCEPT ![t].active = FALSE]
      /\ UNCHANGED <<ticks, list, allocated, poll, op, age, since, wanted>>
  BY DEF Stop, ghosts
<1>2. /\ timer' \in [Timer -> Fields] /\ ~timer'[t].active
      /\ \A x \in Timer \ {t} : timer'[x] = timer[x]
      /\ timer'[t].expires_at = timer[t].expires_at
  BY <1>1 DEF TypeOK, Fields
<1>3. Linked' = Linked /\ Linked \subseteq Timer /\ \A x : Ahead(x)' <=> Ahead(x)
  BY <1>1, Unmoved DEF TypeOK
<1>4. TypeOK'
  BY <1>1, <1>2, <1>3 DEF TypeOK
<1>5. PollShape' /\ OpShape' /\ Recent' /\ JustSet'
  BY <1>1, <1>3 DEF PollShape, OpShape, Recent, JustSet, Busy, Ago
<1>6. ExpiryExact'
  <2>1. SUFFICES ASSUME NEW x \in Linked, timer'[x].active \/ Set(x)' PROVE Exact(x)'
    BY <1>3 DEF ExpiryExact
  <2>2. Set(x)' <=> Set(x)
    BY <1>1 DEF Set
  <2>3. timer[x].active \/ Set(x)
    BY <1>2, <1>3, <2>1, <2>2
  <2>4. Exact(x) /\ timer'[x].expires_at = timer[x].expires_at
    BY <1>2, <1>3, <2>3 DEF ExpiryExact
  <2> QED
    BY <1>1, <2>4 DEF Exact, Ago
<1>7. Lateness'
  BY <1>1, <1>2, <1>3 DEF Lateness
<1> QED
  BY <1>4, <1>5, <1>6, <1>7

LEMMA ChangePeriodInv ==
  ASSUME IInv, NEW c \in Agent, NEW t \in Timer, NEW p \in Periods, ChangePeriod(c, t, p)
  PROVE  IInv'
<1> USE DEF IInv
<1>1. /\ t \in Linked /\ Idle(c)
      /\ timer' = [timer EXCEPT ![t].period = p]
      /\ op' = [op EXCEPT ![c] = [at |-> "changed", timer |-> t, period |-> p, read |-> ticks]]
      /\ UNCHANGED <<ticks, list, allocated, poll, age, since, wanted>>
  BY DEF ChangePeriod, Uses, Contains, Linked, ToSet, ghosts, TypeOK
<1>2. /\ op[c] = NoOp /\ op[c].at = "idle"
      /\ c = "thread" => poll.at = "idle" /\ op["service"].at = "idle"
      /\ c = "service" => poll.at # "look"
  BY <1>1, IdleFacts
<1>3. p \in Span
  BY SpanFact
<1>4. /\ op' \in [Agent -> Op] /\ op'[c].at = "changed" /\ op'[c].timer = t /\ op'[c].read = ticks
      /\ \A d \in Agent \ {c} : op'[d] = op[d]
  BY <1>1, <1>3 DEF TypeOK, Op
<1>5. /\ timer' \in [Timer -> Fields]
      /\ \A x \in Timer : /\ timer'[x].active = timer[x].active
                          /\ timer'[x].expires_at = timer[x].expires_at
  BY <1>1, <1>3 DEF TypeOK, Fields
<1>6. Linked' = Linked /\ Linked \subseteq Timer /\ \A x : Ahead(x)' <=> Ahead(x)
  BY <1>1, Unmoved DEF TypeOK
<1>7. TypeOK'
  BY <1>1, <1>4, <1>5, <1>6 DEF TypeOK
<1>8. PollShape'
  BY <1>1, <1>6 DEF PollShape
<1>9. OpShape'
  BY <1>1, <1>2, <1>4, <1>6 DEF OpShape, Busy, Agent
<1>10. \A d \in Agent : op'[d].at = "activate" => op[d].at = "activate" /\ op'[d] = op[d] /\ d # c
  BY <1>4
<1>11. Recent'
  <2>1. /\ TickSub(ticks, ticks) = 0 /\ age \in Nat /\ MaxLate \in Nat
        /\ \A d \in Agent : TickSub(ticks, op[d].read) \in Nat
    BY Readings
  <2> QED
    BY <1>1, <1>2, <1>4, <2>1 DEF Recent, Busy, Ago, Agent
<1>12. ExpiryExact'
  <2>1. SUFFICES ASSUME NEW x \in Linked, timer'[x].active \/ Set(x)' PROVE Exact(x)'
    BY <1>6 DEF ExpiryExact
  <2>2. Set(x)' => Set(x)
    BY <1>2, <1>4, <1>10 DEF Set, Agent
  <2>3. Exact(x) /\ timer'[x].expires_at = timer[x].expires_at
    BY <1>5, <1>6, <2>1, <2>2 DEF ExpiryExact
  <2> QED
    BY <1>1, <2>3 DEF Exact, Ago
<1>13. JustSet'
  BY <1>1, <1>10 DEF JustSet, Ago
<1>14. Lateness'
  BY <1>1, <1>5, <1>6 DEF Lateness
<1> QED
  BY <1>7, <1>8, <1>9, <1>11, <1>12, <1>13, <1>14

LEMMA ChangeActiveInv == ASSUME IInv, NEW c \in Agent, ChangeActive(c) PROVE IInv'
<1> USE DEF IInv
<1>1. /\ op[c].at = "changed"
      /\ c = "thread" => poll.at = "idle" /\ op["service"].at = "idle"
      /\ \/ op' = [op EXCEPT ![c].at = "change", ![c].read = ticks]
         \/ op' = [op EXCEPT ![c] = NoOp]
      /\ UNCHANGED <<ticks, list, timer, allocated, poll, age, since, wanted>>
  BY AtFacts DEF ChangeActive, Return, ghosts
<1>2. /\ op' \in [Agent -> Op] /\ \A d \in Agent \ {c} : op'[d] = op[d]
      /\ \/ op'[c].at = "change" /\ op'[c].timer = op[c].timer /\ op'[c].read = ticks
         \/ op'[c] = NoOp /\ op'[c].at = "idle"
  <2>1. CASE op' = [op EXCEPT ![c].at = "change", ![c].read = ticks]
    BY <2>1 DEF TypeOK, Op
  <2>2. CASE op' = [op EXCEPT ![c] = NoOp]
    <3>1. NoOp.at = "idle"
      BY DEF NoOp
    <3> QED
      BY <2>2, <3>1, NoneTypes DEF TypeOK
  <2> QED
    BY <1>1, <2>1, <2>2
<1>3. Linked' = Linked /\ Linked \subseteq Timer /\ \A x : Ahead(x)' <=> Ahead(x)
  BY <1>1, Unmoved DEF TypeOK
<1>4. TypeOK'
  BY <1>1, <1>2, <1>3 DEF TypeOK
<1>5. PollShape'
  BY <1>1, <1>3 DEF PollShape
<1>6. OpShape'
  BY <1>1, <1>2, <1>3 DEF OpShape, Busy, Agent
<1>7. \A d \in Agent : op'[d].at = "activate" => op[d].at = "activate" /\ op'[d] = op[d] /\ d # c
  BY <1>2
<1>8. Recent'
  <2>1. /\ TickSub(ticks, ticks) = 0 /\ age \in Nat /\ MaxLate \in Nat
        /\ \A d \in Agent : TickSub(ticks, op[d].read) \in Nat
    BY Readings
  <2> QED
    BY <1>1, <1>2, <2>1 DEF Recent, Busy, Ago, Agent
<1>9. ExpiryExact'
  <2>1. SUFFICES ASSUME NEW x \in Linked, timer[x].active \/ Set(x)' PROVE Exact(x)'
    BY <1>1, <1>3 DEF ExpiryExact
  <2>2. Set(x)' => Set(x)
    BY <1>1, <1>2, <1>7 DEF Set, Agent
  <2> QED
    BY <1>1, <2>1, <2>2 DEF ExpiryExact, Exact, Ago
<1>10. JustSet'
  BY <1>1, <1>7 DEF JustSet, Ago
<1>11. Lateness'
  BY <1>1, <1>3 DEF Lateness
<1> QED
  BY <1>4, <1>5, <1>6, <1>8, <1>9, <1>10, <1>11

\* The write of expires_at that ends a start or a change: what it makes of the timer, and
\* what of the invariant follows however the call goes on.
LEMMA ExpiresFacts ==
  ASSUME IInv, NEW c \in Agent, NEW place \in {"start", "change"}, Expires(c, place),
         UNCHANGED <<ticks, list, allocated, poll, age>>,
         op'[c].at = "activate" => op'[c].timer = op[c].timer /\ op'[c].read = op[c].read,
         op'[c].at \in {"activate", "idle"}, \A d \in Agent \ {c} : op'[d] = op[d]
  PROVE  /\ timer' \in [Timer -> Fields]
         /\ since' \in [Timer -> 0 .. CLOCK] /\ wanted' \in [Timer -> Span]
         /\ ExpiryExact' /\ JustSet' /\ Lateness'
<1> USE DEF IInv
<1> DEFINE t == op[c].timer
           g == TickSub(ticks, op[c].read)
<1>1. /\ op[c].at = place /\ (c = "thread" => poll.at = "idle" /\ op["service"].at = "idle")
      /\ timer' = [timer EXCEPT ![t].expires_at = TickAdd(op[c].read, op[c].period)]
      /\ wanted' = [wanted EXCEPT ![t] = op[c].period]
      /\ since' = [since EXCEPT ![t] = g]
  BY AtFacts DEF Expires, Counts
<1>2. Linked' = Linked /\ Linked \subseteq Timer /\ \A x : Ahead(x)' <=> Ahead(x)
  BY Unmoved DEF TypeOK
<1>3. t \in Linked /\ t \in Timer /\ Busy(c)
  BY <1>1, <1>2 DEF OpShape, Busy
<1>4. /\ op[c].read \in Ticks /\ op[c].period \in Span /\ op[c].period \in Ticks
      /\ TickAdd(op[c].read, op[c].period) \in Ticks /\ ticks \in Ticks
  BY SpanFact, TickTypes DEF TypeOK, Op
<1>5. g \in Nat /\ g <= MaxLate /\ g \in 0 .. CLOCK
  BY <1>3, Readings, SpanFact, HalfFact DEF Recent, Ago
<1>6. /\ timer' \in [Timer -> Fields]
      /\ \A x \in Timer : timer'[x].active = timer[x].active
      /\ \A x \in Timer \ {t} : timer'[x] = timer[x]
      /\ timer'[t].expires_at = TickAdd(op[c].read, op[c].period)
  BY <1>1, <1>3, <1>4 DEF TypeOK, Fields
<1> HIDE DEF g
<1>7. /\ since' \in [Timer -> 0 .. CLOCK] /\ wanted' \in [Timer -> Span]
      /\ since'[t] = g /\ wanted'[t] = op[c].period
      /\ \A x \in Timer \ {t} : since'[x] = since[x] /\ wanted'[x] = wanted[x]
  BY <1>1, <1>3, <1>4, <1>5 DEF TypeOK
<1> HIDE DEF t
<1>8. ExpiryExact'
  <2>1. SUFFICES ASSUME NEW x \in Linked, timer'[x].active \/ Set(x)' PROVE Exact(x)'
    BY <1>2 DEF ExpiryExact
  <2>2. CASE x = t
    <3>1. TickSub(ticks, timer'[t].expires_at) = TickSub(g, wanted'[t])
      BY <1>4, <1>6, <1>7, ExpiryAfter DEF g
    <3> QED
      BY <1>7, <2>2, <3>1 DEF Exact, Ago
  <2>3. CASE x # t
    <3>1. Set(x)' => Set(x)
      <4>1. PICK d \in Agent : Set(x)' => /\ op'[d].at = "activate" /\ op'[d].timer = x
                                          /\ ~(op'["service"].at = "start" /\ op'["service"].timer = x)
        BY DEF Set
      <4>2. op'[d].at = "activate" /\ op'[d].timer = x => d # c /\ op'[d] = op[d]
        BY <2>3 DEF t
      <4>3. c = "service" => op["service"].timer # x
        BY <2>3 DEF t
      <4>4. c # "service" => op'["service"] = op["service"]
        BY DEF Agent
      <4> QED
        BY <4>1, <4>2, <4>3, <4>4 DEF Set
    <3>2. Exact(x)
      BY <1>2, <1>6, <2>1, <2>3, <3>1 DEF ExpiryExact
    <3> QED
      BY <1>2, <1>6, <1>7, <2>3, <3>2 DEF Exact, Ago
  <2> QED
    BY <2>2, <2>3
<1>9. JustSet'
  <2>1. SUFFICES ASSUME NEW d \in Agent, op'[d].at = "activate"
                 PROVE  since'[op'[d].timer] <= TickSub(ticks, op'[d].read)
    BY DEF JustSet, Ago
  <2>2. CASE d = c
    <3>1. op'[d].timer = t /\ TickSub(ticks, op'[d].read) = g
      BY <2>1, <2>2 DEF t, g
    <3> QED
      BY <1>5, <1>7, <3>1
  <2>3. CASE d # c
    <3>1. op'[d] = op[d] /\ d = "thread" /\ c = "service" /\ Busy(d)
      BY <1>1, <2>1, <2>3 DEF Agent, Busy
    <3>2. g <= TickSub(ticks, op[d].read)
      BY <1>3, <3>1 DEF Recent, Ago, g
    <3>3. since[op[d].timer] <= TickSub(ticks, op[d].read) /\ op[d].timer \in Timer
      BY <1>2, <2>1, <3>1 DEF JustSet, Ago, OpShape
    <3> QED
      BY <1>7, <3>1, <3>2, <3>3
  <2> QED
    BY <2>2, <2>3
<1>10. Lateness'
  <2>1. SUFFICES ASSUME NEW x \in Linked, timer'[x].active
                 PROVE  since'[x] <= wanted'[x] + MaxLate + age + (IF Ahead(x) THEN MaxLate ELSE 0)
    BY <1>2 DEF Lateness
  <2>2. CASE x = t
    <3>1. age \in Nat /\ MaxLate \in Nat
      BY Readings
    <3>2. wanted'[t] \in Nat
      BY <1>4, <1>7, SpanFact, HalfFact DEF Ticks
    <3>3. (IF Ahead(x) THEN MaxLate ELSE 0) \in Nat
      BY <3>1
    <3> QED
      BY <1>5, <1>7, <2>2, <3>1, <3>2, <3>3
  <2>3. CASE x # t
    BY <1>2, <1>6, <1>7, <2>1, <2>3 DEF Lateness
  <2> QED
    BY <2>2, <2>3
<1> QED
  BY <1>6, <1>7, <1>8, <1>9, <1>10

LEMMA StartExpiresInv == ASSUME IInv, NEW c \in Agent, StartExpires(c) PROVE IInv'
<1> USE DEF IInv
<1>1. /\ Expires(c, "start") /\ op[c].at = "start"
      /\ c = "thread" => poll.at = "idle" /\ op["service"].at = "idle"
      /\ op' = [op EXCEPT ![c].at = "activate"]
      /\ UNCHANGED <<ticks, list, allocated, poll, age>>
  BY AtFacts DEF StartExpires, Expires, Goto
<1>2. /\ op' \in [Agent -> Op] /\ op'[c].at = "activate" /\ op'[c].timer = op[c].timer
      /\ op'[c].read = op[c].read
      /\ \A d \in Agent \ {c} : op'[d] = op[d]
  BY <1>1 DEF TypeOK, Op
<1>3. /\ timer' \in [Timer -> Fields]
      /\ since' \in [Timer -> 0 .. CLOCK] /\ wanted' \in [Timer -> Span]
      /\ ExpiryExact' /\ JustSet' /\ Lateness'
  BY <1>1, <1>2, ExpiresFacts
<1>4. Linked' = Linked
  BY <1>1, Unmoved
<1>5. TypeOK'
  BY <1>1, <1>2, <1>3, <1>4 DEF TypeOK
<1>6. PollShape'
  BY <1>1, <1>4 DEF PollShape
<1>7. OpShape'
  BY <1>1, <1>2, <1>4 DEF OpShape, Busy, Agent
<1>8. Recent'
  BY <1>1, <1>2 DEF Recent, Busy, Ago, Agent
<1> QED
  BY <1>3, <1>5, <1>6, <1>7, <1>8

LEMMA ChangeExpiresInv == ASSUME IInv, NEW c \in Agent, ChangeExpires(c) PROVE IInv'
<1> USE DEF IInv
<1>1. /\ Expires(c, "change") /\ op[c].at = "change"
      /\ c = "thread" => poll.at = "idle" /\ op["service"].at = "idle"
      /\ op' = [op EXCEPT ![c] = NoOp]
      /\ UNCHANGED <<ticks, list, allocated, poll, age>>
  BY AtFacts DEF ChangeExpires, Expires, Return
<1>2. /\ op' \in [Agent -> Op] /\ op'[c].at = "idle" /\ op'[c] = NoOp
      /\ \A d \in Agent \ {c} : op'[d] = op[d]
  <2>1. NoOp.at = "idle"
    BY DEF NoOp
  <2> QED
    BY <1>1, <2>1, NoneTypes DEF TypeOK
<1>3. /\ timer' \in [Timer -> Fields]
      /\ since' \in [Timer -> 0 .. CLOCK] /\ wanted' \in [Timer -> Span]
      /\ ExpiryExact' /\ JustSet' /\ Lateness'
  BY <1>1, <1>2, ExpiresFacts
<1>4. Linked' = Linked
  BY <1>1, Unmoved
<1>5. TypeOK'
  BY <1>1, <1>2, <1>3, <1>4 DEF TypeOK
<1>6. PollShape'
  BY <1>1, <1>4 DEF PollShape
<1>7. OpShape'
  BY <1>1, <1>2, <1>4 DEF OpShape, Busy, Agent
<1>8. Recent'
  BY <1>1, <1>2 DEF Recent, Busy, Ago, Agent
<1> QED
  BY <1>3, <1>5, <1>6, <1>7, <1>8

LEMMA StartActiveInv == ASSUME IInv, NEW c \in Agent, StartActive(c) PROVE IInv'
<1> USE DEF IInv
<1> DEFINE t == op[c].timer
<1>1. /\ op[c].at = "activate"
      /\ c = "thread" => poll.at = "idle" /\ op["service"].at = "idle"
      /\ timer' = [timer EXCEPT ![t].active = TRUE]
      /\ op' = [op EXCEPT ![c] = NoOp]
      /\ UNCHANGED <<ticks, list, allocated, poll, age, since, wanted>>
  BY AtFacts DEF StartActive, Return, ghosts
<1>2. /\ op' \in [Agent -> Op] /\ op'[c].at = "idle" /\ op'[c] = NoOp
      /\ \A d \in Agent \ {c} : op'[d] = op[d]
  <2>1. NoOp.at = "idle"
    BY DEF NoOp
  <2> QED
    BY <1>1, <2>1, NoneTypes DEF TypeOK
<1>3. Linked' = Linked /\ Linked \subseteq Timer /\ \A x : Ahead(x)' <=> Ahead(x)
  BY <1>1, Unmoved DEF TypeOK
<1>4. t \in Linked /\ t \in Timer /\ Busy(c) /\ Set(t)
  BY <1>1, <1>3 DEF OpShape, Busy, Set, Agent
<1>5. /\ timer' \in [Timer -> Fields]
      /\ \A x \in Timer : timer'[x].expires_at = timer[x].expires_at
      /\ \A x \in Timer \ {t} : timer'[x] = timer[x]
  BY <1>1, <1>4 DEF TypeOK, Fields
<1>6. TypeOK'
  BY <1>1, <1>2, <1>3, <1>5 DEF TypeOK
<1>7. PollShape'
  BY <1>1, <1>3 DEF PollShape
<1>8. OpShape'
  BY <1>1, <1>2, <1>3 DEF OpShape, Busy, Agent
<1>9. Recent'
  BY <1>1, <1>2 DEF Recent, Busy, Ago, Agent
<1>10. ExpiryExact'
  <2>1. SUFFICES ASSUME NEW x \in Linked, timer'[x].active \/ Set(x)' PROVE Exact(x)'
    BY <1>3 DEF ExpiryExact
  <2>2. x # t => (Set(x)' => Set(x))
    BY <1>1, <1>2 DEF Set, Agent
  <2>3. Exact(x) /\ timer'[x].expires_at = timer[x].expires_at
    BY <1>3, <1>4, <1>5, <2>1, <2>2 DEF ExpiryExact
  <2> QED
    BY <1>1, <2>3 DEF Exact, Ago
<1>11. JustSet'
  BY <1>1, <1>2 DEF JustSet, Ago
<1>12. Lateness'
  <2>1. SUFFICES ASSUME NEW x \in Linked, timer'[x].active
                 PROVE  since[x] <= wanted[x] + MaxLate + age + (IF Ahead(x) THEN MaxLate ELSE 0)
    BY <1>1, <1>3 DEF Lateness
  <2>2. CASE x = t
    <3>1. age \in Nat /\ MaxLate \in Nat
      BY Readings
    <3>2. since[t] <= TickSub(ticks, op[c].read) /\ TickSub(ticks, op[c].read) <= MaxLate
      BY <1>1, <1>4 DEF JustSet, Recent, Ago
    <3>3. wanted[t] \in Nat /\ since[t] \in Nat /\ TickSub(ticks, op[c].read) \in Nat
      BY <1>4, TimerTypes, Readings
    <3>4. (IF Ahead(x) THEN MaxLate ELSE 0) \in Nat
      BY <3>1
    <3> QED
      BY <2>2, <3>1, <3>2, <3>3, <3>4
  <2>3. CASE x # t
    BY <1>3, <1>5, <2>1, <2>3 DEF Lateness
  <2> QED
    BY <2>2, <2>3
<1> QED
  BY <1>6, <1>7, <1>8, <1>9, <1>10, <1>11, <1>12

LEMMA DeleteFreeInv == ASSUME IInv, NEW c \in Agent, DeleteFree(c) PROVE IInv'
<1> USE DEF IInv
<1>1. /\ op[c].at = "free"
      /\ c = "thread" => poll.at = "idle" /\ op["service"].at = "idle"
      /\ allocated' = allocated \ {op[c].timer}
      /\ op' = [op EXCEPT ![c] = NoOp]
      /\ UNCHANGED <<ticks, list, timer, poll, age, since, wanted>>
  BY AtFacts DEF DeleteFree, Return, ghosts
<1>2. /\ op' \in [Agent -> Op] /\ op'[c].at = "idle" /\ op'[c] = NoOp
      /\ \A d \in Agent \ {c} : op'[d] = op[d]
  <2>1. NoOp.at = "idle"
    BY DEF NoOp
  <2> QED
    BY <1>1, <2>1, NoneTypes DEF TypeOK
<1>3. Linked' = Linked /\ Linked \subseteq Timer /\ \A x : Ahead(x)' <=> Ahead(x)
  BY <1>1, Unmoved DEF TypeOK
<1>4. op[c].timer \notin Linked
  BY <1>1 DEF OpShape
<1>5. TypeOK'
  BY <1>1, <1>2, <1>3, <1>4 DEF TypeOK
<1>6. PollShape'
  BY <1>1, <1>3 DEF PollShape
<1>7. OpShape'
  <2>1. \A d \in Agent \ {c} : op[d].at = "free" => op[d].timer # op[c].timer
    BY <1>1 DEF OpShape, Agent
  <2> QED
    BY <1>1, <1>2, <1>3, <2>1 DEF OpShape, Busy, Agent
<1>8. Recent' /\ JustSet'
  BY <1>1, <1>2 DEF Recent, JustSet, Busy, Ago, Agent
<1>9. ExpiryExact'
  <2>1. SUFFICES ASSUME NEW x \in Linked, timer[x].active \/ Set(x)' PROVE Exact(x)'
    BY <1>1, <1>3 DEF ExpiryExact
  <2>2. Set(x)' => Set(x)
    BY <1>1, <1>2 DEF Set, Agent
  <2> QED
    BY <1>1, <2>1, <2>2 DEF ExpiryExact, Exact, Ago
<1>10. Lateness'
  BY <1>1, <1>3 DEF Lateness
<1> QED
  BY <1>5, <1>6, <1>7, <1>8, <1>9, <1>10

LEMMA DeinitInv == ASSUME IInv, Deinit PROVE IInv'
<1> USE DEF IInv
<1>1. /\ list' = <<>> /\ allocated' = {} /\ UNCHANGED <<ticks, timer, poll, op, age, since, wanted>>
      /\ \A c \in Agent : op[c].at = "idle"
      /\ poll.at = "idle"
  BY IdleFacts DEF Deinit, Agent, ghosts
<1>2. list' \in Seq(Timer) /\ IsInjective(list') /\ Linked' = {}
  BY <1>1 DEF IsInjective, Linked, ToSet
<1>3. TypeOK'
  BY <1>1, <1>2 DEF TypeOK
<1>4. PollShape' /\ OpShape'
  BY <1>1 DEF PollShape, OpShape, Busy, Agent
<1>5. Recent' /\ JustSet'
  BY <1>1 DEF Recent, JustSet, Busy, Agent
<1>6. ExpiryExact' /\ Lateness'
  BY <1>2 DEF ExpiryExact, Lateness
<1> QED
  BY <1>3, <1>4, <1>5, <1>6

LEMMA CreateInv ==
  ASSUME IInv, NEW c \in Agent, NEW t \in Timer, NEW p \in Periods, NEW auto \in BOOLEAN,
         Create(c, t, p, auto)
  PROVE  IInv'
<1> USE DEF IInv
<1>1. /\ Idle(c) /\ t \notin allocated /\ allocated' = allocated \union {t}
      /\ timer' = [timer EXCEPT ![t] =
                     [period |-> p, expires_at |-> 0, auto_reload |-> auto, active |-> FALSE]]
      /\ list' = <<t>> \o list
      /\ UNCHANGED <<ticks, poll, op, age, since, wanted>>
  BY DEF Create, ghosts
<1>2. p \in Span /\ 0 \in Ticks
  BY SpanFact, HalfFact DEF Ticks
<1>3. /\ timer' \in [Timer -> Fields] /\ ~timer'[t].active
      /\ \A x \in Timer \ {t} : timer'[x] = timer[x]
  BY <1>1, <1>2 DEF TypeOK, Fields
<1>4. t \notin Linked /\ Linked \subseteq Timer /\ list \in Seq(Timer) /\ IsInjective(list)
  BY <1>1 DEF TypeOK
<1>5. /\ list' \in Seq(Timer) /\ IsInjective(list') /\ Linked' = {t} \cup Linked
      /\ Len(list') = Len(list) + 1 /\ \A i \in 1 .. Len(list) : list'[i + 1] = list[i]
  BY <1>1, <1>4, Pushed DEF Linked
<1>6. TypeOK'
  BY <1>1, <1>3, <1>5 DEF TypeOK
<1>7. PollShape'
  BY <1>1, <1>5 DEF PollShape
<1>8. OpShape'
  <2>1. \A d \in Agent : op[d].at = "free" => op[d].timer # t
    BY <1>1 DEF OpShape
  <2> QED
    BY <1>1, <1>5, <2>1 DEF OpShape, Busy
<1>9. Recent' /\ JustSet'
  BY <1>1 DEF Recent, JustSet, Busy, Ago
<1>10. ExpiryExact'
  <2>1. SUFFICES ASSUME NEW x \in Linked', timer'[x].active \/ Set(x)' PROVE Exact(x)'
    BY DEF ExpiryExact
  <2>2. Set(x)' <=> Set(x)
    BY <1>1 DEF Set
  <2>3. ~Set(t)
    BY <1>4 DEF Set, OpShape, Busy
  <2>4. x \in Linked /\ x # t /\ x \in Timer
    BY <1>3, <1>4, <1>5, <2>1, <2>2, <2>3
  <2>5. Exact(x) /\ timer'[x] = timer[x]
    BY <1>3, <2>1, <2>2, <2>4 DEF ExpiryExact
  <2> QED
    BY <1>1, <2>5 DEF Exact, Ago
<1>11. Lateness'
  <2>1. SUFFICES ASSUME NEW x \in Linked', timer'[x].active
                 PROVE  since[x] <= wanted[x] + MaxLate + age + (IF Ahead(x)' THEN MaxLate ELSE 0)
    BY <1>1 DEF Lateness
  <2>2. x \in Linked /\ x # t /\ x \in Timer /\ timer[x].active
    BY <1>3, <1>4, <1>5, <2>1
  <2>3. Ahead(x) => Ahead(x)'
    <3>1. SUFFICES ASSUME Ahead(x) PROVE Ahead(x)'
      OBVIOUS
    <3>2. PICK i, j \in DOMAIN list : list[i] = Cursor /\ list[j] = x /\ i <= j
      BY <3>1 DEF Ahead
    <3>3. i \in 1 .. Len(list) /\ j \in 1 .. Len(list) /\ Len(list) \in Nat
      BY <1>4
    <3>4. i + 1 \in 1 .. Len(list') /\ j + 1 \in 1 .. Len(list') /\ i + 1 <= j + 1
      BY <1>5, <3>2, <3>3
    <3>5. list'[i + 1] = Cursor /\ list'[j + 1] = x /\ DOMAIN list' = 1 .. Len(list')
      BY <1>5, <3>2, <3>3
    <3>6. Cursor' = Cursor
      BY <1>1 DEF Cursor
    <3> QED
      BY <3>4, <3>5, <3>6 DEF Ahead
  <2>4. since[x] <= wanted[x] + MaxLate + age + (IF Ahead(x) THEN MaxLate ELSE 0)
    BY <2>2 DEF Lateness
  <2> HIDE DEF IInv
  <2>5. age \in Nat /\ MaxLate \in Nat /\ since[x] \in Nat /\ wanted[x] \in Nat
    BY <2>2, Readings, TimerTypes DEF IInv
  <2>6. CASE Ahead(x)
    BY <2>3, <2>4, <2>6
  <2>7. CASE ~Ahead(x)
    <3>1. since[x] <= wanted[x] + MaxLate + age
      BY <2>4, <2>5, <2>7
    <3> QED
      BY <2>5, <3>1
  <2> QED
    BY <2>6, <2>7
<1> QED
  BY <1>6, <1>7, <1>8, <1>9, <1>10, <1>11

LEMMA DeleteInv == ASSUME IInv, NEW c \in Agent, NEW t \in Timer, Delete(c, t) PROVE IInv'
<1> USE DEF IInv
<1>1. /\ Idle(c) /\ t \in Linked /\ \A d \in Agent : op[d].timer # t
      /\ poll.at = "callback" => t = poll.timer
      /\ op' = [op EXCEPT ![c] = [NoOp EXCEPT !.at = "free", !.timer = t]]
      /\ UNCHANGED <<ticks, timer, allocated, poll, age, since, wanted>>
  BY DEF Delete, Uses, Contains, Linked, ToSet, ghosts, TypeOK
<1>2. list \in Seq(Timer) /\ IsInjective(list) /\ Linked \subseteq Timer
      /\ DOMAIN list = 1 .. Len(list) /\ Len(list) \in Nat
  BY DEF TypeOK
<1>3. PICK i \in 1 .. Len(list) : list[i] = t /\ list' = RemoveAt(list, i)
  BY <1>2 DEF Delete
<1>4. /\ list' \in Seq(Timer) /\ IsInjective(list') /\ Linked' = Linked \ {t}
      /\ Len(list') = Len(list) - 1
      /\ \A j \in 1 .. Len(list) : /\ j < i => list'[j] = list[j]
                                   /\ j > i => list'[j - 1] = list[j]
  BY <1>2, <1>3, Dropped DEF Linked
<1>5. /\ op[c] = NoOp /\ op[c].at = "idle"
      /\ c = "thread" => poll.at = "idle" /\ op["service"].at = "idle"
      /\ c = "service" => poll.at # "look"
  BY <1>1, IdleFacts
<1>6. poll.at # "look"
  BY <1>5 DEF Agent
<1>7. /\ op' \in [Agent -> Op] /\ op'[c].at = "free" /\ op'[c].timer = t
      /\ \A d \in Agent \ {c} : op'[d] = op[d]
  <2>1. [NoOp EXCEPT !.at = "free", !.timer = t] \in Op
    BY NoneTypes DEF Op
  <2>2. [NoOp EXCEPT !.at = "free", !.timer = t].at = "free" /\ [NoOp EXCEPT !.at = "free", !.timer = t].timer = t
    BY DEF NoOp
  <2> QED
    BY <1>1, <2>1, <2>2 DEF TypeOK
<1>8. TypeOK'
  BY <1>1, <1>4, <1>7 DEF TypeOK
<1>9. PollShape'
  BY <1>1, <1>4, <1>6 DEF PollShape
<1>10. OpShape'
  <2>1. t \in allocated
    BY <1>1 DEF TypeOK
  <2>2. /\ op'[c].timer \in allocated' \ Linked' /\ op'[c].at = "free"
        /\ \A d \in Agent \ {c} : /\ op[d].timer # t /\ op'[d] = op[d]
                                  /\ op[d].at = "idle" => op[d] = NoOp
                                  /\ op[d].at = "free" => op[d].timer \in allocated' \ Linked'
                                  /\ Busy(d) => op[d].timer \in Linked'
    BY <1>1, <1>4, <1>7, <2>1 DEF OpShape
  <2> QED
    BY <1>1, <1>6, <1>7, <2>2 DEF OpShape, Busy, Agent
<1>11. \A d \in Agent : op'[d].at \notin {"idle", "free"} => op'[d] = op[d] /\ d # c
  BY <1>7
<1>12. Recent' /\ JustSet'
  BY <1>1, <1>5, <1>7, <1>11 DEF Recent, JustSet, Busy, Ago, Agent
<1>13. ExpiryExact'
  <2>1. SUFFICES ASSUME NEW x \in Linked', timer[x].active \/ Set(x)' PROVE Exact(x)'
    BY <1>1 DEF ExpiryExact
  <2>2. Set(x)' => Set(x)
    BY <1>5, <1>7, <1>11 DEF Set, Agent
  <2> QED
    BY <1>1, <1>4, <2>1, <2>2 DEF ExpiryExact, Exact, Ago
<1>14. Lateness'
  <2>1. SUFFICES ASSUME NEW x \in Linked', timer[x].active
                 PROVE  since[x] <= wanted[x] + MaxLate + age + (IF Ahead(x)' THEN MaxLate ELSE 0)
    BY <1>1 DEF Lateness
  <2>2. x \in Linked /\ x # t /\ x \in Timer
    BY <1>2, <1>4, <2>1
  <2>3. Ahead(x) => Ahead(x)'
    <3>1. SUFFICES ASSUME Ahead(x) PROVE Ahead(x)'
      OBVIOUS
    <3>2. PICK a, b \in 1 .. Len(list) : list[a] = Cursor /\ list[b] = x /\ a <= b
      BY <1>2, <3>1 DEF Ahead
    <3>3. Cursor' = Cursor
      BY <1>1 DEF Cursor
    <3>4. Cursor \in Timer /\ Cursor # NoTimer
      BY <1>2, <3>2, TimersAssumption
    <3>5. Cursor # t
      BY <1>1, <1>6, <3>4 DEF Cursor, PollShape
    <3>6. a # i /\ b # i
      BY <1>3, <2>2, <3>2, <3>5
    <3>7. PICK k, l \in 1 .. Len(list') : list'[k] = Cursor /\ list'[l] = x /\ k <= l
      <4>1. CASE a < i /\ b < i
        BY <1>2, <1>4, <3>2, <4>1
      <4>2. CASE a < i /\ b > i
        <5>1. b - 1 \in 1 .. Len(list') /\ a \in 1 .. Len(list') /\ a <= b - 1
          BY <1>2, <1>4, <4>2
        <5>2. list'[a] = Cursor /\ list'[b - 1] = x
          BY <1>4, <3>2, <4>2
        <5> QED
          BY <5>1, <5>2
      <4>3. CASE a > i /\ b > i
        <5>1. b - 1 \in 1 .. Len(list') /\ a - 1 \in 1 .. Len(list') /\ a - 1 <= b - 1
          BY <1>2, <1>4, <3>2, <4>3
        <5>2. list'[a - 1] = Cursor /\ list'[b - 1] = x
          BY <1>4, <3>2, <4>3
        <5> QED
          BY <5>1, <5>2
      <4> QED
        BY <3>2, <3>6, <4>1, <4>2, <4>3
    <3>8. DOMAIN list' = 1 .. Len(list')
      BY <1>4
    <3> QED
      BY <3>3, <3>7, <3>8 DEF Ahead
  <2>4. since[x] <= wanted[x] + MaxLate + age + (IF Ahead(x) THEN MaxLate ELSE 0)
    BY <2>1, <2>2 DEF Lateness
  <2>5. age \in Nat /\ MaxLate \in Nat /\ since[x] \in Nat /\ wanted[x] \in Nat
    BY <2>2, Readings, TimerTypes
  <2>6. CASE Ahead(x)
    BY <2>3, <2>4, <2>6
  <2>7. CASE ~Ahead(x)
    <3>1. since[x] <= wanted[x] + MaxLate + age
      BY <2>4, <2>5, <2>7
    <3> QED
      BY <2>5, <3>1
  <2> QED
    BY <2>6, <2>7
<1> QED
  BY <1>8, <1>9, <1>10, <1>12, <1>13, <1>14

\* Nothing is ahead of a poll that is over.
LEMMA NoneAhead ==
  ASSUME TypeOK, poll.at = "idle", NEW x
  PROVE  ~Ahead(x)
<1>1. Cursor = NoTimer /\ \A i \in DOMAIN list : list[i] \in Timer
  BY DEF Cursor, TypeOK
<1> QED
  BY <1>1, TimersAssumption DEF Ahead

\* Before the poll looks at it, a timer has waited no longer than a poll, a call and the
\* time since; and so the comparison of the readings tells whether it is over.
LEMMA DueElapsed ==
  ASSUME IInv, NEW x \in Linked, timer[x].active, NEW n \in Ticks, TickSub(ticks, n) <= MaxLate,
         poll.at = "idle" \/ TickSub(ticks, n) = age
  PROVE  Due(x, n) <=> since[x] >= wanted[x] + TickSub(ticks, n)
<1> USE DEF IInv
<1>1. x \in Timer /\ ticks \in Ticks
  BY DEF TypeOK
<1>2. /\ since[x] \in Nat /\ wanted[x] \in Span /\ wanted[x] \in Nat
      /\ timer[x].expires_at \in Ticks
  BY <1>1, TimerTypes
<1>3. TickSub(ticks, timer[x].expires_at) = TickSub(since[x], wanted[x])
  BY DEF ExpiryExact, Exact, Ago
<1>4. since[x] <= wanted[x] + 2 * MaxLate + TickSub(ticks, n)
  <2>1. since[x] <= wanted[x] + MaxLate + age + (IF Ahead(x) THEN MaxLate ELSE 0)
    BY DEF Lateness
  <2>2. MaxLate \in Nat /\ age \in Nat /\ age <= MaxLate /\ TickSub(ticks, n) \in Nat
    <3>1. MaxLate \in Nat /\ age \in Nat /\ age <= MaxLate
      BY SpanFact DEF TypeOK
    <3>2. TickSub(ticks, n) \in Ticks
      BY <1>1, TickTypes
    <3> QED
      BY <3>1, <3>2, HalfFact DEF Ticks
  <2>3. CASE poll.at = "idle"
    <3>1. since[x] <= wanted[x] + MaxLate + age
      BY <1>2, <2>1, <2>2, <2>3, NoneAhead
    <3> QED
      BY <1>2, <2>2, <3>1
  <2>4. CASE TickSub(ticks, n) = age
    <3>1. since[x] <= wanted[x] + MaxLate + age + MaxLate
      BY <1>2, <2>1, <2>2
    <3> QED
      BY <1>2, <2>2, <2>4, <3>1
  <2> QED
    BY <2>3, <2>4
<1>5. Reached(n, timer[x].expires_at) <=> since[x] >= wanted[x] + TickSub(ticks, n)
  BY <1>1, <1>2, <1>3, <1>4, ReachedElapsed
<1> QED
  BY <1>5 DEF Due

\* A timer that was within its bound still is when the poll comes no nearer.
LEMMA StillWithin ==
  ASSUME NEW s \in Nat, NEW b \in Nat, NEW P, NEW Q, P => Q,
         s <= b + (IF P THEN MaxLate ELSE 0)
  PROVE  s <= b + (IF Q THEN MaxLate ELSE 0)
<1>1. MaxLate \in Nat
  BY SpanFact
<1>2. CASE P
  BY <1>2
<1>3. CASE ~P
  BY <1>1, <1>3
<1> QED
  BY <1>2, <1>3

LEMMA PollSkipInv == ASSUME IInv, PollSkip PROVE IInv'
<1> USE DEF IInv
<1>1. /\ poll = NoPoll /\ poll.at = "idle" /\ ~TimerPending /\ age' = 0
      /\ UNCHANGED <<ticks, list, timer, allocated, poll, op, since, wanted>>
  BY DEF PollSkip, ghosts, NoPoll
<1>2. Linked' = Linked /\ Linked \subseteq Timer /\ \A x : Ahead(x)' <=> Ahead(x)
  BY <1>1, Unmoved DEF TypeOK
<1>3. TypeOK'
  <2>1. 0 \in 0 .. MaxLate
    BY SpanFact
  <2> QED
    BY <1>1, <1>2, <2>1 DEF TypeOK
<1>4. PollShape' /\ OpShape' /\ Recent' /\ JustSet'
  BY <1>1, <1>2 DEF PollShape, OpShape, Recent, JustSet, Busy, Ago
<1>5. ExpiryExact'
  BY <1>1, <1>2 DEF ExpiryExact, Set, Exact, Ago
<1>6. Lateness'
  <2>1. SUFFICES ASSUME NEW x \in Linked, timer[x].active
                 PROVE  since[x] <= wanted[x] + MaxLate + 0 + (IF Ahead(x) THEN MaxLate ELSE 0)
    BY <1>1, <1>2 DEF Lateness
  <2>2. ticks \in Ticks /\ TickSub(ticks, ticks) = 0 /\ MaxLate \in Nat
    BY Readings DEF TypeOK
  <2>3. ~Due(x, ticks)
    BY <1>1 DEF TimerPending, Linked
  <2>4. ~(since[x] >= wanted[x] + 0)
    BY <1>1, <2>1, <2>2, <2>3, DueElapsed
  <2>5. since[x] \in Nat /\ wanted[x] \in Nat
    BY <1>2, TimerTypes
  <2> QED
    BY <2>2, <2>4, <2>5
<1> QED
  BY <1>3, <1>4, <1>5, <1>6

LEMMA PollBeginInv == ASSUME IInv, PollBegin PROVE IInv'
<1> USE DEF IInv
<1>1. /\ poll = NoPoll /\ poll.at = "idle" /\ op["service"] = NoOp /\ op["service"].at = "idle"
      /\ poll' = IF list = <<>> THEN NoPoll
                 ELSE [at |-> "look", now |-> ticks, timer |-> Head(list), next |-> NoTimer]
      /\ age' = 0
      /\ UNCHANGED <<ticks, list, timer, allocated, op, since, wanted>>
  BY DEF PollBegin, ghosts, NoPoll, NoOp
<1>2. Linked' = Linked /\ Linked \subseteq Timer /\ list \in Seq(Timer) /\ ticks \in Ticks
  BY <1>1 DEF TypeOK, Linked
<1>3. \/ list = <<>> /\ poll' = NoPoll /\ poll'.at = "idle"
      \/ /\ Len(list) \in Nat /\ Len(list) >= 1 /\ list[1] \in Linked
         /\ poll'.at = "look" /\ poll'.now = ticks /\ poll'.timer = list[1] /\ poll'.next = NoTimer
         /\ poll' = [at |-> "look", now |-> ticks, timer |-> list[1], next |-> NoTimer]
  <2>1. CASE list = <<>>
    BY <1>1, <2>1 DEF NoPoll
  <2>2. CASE list # <<>>
    <3>1. Len(list) \in Nat /\ Len(list) >= 1 /\ Head(list) = list[1] /\ 1 \in 1 .. Len(list)
      BY <1>2, <2>2
    <3>2. list[1] \in Linked
      BY <1>2, <3>1, LinkedIndex DEF Linked
    <3> QED
      BY <1>1, <2>2, <3>1, <3>2
  <2> QED
    BY <2>1, <2>2
<1>4. poll' \in Poll
  <2>1. CASE poll' = NoPoll
    BY <2>1, NoneTypes
  <2>2. CASE poll' = [at |-> "look", now |-> ticks, timer |-> list[1], next |-> NoTimer] /\ list[1] \in Linked
    BY <1>2, <2>2 DEF Poll
  <2> QED
    BY <1>3, <2>1, <2>2
<1>5. TypeOK'
  <2>1. 0 \in 0 .. MaxLate
    BY SpanFact
  <2> QED
    BY <1>1, <1>2, <1>4, <2>1 DEF TypeOK
<1>6. PollShape'
  BY <1>2, <1>3 DEF PollShape
<1>7. OpShape'
  BY <1>1, <1>2 DEF OpShape, Busy, Agent
<1>8. Recent'
  <2>1. /\ TickSub(ticks, ticks) = 0 /\ age \in Nat /\ MaxLate \in Nat
        /\ \A d \in Agent : TickSub(ticks, op[d].read) \in Nat
    BY Readings
  <2> QED
    BY <1>1, <1>3, <2>1 DEF Recent, Busy, Ago, Agent
<1>9. ExpiryExact' /\ JustSet'
  BY <1>1, <1>2 DEF ExpiryExact, Set, Exact, JustSet, Ago
<1>10. Lateness'
  <2>1. SUFFICES ASSUME NEW x \in Linked, timer[x].active
                 PROVE  since[x] <= wanted[x] + MaxLate + 0 + (IF Ahead(x)' THEN MaxLate ELSE 0)
    BY <1>1, <1>2 DEF Lateness
  <2>2. PICK j \in 1 .. Len(list) : list[j] = x
    BY <1>2, LinkedIndex DEF Linked
  <2>3. list # <<>>
    BY <2>2
  <2>4. 1 \in DOMAIN list /\ j \in DOMAIN list /\ 1 <= j
    BY <1>2, <1>3, <2>2, <2>3
  <2>5. Cursor' = list[1]
    BY <1>3, <2>3 DEF Cursor
  <2>6. Ahead(x)'
    BY <1>1, <2>2, <2>4, <2>5 DEF Ahead
  <2>7. since[x] \in Nat /\ wanted[x] \in Nat /\ age \in Nat /\ MaxLate \in Nat /\ age <= MaxLate
    BY <1>2, TimerTypes, Readings DEF TypeOK
  <2>8. since[x] <= wanted[x] + MaxLate + age
    BY <1>1, <2>1, <2>7, NoneAhead DEF Lateness
  <2> QED
    BY <2>6, <2>7, <2>8
<1> QED
  BY <1>5, <1>6, <1>7, <1>8, <1>9, <1>10

\* Going on to the next timer leaves every other one before the poll that was.
LEMMA AheadOfNext ==
  ASSUME TypeOK, UNCHANGED list, poll.at = "look", poll.timer \in Linked,
         Cursor' = NextOf(poll.timer), NEW x, x # poll.timer, Ahead(x)
  PROVE  Ahead(x)'
<1>1. DOMAIN list = 1 .. Len(list) /\ Len(list) \in Nat /\ IsInjective(list)
  BY DEF TypeOK
<1>2. PICK i, j \in DOMAIN list : list[i] = poll.timer /\ list[j] = x /\ i <= j
  BY DEF Ahead, Cursor
<1>3. PICK k \in 1 .. Len(list) :
        /\ list[k] = poll.timer
        /\ k < Len(list) => k + 1 \in 1 .. Len(list) /\ NextOf(poll.timer) = list[k + 1]
  BY NextOfFact
<1>4. i = k /\ j # i
  BY <1>1, <1>2, <1>3 DEF IsInjective
<1>5. k + 1 \in DOMAIN list /\ k + 1 <= j /\ list[k + 1] = Cursor'
  BY <1>1, <1>2, <1>3, <1>4
<1> QED
  BY <1>2, <1>5 DEF Ahead

LEMMA NextOfType ==
  ASSUME TypeOK, NEW t \in Linked
  PROVE  NextOf(t) = NoTimer \/ (NextOf(t) \in Linked /\ NextOf(t) # t)
<1>1. PICK k \in 1 .. Len(list) :
        /\ k = Len(list) => NextOf(t) = NoTimer
        /\ k < Len(list) => NextOf(t) \in Linked /\ NextOf(t) # t
  BY NextOfFact
<1>2. Len(list) \in Nat
  BY DEF TypeOK
<1>3. k = Len(list) \/ k < Len(list)
  BY <1>2
<1> QED
  BY <1>1, <1>3

LEMMA PassByInv == ASSUME IInv, PassBy PROVE IInv'
<1> USE DEF IInv
<1> DEFINE t == poll.timer
           n == NextOf(t)
<1>1. /\ poll.at = "look" /\ ~Due(t, poll.now)
      /\ poll' = IF n = NoTimer THEN NoPoll
                 ELSE [poll EXCEPT !.at = "look", !.timer = n, !.next = NoTimer]
      /\ UNCHANGED <<ticks, list, timer, allocated, op, age, since, wanted>>
  BY DEF PassBy, Visit, ghosts
<1>2. t \in Linked /\ Linked' = Linked /\ Linked \subseteq Timer
  BY <1>1 DEF TypeOK, PollShape, Linked
<1>3. n = NoTimer \/ (n \in Linked /\ n # t)
  BY <1>2, NextOfType
<1> HIDE DEF n
<1>4. /\ poll' \in Poll
      /\ \/ n = NoTimer /\ poll' = NoPoll /\ poll'.at = "idle"
         \/ n \in Linked /\ poll'.at = "look" /\ poll'.timer = n /\ poll'.now = poll.now
  <2>1. CASE n = NoTimer
    BY <1>1, <2>1, NoneTypes DEF NoPoll
  <2>2. CASE n # NoTimer
    <3>1. n \in Linked /\ n \in Timer
      BY <1>2, <1>3, <2>2
    <3> QED
      BY <1>1, <2>2, <3>1 DEF TypeOK, Poll
  <2> QED
    BY <2>1, <2>2
<1>5. TypeOK'
  BY <1>1, <1>2, <1>4 DEF TypeOK
<1>6. PollShape'
  BY <1>2, <1>4 DEF PollShape
<1>7. OpShape'
  BY <1>1, <1>2 DEF OpShape, Busy, Agent
<1>8. Recent'
  BY <1>1, <1>4 DEF Recent, Busy, Ago
<1>9. ExpiryExact' /\ JustSet'
  BY <1>1, <1>2 DEF ExpiryExact, Set, Exact, JustSet, Ago
<1>10. Lateness'
  <2>1. SUFFICES ASSUME NEW x \in Linked, timer[x].active
                 PROVE  since[x] <= wanted[x] + MaxLate + age + (IF Ahead(x)' THEN MaxLate ELSE 0)
    BY <1>1, <1>2 DEF Lateness
  <2>2. since[x] \in Nat /\ wanted[x] \in Nat /\ age \in Nat /\ MaxLate \in Nat /\ age <= MaxLate
    BY <1>2, TimerTypes, Readings DEF TypeOK
  <2>3. CASE x = t
    <3>1. TickSub(ticks, poll.now) = age /\ poll.now \in Ticks
      BY <1>1, Readings DEF Recent, Ago
    <3>2. ~(since[x] >= wanted[x] + age)
      BY <1>1, <2>1, <2>2, <2>3, <3>1, DueElapsed
    <3>3. (IF Ahead(x)' THEN MaxLate ELSE 0) \in Nat
      BY <2>2
    <3> QED
      BY <2>2, <3>2, <3>3
  <2>4. CASE x # t
    <3>1. Cursor' = n
      BY <1>4 DEF Cursor, NoPoll
    <3>2. Ahead(x) => Ahead(x)'
      BY <1>1, <1>2, <2>4, <3>1, AheadOfNext DEF n
    <3>3. since[x] <= (wanted[x] + MaxLate + age) + (IF Ahead(x) THEN MaxLate ELSE 0)
      BY <2>1 DEF Lateness
    <3>4. wanted[x] + MaxLate + age \in Nat
      BY <2>2
    <3> QED
      BY <2>2, <3>2, <3>3, <3>4, StillWithin
  <2> QED
    BY <2>3, <2>4
<1> QED
  BY <1>5, <1>6, <1>7, <1>8, <1>9, <1>10

LEMMA CalledBackInv == ASSUME IInv, CalledBack PROVE IInv'
<1> USE DEF IInv
<1> DEFINE n == poll.next
<1>1. /\ poll.at = "callback" /\ op["service"] = NoOp
      /\ poll' = IF n = NoTimer THEN NoPoll
                 ELSE [poll EXCEPT !.at = "look", !.timer = n, !.next = NoTimer]
      /\ UNCHANGED <<ticks, list, timer, allocated, op, age, since, wanted>>
  BY DEF CalledBack, Visit, ghosts
<1>2. Linked' = Linked /\ Linked \subseteq Timer
  BY <1>1 DEF TypeOK, Linked
<1>3. n = NoTimer \/ n \in Linked
  BY <1>1 DEF PollShape
<1>4. /\ poll' \in Poll
      /\ \/ n = NoTimer /\ poll' = NoPoll /\ poll'.at = "idle"
         \/ n \in Linked /\ poll'.at = "look" /\ poll'.timer = n /\ poll'.now = poll.now
  <2>1. CASE n = NoTimer
    BY <1>1, <2>1, NoneTypes DEF NoPoll
  <2>2. CASE n # NoTimer
    <3>1. n \in Linked /\ n \in Timer
      BY <1>2, <1>3, <2>2
    <3> QED
      BY <1>1, <2>2, <3>1 DEF TypeOK, Poll
  <2> QED
    BY <2>1, <2>2
<1>5. TypeOK'
  BY <1>1, <1>2, <1>4 DEF TypeOK
<1>6. PollShape'
  BY <1>2, <1>4 DEF PollShape
<1>7. OpShape'
  <2>1. op["service"].at = "idle"
    BY <1>1 DEF NoOp
  <2> QED
    BY <1>1, <1>2, <2>1 DEF OpShape, Busy, Agent
<1>8. Recent'
  BY <1>1, <1>4 DEF Recent, Busy, Ago
<1>9. ExpiryExact' /\ JustSet'
  BY <1>1, <1>2 DEF ExpiryExact, Set, Exact, JustSet, Ago
<1>10. Lateness'
  <2>1. Cursor' = Cursor
    BY <1>1, <1>4 DEF Cursor
  <2>2. \A x : Ahead(x)' <=> Ahead(x)
    BY <1>1, <2>1 DEF Ahead
  <2> QED
    BY <1>1, <1>2, <2>2 DEF Lateness
<1> QED
  BY <1>5, <1>6, <1>7, <1>8, <1>9, <1>10

LEMMA ExpireInv == ASSUME IInv, Expire PROVE IInv'
<1> USE DEF IInv
<1> DEFINE t == poll.timer
           n == NextOf(t)
<1>1. /\ poll.at = "look"
      /\ poll' = [poll EXCEPT !.at = "callback", !.next = n]
      /\ UNCHANGED <<ticks, list, allocated, op, age>>
  BY DEF Expire
<1>2. t \in Linked /\ Linked' = Linked /\ Linked \subseteq Timer /\ t \in Timer
  BY <1>1 DEF TypeOK, PollShape, Linked
<1>3. n = NoTimer \/ (n \in Linked /\ n # t)
  BY <1>2, NextOfType
<1> HIDE DEF n
<1>4. /\ poll' \in Poll /\ poll'.at = "callback" /\ poll'.timer = t /\ poll'.now = poll.now
      /\ poll'.next = n
  BY <1>1, <1>2, <1>3 DEF TypeOK, Poll
<1>5. /\ TickSub(ticks, poll.now) = age /\ poll.now \in Ticks /\ age \in 0 .. CLOCK
      /\ age \in Nat /\ MaxLate \in Nat /\ ticks \in Ticks
  <2>1. TickSub(ticks, poll.now) = age /\ poll.now \in Ticks /\ ticks \in Ticks
    BY <1>1, Readings DEF Recent, Ago, TypeOK
  <2>2. age \in 0 .. MaxLate /\ MaxLate \in Nat
    BY SpanFact DEF TypeOK
  <2> QED
    BY <2>1, <2>2, SpanFact, HalfFact
<1>6. /\ timer[t].period \in Span /\ timer[t].period \in Ticks /\ timer[t].period \in Nat
      /\ TickAdd(poll.now, timer[t].period) \in Ticks
  <2>1. timer[t].period \in Span
    BY <1>2, TimerTypes
  <2>2. timer[t].period \in Ticks /\ Ticks \subseteq Nat
    <3>1. timer[t].period \in Ticks
      BY <2>1, SpanFact
    <3>2. Ticks \subseteq Nat
      BY HalfFact DEF Ticks
    <3> QED
      BY <3>1, <3>2
  <2> QED
    BY <1>5, <2>1, <2>2, TickTypes
<1>7. \/ /\ timer' = [timer EXCEPT ![t].expires_at = TickAdd(poll.now, timer[t].period)]
         /\ wanted' = [wanted EXCEPT ![t] = timer[t].period]
         /\ since' = [since EXCEPT ![t] = age]
      \/ timer' = [timer EXCEPT ![t].active = FALSE] /\ since' = since /\ wanted' = wanted
  BY <1>5 DEF Expire, Counts, ghosts
<1>8. /\ timer' \in [Timer -> Fields]
      /\ \A x \in Timer \ {t} : timer'[x] = timer[x]
  <2>1. timer \in [Timer -> Fields] /\ timer[t] \in Fields
    BY <1>2 DEF TypeOK
  <2>2. CASE timer' = [timer EXCEPT ![t].active = FALSE]
    BY <1>2, <2>1, <2>2 DEF Fields
  <2>3. CASE timer' = [timer EXCEPT ![t].expires_at = TickAdd(poll.now, timer[t].period)]
    BY <1>2, <1>6, <2>1, <2>3 DEF Fields
  <2> QED
    BY <1>7, <2>2, <2>3
<1>9. /\ since' \in [Timer -> 0 .. CLOCK] /\ wanted' \in [Timer -> Span]
      /\ \A x \in Timer \ {t} : since'[x] = since[x] /\ wanted'[x] = wanted[x]
  BY <1>2, <1>5, <1>6, <1>7 DEF TypeOK
<1>10. \/ /\ ~timer'[t].active /\ timer'[t].expires_at = timer[t].expires_at
          /\ since'[t] = since[t] /\ wanted'[t] = wanted[t]
       \/ /\ timer'[t].expires_at = TickAdd(poll.now, timer[t].period)
          /\ since'[t] = age /\ wanted'[t] = timer[t].period
  <2>1. timer \in [Timer -> Fields] /\ since \in [Timer -> 0 .. CLOCK] /\ wanted \in [Timer -> Span]
    BY DEF TypeOK
  <2>2. CASE timer' = [timer EXCEPT ![t].active = FALSE] /\ since' = since /\ wanted' = wanted
    BY <1>2, <2>1, <2>2 DEF Fields
  <2>3. CASE /\ timer' = [timer EXCEPT ![t].expires_at = TickAdd(poll.now, timer[t].period)]
             /\ wanted' = [wanted EXCEPT ![t] = timer[t].period]
             /\ since' = [since EXCEPT ![t] = age]
    <3>1. timer'[t].expires_at = TickAdd(poll.now, timer[t].period)
      BY <1>2, <2>1, <2>3 DEF Fields
    <3>2. since'[t] = age /\ wanted'[t] = timer[t].period
      BY <1>2, <2>1, <2>3
    <3> QED
      BY <3>1, <3>2
  <2> QED
    BY <1>7, <2>2, <2>3
<1>11. TypeOK'
  BY <1>1, <1>2, <1>4, <1>8, <1>9 DEF TypeOK
<1>12. PollShape'
  BY <1>2, <1>3, <1>4 DEF PollShape
<1>13. OpShape'
  BY <1>1, <1>2, <1>4 DEF OpShape, Busy, Agent
<1>14. Recent'
  BY <1>1, <1>4 DEF Recent, Busy, Ago
<1>15. \A x : Set(x)' <=> Set(x)
  BY <1>1 DEF Set
<1>16. ExpiryExact'
  <2>1. SUFFICES ASSUME NEW x \in Linked, timer'[x].active \/ Set(x)' PROVE Exact(x)'
    BY <1>2 DEF ExpiryExact
  <2>2. CASE x # t
    <3>1. Exact(x)
      BY <1>2, <1>8, <1>15, <2>1, <2>2 DEF ExpiryExact
    <3> QED
      BY <1>1, <1>2, <1>8, <1>9, <2>2, <3>1 DEF Exact, Ago
  <2>3. CASE x = t /\ /\ ~timer'[t].active /\ timer'[t].expires_at = timer[t].expires_at
                      /\ since'[t] = since[t] /\ wanted'[t] = wanted[t]
    <3>1. Exact(x)
      BY <1>15, <2>1, <2>3 DEF ExpiryExact
    <3> QED
      BY <1>1, <2>3, <3>1 DEF Exact, Ago
  <2>4. CASE x = t /\ /\ timer'[t].expires_at = TickAdd(poll.now, timer[t].period)
                      /\ since'[t] = age /\ wanted'[t] = timer[t].period
    <3>1. TickSub(ticks, TickAdd(poll.now, timer[t].period)) = TickSub(age, timer[t].period)
      BY <1>5, <1>6, ExpiryAfter
    <3> QED
      BY <1>1, <2>4, <3>1 DEF Exact, Ago
  <2> QED
    BY <1>10, <2>2, <2>3, <2>4
<1>17. JustSet'
  <2>1. SUFFICES ASSUME NEW d \in Agent, op[d].at = "activate"
                 PROVE  since'[op[d].timer] <= TickSub(ticks, op[d].read)
    BY <1>1 DEF JustSet, Ago
  <2>2. d = "thread" /\ Busy(d) /\ op[d].timer \in Timer
    BY <1>1, <1>2, <2>1 DEF OpShape, Busy, Agent
  <2>3. since[op[d].timer] <= TickSub(ticks, op[d].read) /\ age <= TickSub(ticks, op[d].read)
    BY <1>1, <2>1, <2>2 DEF JustSet, Recent, Ago
  <2> QED
    BY <1>9, <1>10, <2>2, <2>3
<1>18. Lateness'
  <2>1. SUFFICES ASSUME NEW x \in Linked, timer'[x].active
                 PROVE  since'[x] <= wanted'[x] + MaxLate + age + (IF Ahead(x)' THEN MaxLate ELSE 0)
    BY <1>1, <1>2 DEF Lateness
  <2>2. CASE x = t
    <3>1. since'[x] = age /\ wanted'[x] = timer[t].period
      BY <1>10, <2>1, <2>2
    <3>2. (IF Ahead(x)' THEN MaxLate ELSE 0) \in Nat
      BY <1>5
    <3> QED
      BY <1>5, <1>6, <3>1, <3>2
  <2>3. CASE x # t
    <3>1. Cursor' = n
      BY <1>4 DEF Cursor
    <3>2. Ahead(x) => Ahead(x)'
      BY <1>1, <1>2, <2>3, <3>1, AheadOfNext DEF n
    <3>3. timer[x].active /\ since'[x] = since[x] /\ wanted'[x] = wanted[x] /\ x \in Timer
      BY <1>2, <1>8, <1>9, <2>1, <2>3
    <3>4. since[x] <= (wanted[x] + MaxLate + age) + (IF Ahead(x) THEN MaxLate ELSE 0)
      BY <3>3 DEF Lateness
    <3>5. wanted[x] + MaxLate + age \in Nat /\ since[x] \in Nat
      BY <1>5, <3>3, TimerTypes
    <3> QED
      BY <3>2, <3>3, <3>4, <3>5, StillWithin
  <2> QED
    BY <2>2, <2>3
<1> QED
  BY <1>11, <1>12, <1>13, <1>14, <1>16, <1>17, <1>18

\* And a time that is gone is a tick longer.
LEMMA SinceLonger ==
  ASSUME NEW s \in Ticks, NEW w \in Ticks, s < CLOCK - 1
  PROVE  TickSub(s + 1, w) = IF TickSub(s, w) = CLOCK - 1 THEN 0 ELSE TickSub(s, w) + 1
BY HalfFact DEF Ticks, TickSub

LEMMA TickInv == ASSUME IInv, Tick PROVE IInv'
<1> USE DEF IInv
<1>1. /\ age < MaxLate /\ ticks' = TickAdd(ticks, 1) /\ age' = age + 1
      /\ since' = [t \in Timer |-> IF since[t] < CLOCK THEN since[t] + 1 ELSE since[t]]
      /\ UNCHANGED <<list, timer, allocated, poll, op, wanted>>
  BY DEF Tick
<1>2. \A c \in Agent : Busy(c) => TickSub(ticks, op[c].read) < MaxLate
  BY DEF Tick, Busy, NoOp
<1>3. /\ ticks \in Ticks /\ age \in Nat /\ MaxLate \in Nat /\ MaxLate < CLOCK - 1
      /\ \A d \in Agent : op[d].read \in Ticks /\ TickSub(ticks, op[d].read) \in Nat
      /\ poll.now \in Ticks
  BY Readings, SpanFact, HalfFact DEF TypeOK
<1>4. Linked' = Linked /\ Linked \subseteq Timer /\ \A x : Ahead(x)' <=> Ahead(x)
  BY <1>1, Unmoved DEF TypeOK
<1>5. \A x \in Ticks : TickSub(ticks, x) < CLOCK - 1 => TickSub(ticks', x) = TickSub(ticks, x) + 1
  <2>1. SUFFICES ASSUME NEW x \in Ticks, TickSub(ticks, x) < CLOCK - 1
                 PROVE  TickSub(ticks', x) = TickSub(ticks, x) + 1
    OBVIOUS
  <2>2. TickSub(ticks, x) # CLOCK - 1
    <3>1. TickSub(ticks, x) \in Ticks
      BY <1>3, TickTypes
    <3> QED
      BY <2>1, <3>1, HalfFact DEF Ticks
  <2> QED
    BY <1>1, <1>3, <2>2, TickOlder
<1>6. \A c \in Agent : Busy(c) => TickSub(ticks', op[c].read) = TickSub(ticks, op[c].read) + 1
  <2>1. SUFFICES ASSUME NEW c \in Agent, Busy(c)
                 PROVE  TickSub(ticks', op[c].read) = TickSub(ticks, op[c].read) + 1
    OBVIOUS
  <2>2. TickSub(ticks, op[c].read) < CLOCK - 1
    BY <1>2, <1>3, <2>1, HalfFact
  <2> QED
    BY <1>3, <1>5, <2>2
<1>7. poll.at # "idle" => TickSub(ticks, poll.now) = age /\ TickSub(ticks', poll.now) = age + 1
  <2>1. SUFFICES ASSUME poll.at # "idle"
                 PROVE  TickSub(ticks, poll.now) = age /\ TickSub(ticks', poll.now) = age + 1
    OBVIOUS
  <2>2. TickSub(ticks, poll.now) = age
    BY <2>1 DEF Recent, Ago
  <2>3. age < CLOCK - 1
    BY <1>1, <1>3, HalfFact
  <2> QED
    BY <1>3, <1>5, <2>2, <2>3
<1>8. \A x \in Timer : since[x] \in 0 .. CLOCK
  BY DEF TypeOK
<1>9. \A x \in Timer : since'[x] \in 0 .. CLOCK /\ since'[x] <= since[x] + 1
  <2>1. SUFFICES ASSUME NEW x \in Timer PROVE since'[x] \in 0 .. CLOCK /\ since'[x] <= since[x] + 1
    OBVIOUS
  <2>2. since'[x] = IF since[x] < CLOCK THEN since[x] + 1 ELSE since[x]
    BY <1>1
  <2> QED
    BY <1>8, <2>2, HalfFact
<1>10. TypeOK'
  <2>1. ticks' \in Ticks
    BY <1>1, <1>3, TickOlder, HalfFact
  <2>2. age' \in 0 .. MaxLate
    BY <1>1, <1>3
  <2>3. since' \in [Timer -> 0 .. CLOCK]
    BY <1>1, <1>9
  <2> QED
    BY <1>1, <1>4, <2>1, <2>2, <2>3 DEF TypeOK
<1>11. PollShape' /\ OpShape'
  BY <1>1, <1>4 DEF PollShape, OpShape, Busy
<1>12. Recent'
  <2>1. \A c \in Agent : Busy(c)' <=> Busy(c)
    BY <1>1 DEF Busy
  <2>2. poll'.at # "idle" => TickSub(ticks', poll'.now) = age'
    BY <1>1, <1>7
  <2>3. \A c \in Agent : Busy(c) => TickSub(ticks', op[c].read) <= MaxLate
    BY <1>2, <1>3, <1>6
  <2>4. Busy("thread") /\ poll.at # "idle" => age + 1 <= TickSub(ticks', op["thread"].read)
    <3>1. Busy("thread") /\ poll.at # "idle" => age <= TickSub(ticks, op["thread"].read)
      BY DEF Recent, Ago
    <3> QED
      BY <1>3, <1>6, <3>1 DEF Agent
  <2>5. Busy("thread") /\ Busy("service")
          => TickSub(ticks', op["service"].read) <= TickSub(ticks', op["thread"].read)
    <3>1. Busy("thread") /\ Busy("service")
            => TickSub(ticks, op["service"].read) <= TickSub(ticks, op["thread"].read)
      BY DEF Recent, Ago
    <3> QED
      BY <1>3, <1>6, <3>1 DEF Agent
  <2>6. "thread" \in Agent /\ "service" \in Agent
    BY DEF Agent
  <2> QED
    BY <1>1, <2>1, <2>2, <2>3, <2>4, <2>5, <2>6 DEF Recent, Ago
<1>13. JustSet'
  <2>1. SUFFICES ASSUME NEW c \in Agent, op[c].at = "activate"
                 PROVE  since'[op[c].timer] <= TickSub(ticks', op[c].read)
    BY <1>1 DEF JustSet, Ago
  <2>2. Busy(c) /\ op[c].timer \in Timer
    BY <1>4, <2>1 DEF OpShape, Busy
  <2>3. since[op[c].timer] <= TickSub(ticks, op[c].read)
    BY <2>1 DEF JustSet, Ago
  <2>4. TickSub(ticks', op[c].read) = TickSub(ticks, op[c].read) + 1 /\ TickSub(ticks, op[c].read) \in Nat
    BY <1>3, <1>6, <2>2
  <2>5. since[op[c].timer] \in Nat /\ since'[op[c].timer] \in Nat /\ since'[op[c].timer] <= since[op[c].timer] + 1
    BY <1>8, <1>9, <2>2, HalfFact
  <2> QED
    BY <2>3, <2>4, <2>5
<1>14. ExpiryExact'
  <2>1. SUFFICES ASSUME NEW x \in Linked, timer[x].active \/ Set(x) PROVE Exact(x)'
    BY <1>1, <1>4 DEF ExpiryExact, Set
  <2>2. /\ x \in Timer /\ since[x] \in Nat /\ wanted[x] \in Span /\ wanted[x] \in Nat
        /\ timer[x].expires_at \in Ticks /\ age <= MaxLate
    BY <1>4, TimerTypes DEF TypeOK
  <2>3. TickSub(ticks, timer[x].expires_at) = TickSub(since[x], wanted[x])
    BY <2>1 DEF ExpiryExact, Exact, Ago
  <2>4. since[x] < CLOCK - 1
    <3>1. CASE timer[x].active
      <4>1. since[x] <= wanted[x] + MaxLate + age + (IF Ahead(x) THEN MaxLate ELSE 0)
        BY <3>1 DEF Lateness
      <4>2. since[x] < wanted[x] + MaxLate + MaxLate + MaxLate
        BY <1>1, <1>3, <2>2, <4>1
      <4>3. wanted[x] <= HALF - MaxLate
        BY <2>2 DEF Span
      <4> QED
        BY <1>3, <2>2, <4>2, <4>3, SpanFact, HalfFact
    <3>2. CASE Set(x)
      <4>1. PICK c \in Agent : op[c].at = "activate" /\ op[c].timer = x
        BY <3>2 DEF Set
      <4>2. since[x] <= TickSub(ticks, op[c].read) /\ TickSub(ticks, op[c].read) < MaxLate
        BY <1>2, <4>1 DEF JustSet, Ago, Busy
      <4> QED
        BY <1>3, <2>2, <4>2, HalfFact
    <3> QED
      BY <2>1, <3>1, <3>2
  <2>5. since'[x] = since[x] + 1 /\ since[x] \in Ticks /\ wanted[x] \in Ticks
    <3>1. since'[x] = since[x] + 1
      BY <1>1, <2>2, <2>4, HalfFact
    <3>2. since[x] \in Ticks
      BY <2>2, <2>4, HalfFact DEF Ticks
    <3> QED
      BY <2>2, <3>1, <3>2, SpanFact
  <2>6. TickSub(ticks', timer[x].expires_at) = TickSub(since'[x], wanted[x])
    BY <1>1, <1>3, <2>2, <2>3, <2>4, <2>5, TickOlder, SinceLonger
  <2> QED
    BY <1>1, <2>6 DEF Exact, Ago
<1>15. Lateness'
  <2>1. SUFFICES ASSUME NEW x \in Linked, timer[x].active
                 PROVE  since'[x] <= wanted[x] + MaxLate + (age + 1) + (IF Ahead(x) THEN MaxLate ELSE 0)
    BY <1>1, <1>4 DEF Lateness
  <2>2. x \in Timer /\ since[x] \in Nat /\ wanted[x] \in Nat
    BY <1>4, TimerTypes
  <2>3. since'[x] <= since[x] + 1 /\ since'[x] \in Nat
    BY <1>9, <2>2, HalfFact
  <2>4. since[x] <= wanted[x] + MaxLate + age + (IF Ahead(x) THEN MaxLate ELSE 0)
    BY <2>1 DEF Lateness
  <2>5. (IF Ahead(x) THEN MaxLate ELSE 0) \in Nat
    BY <1>3
  <2> QED
    BY <1>3, <2>2, <2>3, <2>4, <2>5
<1> QED
  BY <1>10, <1>11, <1>12, <1>13, <1>14, <1>15

-----------------------------------------------------------------------------
(* The theorems *)

LEMMA StutterInv == ASSUME IInv, UNCHANGED vars PROVE IInv'
<1> USE DEF IInv
<1>1. UNCHANGED <<ticks, list, timer, allocated, poll, op, age, since, wanted>>
  BY DEF vars
<1>2. Linked' = Linked /\ \A x : Ahead(x)' <=> Ahead(x)
  BY <1>1, Unmoved
<1>3. TypeOK'
  BY <1>1, <1>2 DEF TypeOK
<1>4. PollShape' /\ OpShape' /\ Recent' /\ JustSet'
  BY <1>1, <1>2 DEF PollShape, OpShape, Recent, JustSet, Busy, Ago
<1>5. ExpiryExact' /\ Lateness'
  BY <1>1, <1>2 DEF ExpiryExact, Set, Exact, Ago, Lateness
<1> QED
  BY <1>3, <1>4, <1>5

LEMMA NextInv == IInv /\ [Next]_vars => IInv'
<1> SUFFICES ASSUME IInv, [Next]_vars PROVE IInv'
  OBVIOUS
<1>1. CASE UNCHANGED vars
  BY <1>1, StutterInv
<1>2. ASSUME NEW c \in Agent, NEW t \in Timer, Call(c, t) PROVE IInv'
  BY <1>2, ChangePeriodInv, CreateInv, DeleteInv, StartInv, StopInv DEF Call
<1>3. ASSUME NEW c \in Agent, CallStep(c) PROVE IInv'
  BY <1>3, DeleteFreeInv, StartExpiresInv, StartActiveInv, ChangeActiveInv, ChangeExpiresInv
     DEF CallStep
<1>4. CASE Deinit \/ PollSkip \/ PollBegin \/ PassBy \/ Expire \/ CalledBack \/ Tick
  BY <1>4, DeinitInv, PollSkipInv, PollBeginInv, PassByInv, ExpireInv, CalledBackInv, TickInv
<1> QED
  BY <1>1, <1>2, <1>3, <1>4 DEF Next

LEMMA Invariant == Spec => []IInv
BY InitInv, NextInv, PTL DEF Spec

\* The variables keep their types, and the list holds allocated timers only, each once,
\* whatever the poll cuts in on (mm_halow_timer_list).
THEOREM TypeCorrect == Spec => []TypeOK
<1>1. IInv => TypeOK
  BY DEF IInv
<1> QED
  BY <1>1, Invariant, PTL

\* The poll looks at no timer that has been freed, though a callback may delete its own
\* (mm_halow_osal_timer_poll).
THEOREM VisitsAreLive == Spec => []NoStaleVisit
<1>1. IInv => NoStaleVisit
  BY DEF IInv, PollShape, TypeOK, NoStaleVisit
<1> QED
  BY <1>1, Invariant, PTL

\* A timer that is active and linked is called back in time: however long its period, and
\* wherever the clock wraps, no poll passes it by once it is over
\* (mm_halow_osal_timer_pending, mm_halow_osal_timer_poll).
THEOREM TimersFireInTime == Spec => []NotLate
<1>1. IInv => NotLate
  <2>1. SUFFICES ASSUME IInv, NEW t \in Linked, timer[t].active
                 PROVE  since[t] <= wanted[t] + 3 * MaxLate
    BY DEF NotLate
  <2>2. t \in Timer /\ TypeOK
    BY <2>1 DEF IInv, TypeOK
  <2>3. since[t] \in Nat /\ wanted[t] \in Nat /\ age \in Nat /\ MaxLate \in Nat /\ age <= MaxLate
    BY <2>2, TimerTypes, Readings DEF TypeOK
  <2>4. since[t] <= wanted[t] + MaxLate + age + (IF Ahead(t) THEN MaxLate ELSE 0)
    BY <2>1 DEF IInv, Lateness
  <2>5. since[t] <= wanted[t] + MaxLate + age + MaxLate
    BY <2>3, <2>4
  <2> QED
    BY <2>3, <2>5
<1> QED
  BY <1>1, Invariant, PTL

\* No timer is called back before its period is over, wherever the poll cuts in on a
\* start or a change of it, and wherever the clock wraps (mmosal_timer_start,
\* mmosal_timer_change_period, mm_halow_osal_timer_poll).
THEOREM TimersFireOnTime == Spec => NotEarly
<1>1. IInv /\ [Next]_vars
        => [poll.at = "look" /\ poll'.at = "callback" => since[poll.timer] >= wanted[poll.timer]]_vars
  <2>1. SUFFICES ASSUME IInv, Next, poll.at = "look", poll'.at = "callback"
                 PROVE  since[poll.timer] >= wanted[poll.timer]
    BY DEF vars
  <2>2. Expire
    <3>1. poll' # poll
      BY <2>1
    <3>2. \A c \in Agent, t \in Timer : Call(c, t) => poll' = poll
      BY DEF Call, ChangePeriod, Create, Delete, Start, Stop
    <3>3. \A c \in Agent : CallStep(c) => poll' = poll
      BY DEF CallStep, DeleteFree, StartExpires, StartActive, ChangeActive, ChangeExpires
    <3>4. ~PassBy /\ ~CalledBack
      <4>1. NoPoll.at = "idle"
        BY DEF NoPoll
      <4>2. [poll EXCEPT !.at = "look", !.timer = NextOf(poll.timer), !.next = NoTimer].at # "callback"
        BY <2>1 DEF IInv, TypeOK, Poll
      <4> QED
        BY <2>1, <4>1, <4>2 DEF PassBy, CalledBack, Visit
    <3>5. ~PollBegin
      BY <2>1 DEF PollBegin, NoPoll
    <3> QED
      BY <2>1, <3>1, <3>2, <3>3, <3>4, <3>5 DEF Next, Deinit, PollSkip, Tick
  <2>3. poll.timer \in Linked /\ poll.timer \in Timer /\ TypeOK
    BY <2>1 DEF IInv, PollShape, TypeOK
  <2>4. TickSub(ticks, poll.now) = age /\ poll.now \in Ticks /\ age <= MaxLate /\ age \in Nat
    BY <2>1, <2>3, Readings DEF IInv, Recent, Ago, TypeOK
  <2>5. Due(poll.timer, poll.now)
    BY <2>2 DEF Expire
  <2>6. since[poll.timer] >= wanted[poll.timer] + age
    BY <2>1, <2>3, <2>4, <2>5, DueElapsed DEF Due
  <2> QED
    BY <2>3, <2>4, <2>6, TimerTypes
<1> QED
  BY <1>1, Invariant, PTL DEF Spec, NotEarly
=============================================================================
