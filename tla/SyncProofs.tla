----------------------------- MODULE SyncProofs -----------------------------
(***************************************************************************)
(* The mutex, the binary semaphore, the queue and the notifications for    *)
(* every set of tasks and every size of the queue: IInv is inductive,      *)
(* OwnerIsHolder and WaitersWoken follow from it, and the ring buffer      *)
(* implements Fifo.                                                        *)
(***************************************************************************)
EXTENDS Sync, SequenceTheorems, TLAPS

\* The tail is count places after the head.
RingShape == tail = IF head + count < num_items THEN head + count ELSE head + count - num_items

\* Only the holder of the mutex is inside mmosal_mutex_release, and a task is inside
\* such a call only while it has the CPU.
CallShape ==
  /\ \A a \in Agent : call[a].at = "unlock" => holder = a
  /\ \A t \in Task : call[t].at \in {"unlock", "wake"} => task_cur = t

\* A parked task whose condition holds, and which the pass under way will not look at
\* any more, makes for another pass: this is WaitersWoken in the middle of a pass.
WakeComing ==
  \A t \in Task :
    call[t].at = "wait" /\ task_cur # t /\ t \notin pass /\ Ready(t, call[t].for) =>
      woken \/ \E a \in Agent : call[a].at = "wake"

IInv == TypeOK /\ RingShape /\ OwnerIsHolder /\ CallShape /\ WakeComing

\* The initial states satisfy the invariant (mmosal_mutex_create, mmosal_semb_create,
\* mmosal_queue_create).
LEMMA InitIInv == Init => IInv
<1> SUFFICES ASSUME Init PROVE IInv
  OBVIOUS
<1>1. \A a \in Agent : call[a].at = "idle"
  BY DEF Init, Idle
<1>2. TypeOK
  <2>1. call \in [Agent -> [at : {"idle", "wait", "unlock", "wake"}, for : Condition]]
    BY DEF Init, Idle, Condition
  <2>2. head \in 0 .. num_items - 1 /\ tail \in 0 .. num_items - 1 /\ count \in 0 .. num_items
    BY SyncAssumption DEF Init, QueueCreate
  <2>3. notify \in [Task -> 0 .. MaxNotify]
    BY SyncAssumption DEF Init
  <2> QED BY <2>1, <2>2, <2>3 DEF Init, MutexCreate, SembCreate, QueueCreate, TypeOK
<1>3. RingShape
  BY SyncAssumption DEF Init, QueueCreate, RingShape
<1>4. OwnerIsHolder
  BY SyncAssumption DEF Init, MutexCreate, OwnerIsHolder, Nobody
<1>5. CallShape /\ WakeComing
  BY <1>1 DEF CallShape, WakeComing, Agent
<1> QED BY <1>2, <1>3, <1>4, <1>5 DEF IInv

\* The queue's indices stay places of the ring, and the tail count places after the head
\* (mmosal_queue_push_from_isr, mmosal_queue_pop_from_isr).
LEMMA RingStep ==
  ASSUME TypeOK, RingShape, [Next]_vars
  PROVE  RingShape' /\ (head \in 0 .. num_items - 1)' /\ (tail \in 0 .. num_items - 1)'
         /\ (count \in 0 .. num_items)' /\ (items \in [0 .. num_items - 1 -> Item])'
<1>1. CASE UNCHANGED queueVars
  BY <1>1 DEF TypeOK, RingShape, queueVars
<1>2. ASSUME NEW a \in Agent, QueuePop(a) PROVE RingShape' /\ (head \in 0 .. num_items - 1)'
        /\ (tail \in 0 .. num_items - 1)' /\ (count \in 0 .. num_items)'
        /\ (items \in [0 .. num_items - 1 -> Item])'
  BY <1>2, SyncAssumption DEF TypeOK, RingShape, QueuePop, Succ
<1>3. ASSUME NEW a \in Agent, NEW item \in Item, QueuePush(a, item)
      PROVE  RingShape' /\ (head \in 0 .. num_items - 1)'
        /\ (tail \in 0 .. num_items - 1)' /\ (count \in 0 .. num_items)'
        /\ (items \in [0 .. num_items - 1 -> Item])'
  BY <1>3, SyncAssumption DEF TypeOK, RingShape, QueuePush, Succ
<1>4. UNCHANGED queueVars \/ (\E a \in Agent : QueuePop(a))
      \/ (\E a \in Agent, item \in Item : QueuePush(a, item))
  BY DEF Next, vars, queueVars, Wait, Succeed, TimeOut, Park, Release, SembGive, Notify, Wake,
     PassStart, Resume, Yield, MutexAcquired, SembTaken, TaskNotified
<1> QED BY <1>1, <1>2, <1>3, <1>4

\* The types are preserved by every step.
LEMMA TypeStep ==
  ASSUME IInv, [Next]_vars PROVE TypeOK'
<1> USE DEF IInv
<1>1. (head \in 0 .. num_items - 1)' /\ (tail \in 0 .. num_items - 1)'
      /\ (count \in 0 .. num_items)' /\ (items \in [0 .. num_items - 1 -> Item])'
  BY RingStep
<1>2. (locked \in BOOLEAN)' /\ (owner \in Task \union {NoTask})'
      /\ (holder \in Agent \union {Nobody})' /\ (signalled \in BOOLEAN)'
  BY DEF Next, vars, mutexVars, signalVars, Wait, Succeed, TimeOut, Park, Release, SembGive,
     Notify, Wake, PassStart, Resume, Yield, MutexAcquired, SembTaken, TaskNotified, QueuePop,
     QueuePush, Self, TypeOK, Agent, Nobody
<1>3. (woken \in BOOLEAN)' /\ (pass \subseteq Task)' /\ (task_cur \in Task \union {NoTask})'
  BY DEF Next, vars, schedVars, Wait, Succeed, TimeOut, Park, Release, SembGive, Notify, Wake,
     PassStart, Resume, Yield, TypeOK
<1>5. (notify \in [Task -> 0 .. MaxNotify])'
  BY SyncAssumption DEF Next, vars, signalVars, Wait, Succeed, TimeOut, Park, Release, SembGive,
     Notify, Wake, PassStart, Resume, Yield, MutexAcquired, SembTaken, TaskNotified, QueuePop,
     QueuePush, TypeOK
<1>4. (call \in [Agent -> [at : {"idle", "wait", "unlock", "wake"}, for : Condition]])'
  BY DEF Next, vars, Wait, Succeed, TimeOut, Park, Release, SembGive, Notify, Wake, PassStart,
     Resume, Yield, MutexAcquired, SembTaken, TaskNotified, QueuePop, QueuePush, TypeOK, Goto, Return, Idle,
     Condition
<1> QED BY <1>1, <1>2, <1>3, <1>4, <1>5 DEF TypeOK

\* The mutex keeps its owner over every step, whoever cuts in on a release
\* (mm_halow_mutex_acquired, mmosal_mutex_release).
LEMMA OwnerStep ==
  ASSUME IInv, [Next]_vars PROVE OwnerIsHolder' /\ CallShape'
<1> USE DEF IInv
<1> USE SyncAssumption DEF OwnerIsHolder, CallShape, Agent, Nobody, At, Executing
<1>1. CASE UNCHANGED vars
  BY <1>1 DEF vars
<1>2. ASSUME NEW a \in Agent, NEW condition \in Condition, Wait(a, condition)
      PROVE  OwnerIsHolder' /\ CallShape'
  BY <1>2 DEF Wait, mutexVars, schedVars, TypeOK
<1>3. ASSUME NEW a \in Agent, Succeed(a) PROVE OwnerIsHolder' /\ CallShape'
  <2>1. CASE MutexAcquired(a)
    BY <1>3, <2>1 DEF Succeed, MutexAcquired, Self, schedVars, TypeOK, Return, Idle
  <2>2. CASE SembTaken(a)
    BY <1>3, <2>2 DEF Succeed, SembTaken, mutexVars, schedVars, TypeOK, Return, Idle
  <2>3. CASE QueuePop(a)
    BY <1>3, <2>3 DEF Succeed, QueuePop, mutexVars, schedVars, TypeOK, Goto
  <2>4. CASE \E item \in Item : QueuePush(a, item)
    BY <1>3, <2>4 DEF Succeed, QueuePush, mutexVars, schedVars, TypeOK, Goto
  <2>5. CASE TaskNotified(a)
    BY <1>3, <2>5 DEF Succeed, TaskNotified, mutexVars, schedVars, TypeOK, Return, Idle
  <2> QED BY <1>3, <2>1, <2>2, <2>3, <2>4, <2>5 DEF Succeed
<1>4. ASSUME NEW a \in Agent, TimeOut(a) PROVE OwnerIsHolder' /\ CallShape'
  BY <1>4 DEF TimeOut, mutexVars, schedVars, TypeOK, Return, Idle
<1>5. ASSUME NEW a \in Agent, Release(a) PROVE OwnerIsHolder' /\ CallShape'
  BY <1>5 DEF Release, schedVars, TypeOK, Goto
<1>6. ASSUME NEW a \in Agent, SembGive(a) PROVE OwnerIsHolder' /\ CallShape'
  BY <1>6 DEF SembGive, mutexVars, schedVars, TypeOK, Goto
<1>10. ASSUME NEW a \in Agent, NEW t \in Task, Notify(a, t) PROVE OwnerIsHolder' /\ CallShape'
  BY <1>10 DEF Notify, mutexVars, schedVars, TypeOK, Goto
<1>7. ASSUME NEW a \in Agent, Wake(a) PROVE OwnerIsHolder' /\ CallShape'
  BY <1>7 DEF Wake, mutexVars, TypeOK, Return, Idle
<1>8. CASE PassStart
  BY <1>8 DEF PassStart, mutexVars
<1>9. ASSUME NEW t \in Task, Park(t) \/ Resume(t) \/ Yield(t) PROVE OwnerIsHolder' /\ CallShape'
  BY <1>9 DEF Park, Resume, Yield, mutexVars, TypeOK
<1> QED
  <2> HIDE SyncAssumption DEF OwnerIsHolder, CallShape, Agent, Nobody, At, Executing
  <2> QED BY <1>1, <1>2, <1>3, <1>4, <1>5, <1>6, <1>7, <1>8, <1>9, <1>10 DEF Next

\* A step of a call that makes no condition true and wakes nobody.
LEMMA QuietStep ==
  ASSUME IInv, NEW a \in Agent, Executing(a), call[a].at # "wake",
         \A b \in Agent : b # a => call'[b] = call[b],
         UNCHANGED schedVars,
         locked => locked', signalled' => signalled, count' = count,
         \A t \in Task : t # a => notify'[t] = notify[t]
  PROVE  WakeComing'
<1> SUFFICES ASSUME NEW t \in Task, call'[t].at = "wait", task_cur # t, t \notin pass,
                    Ready(t, call[t].for)'
             PROVE  woken \/ \E b \in Agent : call'[b].at = "wake"
  BY DEF WakeComing, schedVars
<1>1. t # a /\ call'[t] = call[t]
  BY SyncAssumption DEF Executing, Agent
<1>2. call[t].for \in Condition
  BY DEF IInv, TypeOK, Agent
<1>3. Ready(t, call[t].for)
  BY <1>1, <1>2 DEF Ready, Condition
<1>4. woken \/ \E b \in Agent : call[b].at = "wake"
  BY <1>1, <1>3 DEF IInv, WakeComing
<1>5. \A b \in Agent : call[b].at = "wake" => call'[b].at = "wake"
  OBVIOUS
<1> QED BY <1>4, <1>5

\* A task that parks finds its condition false, and whatever makes a condition true is
\* about to wake the scheduler (mm_halow_sched_wake at the end of every give, release,
\* notification, push and pop).
LEMMA WakeStep ==
  ASSUME IInv, [Next]_vars PROVE WakeComing'
<1> USE DEF IInv
<1> USE SyncAssumption DEF WakeComing, Agent, At, Executing
<1>1. CASE UNCHANGED vars
  BY <1>1 DEF vars, Ready
<1>2. ASSUME NEW a \in Agent, NEW condition \in Condition, Wait(a, condition)
      PROVE  WakeComing'
  BY <1>2, QuietStep DEF Wait, mutexVars, signalVars, queueVars, TypeOK
<1>3. ASSUME NEW a \in Agent, Succeed(a) PROVE WakeComing'
  <2>1. CASE MutexAcquired(a)
    BY <1>3, <2>1, QuietStep DEF Succeed, MutexAcquired, signalVars, queueVars, TypeOK, Return
  <2>2. CASE SembTaken(a)
    BY <1>3, <2>2, QuietStep DEF Succeed, SembTaken, mutexVars, queueVars, TypeOK, Return
  <2>3. CASE QueuePop(a)
    BY <1>3, <2>3 DEF Succeed, QueuePop, schedVars, TypeOK, Goto
  <2>4. CASE \E item \in Item : QueuePush(a, item)
    BY <1>3, <2>4 DEF Succeed, QueuePush, schedVars, TypeOK, Goto
  <2>5. CASE TaskNotified(a)
    BY <1>3, <2>5, QuietStep DEF Succeed, TaskNotified, mutexVars, queueVars, TypeOK, Return
  <2> QED BY <1>3, <2>1, <2>2, <2>3, <2>4, <2>5 DEF Succeed
<1>4. ASSUME NEW a \in Agent, TimeOut(a) PROVE WakeComing'
  BY <1>4, QuietStep DEF TimeOut, mutexVars, signalVars, queueVars, TypeOK, Return
<1>5. ASSUME NEW a \in Agent, Release(a) PROVE WakeComing'
  <2>1. CASE At(a, "idle")
    BY <1>5, <2>1, QuietStep DEF Release, signalVars, queueVars, TypeOK, Goto
  <2>2. CASE At(a, "unlock")
    BY <1>5, <2>2 DEF Release, schedVars, TypeOK, Goto
  <2> QED BY <1>5, <2>1, <2>2 DEF Release
<1>6. ASSUME NEW a \in Agent, SembGive(a) PROVE WakeComing'
  BY <1>6 DEF SembGive, schedVars, TypeOK, Goto
<1>12. ASSUME NEW a \in Agent, NEW t \in Task, Notify(a, t) PROVE WakeComing'
  BY <1>12 DEF Notify, schedVars, TypeOK, Goto
<1>7. ASSUME NEW a \in Agent, Wake(a) PROVE WakeComing'
  BY <1>7 DEF Wake
<1>8. CASE PassStart
  BY <1>8 DEF PassStart
<1>9. ASSUME NEW t \in Task, Park(t) PROVE WakeComing'
  <2>1. call' = call /\ \A u \in Task : Ready(u, call[u].for)' <=> Ready(u, call[u].for)
    BY <1>9 DEF Park, mutexVars, signalVars, queueVars, Ready
  <2>2. task_cur = t /\ pass' = pass /\ woken' = woken /\ ~Ready(t, call[t].for)
    BY <1>9 DEF Park
  <2> QED BY <2>1, <2>2 DEF WakeComing
<1>10. ASSUME NEW t \in Task, Resume(t) PROVE WakeComing'
  BY <1>10 DEF Resume, mutexVars, signalVars, queueVars, TypeOK, Ready
<1>11. ASSUME NEW t \in Task, Yield(t) PROVE WakeComing'
  BY <1>11 DEF Yield
<1> QED
  <2> HIDE SyncAssumption DEF WakeComing, Agent, At, Executing
  <2> QED BY <1>1, <1>2, <1>3, <1>4, <1>5, <1>6, <1>7, <1>8, <1>9, <1>10, <1>11, <1>12
    DEF Next

\* IInv is an invariant of the mutex, the binary semaphore, the queue and the notifications.
THEOREM Inductive == Spec => []IInv
<1>1. IInv /\ [Next]_vars => IInv'
  BY TypeStep, RingStep, OwnerStep, WakeStep DEF IInv
<1> QED BY InitIInv, <1>1, PTL DEF Spec

\* Every variable stays in its type: the indices of the queue stay inside the ring
\* (mmosal_queue_push_from_isr, mmosal_queue_pop_from_isr).
THEOREM TypeCorrect == Spec => []TypeOK
<1>1. IInv => TypeOK
  BY DEF IInv
<1> QED BY <1>1, Inductive, PTL

\* The mutex has one holder, and names it, however a pass cuts in on a release
\* (mmosal_mutex_release).
THEOREM OwnerCorrect == Spec => []OwnerIsHolder
<1>1. IInv => OwnerIsHolder
  BY DEF IInv
<1> QED BY <1>1, Inductive, PTL

\* No task stays parked on a condition that has come true without a pass being asked for
\* (mmosal_mutex_release, mmosal_semb_give, mmosal_task_notify, mmosal_queue_push,
\* mmosal_queue_pop).
THEOREM WaitersLooked == Spec => []WaitersWoken
<1>1. IInv => WaitersWoken
  <2> SUFFICES ASSUME IInv, pass = {}, task_cur = NoTask, call["thread"].at # "wake",
                      NEW t \in Task, call[t].at = "wait", Ready(t, call[t].for)
               PROVE  woken
    BY DEF WaitersWoken
  <2>1. \A a \in Agent : call[a].at # "wake"
    BY SyncAssumption DEF IInv, CallShape, Agent
  <2> QED BY <2>1, SyncAssumption DEF IInv, WakeComing
<1> QED BY <1>1, Inductive, PTL

\* The places of the ring that hold an item, and the one after them.
LEMMA Places ==
  ASSUME TypeOK, RingShape
  PROVE  /\ \A i \in 0 .. count - 1 : Place(i) \in 0 .. num_items - 1
         /\ \A i \in 0 .. count - 1 : count < num_items => Place(i) # tail
         /\ count < num_items => Place(count) = tail
BY SyncAssumption DEF TypeOK, RingShape, Place

\* The ring buffer implements a bounded queue: nothing is lost, doubled or reordered when
\* the indices wrap (mmosal_queue_push_from_isr, mmosal_queue_pop_from_isr).
THEOREM QueueImplements == Spec => KeepsOrder
<1>1. Init => Promise!Init
  BY DEF Init, QueueCreate, Promise!Init, Ring
<1>2. IInv /\ [Next]_vars => [Promise!Pop \/ \E item \in Item : Promise!Push(item)]_Ring
  <2> SUFFICES ASSUME IInv, [Next]_vars
               PROVE  \/ Ring' = Ring
                      \/ Promise!Pop \/ \E item \in Item : Promise!Push(item)
    OBVIOUS
  <2> USE DEF IInv
  <2>0. Ring \in Seq(Item) /\ Len(Ring) = count
    BY Places DEF Ring, TypeOK
  <2>1. CASE UNCHANGED queueVars
    BY <2>1 DEF queueVars, Ring, Place
  <2>2. ASSUME NEW a \in Agent, QueuePop(a) PROVE Promise!Pop
    <3>1. \A i \in 1 .. count - 1 : Place(i - 1)' = Place(i)
      BY <2>2, SyncAssumption DEF QueuePop, Place, Succ, TypeOK
    <3>2. Ring' = [i \in 1 .. count - 1 |-> Ring[i + 1]]
      BY <2>2, <3>1 DEF QueuePop, Ring, TypeOK
    <3>3. Ring # <<>>
      BY <2>0, <2>2 DEF QueuePop
    <3>4. /\ Tail(Ring) \in Seq(Item) /\ Len(Tail(Ring)) = count - 1
          /\ \A i \in 1 .. count - 1 : Tail(Ring)[i] = Ring[i + 1]
      BY <2>0, <3>3, HeadTailProperties
    <3>5. Ring' \in Seq(Item) /\ Len(Ring') = count - 1
      BY <2>0, <2>2, <3>2 DEF QueuePop, TypeOK
    <3>6. Ring' = Tail(Ring)
      BY <3>2, <3>4, <3>5, SeqEqual
    <3> QED BY <3>3, <3>6 DEF Promise!Pop
  <2>3. ASSUME NEW a \in Agent, NEW item \in Item, QueuePush(a, item) PROVE Promise!Push(item)
    <3>1. \A i \in 1 .. count : items'[Place(i - 1)] = items[Place(i - 1)]
      BY <2>3, Places DEF QueuePush, TypeOK
    <3>2. items'[Place(count)] = item
      BY <2>3, Places DEF QueuePush, TypeOK
    <3>3. Ring' = [i \in 1 .. count + 1 |-> IF i <= count THEN Ring[i] ELSE item]
      <4>1. count \in Nat /\ count' = count + 1
        BY <2>3 DEF QueuePush, TypeOK
      <4>2. \A i \in 1 .. count : Ring'[i] = Ring[i]
        BY <2>3, <3>1, <4>1 DEF QueuePush, Ring, Place
      <4>3. Ring'[count + 1] = item
        BY <2>3, <3>2, <4>1 DEF QueuePush, Ring, Place
      <4>4. Ring' = [i \in 1 .. count + 1 |-> Ring'[i]]
        BY <4>1 DEF Ring
      <4> QED BY <4>1, <4>2, <4>3, <4>4
    <3>4. /\ Append(Ring, item) \in Seq(Item) /\ Len(Append(Ring, item)) = count + 1
          /\ \A i \in 1 .. count + 1 :
               Append(Ring, item)[i] = IF i <= count THEN Ring[i] ELSE item
      BY <2>0, AppendProperties DEF TypeOK
    <3>5. Ring' \in Seq(Item) /\ Len(Ring') = count + 1
      BY <2>0, <3>3 DEF TypeOK
    <3>6. Ring' = Append(Ring, item)
      BY <3>3, <3>4, <3>5, SeqEqual
    <3> QED BY <2>0, <2>3, <3>6 DEF Promise!Push, QueuePush
  <2>4. UNCHANGED queueVars \/ (\E a \in Agent : QueuePop(a))
        \/ (\E a \in Agent, item \in Item : QueuePush(a, item))
    BY DEF Next, vars, queueVars, Wait, Succeed, TimeOut, Park, Release, SembGive, Notify, Wake,
       PassStart, Resume, Yield, MutexAcquired, SembTaken, TaskNotified
  <2> QED BY <2>1, <2>2, <2>3, <2>4
<1> QED BY <1>1, <1>2, Inductive, PTL DEF Spec, KeepsOrder, Promise!Spec
=============================================================================
