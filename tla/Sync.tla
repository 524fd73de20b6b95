-------------------------------- MODULE Sync --------------------------------
(***************************************************************************)
(* The mutex, the binary semaphore, the queue and the notifications of     *)
(* tasks of mm_halow_osal.c: one of each, shared by the thread and the     *)
(* tasks.                                                                  *)
(*                                                                         *)
(* A wait is mm_halow_sched_wait() with the object's condition: Sched has  *)
(* its details, here it tries the condition, and a task it fails parks     *)
(* until a pass of the scheduler.  PendSV runs a whole pass between any    *)
(* two accesses of the thread; a task is cut in on by nobody.  Only the    *)
(* holder of a mutex releases it, and it does not take it twice.           *)
(***************************************************************************)
EXTENDS Integers, Sequences

CONSTANTS
  Task,         \* the driver's tasks
  NoTask,       \* NULL, which also stands for the thread
  Item,         \* what is put in the queue
  num_items,    \* the size of the queue
  MaxNotify     \* bound: notifications that are counted and not yet taken

ASSUME SyncAssumption ==
  /\ NoTask \notin Task /\ "thread" \notin Task /\ NoTask # "thread"
  /\ num_items \in Nat \ {0} /\ MaxNotify \in Nat
  /\ Item # {}

Agent == Task \union {"thread"}
Nobody == NoTask

VARIABLES
  locked, owner,            \* struct mmosal_mutex
  holder,                   \* who took the mutex last and has not let go
  signalled,                \* struct mmosal_semb
  notify,                   \* [Task -> its notify]
  head, tail, count, items, \* struct mmosal_queue
  woken,                    \* mm_halow_sched_woken
  pass,                     \* the tasks the pass under way has yet to resume
  task_cur,                 \* mm_halow_task_cur
  call                      \* [Agent -> the call it is in, and where]

mutexVars == <<locked, owner, holder>>
signalVars == <<signalled, notify>>
queueVars == <<head, tail, count, items>>
schedVars == <<woken, pass, task_cur>>
vars == <<locked, owner, holder, signalled, notify, head, tail, count, items, woken, pass, task_cur,
          call>>

Condition == {"mutex", "semb", "notify", "pop", "push"}
Idle == [at |-> "idle", for |-> "mutex"]

\* The thread has the CPU when no pass is under way, a task when it is its turn.
Executing(a) ==
  IF a = "thread" THEN pass = {} /\ task_cur = NoTask ELSE task_cur = a
At(a, place) == Executing(a) /\ call[a].at = place
Goto(a, place) == call' = [call EXCEPT ![a].at = place]
Return(a) == call' = [call EXCEPT ![a] = Idle]

-----------------------------------------------------------------------------
(* The conditions of the waits *)

\* mm_halow_sched_task_current() in the context of a
Self(a) == IF a = "thread" THEN NoTask ELSE a

MutexAcquired(a) ==
  /\ ~locked
  /\ locked' = TRUE
  /\ owner' = Self(a)
  /\ holder' = a
  /\ Return(a)
  /\ UNCHANGED <<signalVars, queueVars>>

SembTaken(a) ==
  /\ signalled
  /\ signalled' = FALSE
  /\ Return(a)
  /\ UNCHANGED <<mutexVars, notify, queueVars>>

TaskNotified(t) ==
  /\ notify[t] # 0
  /\ notify' = [notify EXCEPT ![t] = @ - 1]
  /\ Return(t)
  /\ UNCHANGED <<mutexVars, signalled, queueVars>>

\* (i + 1) % num_items, for a place i of the ring
Succ(i) == IF i + 1 = num_items THEN 0 ELSE i + 1

\* Fault: those who wait for room are not told.
FaultQueuePop(a) ==
  /\ count > 0
  /\ head' = Succ(head)
  /\ count' = count - 1
  /\ Return(a)
  /\ UNCHANGED <<mutexVars, signalVars, tail, items>>

\* Woken by a step of its own, after the atomic section.
QueuePop(a) ==
  /\ count > 0
  /\ head' = Succ(head)
  /\ count' = count - 1
  /\ Goto(a, "wake")
  /\ UNCHANGED <<mutexVars, signalVars, tail, items>>

\* Fault: a full queue is written over.
FaultQueuePush(a, item) ==
  /\ count <= num_items
  /\ items' = [items EXCEPT ![tail] = item]
  /\ tail' = Succ(tail)
  /\ count' = IF count < num_items THEN count + 1 ELSE count
  /\ Goto(a, "wake")
  /\ UNCHANGED <<mutexVars, signalVars, head>>

QueuePush(a, item) ==
  /\ count < num_items
  /\ items' = [items EXCEPT ![tail] = item]
  /\ tail' = Succ(tail)
  /\ count' = count + 1
  /\ Goto(a, "wake")
  /\ UNCHANGED <<mutexVars, signalVars, head>>

Ready(a, condition) ==
  CASE condition = "mutex"  -> ~locked
    [] condition = "semb"   -> signalled
    [] condition = "notify" -> notify[a] # 0
    [] condition = "pop"    -> count > 0
    [] condition = "push"   -> count < num_items

-----------------------------------------------------------------------------
(* The waits *)

Wait(a, condition) ==
  /\ At(a, "idle")
  /\ condition = "mutex" => holder # a
  /\ condition = "notify" => a \in Task
  /\ call' = [call EXCEPT ![a] = [at |-> "wait", for |-> condition]]
  /\ UNCHANGED <<mutexVars, signalVars, queueVars, schedVars>>

\* The condition is tried and comes true.
Succeed(a) ==
  /\ At(a, "wait")
  /\ \/ call[a].for = "mutex" /\ MutexAcquired(a)
     \/ call[a].for = "semb" /\ SembTaken(a)
     \/ call[a].for = "notify" /\ TaskNotified(a)
     \/ call[a].for = "pop" /\ QueuePop(a)
     \/ call[a].for = "push" /\ \E item \in Item : QueuePush(a, item)
  /\ UNCHANGED schedVars

\* It does not, and the time is up.
TimeOut(a) ==
  /\ At(a, "wait") /\ ~Ready(a, call[a].for)
  /\ Return(a)
  /\ UNCHANGED <<mutexVars, signalVars, queueVars, schedVars>>

\* It does not, and the task parks.
Park(t) ==
  /\ At(t, "wait") /\ ~Ready(t, call[t].for)
  /\ task_cur' = NoTask
  /\ UNCHANGED <<mutexVars, signalVars, queueVars, woken, pass, call>>

-----------------------------------------------------------------------------
(* mmosal_mutex_release, mmosal_semb_give and mmosal_task_notify *)

\* Fault: unlocked first.
FaultRelease(a) ==
  /\ \/ /\ At(a, "idle") /\ holder = a
        /\ locked' = FALSE
        /\ holder' = Nobody
        /\ Goto(a, "unlock")
        /\ UNCHANGED owner
     \/ /\ At(a, "unlock")
        /\ owner' = NoTask
        /\ Goto(a, "wake")
        /\ UNCHANGED <<locked, holder>>
  /\ UNCHANGED <<signalVars, queueVars, schedVars>>

\* The owner is cleared first, the lock then.
Release(a) ==
  /\ \/ /\ At(a, "idle") /\ holder = a
        /\ owner' = NoTask
        /\ Goto(a, "unlock")
        /\ UNCHANGED <<locked, holder>>
     \/ /\ At(a, "unlock")
        /\ locked' = FALSE
        /\ holder' = Nobody
        /\ Goto(a, "wake")
        /\ UNCHANGED owner
  /\ UNCHANGED <<signalVars, queueVars, schedVars>>

SembGive(a) ==
  /\ At(a, "idle")
  /\ signalled' = TRUE
  /\ Goto(a, "wake")
  /\ UNCHANGED <<mutexVars, notify, queueVars, schedVars>>

\* mmosal_task_notify
Notify(a, t) ==
  /\ At(a, "idle")
  /\ notify[t] < MaxNotify
  /\ notify' = [notify EXCEPT ![t] = @ + 1]
  /\ Goto(a, "wake")
  /\ UNCHANGED <<mutexVars, signalled, queueVars, schedVars>>

\* mm_halow_sched_wake, the last step of whatever makes a condition true
Wake(a) ==
  /\ At(a, "wake")
  /\ woken' = TRUE
  /\ Return(a)
  /\ UNCHANGED <<mutexVars, signalVars, queueVars, pass, task_cur>>

-----------------------------------------------------------------------------
(* The scheduler, in outline *)

PassStart ==
  /\ pass = {} /\ task_cur = NoTask
  /\ woken' = FALSE
  /\ pass' = Task
  /\ UNCHANGED <<mutexVars, signalVars, queueVars, task_cur, call>>

Resume(t) ==
  /\ task_cur = NoTask /\ t \in pass
  /\ task_cur' = t
  /\ pass' = pass \ {t}
  /\ UNCHANGED <<mutexVars, signalVars, queueVars, woken, call>>

\* A task that yields wants another turn.
Yield(t) ==
  /\ At(t, "idle")
  /\ task_cur' = NoTask
  /\ woken' = TRUE
  /\ UNCHANGED <<mutexVars, signalVars, queueVars, pass, call>>

-----------------------------------------------------------------------------
MutexCreate == locked = FALSE /\ owner = NoTask /\ holder = Nobody
SembCreate == signalled = FALSE
QueueCreate ==
  /\ head = 0 /\ tail = 0 /\ count = 0
  /\ items \in [0 .. num_items - 1 -> Item]

Init ==
  /\ MutexCreate /\ SembCreate /\ QueueCreate
  /\ notify = [t \in Task |-> 0]
  /\ woken = FALSE /\ pass = {} /\ task_cur = NoTask
  /\ call = [a \in Agent |-> Idle]

Next ==
  \/ \E a \in Agent :
       \/ \E condition \in Condition : Wait(a, condition)
       \/ Succeed(a) \/ TimeOut(a)
       \/ Release(a) \/ SembGive(a) \/ Wake(a)
       \/ \E t \in Task : Notify(a, t)
  \/ PassStart
  \/ \E t \in Task : Park(t) \/ Resume(t) \/ Yield(t)

Spec == Init /\ [][Next]_vars

-----------------------------------------------------------------------------
(* Properties *)

TypeOK ==
  /\ locked \in BOOLEAN /\ owner \in Task \union {NoTask}
  /\ holder \in Agent \union {Nobody}
  /\ signalled \in BOOLEAN /\ notify \in [Task -> 0 .. MaxNotify]
  /\ head \in 0 .. num_items - 1 /\ tail \in 0 .. num_items - 1 /\ count \in 0 .. num_items
  /\ items \in [0 .. num_items - 1 -> Item]
  /\ woken \in BOOLEAN /\ pass \subseteq Task /\ task_cur \in Task \union {NoTask}
  /\ call \in [Agent -> [at : {"idle", "wait", "unlock", "wake"}, for : Condition]]

\* The mutex is locked while somebody holds it, and says who, until the holder begins to
\* release it: a pass that cuts in on a release by the thread finds it taken or free,
\* and whoever takes it then stays its owner (mmosal_mutex_release).
OwnerIsHolder ==
  /\ locked <=> holder # Nobody
  /\ \A t \in Task : holder = t => owner = t \/ call[t].at = "unlock"
  /\ holder = "thread" => owner = NoTask

\* A task parked on a condition that has come true is looked at again: somebody has
\* called mm_halow_sched_wake() since the last pass, or is about to.
WaitersWoken ==
  pass = {} /\ task_cur = NoTask /\ call["thread"].at # "wake" =>
    \A t \in Task : call[t].at = "wait" /\ Ready(t, call[t].for) => woken

\* The queue as the ring of items holds it, oldest first.
Place(i) == IF head + i < num_items THEN head + i ELSE head + i - num_items
Ring == [i \in 1 .. count |-> items[Place(i - 1)]]

\* The ring buffer keeps the promise of a bounded queue (mmosal_queue_push_from_isr,
\* mmosal_queue_pop_from_isr).
Promise == INSTANCE Fifo WITH buffer <- Ring
KeepsOrder == Promise!Spec
=============================================================================
