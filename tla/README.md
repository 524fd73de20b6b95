# mm-halow-driver in TLA+

The driver runs morselib, a Wi-Fi HaLow stack written for an RTOS, inside
MicroPython, which has none. It brings its own cooperative scheduler, its own
heap, semaphores, mutexes, queues and timers, and a packet memory, and it runs
all of them in two contexts: the thread (Python calling the driver) and PendSV
(the network poll), which cuts in on the thread between any two instructions
and runs to completion. What is hard about this code is what PendSV may find
half done, and this project is about that.

Sources are under `src/src/`; file names below leave out the prefix `mm_halow_`.

## Inventory

| Component | State | Operations | What makes it correct |
|---|---|---|---|
| Scheduler (`sched.c`) | task table and list, `task_cur`, `woken`, `wake_at`, pass deadline, claim owner and depth, `wait_depth`, teardown flag | create, delete, yield, wait, park, run, reap, claim, release, wake, deinit | one context services at a time; no wakeup and no deadline is lost; the running stack is never freed; passes and timed waits end |
| Critical sections, tasks, counting semaphores (`osal.c` 214-331, 402-464) | nesting count, semaphore count | enter, exit, give, wait, sleep, join, notify | a critical section is never left open for somebody else |
| Mutex, binary semaphore, queue (`osal.c` 333-400, 466-608) | lock and owner, flag, ring buffer | get, release, give, wait, push, pop | one owner, truthful; FIFO within its size; waiters are woken |
| Heap (`osal.c` 34-212) | block list over one array | init, deinit, malloc, calloc, realloc, free | blocks tile the array; no byte has two owners; nothing leaks; walks end |
| Timers (`osal.c` 625-739) | linked list of timers | create, delete, start, stop, change period, poll | never early, never lost, never touched after being freed |
| Log limiter, failure record (`osal.c` 741-811) | line counters, one record | printf, log failure | at most so many lines a second |
| Packet memory (`pktmem.c`) | two counters, pause flag, two reserved pools | init, deinit, allocate and free for each kind of packet | exact counts, bounded, reserve kept, flow control told and resumed |
| HAL (`hal.c`) | pin levels, IRQ enables, `busy_seen` | chip select, IRQ handling and re-arming, firmware reads | an asserted line is always serviced; the bus path gives the CPU back |
| Controller (`ctrl.c`) | `initted`, `booted`, `itf_state`, `scan_active`, `link_status`, settings, scan cache, station list, transmit buffer, `rx_deferred` | init, deinit, poll, set up, scan, join, leave, AP, settings, transmit | teardown frees nothing in use; flags say what morselib does, whatever a callback or a fatal error does in between; settings take effect; a frame is sent as it was given |
| lwIP glue (`lwip.c`) | list of interfaces, default route, link flags | init, deinit, link change, input, output | each interface is listed once, and only while it is up; the default route is handed on; no frame enters lwIP in the middle of a send |
| Port, morselib, lwIP | external | clock, PendSV, heap block, bus | modelled from how `src/` uses them |

They meet in five places. `mm_halow_poll_func` (PendSV or thread) claims the
service, polls the interrupt lines and the timers, and runs the scheduler. A
wait outside a task makes passes of the scheduler itself. Everything that can
end a wait calls `mm_halow_sched_wake`. All memory comes from the one heap. And
the waits of the thread run Python callbacks, which call the controller again.

PROJECT.json lists the components with their status and, under `hazards`, what
is hard to test in them, line by line, with the properties that watch it.

## Modules

| Module | Models | Role |
|---|---|---|
| `Clock` | arithmetic on `uint32_t` milliseconds | `CLOCK` stands for 2^32 |
| `Sched` | `sched.c`, `poll_func`, semaphores, critical sections, the yield of chip select | state machine, properties, inductive invariants `IInv` and `TimeInv` |
| `SchedProofs` | | proofs about `Sched` |
| `Allocator` | what callers of the heap may rely on | abstract specification |
| `Heap` | the heap | implements `Allocator` |
| `HeapProofs` | | proofs about `Heap`, the refinement included |
| `Fifo` | what users of a queue may rely on | abstract specification |
| `Sync` | mutex, binary semaphore, queue, task notifications | its ring buffer implements `Fifo` |
| `SyncProofs` | | proofs about `Sync` |
| `Timers` | the timers and their poll | |
| `TimersProofs` | | proofs about `Timers` |
| `PktMem` | `pktmem.c` | |
| `PktMemProofs` | | proofs about `PktMem` |
| `Irq` | IRQ and BUSY lines, edge interrupt, the early returns of `poll_func` | |
| `IrqProofs` | | proofs about `Irq` |
| `Ctrl` | init, deinit, interfaces up and down, scan, join, settings, morselib's callbacks, the interface list of `lwip.c` | |
| `CtrlProofs` | | proofs about `Ctrl` |
| `Datapath` | transmit and receive between lwIP and morselib | state machine, properties, inductive invariant `IInv` |
| `DatapathProofs` | | proofs about `Datapath` |
| `MCSched`, `MCHeap`, `MCSync`, `MCTimers` | | values for TLC |

A definition is named for the function it models, `map` in PROJECT.json gives
the lines. Definitions called `Fault...` are the mistakes the properties are
tested against: each replaces the definition after it, and the property it is
paired with in `mutants` must then fail.

### Sched

The agents are the tasks and the contexts `"thread"` and `"irq"` (PendSV); `pc`
says where each stands. `Executing(c)`: PendSV if it is active, otherwise the
thread. A context that resumes a task stands at `"turn"` while the task runs.
One action is what happens between two points where PendSV can make a
difference: `WaitCond`, `WaitCheck`, `WaitRecheck` and `Park` are the lines of
`mm_halow_sched_wait`, `PassStart`, `Walk`, `PassEnd`, `Reap` and `RunExit` those
of `mm_halow_sched_run`, `CreateFind` and `CreateLink` those of
`task_create`. `CsAssert` is the forced yield on the bus, which looks at the
budget and at the critical section. A task's critical sections nest as in the
code: `critical_nesting` counts, the first entry saves what it found in
`critical_state`, and the last exit restores it to `masked`. `MaxNest` bounds
the depth.

Waits are for semaphores. Sleep, join and notify use the same
`mm_halow_sched_wait` with another condition and are not separate actions
(notifications are in `Sync`). Each context has one wait at a time: callbacks
that the event hook runs inside a wait, and the calls they make, are in `Ctrl`. Stacks are live or
freed, not words; allocation of a stack always succeeds.

### Heap

Addresses are numbers, `block` maps the address of each header to its fields,
and a walk takes one step per block so that a cycle shows as a walk that does
not end. The walks run in an atomic section, so no other call starts during
one; `realloc` gives the section up between its `malloc` and its `free`, and
the other context calls in between. `Round` keeps the width of `size_t`
(`SIZE_MAX`). `live` is what callers believe they hold.

### Sync

A wait tries its condition; a task for which it fails parks until a pass, and
the thread may try again whenever it runs. Passes are modelled in outline: they
clear `woken` and then give every task a turn; `Sched` has the details. Each
store of `mmosal_mutex_release` is a step of its own. `notify` counts a task's
notifications, `MaxNotify` bounds it. A timeout may come at any
failed try, which covers every `timeout_ms`, and the two waits in a row of a
FOREVER `mmosal_mutex_get`.

### Timers

Two agents call: the thread, step by step, and the service (tasks and
callbacks, in whichever context serves), which the thread never cuts in on. The
ghosts `since` and `wanted` say how long ago the clock was read for a timer's
`expires_at`, and which period was added. Assumed of morselib: nobody uses a
timer being deleted, callbacks delete no timer but their own and do not wait,
and a period with `MaxLate` added stays within 2^31 ms: a longer one may be
taken for one in the past. `MaxLate` is the longest call and the longest time
between two polls, so a timer fires within its period and three of those: the
call that sets it, the wait for a poll, and the poll. Stores happen
in program order, although `expires_at` is not volatile.

### PktMem

The atomics are single steps; the thread may be cut in on between any two.
Allocations made under lwIP's lock cannot be, others can, and the model does
not tell them apart. Packets are counted, sizes are abstracted to "fits a
reserved block" or not, `told` is what the flow-control callback last reported.
Deinit looks `TRIES` times (100 in the code) and then gives up without another
look.

### Irq

The lines change at any time, IRQ falls only after its handler was called
(`told`), and the edge interrupt acts in the instant IRQ rises. Polls are cut at
the points where a line may change: the claim, the look at the lines, the work,
the release, the re-arming. Morselib registers, enables and powers down from the
thread or from the tasks of a pass, so not between the look and the work. Passes
made by the thread's waits hold the service and read no line. Timers and tasks
appear as "something may be due".

`LinesServiced` says of IRQ that it is serviced if it stays asserted, and of
BUSY only that a level the last look did not see is: `irq_pending` compares two
looks, so a BUSY that falls and rises again between them, or is disabled and
enabled again, counts as unchanged and waits until something else calls for a
full pass.

### Ctrl

The calls under way form `stack`, the innermost first, because the thread's
waits run callbacks that call the driver. A frame says which call, for which
interface, and where it stands: the places are the points of the call at which
morselib is called, and between which PendSV can make a difference.
`Waits` are those where a callback may run. `mm_halow_deinit` has a place per
part it takes down (`stop`, `sched_deinit`, the three stores of
`mm_halow_osal_deinit`, `clear`), so that a late dispatch may find each of them
half done. Memory is abstracted to whether it stands: `pool` (the pool itself),
`heap` (the allocator's list in it), `tx_buf`, `scan_cache`, and whether the
lists hold tasks or timers.
Settings are Boolean; `applied` is what morselib uses.

morselib is seen through its calls and callbacks: `chip`, `sta`, `link`,
`sweep` and `ps` (the power mode it uses, power saving until it is told
otherwise) are its state. Assumed of it, as the comments of the source have it:
requests fail when the transceiver is off, a boot fails when it is up; whoever
stops a station or a sweep reports that through its callback; a fatal error
leaves it as after a shutdown; starting the AP and changing settings do not
wait; `mmwlan_init` is given settings it accepts. `mm_halow_wifi_pm` may be
refused half way, by then `ps` may have changed though `pm` has not. Assumed of
the hook: it keeps `mm_halow_sched_in_callback` for the callback's duration.

Callers are free to make any call from any callback. A callback in the last wait
of `mm_halow_deinit` may bring an interface up, and nothing takes that one down
again: `stranded` remembers it, and `NothingDangles` and `NetifsMatch` say what
still holds then, and what holds as long as it has not happened (see the
disagreements below). A later session would add such an interface to lwIP's list
for a second time, which closes the list to a ring; `Ring` stops the list there.

### Datapath

`send` is the send of lwIP outside the tasks, of which there is at most one:
the thread holds PendSV off while it is inside lwIP. Where it stands: looking at
the transmit path (`check`), in a pass of its own (`poll`), or with its data
chosen and about to be copied to a packet (`append`). `task` is what a task does
inside lwIP, after a received frame or a change of the link. `tx_buf` is the
frame the shared buffer holds. A send in PendSV may stand over a pass of the
thread; then it cannot poll, and only time ends it. Over a task that the thread
runs, inside lwIP or not, `mm_halow_sched_task_current` answers with that task
and the send does not wait at all (`SendOverTask`). The task goes on only when
PendSV is done (`TaskRuns`).

`FramesIntact` holds for every send of lwIP, and for the sends of tasks except
those that are `Exposed`: made in a pass of one of the thread's waits, where
PendSV may cut in. Assumed of the tasks: none parks inside lwIP.

## Runs

| Run | Question | Instance |
|---|---|---|
| `sched` | stacks, critical sections, wakeups, deadlines and `pending` over a wrap | 2 tasks that wait, 1 semaphore of count 1, waits of 1 tick, of the longest time (capped) and for ever, sections nested 2 deep, 2 passes a run, clock of 12 |
| `sched_live` | claims and waits nest and unwind; progress | the thread and 1 task in waits for ever, which a teardown bounds to 1 tick; PendSV; clock of 8 |
| `sched_create` | violation: a created task is run | 2 tasks |
| `heap` | the allocator | 20 bytes, headers of 2, alignment of 2, `SIZE_MAX` 31 |
| `sync` | mutex, binary semaphore, queue, notifications | 2 tasks and the thread, ring of 2, 2 items, 1 notification each |
| `timers` | the timers | 2 timers, periods of 1 and of the longest the assumption allows, clock of 8 |
| `pktmem` | the packet memory | windows of 4 and 2, one reserved block each way |
| `pktmem_three` | violation: a paused data path is resumed, with the fewest blocks the code accepts | windows of 3 and 2 |
| `irq` | the lines and the edge interrupt | everything; the module has no parameters |
| `ctrl` | life cycle, scan, join, AP and settings | both interfaces and another of the board, one setting, calls nested 2 deep, nothing after a session that strands an interface (`LastSession`) |
| `ctrl_settings` | violation: settings "take effect the next time it is brought up" | a setting of each kind, no nesting |
| `datapath` | transmit and receive | a frame of one pbuf and two of several, limit of 2 ticks |

Bounds. Two tasks are enough for one to be walked past, reaped or created while
another runs. The clock starts two ticks before it wraps, and half its range
exceeds every distance the code compares. `MaxLate` bounds how late the clock
lets things come (`Punctual`): the next pass, which is the network poll's
millisecond; the end of a run whose budget is used up, which comes with the next
bus access of its task; and the next step of a wait. Twenty bytes
hold five minimal blocks, and sizes reach past `SIZE_MAX` when rounded. A ring
of two is full, empty and wrapped. A window of four has room on both sides of
both thresholds. Two calls deep is one callback inside a wait: MicroPython does
not run a scheduled callback inside another. Without `LastSession` the run has
more than ten million states; with it, two; the theorems cover what it leaves
out. Two chained frames are enough for one to overwrite the other, and two ticks
for the limit to be reached in a poll or outside one.

In `sched_live` every wait is one for ever. Until a teardown nothing ends it but
the semaphore; during one it has `WAIT_MAX`, which is one tick here, and is from
then on the ordinary bounded wait of that length, so that both kinds are
checked. PendSV's own waits are not in that run: each one delays the thread's by
as long as it lasts, which would take `MaxLate` to the length of a wait. The
safety proofs cover them.

Reductions. `MCSched` uses symmetry of the tasks in the two safety runs, and in
all three a view that expresses every reading of the clock relative to the
present; the specification compares readings and nothing else, so states that
agree on the view differ by a shift of the clock and have the same steps up to
that shift. `MCTimers` has such a view too, and leaves out the expiry of timers
that are inactive and that nobody is at work on: nothing reads it before it is
written. The temporal properties of these runs do not tell states apart that
agree on the view: `NotEarly` looks at the ghosts of a timer about to fire, which
is active, and those of `sched_live` at where agents stand. No run with a
liveness property uses symmetry.

Fairness. PendSV's poll keeps coming and runs to completion, a task that has the
CPU goes through its waits and leaves its critical section, and the clock
advances: weak fairness. The thread's steps are strongly fair, because PendSV
takes the CPU from it again and again but each time gives it back. Strong
fairness alone would let any number of polls pass before the thread's next step,
and with the clock held back for it (`Punctual`) time would stand still;
`Unstarved` says that PendSV does not come again before a thread that is late in
its wait has taken a step (`FairSpec` of `Sched`). `CsAssert` is
strongly fair: a task that does not give up the CPU goes to the bus again and
again, which is the case the yield there was written for. In `Irq`, PendSV's
poll is strongly fair: one that comes during a pass of the thread is refused,
but the thread gives the service up between passes, and not every dispatch
misses those gaps. In `Datapath`, the
send and the tasks it runs have the CPU and the clock ticks (weak), and a pass
comes to its end however often its tasks enter lwIP (strong: `RunEnds` of
`Sched` is what justifies it); nothing is assumed of the transmit path. Nothing
is assumed about who gives a semaphore. The heap's
`WalkEnds` needs only that a walk goes on.

### Disagreements found

- `CreatedIsListed` (run `sched_create`). `task_create` walks to the end of the
  list and then stores the link. If PendSV reaps the last task in between, the
  store goes to a task that is no longer listed and the new task never runs.
- `SettingsTakeEffect` (run `ctrl_settings`). `wifi_set_radio` promises that what
  is stored takes effect the next time the interface is brought up, `wifi_pm`
  that `mm_halow_init` applies what was configured before. In the trace a
  `wifi_set_up` runs `mm_halow_init` and fails in `mm_halow_set_country`; a
  setting is stored, with nothing booted to push it to; the next `wifi_set_up`
  succeeds and does not apply it, because `mm_halow_init` returns at once while
  `initted` is set. The same lines leave a setting out that is stored between
  taking an interface down and bringing it up again. The transmit power is not
  applied by `apply_radio` at all.
- `PausedResumes` with three transmit blocks (run `pktmem_three`), the fewest
  `pktmem.c:60` accepts. An allocation the heap is about to refuse is counted
  meanwhile; PendSV pauses with two packets and frees both, does not resume
  because of that count, and then nobody is left who would.

Others were met while modelling and have no run of their own:

- An interface that a callback brings up in the last wait of `mm_halow_deinit`
  stays listed in lwIP with its driver gone and its transmit buffer freed. The
  next `mm_halow_init` clears `itf_state` (`ctrl.c:192`), and the `set_up` after
  it adds the same `netif` a second time. `NothingDangles` and `NetifsMatch`
  hold until then, hence their conditions on `stranded`.
- lwIP's timers in PendSV may send while a task of the thread's wait is inside
  lwIP. That send overwrites `mm_halow_tx_buf` between the task's linearising
  and its append, although `sched.h:16-18` says that "lwIP needs no additional
  locking". `FramesIntact` excludes the sends of such tasks.
- An AP may doze, though `wifi_pm` and `ap_enable` look at each other: a mode
  stored when nothing is booted is not applied (as above), and an `apply_pm`
  that fails half way leaves the new mode in morselib (`ctrl.c:793-823`).
- `sched.h:70` says that longer waits are capped and "nothing here waits
  forever"; a FOREVER wait outside teardown is not (`sched.c:326-358`).
- The AP's `link_status` stays UP after a fatal error and after
  `wifi_leave` of the AP, as it is read from `itf_state` (`ctrl.c:716`).
  `OffLooksOff` is about the station for that reason.
- `wifi_set_up(false)` called by a callback inside the shutdown of another one
  clears `mm_halow_sched_teardown` on its way out (`ctrl.c:510`), and the outer
  shutdown goes on without the cap on its waits.
- `wifi_leave` sets the link status DOWN before morselib has left, so a callback
  may start a sweep on a link that is still up; and a join whose abort runs into
  its five seconds goes on during the sweep (`ctrl.c:539`, `ctrl.c:688`).
- A fatal error between the return of `mmwlan_boot` and the store of `booted`
  leaves `booted` set with the transceiver off: the interface comes up and
  requests fail until it is cycled.
- A link that comes up during a send's wait starts DHCP, which enters lwIP
  although received frames are held off (`LinkState` of `Datapath`). The frames
  stay intact; what lwIP makes of it is outside the repository.

## Theorems

Every safety property that a passing run checks is also proved, for every value
of the constants that satisfies the `ASSUME`s of its module and the hypothesis
of the theorem, if it has one. In each `...Proofs` module `IInv` is the
inductive invariant; there is a lemma for the initial states and one per action,
which treats the conjuncts of `IInv` one by one, and the theorems at the end
draw the properties from it. What `IInv` adds to the properties, and why:

**Sched** (`TypeCorrect`, `ServiceExclusive`, `ClaimsCorrect`, `WaitersGranted`,
`WaitDepthCorrect`, `StackLive`, `CriticalSafe`, `WakeupsKept`), for every set of
tasks and semaphores, every clock and every budget. Where each agent may stand:
`ContextShape` (what a context holds at each place), `RunShape` (a run is under
way exactly when one context is inside it, and `task_cur` is set exactly at its
`"turn"`), `ListOnce`, `TaskShape` (a task that does not run is parked, fresh or
yielded), `CreateShape`, and `NoMissedGive` (a task past its condition check
with a count on its semaphore has been woken since). The last is what
`NoLostWakeup` needs to be inductive: between check and parking nothing is
parked yet, but a give must already be remembered. PendSV's waits, which the
two-task run leaves out, are covered too.

**Sched, time** (`DeadlinesAreKept`, `PendingIsSound`). Comparing readings by the
sign of their difference orders them only while they lie within half the clock's
range of each other, and no two deadlines have a common reading to be measured
from. `TimeInv` supplies one: there is an instant `p`, the beginning of the last
pass, after which `wake_at`, the deadline of the run and the deadlines of all
tasks parked since lie, in an order that counting from `p` makes plain
(`PassBeganAt`). `PassStart` is the step at which the witness changes.
`NoLostTurn` says that a task which is not parked has its turn coming or has set
`woken`; without it, a pass that nobody asked for could be missing. The theorems
have the hypothesis `InReach`: the longest wait plus a run that ends late is
below 2^31 ms. The code has 10 s and a budget of 20 ms.

**Heap** (`TypeCorrect`, `PoolIsTiled`, `CallersOwnTheirBytes`, `NothingIsLeaked`,
`FailureIsHonest`, and the refinement `HeapKeepsPromise`), for every pool,
alignment, header and `SIZE_MAX` with room to round a size of the pool. What the
walks have established so far: `PassedUnfit` (no block the malloc has passed
would do), `Merged` (no two free neighbours before the place of a free),
`MallocWalk` and `FreeWalk` (the place is a header, sizes are aligned); what
callers hold: `HeldFits`, `UsedIsHeld`; and `MoveOwns`, that two reallocs under
way, one per context, are at four different blocks. `Tiled` then says that a
split or a merge leaves every other block where it was, from which the
disjointness that `Allocator` promises follows.

**Sync** (`TypeCorrect`, `OwnerCorrect`, `WaitersLooked`, and `QueueImplements`,
the refinement of `Fifo`), for every set of tasks and every ring size.
`RingShape` (the tail is `count` places after the head), `CallShape` (only the
holder is inside a release) and `WakeComing`, which is `WaitersWoken` in the
middle of a pass: a parked task the pass will not look at any more has `woken`
set or a caller about to set it.

**Timers** (`TypeCorrect`, `VisitsAreLive`, `TimersFireInTime`, and the action
property `TimersFireOnTime`), for every set of timers and every clock.
`PollShape` and `OpShape` say that the poll's two pointers and those of the calls
are at linked timers, `Recent` bounds the age of the readings of the clock that
the calls and the poll still use, `ExpiryExact` ties `expires_at` to the ghosts,
`JustSet` covers the gap between the store of `expires_at` and that of `active`,
and `Lateness` is `NotLate` in the middle of a poll, in which the timers still
ahead may have waited longer than those passed. Assumed: a period plus `MaxLate`
is at most 2^31, and two of `MaxLate` are below it.

**PktMem** (`TypeCorrect`, `CountIsExact`, `ReserveIsWhole`, `PoolsOutliveUsers`,
`FlowControlIsTold`, `PausedIsResumed`), for every window and reserve. `CallShape`
and `OwnOut` (a packet that an allocation is about to hand over cannot have been
freed by anybody else), `BoundKept` (an allocation let through keeps its place
until the heap has answered), `PoolExact`. `PausedIsResumed` has an invariant of
its own on top, `ResumeComing`, and the hypothesis that the resuming threshold
is above one, which of the windows the code accepts leaves out only that of
three blocks, where the property is false (`pktmem_three`).

**Irq** (`TypeCorrect`, `RearmIsComing`, `ServiceIsExclusive`). `OwnerExact`: the
service has an owner exactly while a poll or pass of that context is under way,
so a poll that is refused knows that somebody else will re-arm.

**Ctrl** (`TypeCorrect`, `NothingIsLeftDangling`, `NetifsAreTheInterfaces`,
`ScanFlagIsExact`, `OffIsVisible`), for every depth of nesting, where the run has
two, and for the sessions after one that strands an interface, which the run
leaves out. `Nesting` (every call but the innermost one stands at a
wait, and a deinit is only ever the outermost), `Undone` (what a deinit has taken
down by the place it is at, and that nothing called inside it can set it up
again, but for an interface that is `stranded`), `Running`, `Radio` and `Requesting` (the driver's flags against
morselib's state), `Joining` (only a join under way may say so while morselib's
station is off) and `Routes`.

**Datapath** (`TypeCorrect`, `FramesCorrect`, `ReceiveHeldOff`), for every set of
frames, chained or not, and every time limit. `TaskInPoll`: while a task is
inside lwIP, the send is in its poll, or is PendSV's and has cut in on that very
task, which stands still until it is done. So no send has its data chosen when a
task overwrites the buffer, which is what linearising after the wait is for, and
a received frame that passed the flag finds no send that waits.

Only model-checked: liveness (`RunEnds`, `TimedWaitEnds`, `TokenServed`,
`WalkEnds`, `LinesServiced`, `SendEnds`), which needs fairness
and is out of the prover's reach, and the three violations. The proofs are about
the modules: that they say what the code does rests on reading the two side by
side, and on the assumptions about morselib, lwIP and the port above.

## Not modelled

- The contents of the scan cache and of the AP's station table, and the choice
  of a channel: searches of small arrays, changed and copied out in one atomic
  step each.
- Pass-through calls and queries of the controller (TWT, WNM, standby, ATE,
  rates, versions, RSSI): a check and a call of morselib.
- `mmosal_task_sleep` and `mmosal_task_join` as actions: they are waits of
  `Sched` with another condition.
- The log limiter and the failure record, which nothing reads back; firmware
  reads, pin set-up and bus transfers, which are I/O; randomness.
- morselib, lwIP and the port, which are outside the repository. Whether lwIP
  tolerates being entered from PendSV over a task that is inside it, and whether
  timer callbacks take mutexes, is decided there.

## Plan

Done: all modules above with their runs, and a proof for every safety property
the runs check.

Next: separate the facts that hold for every state machine here from those about
one (arithmetic of the clock, sums over two contexts), so that proofs become
shorter; state the handful of step properties that the invariants imply and that
a reader of the code would ask for (`wake_at` only moves towards the present
within a pass, a reserved block changes hands only through its list).
