\* Two tasks that wait for a moment, until the cap or for ever, on a clock that wraps.
CONSTANTS
  t1 = t1
  t2 = t2
  sm = sm
  NoTask = NoTask
  NoSem = NoSem
  CLOCK = 12
  Task <- MCTask
  Sem <- MCSem
  MaxCount = 1
  PASSES = 2
  BUDGET = 1
  WAIT_MAX = 2
  Waiter <- MCTask
  Timeouts <- MCThree
  BootTicks <- MCBootTicks
  MaxLate = 1
  MaxNest = 2
SPECIFICATION Spec
SYMMETRY Symmetry
VIEW TimeFree
INVARIANTS
  TypeOK
  RunningStackLive
  CriticalHeldByRunner
  NoLostWakeup
  NoLostDeadline
  PendingSound
