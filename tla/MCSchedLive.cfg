\* The thread and one task, which wait for ever or, once a teardown has begun, for WAIT_MAX.
CONSTANTS
  t1 = t1
  t2 = t2
  sm = sm
  NoTask = NoTask
  NoSem = NoSem
  CLOCK = 8
  Task <- MCOneTask
  Sem <- MCSem
  MaxCount = 1
  PASSES = 1
  BUDGET = 1
  WAIT_MAX = 1
  Waiter <- AllButIrq
  Timeouts <- ForeverOnly
  BootTicks <- MCBootTicks
  MaxLate = 1
  MaxNest = 2
SPECIFICATION FairSpec
VIEW TimeFree
INVARIANTS
  ServiceExclusion
  ClaimAccounting
  WaitDepthExact
  WaiterNotRefused
PROPERTIES
  RunEnds
  TimedWaitEnds
  TokenServed
