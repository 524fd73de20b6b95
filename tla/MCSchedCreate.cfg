\* A task is created while PendSV may reap the tail of the list.
CONSTANTS
  t1 = t1
  t2 = t2
  sm = sm
  NoTask = NoTask
  NoSem = NoSem
  CLOCK = 6
  Task <- MCTask
  Sem <- MCSem
  MaxCount = 1
  PASSES = 2
  BUDGET = 1
  WAIT_MAX = 1
  Waiter <- AllButIrq
  Timeouts <- ForeverOnly
  BootTicks <- MCBootTicks
  MaxLate = 1
  MaxNest = 2
SPECIFICATION Spec
SYMMETRY Symmetry
VIEW TimeFree
INVARIANT CreatedIsListed
