\* Both ways at their bounds, with the thread and PendSV allocating and freeing.
CONSTANTS
  TX_BLOCKS = 4
  RX_BLOCKS = 2
  N_BLOCKS = 1
  TRIES = 2
SPECIFICATION Spec
INVARIANTS
  CountExact
  ReserveWhole
  NotFreedUnderUse
  FlowControlTold
  PausedResumes
