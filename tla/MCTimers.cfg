\* Two timers, and a clock that wraps every eight ticks.
CONSTANTS
  u1 = u1
  u2 = u2
  NoTimer = NoTimer
  CLOCK = 8
  Timer <- MCTimer
  Periods <- MCPeriods
  BootTicks <- MCBootTicks
  MaxLate = 1
VIEW TimeFree
SPECIFICATION Spec
INVARIANTS
  NoStaleVisit
  NotLate
PROPERTY NotEarly
