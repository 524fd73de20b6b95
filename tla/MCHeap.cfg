\* A pool of ten units, where a header is one unit.
CONSTANTS
  HEAP_SIZE = 20
  ALIGN = 2
  HDR = 2
  SIZE_MAX = 31
  Sizes <- MCSizes
  Counts <- MCCounts
SPECIFICATION FairSpec
INVARIANTS
  Tiled
  HeldIsOwn
  NothingLeaks
  FailsOnlyWhenFull
PROPERTIES
  WalkEnds
  KeepsPromise
