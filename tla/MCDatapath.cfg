\* A frame of one pbuf and two of several; three looks at the clock.
SPECIFICATION FairSpec
CONSTANTS
  Frame = {"plain", "chain1", "chain2"}
  Chained = {"chain1", "chain2"}
  TX_READY = 2
INVARIANTS FramesIntact RxHeldOff
PROPERTY SendEnds
