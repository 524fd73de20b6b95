\* Callbacks nest one call inside another; one setting that morselib takes while inactive.
SPECIFICATION Spec
CONSTRAINT LastSession
CONSTANTS
  Setting = {"sgi"}
  MaxDepth = 2
INVARIANTS NothingDangles NetifsMatch ScanActiveExact OffLooksOff
