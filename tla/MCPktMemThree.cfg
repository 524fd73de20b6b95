\* The smallest pools the code accepts.
CONSTANTS
  TX_BLOCKS = 3
  RX_BLOCKS = 2
  N_BLOCKS = 1
  TRIES = 2
SPECIFICATION Spec
INVARIANT PausedResumes
