SPECIFICATION FairSpec
CONSTANTS
  Fifo = 2
  OutSize = 2
  Retries = 2
  Keys <- MCKeys
  Output <- MCOutput
INVARIANTS Addressed Shown Restored
PROPERTY Flows
CHECK_DEADLOCK FALSE
