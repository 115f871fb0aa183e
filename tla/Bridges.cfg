SPECIFICATION FairSpec
CONSTANTS
  Size = 6
  MaxCalls = 2
  Requests <- MCRequests
  Window = 2
  Scu = 3
  PgSize = 2
  IoBase = 4
  IoLen = 2
  Byte = 2
  DumpMin = 2
  DumpMax = 3
  LineLen = 2
  ByteMax = 2
  UMax = 3
  Reload = 5
  IoErrors = TRUE
  DebugRequests <- MCDebugRequests
  MaxNoise = 1
  MaxEnters = 2
  MaxRetries = 1
  MaxStarved = 2
INVARIANTS LeftAsFound InStep
PROPERTIES AhbSpec Returns
CHECK_DEADLOCK FALSE
