SPECIFICATION Spec

CONSTANTS
  Socs <- AllSocs
  Bridges <- MCBridges
  Loses = {}
  Names = {"none", "/dev/ttyUSB0"}
  None = "none"

INVARIANTS AllReported

CHECK_DEADLOCK FALSE
