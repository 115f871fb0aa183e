SPECIFICATION SessionSpec
CONSTANTS
  BridgeOrder <- MCBridgeOrder
  Platforms <- Any
  Devices <- ScuOnly
  Scu = "scu"
  Cmd = "cmd"
  None = "none"
  Dep <- ScuDep
  Level <- ScuLevel
  NDev = 1
  Order <- ScuOrder
  FailAfter <- Nobody
  Keeps <- Nobody
  MaxGets = 0
INVARIANTS Released Picked
CHECK_DEADLOCK FALSE
