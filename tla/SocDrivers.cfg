SPECIFICATION SessionSpec
CONSTANTS
  BridgeOrder <- MCBridgeOrder
  Platforms <- SioOnly
  Devices <- MCDevices
  Scu = "scu"
  Cmd = "cmd"
  None = "none"
  Dep <- MCDep
  Level <- MCLevel
  NDev = 7
  Order <- MCOrder
  FailAfter <- MCFailAfter
  Keeps <- MCKeeps
  MaxGets = 5
INVARIANTS HeldUsable LockRestored
CHECK_DEADLOCK FALSE
