SPECIFICATION Spec

CONSTANTS
  Requests <- AllRequests
  Regions = {"flash", "soc"}
  GmpMask = {18, 25}
  Boots <- MCBoots
  MaxCalls = 1

INVARIANTS EnforceTakes NeverLooser

CHECK_DEADLOCK FALSE
