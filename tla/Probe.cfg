SPECIFICATION Spec

CONSTANTS
  Socs <- AllSocs
  Bridges <- MCBridges
  Loses = {"ilpcctl", "debugctl", "pciectl"}
  Names = {"none"}
  None = "none"

INVARIANTS ExitStatus AllReported ListAlive

CHECK_DEADLOCK FALSE
