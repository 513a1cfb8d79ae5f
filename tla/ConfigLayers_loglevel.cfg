SPECIFICATION Spec
CONSTANTS
  Zero = Zero
  Malformed = Malformed
  InterfaceIPs <- TwoInterfaces
  Inputs <- DebugInputs
INVARIANTS LogLevelFromEnv
CHECK_DEADLOCK FALSE
