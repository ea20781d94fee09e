CONSTANTS
  None = None
  MaxFuture = 20
  MaxWindows = 32
  Inputs <- MCInputs
SPECIFICATION Spec
INVARIANT ClassifyIsPure
CHECK_DEADLOCK FALSE
