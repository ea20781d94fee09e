CONSTANTS
  None = None
  MaxFuture = 20
  MaxWindows = 32
  Inputs <- MCInputs
SPECIFICATION Spec
INVARIANT TypeOK
INVARIANT ResetOutlastsWindows
INVARIANT OpenWindowsDoNotDelay
INVARIANT SilenceIsTransient
INVARIANT AvailableIsOpen
CHECK_DEADLOCK FALSE
