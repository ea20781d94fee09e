CONSTANTS
  Admins = {a1}
  Calls = {o1}
  Keys = {k1}
  None = None
  MaxGens = 2
  MaxFaults = 0
  QuiesceFirst = FALSE
SPECIFICATION Spec
INVARIANT UpdatesSurvive
CHECK_DEADLOCK FALSE
