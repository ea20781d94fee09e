CONSTANTS
  Admins = {a1, a2}
  Calls = {o1, o2}
  Keys = {k1, k2}
  None = None
  MaxGens = 2
  MaxFaults = 1
  QuiesceFirst = TRUE
SPECIFICATION Spec
SYMMETRY Alike
INVARIANT UpdatesSurvive
CHECK_DEADLOCK FALSE
