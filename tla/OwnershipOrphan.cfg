CONSTANTS
  c1 = c1
  c2 = c2
  c3 = c3
  i1 = i1
  i2 = i2
  Scanners = {s1}
  Usages = {u1}
  Contents = {c1, c2}
  Ids = {i1, i2}
  IdOf <- MCIdOfEdited
  None = None
  Faults = {"runtime"}
  UserRaces = {}
  MaxFaults = 1
  MaxRev = 3
  MaxLevel = 1
SPECIFICATION Spec
INVARIANT DisableTracked
CHECK_DEADLOCK FALSE
