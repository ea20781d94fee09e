CONSTANTS
  c1 = c1
  c2 = c2
  c3 = c3
  i1 = i1
  i2 = i2
  Scanners = {s1}
  Usages = {u1}
  Contents = {c1, c2}
  Ids = {i1, i2}
  IdOf <- MCIdOfEdited
  None = None
  Faults = {"get", "runtime", "no_revision", "no_id", "unnamed", "save", "save_reply", "store", "crash"}
  UserRaces = {}
  MaxFaults = 2
  MaxRev = 3
  MaxLevel = 1
SPECIFICATION FairSpec
PROPERTY PendingResolved
CHECK_DEADLOCK FALSE
