CONSTANTS
  c1 = c1
  c2 = c2
  c3 = c3
  i1 = i1
  i2 = i2
  Scanners = {s1}
  Usages = {u1, u2}
  Contents = {c1, c3}
  Ids = {i1, i2}
  IdOf <- MCIdOfReplaced
  None = None
  Faults = {"get", "runtime", "no_revision", "no_id", "unnamed", "save", "save_reply", "store", "crash"}
  UserRaces = {}
  MaxFaults = 1
  MaxRev = 4
  MaxLevel = 1
SPECIFICATION Spec
INVARIANT TypeOK
INVARIANT RevisionsMeanWhatTheySay
INVARIANT DisableTrackedUntilFault
PROPERTY EnableOnlyOwnDisable
PROPERTY DisableOnlyNamedIdentity
CHECK_DEADLOCK FALSE
