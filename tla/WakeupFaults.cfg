CONSTANTS
  Scanners = {s1, s2}
  Ids = {i1, i2}
  Windows = {w1}
  None = None
  Modes = {"initial", "reset"}
  MaxAttempts = 2
  Lease = 1
  InitialBackoff = 1
  MaxBackoff = 1
  Faults = {"save", "crash", "damage"}
  MaxTime = 3
  MaxEvents = 2
SPECIFICATION FairSpec
INVARIANT TypeOK
INVARIANT AttemptsBounded
INVARIANT RequestsRemembered
PROPERTY RepeatsAreDue
PROPERTY UsedIsNotWoken
PROPERTY UsedWindowIsNotWoken
PROPERTY DueIsAttempted
CHECK_DEADLOCK FALSE
