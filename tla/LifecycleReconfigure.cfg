CONSTANTS
  Admins = {a1, a2}
  Calls = {o1}
  Keys = {k1}
  None = None
  MaxGens = 2
  MaxFaults = 1
  QuiesceFirst = FALSE
SPECIFICATION FairSpec
INVARIANT TypeOK
INVARIANT OneGenerationWorks
INVARIANT WorkersHaveStores
INVARIANT PublishedTakesWork
PROPERTY AdminsReturn
PROPERTY CallsReturn
CHECK_DEADLOCK FALSE
