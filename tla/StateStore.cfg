CONSTANTS
  Records = {r1, r2}
  None = None
  Faults = {"load", "quarantine", "refuse", "temp", "write", "sync", "rename", "sync_dir"}
  MaxFaults = 3
  MaxDamages = 2
SPECIFICATION Spec
INVARIANT TypeOK
INVARIANT NeverTorn
INVARIANT DamagedIsKept
PROPERTY Implements
