CONSTANTS
  p1 = p1
  p2 = p2
  x1 = x1
  x2 = x2
  Names = {p1, p2}
  Urls = {x1, x2}
  Creds = {c1, c2}
  Admins = {a1, a2}
  None = None
  MaxProfiles = 2
  Catalogs <- MCCatalogs
  Uses <- MCUses
  Lifetime = 1
  MaxPlans = 2
  Faults = {"item", "reply", "catalog", "crash", "unreadable"}
  MaxTime = 1
  MaxPreviews = 2
  MaxWork = 1
SPECIFICATION Spec
INVARIANT TypeOK
INVARIANT FallbacksEnd
INVARIANT CatalogLoads
INVARIANT TakenOnce
PROPERTY OnlyEditsByHandAreLost
INVARIANT MarkedWasMoved
CHECK_DEADLOCK FALSE
SYMMETRY Alike
