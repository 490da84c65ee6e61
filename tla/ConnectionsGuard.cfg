SPECIFICATION FairSpec
INVARIANTS TypeOK OverlayFresh DeletedStaysDeleted SecretsKept
PROPERTIES RequestsEnd DeletedNotCollected TogglesKept
CONSTANTS
  None = None
  Ids = {c1, c2}
  Names = {n1, n2}
  Threads = {t1, t2}
  Env = {c1, c2}
  Rejected = {c2}
  Ops <- AllOps
  MaxOps = 2
  MaxFaults = 1
  MaxCrashes = 1
