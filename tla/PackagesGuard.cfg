SPECIFICATION Spec
INVARIANTS NoOrphans OneRowPerParcel
PROPERTIES StatusForward
CONSTANTS
  c1 = c1
  c2 = c2
  Carriers = {c1, c2}
  n1 = n1
  n2 = n2
  o1 = o1
  None = None
  Numbers = {n1}
  Orders = {o1}
  Scanners = {s1, s2}
  Contents <- GuardContents
  CarrierStatuses = {"delivered"}
  Polled = c1
  PageCap = 2
  OVERLAP = 0
  SCAN_DAYS = 2
  STALE_DAYS = 1
  INTERVAL = 2
  BACKOFF = 2
  DUE_TOLERANCE = 0
  STOP_AFTER = 1
  MAX_FAILURES = 2
  Ops = {"delete"}
  MaxTime = 1
  MaxMails = 2
  MaxPackages = 3
  MaxOps = 1
  MaxFaults = 0
  MaxCrashes = 0
SYMMETRY Symmetry
