SPECIFICATION FairSpec
INVARIANTS TypeOK NoMailSkipped
PROPERTIES MailIsProcessed
CONSTANTS
  c1 = c1
  c2 = c1
  Carriers = {c1}
  n1 = n1
  n2 = n2
  o1 = o1
  None = None
  Numbers = {n1, n2}
  Orders = {o1}
  Scanners = {s1}
  Contents <- ScanContents
  CarrierStatuses = {"in_transit"}
  Polled = c1
  PageCap = 2
  OVERLAP = 0
  SCAN_DAYS = 1
  STALE_DAYS = 0
  INTERVAL = 1
  BACKOFF = 2
  DUE_TOLERANCE = 0
  STOP_AFTER = 1
  MAX_FAILURES = 2
  Ops = {"add", "archive", "delete"}
  MaxTime = 1
  MaxMails = 1
  MaxPackages = 3
  MaxOps = 1
  MaxFaults = 1
  MaxCrashes = 1
