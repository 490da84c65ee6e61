SPECIFICATION FairSpec
INVARIANTS TypeOK OneOwnedRun NoDuplicateItems
PROPERTIES KeepsLedger RunsEnd
CONSTANTS
  Sources = {s1}
  Threads = {t1, t2}
  None = None
  LOOKBACK = 2
  OVERLAP = 1
  MAX_BACKFILL = 3
  MAX_STUCK_RUNS = 2
  DaysBack = {1}
  Ops = {"clear", "delete", "reset"}
  Faults = {"health", "store"}
  MaxTime = 1
  MaxRuns = 2
  MaxCrashes = 1
