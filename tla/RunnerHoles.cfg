SPECIFICATION Spec
INVARIANTS NoSilentHole NoPinnedWatermark
CONSTANTS
  Sources = {s1}
  Threads = {t1}
  None = None
  LOOKBACK = 2
  OVERLAP = 1
  MAX_BACKFILL = 2
  MAX_STUCK_RUNS = 2
  DaysBack = {1}
  Ops = {"reset_all"}
  Faults = {"store", "final", "long"}
  MaxTime = 3
  MaxRuns = 3
  MaxCrashes = 1
