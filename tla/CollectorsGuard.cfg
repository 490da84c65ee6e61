SPECIFICATION FairSpec
INVARIANTS TypeOK OkIsStored
PROPERTIES CollectedInTheEnd WatermarkMoves
CONSTANTS
  Kinds = {"gmail", "m365", "slack", "zoom"}
  World <- SmallWorld
  Boxes <- Names
  PAGE = 1
  MAX_PAGES <- Pages
  GRACE = 0
  MAX_UNJUDGEABLE = 1
  LOOKBACK = 2
  OVERLAP = 1
  S2S = TRUE
  MAX_STUCK_RUNS = 3
  MaxTime = 2
  MaxFaults = 1
  MaxChanges = 1
CHECK_DEADLOCK FALSE
