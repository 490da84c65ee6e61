SPECIFICATION FairSpec
INVARIANTS TypeOK ClosedIsAbsent
PROPERTIES Settles
CONSTANTS
  s1 = s1
  s2 = s2
  s3 = s3
  acme = acme
  bolt = bolt
  cog = cog
  None = None
  Sites = {s1, s2, s3}
  Kind <- Kinds
  Owners <- BoardOwners
  MAX_ATTEMPTS = 3
  MAX_SLUG_PROBES = 15
  PAGE = 1
  LLM_CAP = 80
  Cron = cron
  Rescans = {r1}
  Forms = {f1}
  Entries <- GuardEntries
  Watched <- GuardWatched
  Ids = {1, 2, 3}
  Opening <- GuardOpening
  OffTarget = {3}
  Shunned = {1}
  HasProfile = TRUE
  Spare = {s3}
  Ops = {"manual", "csv", "yc", "hn", "inbox", "rescan", "override", "move"}
  MISSED_TO_CLOSE = 2
  MAX_LLM = 1
  MAX_SCORE = 3
  BATCH = 2
  MaxPostings = 6
  MaxListed = 2
  MaxOps = 2
  MaxFaults = 1
CHECK_DEADLOCK FALSE
