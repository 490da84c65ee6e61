SPECIFICATION Spec
INVARIANTS TypeOK OneOrderPerQuote SpendWithinCap
PROPERTY KeepsIntent

CONSTANTS
  Names = {a, b}
  Threads = {t1, t2}
  None = None
  Kind = "namecheap"
  Offers <- StandardOffers
  Years = {2}
  MAX_PRICE = 3
  DAILY_CAP = 3
  ALLOW_PREMIUM = FALSE
  QUOTE_TTL = 1
  DAY = 1
  FLAG_AGE = 0
  Ops = {"reconcile", "remove"}
  Faults = {"malformed", "unusable", "final"}
  MaxTime = 1
  MaxQuotes = 2
  MaxCrashes = 1
