SPECIFICATION Spec
INVARIANT FailedNeverCharged

CONSTANTS
  Names = {a}
  Threads = {t1}
  None = None
  Kind = "godaddy"
  Offers <- StandardOffers
  Years = {1}
  MAX_PRICE = 3
  DAILY_CAP = 3
  ALLOW_PREMIUM = FALSE
  QUOTE_TTL = 1
  DAY = 2
  FLAG_AGE = 1
  Ops = {}
  Faults = {"transport"}
  MaxTime = 0
  MaxQuotes = 1
  MaxCrashes = 0
