SPECIFICATION Spec
CONSTANTS
  a1 = a1
  a2 = a2
  c1 = c1
  ApiThreads <- Api
  CliThreads = {c1}
  Flows = {1, 2}
  Providers <- ThreeProviders
  Silent <- Api
  MaxPending = 1
  MaxOutcomes = 1
  MaxOps = 3
  MaxFaults = 1
INVARIANTS TypeOK SingleUse StatusIsTrue SignInKept
CHECK_DEADLOCK FALSE
