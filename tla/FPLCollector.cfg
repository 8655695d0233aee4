\* Two workers, three sources of up to 2 of 3 proxies, a budget of 3.
\* Ends by design: a cancelled loop stops.
CONSTANTS
  p = p
  q = q
  r = r
  bad = bad
  long = long
  NumSources = 3
  FetchConcurrency = 2
  Proxies <- MCProxies
  Invalid <- bad
  LongLine <- long
  Lists <- MCLists
  MaxCandidates = 2
  TotalCandidates = 3
SPECIFICATION Spec
CHECK_DEADLOCK FALSE
INVARIANTS
  CompleteIsWhole
  BudgetHolds
  SlotsFilled
PROPERTIES
  RoundReturns
