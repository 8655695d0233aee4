\* Pages of 2 records; at most 2 candidates, 2 pages (of the 3 that 6 records take) and 6 counted candidates.
CONSTANTS
  p = p
  q = q
  r = r
  bad = bad
  Proxies <- MCProxies
  Invalid <- bad
  Catalogues <- MCCatalogues
  Claims <- MCClaims
  PageSize = 2
  MaxCandidates = 2
  InputFactor = 3
  MaxPages = 2
  MaxRetries = 2
  RetryDelays <- MCRetryDelays
  MaxRetryAfter = 20
  Second = 4
  DurationLimit = 128
  Headers <- MCHeaders
SPECIFICATION Spec
CHECK_DEADLOCK FALSE
INVARIANTS
  HonoursRetryAfter
  CompleteIsWhole
  LimitsHold
  InterruptedIsMarked
PROPERTIES
  RoundEnds
