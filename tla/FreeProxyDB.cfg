\* Pages of 2 records; later pages may come empty, the first does not.
CONSTANTS
  p = p
  q = q
  bad = bad
  Proxies <- MCProxies
  Invalid <- bad
  Catalogues <- MCCatalogues
  PageSize = 2
  MaxCandidates = 1
  InputFactor = 4
  EmptyPages = {2, 3}
  MaxRetries = 1
  RetryDelays <- MCRetryDelays
  MaxRetryAfter = 20
  Second = 4
  DurationLimit = 128
  Headers <- MCHeaders
SPECIFICATION Spec
CHECK_DEADLOCK FALSE
INVARIANTS
  CompleteIsWhole
  LimitsHold
  MarkedWithReason
PROPERTIES
  RoundEnds
