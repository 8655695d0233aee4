\* Terminates by design: the call returns.
CONSTANTS
  MaxUrls = 3
  Concurrencies <- MCConcurrencies
SPECIFICATION Spec
CHECK_DEADLOCK FALSE
INVARIANTS
  ClosedAfterWorkers
  ReturnsReachable
PROPERTIES
  Returns
