\* Boundary values of every option.  Ends by design: opened, rejected or refused.
CONSTANTS
  Inputs <- MCInputs
  StoreLimit = 100000
SPECIFICATION ConfigSpec
CHECK_DEADLOCK FALSE
INVARIANTS
  AcceptedFitsStore
