\* Three queries of up to 2 proxies, a budget of 3.  Ends by design: one refresh.
CONSTANTS
  p = p
  q = q
  r = r
  bad = bad
  NumQueries = 3
  Size = 2
  TotalCandidates = 3
  Proxies <- MCProxies
  Invalid <- bad
  Answers <- MCAnswers
SPECIFICATION Spec
CHECK_DEADLOCK FALSE
INVARIANTS
  BudgetHolds
  AnswerKept
