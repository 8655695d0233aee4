\* Up to five files, written in two different seconds.
CONSTANTS
  MaxFiles = 5
  MaxTime = 1
SPECIFICATION Spec
INVARIANTS
  NeverTorn
  ListNotAhead
  ReportedSurvives
PROPERTIES
  StaleWithinSecond
