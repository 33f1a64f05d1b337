CONSTANTS
  d1 = d1
  d2 = d2
  c1 = c1
  c2 = c2
  w1 = w1
  w2 = w2
  r1 = r1
  r2 = r2
  None = None
  Docs <- TwoDocs
  Contents <- TwoContents
  Workers <- TwoWorkers
  Requests <- TwoRequests
  Attempts = 2
  MaxVersion = 2
  Scenarios <- OnlyOutages
SPECIFICATION Spec
INVARIANTS
  FailureMarksDocument
CHECK_DEADLOCK FALSE
