CONSTANTS
  NumKeys = 3
  Workers = {w1, w2}
  MaxRuns = 1
SPECIFICATION Spec
CHECK_DEADLOCK FALSE
PROPERTY CoverReturns
