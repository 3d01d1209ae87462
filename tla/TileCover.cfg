CONSTANTS
  NumKeys = 3
  Workers = {w1, w2}
  MaxRuns = 2
SPECIFICATION Spec
\* A command that has returned is over.
CHECK_DEADLOCK FALSE
INVARIANTS
  TypeOK
  NilMeansCovered
PROPERTIES
  CacheKept
  StuckOnlyWithoutWorkers
