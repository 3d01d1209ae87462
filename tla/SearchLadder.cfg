CONSTANTS
  Nodes <- LadderNodes
  Edges <- LadderEdges
  From <- LadderFrom
  To <- LadderTo
  LengthM <- LadderLengthM
  StraightLine <- LadderStraightLine
  Requests <- LadderRequests
  DefaultBudgetSteps = 4
  MaxBudgetSteps = 16
  DefaultMaxExpansions = 1000
  NoState = NoState
  MaxCalls = 1
SPECIFICATION Spec
INVARIANT WithinOneBucket
