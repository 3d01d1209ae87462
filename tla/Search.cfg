CONSTANTS
  Nodes <- MCNodes
  Edges <- MCEdges
  From <- MCFrom
  To <- MCTo
  LengthM <- MCLengthM
  StraightLine <- MCStraightLine
  Requests <- MCRequests
  DefaultBudgetSteps = 2
  MaxBudgetSteps = 3
  DefaultMaxExpansions = 40
  NoState = NoState
  MaxCalls = 2
SPECIFICATION Spec
INVARIANTS
  TypeOK
  LabelsConsistent
  SettledRelaxed
  RouteWithinBudget
  NoComfortableRouteLost
PROPERTIES
  SettledFrozen
  Contract
