CONSTANTS
  Nodes <- MCNodes
  Edges <- MCEdges
  From <- MCFrom
  To <- MCTo
  LengthM <- MCLengthM
  LTS <- MCLTS
  Infra <- MCInfra
  Shape <- MCShape
  TurnPenalty <- MCTurnPenalty
  LTSPenalty <- MCLTSPenalty
  OverThresholdPenalty = 2
  HazardPenaltyScale = 1
  Near <- MCNear
  Plans <- MCPlans
  Reportable = {1, 2, 4}
  MaxReports = 1
SPECIFICATION Spec
INVARIANTS
  TypeOK
  RouteSpeaksTruth
  GeometryFaithful
  BaselineComparable
  AlternativesGenuine
PROPERTIES
  RouteSurvivesExtras
  PlanAnswered
