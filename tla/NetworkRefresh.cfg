CONSTANTS
  Operators = {anna, ben}
  anna = anna
  ben = ben
  Api = api
  Extracts <- MCExtracts
  Where <- MCWhere
  Null = Null
  Feeds <- MCFeeds
  CloseTo <- MCCloseTo
  HeightAt <- MCHeightAt
  HazardPlace = 4
  MinGradeSteps = 2
  MaxCommands = 3
  MaxStarts = 1
  MaxPlans = 1
SPECIFICATION Spec
SYMMETRY Symmetry
INVARIANTS
  TypeOK
  JunctionsJoined
  GraphWellFormed
  ScoresBelong
  CrashExplained
  PlanFaithful
CHECK_DEADLOCK FALSE
