CONSTANTS
  Inputs = {i1, i2}
  Compared = {i2}
  NoInput = NoInput
  MaxChanges = 3
SPECIFICATION Spec
CHECK_DEADLOCK FALSE
INVARIANTS
  TypeOK
  OnlyLastPaints
  LoadingIsLive
PROPERTIES
  BaselineNeverCosts
  LoadingEnds
