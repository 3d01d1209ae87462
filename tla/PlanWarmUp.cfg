CONSTANTS
  Inputs = {i1, i2}
  Compared = {i2}
  NoInput = NoInput
  MaxChanges = 2
SPECIFICATION Spec
CHECK_DEADLOCK FALSE
PROPERTIES
  WarmUpResolves
