SPECIFICATION Spec
CONSTANTS
  Byte = 2
  Word = 3
  DataSizes = {3}
  MaxLimbs = 2
INVARIANTS
  SumExact
  DifferenceExact
  FlagsDecide
CHECK_DEADLOCK TRUE
