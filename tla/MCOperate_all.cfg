SPECIFICATION OpSpec
CONSTANTS
  Byte = 2
  Word = 4
  DataSizes = {3, 4}
  MaxCount = 6
  EB = 3
  FB = 4
  Long = 15
INVARIANTS
  BitsExact
  ProductExact
  QuotientExact
  FloatExact
CHECK_DEADLOCK TRUE
