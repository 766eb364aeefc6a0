CONSTANTS
  PageSize = 4
  NPages = 4
  NFrames = 4
  FirstFrame = 1
  LastFrame = 2
  CTR_ROW = 2
  CTR_COL = 3
  Octet = {0, 1}
  Blank = 0
  Data <- MCData
  Mappings <- MCMappings
SPECIFICATION MemSpec
CONSTRAINT FewSet
INVARIANTS ByteByByte ScreenFresh
CHECK_DEADLOCK FALSE
