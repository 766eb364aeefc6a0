CONSTANTS
  NGroups = 2
  NWays = 2
  LineSize = 2
  NBlocks = 5
  Byte = {0, 1}
  Zero = 0
  Lens = {1, 2}
  Images <- MCImages
SPECIFICATION Spec
CONSTRAINT FewSet
INVARIANTS Coherent NoDuplicates
PROPERTIES FlatSpec
