SPECIFICATION FairSpec
CONSTANTS
  BlockCount = 3
  PerBlock = 2
  Sizes = {1, 2}
  MaxPos = 8
  None = None
INVARIANTS BufferInvariant
PROPERTIES ImplementsTape CallsReturn
