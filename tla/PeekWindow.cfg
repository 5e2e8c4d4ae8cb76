CONSTANTS
  Page = 2
  Block = 8
  ENTRY_CNT = 3
  Phys <- Anywhere
  Size <- SomeSizes
SPECIFICATION Spec
INVARIANTS TypeOK AlignedPeekMaps
