\* A search whose reads of the volume descriptor all fail runs off the disc.
CONSTANTS
  Discs <- MCDiscs
  NoSector = NoSector
  KernelName <- MCName
  PvdStart = 2
  LastLba = 9
  SectorSize = 2
  Word16 = 4
SPECIFICATION Spec
INVARIANTS TypeOK SearchIsRight HeaderIsKernels FoundIsListed
PROPERTIES SearchEnds
CHECK_DEADLOCK FALSE
