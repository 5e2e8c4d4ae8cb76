\* A drive that keeps to the plain protocol on a board with prompt interrupts.
CONSTANTS
  Line <- MCLine
  Lba = {s1, s2}
  NoSector = NoSector
  DiskIrq = 14
  Quirk = {}
SPECIFICATION Spec
INVARIANTS TypeOK SectorIntact QuietBetweenCalls
PROPERTIES CallReturns ImplementsSectorRead
