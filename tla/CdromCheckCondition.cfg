\* A command may end with an error after the drive has accepted it.
CONSTANTS
  Line <- MCLine
  Lba = {s1, s2}
  NoSector = NoSector
  DiskIrq = 14
  Quirk = {"checkCondition"}
SPECIFICATION Spec
INVARIANTS SectorIntact
