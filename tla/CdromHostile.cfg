\* Every quirk at once.
CONSTANTS
  Line <- MCLine
  Lba = {s1, s2}
  NoSector = NoSector
  DiskIrq = 14
  Quirk = {"checkCondition", "intrDrq", "slowIrq"}
SPECIFICATION Spec
INVARIANTS NoLostWakeup
