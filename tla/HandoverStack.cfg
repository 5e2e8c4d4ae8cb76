\* Where the initial stack is, against the bootloader's memory map table.
CONSTANTS
  Page <- MCPage
  Sector = 2
  LowMem = 8
  EntryCnt = 16
  Screens <- MCScreens
  Word = 160
  Cells = 80
  MemMaps <- MCMemMaps
  Images <- MCImages
SPECIFICATION HandoverSpec
INVARIANTS StackInItsPlace
CHECK_DEADLOCK FALSE
