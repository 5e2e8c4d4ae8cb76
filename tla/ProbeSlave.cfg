CONSTANTS
  Bios <- MCBios
  Half = 4
  TooHigh = 9
  FontX = 2
  FontY = 2
  MaxText = 2
SPECIFICATION ConsoleSpec
INVARIANTS SlaveIsBios
CHECK_DEADLOCK FALSE
