CONSTANTS
  Bios <- MCBios
  Half = 4
  TooHigh = 9
  FontX = 2
  FontY = 2
  MaxText = 8
SPECIFICATION ConsoleSpec
INVARIANTS TypeOK ModeIsBiggest MapIsBios MessageIsShown InVideoMemory ScreenShowsText
PROPERTIES ProbeEnds
CHECK_DEADLOCK FALSE
