CONSTANTS
  Page <- MCPage
  Sector = 2
  LowMem = 8
  EntryCnt = 16
  Screens <- MCScreens
  Word = 160
  Cells = 80
  MemMaps <- MCMemMaps
  Images <- MCImages
SPECIFICATION HandoverSpec
INVARIANTS TypeOK AllocationFits KernelImage FramesApart FreeIsFree LowMemoryStays KernelInItsPlace PeekReachesScreen
PROPERTIES HandoverEnds
CHECK_DEADLOCK FALSE
