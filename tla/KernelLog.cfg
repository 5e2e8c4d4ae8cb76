CONSTANTS
  FifoSize = 2
  Regions = 1
  Vectors <- SomeVectors
  Quirk <- AllFaults
SPECIFICATION Spec
\* The kernel ends in an endless loop or the machine resets.
CHECK_DEADLOCK FALSE
INVARIANTS TypeOK LogIsWhole CrashIsReported ReportIsTrue
PROPERTIES KernelSettles
