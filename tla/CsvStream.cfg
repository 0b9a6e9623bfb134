SPECIFICATION CsvSpec
CONSTANTS
  NRows = 20
  Capacity = 4
INVARIANTS InOrder BufferIsBounded
PROPERTIES ImplementsDownload GoroutineEnds
CHECK_DEADLOCK FALSE
