SPECIFICATION Spec
CONSTANTS
  Modules <- ChainModules
  NextNodes <- ChainNext
  Parallelism <- ChainWidth
  Capacity <- ChainWidth
  Streams <- OneStream
  SourceOf <- OneSource
  StreamIndex <- OneIndex
  MaxFrame = 2
  Outcomes = {"ok"}
  MaxStart = 1
  MaxStop = 1
  MaxRemove = 0
  NoModule = NoModule
INVARIANTS EmptyAfterStop
CHECK_DEADLOCK FALSE
