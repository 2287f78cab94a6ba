SPECIFICATION FairSpec
CONSTANTS
  Modules <- ChainModules
  NextNodes <- ChainNext
  Parallelism <- ChainWidth
  Capacity <- ChainWidth
  Streams <- OneStream
  SourceOf <- OneSource
  StreamIndex <- OneIndex
  MaxFrame = 2
  Outcomes = {"ok"}
  MaxStart = 2
  MaxStop = 2
  MaxRemove = 1
  NoModule = NoModule
INVARIANTS ProcessOnlyOpen
PROPERTIES InOrder AcceptedFrameDone StopReturns
CHECK_DEADLOCK FALSE
