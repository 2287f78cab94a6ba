SPECIFICATION Spec
CONSTANTS
  Modules <- ForkModules
  NextNodes <- ForkNext
  Parallelism <- ForkWidth
  Capacity <- ForkCapacity
  Streams <- ForkStreams
  SourceOf <- ForkSource
  StreamIndex <- ForkIndex
  MaxFrame = 2
  Outcomes = {"ok", "swallow"}
  MaxStart = 1
  MaxStop = 0
  MaxRemove = 0
  NoModule = NoModule
INVARIANTS EosMsgIsLast
CHECK_DEADLOCK FALSE
