SPECIFICATION FairSpec
CONSTANTS
  Modules <- DiamondModules
  NextNodes <- DiamondNext
  Parallelism <- DiamondWidth
  Capacity <- DiamondWidth
  Streams <- OneStream
  SourceOf <- OneSource
  StreamIndex <- OneIndex
  MaxFrame = 3
  Outcomes = {"ok", "error", "invalid"}
  MaxStart = 1
  MaxStop = 0
  MaxRemove = 0
  NoModule = NoModule
INVARIANTS TypeOK ParentsFirst NoDuplicate
PROPERTIES DeliversInOrder AcceptedEosDone
CHECK_DEADLOCK FALSE
