SPECIFICATION FairSpec
CONSTANTS
  Ids = {"a"}
  Callers = {"c1", "c2"}
  MaxStreamNum = 1
  MaxHandler = 2
  MaxFrame = 2
  MaxRemove = 2
INVARIANTS ActiveNotDropped WaitsForEos NoneForgotten
PROPERTIES RemoveReturns
CHECK_DEADLOCK FALSE
