SPECIFICATION Spec
CONSTANTS
  Ids = {"a", "b"}
  Callers = {"c1"}
  MaxStreamNum = 2
  MaxHandler = 3
  MaxFrame = 1
  MaxRemove = 1
INVARIANTS IndexUnique
CHECK_DEADLOCK FALSE
