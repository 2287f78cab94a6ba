SPECIFICATION FairSpec
CONSTANTS
  Callers = {c1, c2}
  MaxProcessing = 1
  MaxRequest = 2
  CounterMod = 16
  DataNums = {1}
  Tags = {"s1"}
  MaxDiscard = 0
  MaxWait = 1
PROPERTIES WaitReturns
CHECK_DEADLOCK FALSE
