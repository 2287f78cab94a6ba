SPECIFICATION FairSpec
CONSTANTS
  Callers = {c1, c2}
  MaxProcessing = 1
  MaxRequest = 3
  CounterMod = 16
  DataNums = {0, 2}
  Tags = {"s1"}
  MaxDiscard = 1
  MaxWait = 1
INVARIANTS TypeOK OneResponder AnsweredWhole LeavesNothing WithinLimit
PROPERTIES RespondsInOrder WaitCoversAll DoneOrMissed RequestReturns
CHECK_DEADLOCK FALSE
