SPECIFICATION FairSpec
CONSTANTS
  Writers = {"w1", "w2"}
  MaxQueue = 2
  MaxWrite = 3
  MaxOpen = 2
INVARIANTS SentInOrder
PROPERTIES EosIsSent CallsReturn
CHECK_DEADLOCK FALSE
