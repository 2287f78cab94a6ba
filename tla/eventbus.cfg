SPECIFICATION FairSpec
CONSTANTS
  MaxEvent = 2
  MaxDirect = 1
  MaxStart = 2
  MaxStop = 2
  Types = {"EVENT_ERROR", "EVENT_STREAM_ERROR", "EVENT_STOP"}
  AppFlags = {"INTERCEPTION", "SYNCED", "STOP"}
INVARIANTS OneLostPerStop
PROPERTIES ErrorsInOrder ErrorShown
CHECK_DEADLOCK FALSE
