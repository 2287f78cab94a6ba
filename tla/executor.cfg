SPECIFICATION FairSpec
CONSTANTS
  MaxRequest = 2
  DataNum = 2
  BatchSize = 2
  Engines = {1}
  MaxLoad = 1
  Strategies = {"DYNAMIC", "STATIC"}
  Timeouts = {TRUE, FALSE}
  MaxDiscard = 1
  MaxFlush = 1
INVARIANTS BatchHasTimer HoldsOneTask QuietWhenGone
PROPERTIES ReportsOnce ReportedOrMissed DestroyEnds
CHECK_DEADLOCK FALSE
