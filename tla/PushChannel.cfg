CONSTANTS
  Browsers = {b1, b2}
  Slow = {b2}
  QueueSize = 2
  WireSize = 1
  HeartbeatEvery = 2
  MaxConns = 2
  MaxMessages = 4
  MaxToggles = 1
  MaxBreaks = 1
SPECIFICATION LiveSpec
INVARIANTS QueueIsNewest MissedIsExact
PROPERTIES RowsNeverGoBack LatestReaches
CHECK_DEADLOCK FALSE
