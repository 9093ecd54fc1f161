SPECIFICATION PartsSpec
CONSTANTS
  OrderCalls = {c1, c2}
  OtherCalls = {c3}
  Ids = {i1}
  MaxRetries = 1
  None = None
  Slots = {bid1, ask1}
  Quantities = {1, 2}
  MaxChanges = 3
  BucketSize = 3
  Lookback = 6
  Margin = 2
  Interval = 7
  MaxLate = 2
  MaxTime = 13
  MaxRestarts = 1
  AheadDays = 2
  RawDays = 1
  MaxDay = 5
  MaxFailures = 1
INVARIANTS
  DuplicatesExplained
  CallersAgree
  ResultsAreReal
  BookTypeOK
  SyncedIsExact
  WindowWhole
  TodayCovered
PROPERTIES
  CallsEnd
  RecentRowsKept
CHECK_DEADLOCK FALSE
