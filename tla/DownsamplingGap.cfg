CONSTANTS
  BucketSize = 3
  Lookback = 6
  Margin = 2
  Interval = 7
  MaxLate = 2
  MaxTime = 13
  MaxRestarts = 0
SPECIFICATION SeriesSpec
INVARIANT CaughtUp
CHECK_DEADLOCK FALSE
