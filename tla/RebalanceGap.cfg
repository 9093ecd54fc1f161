CONSTANTS
  MaxPrice = 1
  MaxQuantity = 1
  MaxTarget = 1
  MaxExchanges = 3
  Totals = {1, 3}
  Targets <- FullTargets
  Thresholds = {10}
  Intervals <- ShortIntervals
  Horizon = 1
  SpreadHorizon = 1
  ChartStarts = {0}
  MaxPoints = 1
  Starts = {1}
  Durations = {1}
  Filters <- SmallFilters
  DefaultMinDuration = 2
  DefaultPageSize = 2
  MaxPageSize = 2
  RequestedSizes = {0}
  MaxEvents = 1
SPECIFICATION CallSpec
INVARIANT WithinThreshold
CHECK_DEADLOCK FALSE
