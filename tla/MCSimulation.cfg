CONSTANTS
  Exchanges = {ex1, ex2}
  Trades = {t1, t2}
  Quantities = {1, 2}
  Opening = 3
  Amounts = {1, 3}
  MinQuantity = 1
  MinNotional = 2
  StepSize = 1
  RateLimit = 2
  MaxSeconds = 2
  MaxChanges = 1
  Books <- SmallBooks
  MaxPrice = 3
  MaxQuantity = 3
  MaxTarget = 7
  MaxExchanges = 3
  Totals <- SmallTotals
  Targets <- SmallTargets
  Thresholds = {5, 10}
  Intervals <- ShortIntervals
  Horizon = 10
  SpreadHorizon = 4
  ChartStarts = {0, 1, 2}
  MaxPoints = 3
  Starts = {1, 2, 3}
  Durations = {1, 2}
  Filters <- SmallFilters
  DefaultMinDuration = 2
  DefaultPageSize = 2
  MaxPageSize = 2
  RequestedSizes = {0, 1, 3}
  MaxEvents = 4
SYMMETRY Swap
SPECIFICATION SimulationSpec
INVARIANTS
  NothingStaysLocked
  LedgerExact
  OverdraftIsExcess
  FillIsBest
  RebalanceSettles
  ChartsComplete
  PagesMissOnlyTies
CHECK_DEADLOCK FALSE
