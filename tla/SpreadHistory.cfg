SPECIFICATION Spec
CONSTANTS
  a = a
  b = b
  Exchanges = {a, b}
  TakerFee <- MCFee
  Lag <- MCLag
  MarketBooks <- MCBooks
  Nets <- MCNets
  MaxAge = 2
  MaxDiff = 1
  MinQuantity = 2
  MinNotional = 50
  Threshold = 50
  BacktestThresholds = {200}
  MinDurations = {1}
  MaxRows = 4
  MaxMoments = 3
  MaxFails = 1
  MaxLosses = 1
  NoQuote = NoQuote
  Absent = Absent
  Invalid = Invalid
  NoEvent = NoEvent
INVARIANTS
  ClosedAreRuns
  OpenAreRuns
  ReplayIsLive
  ValidIsFresh
CHECK_DEADLOCK FALSE
