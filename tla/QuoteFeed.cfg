CONSTANTS
  Levels = {l1, l2}
  NoLevel = NoLevel
  NoChange = NoChange
  NoQuote = NoQuote
  InitialDelay = 1
  MaxDelay = 3
  MaxUpdates = 2
  MaxReconnects = 2
  MaxRestarts = 1
  MaxBroken = 1
SPECIFICATION LiveSpec
INVARIANTS QuoteWasReal
PROPERTIES DisconnectFinal SnapshotFirst OnlyOldDropped FeedCatchesUp LossNoticed
CHECK_DEADLOCK FALSE
