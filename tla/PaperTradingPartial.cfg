CONSTANTS
  Exchanges = {ex1, ex2}
  Trades = {t1, t2}
  Quantities = {1, 2}
  Opening = 3
  Amounts = {1, 3}
  MinQuantity = 1
  MinNotional = 2
  StepSize = 1
  RateLimit = 2
  MaxSeconds = 2
  MaxChanges = 1
  Books <- SmallBooks
SYMMETRY Swap
SPECIFICATION Spec
INVARIANT OnlySoldLeaves
CHECK_DEADLOCK FALSE
