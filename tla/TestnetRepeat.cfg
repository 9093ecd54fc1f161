SPECIFICATION Spec
CONSTANTS
  OrderCalls = {c1, c2}
  OtherCalls = {}
  Ids = {i1}
  MaxRetries = 0
  None = None
INVARIANTS
  SafeToRepeat
CHECK_DEADLOCK FALSE
