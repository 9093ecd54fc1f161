CONSTANTS
  QueueSize = 2
  BatchMaxRows = 2
  OverflowPolicy = "drop_oldest"
  MaxRows = 5
  MaxAborts = 2
SPECIFICATION Spec
INVARIANT LossesCounted
CHECK_DEADLOCK FALSE
