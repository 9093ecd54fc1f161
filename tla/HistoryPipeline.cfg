CONSTANTS
  QueueSize = 2
  BatchMaxRows = 2
  OverflowPolicy = "drop_newest"
  MaxRows = 5
  MaxAborts = 1
  SampleRows = 2
  MaxOpen = 2
SPECIFICATION PipelineLive
INVARIANTS ShutdownLosesNothing NoRowAfterStop
PROPERTY ShutdownCompletes
CHECK_DEADLOCK FALSE
