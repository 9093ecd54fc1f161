CONSTANTS
  QueueSize = 2
  BatchMaxRows = 2
  OverflowPolicy = "drop_oldest"
  MaxRows = 5
  MaxAborts = 2
SPECIFICATION LiveSpec
INVARIANTS TypeOK PipelineOrdered DropsCounted CleanStopDrains
PROPERTIES ImplementsLossyFifo RowsSettle
CHECK_DEADLOCK FALSE
