\* A channel of two rows, batches of two, two attempts; cleanup ends, so the system may stop.
SPECIFICATION SinkFairSpec
CONSTANTS
  BufferSize = 2
  BatchSize = 2
  Attempts = 2
  MaxRows = 6
CHECK_DEADLOCK FALSE
INVARIANTS SinkTypeOK Conserved
PROPERTIES RetryBudgetHonoured StopTerminates
