CONSTANTS
  Npes = 2
  Blocks = 2
  Scenarios <- Summing
SPECIFICATION Spec
INVARIANT AllReduceExact
CHECK_DEADLOCK FALSE
