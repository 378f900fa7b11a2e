SPECIFICATION Spec
CONSTANTS
  WorldSize = 2
  Requests <- MCTensorRequests
  Engine <- MCEngine
  MaxEvents = 1
INVARIANTS
  InterruptHeeded
CHECK_DEADLOCK FALSE
