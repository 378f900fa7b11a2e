SPECIFICATION Spec
CONSTANTS
  WorldSize = 2
  Requests <- MCRequests
  Engine <- MCEngine
  MaxEvents = 1
INVARIANTS
  SuccessIsEarned
  FailureHasCause
  NothingLeftBehind
  PlanCoversModel
PROPERTIES
  LaunchEnds
CHECK_DEADLOCK FALSE
