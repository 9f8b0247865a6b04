SPECIFICATION MCSpec
CONSTANTS
  N = 3
  MaxQueue = 4
  Epochs = {0, 1000}
  UsPerMs = 10
  TimeToDie = 8
  CriticalUs = 20
  MaxTickets = 1
INVARIANTS
  WaitsClimb
  WaiterForgetsNobody
PROPERTIES
  ImplementsDining
  Progress
CHECK_DEADLOCK FALSE
