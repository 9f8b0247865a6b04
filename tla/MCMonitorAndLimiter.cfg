SPECIFICATION MCSpec
CONSTANTS
  N = 4
  Processes = 3
  TimeToDie = 1
  MustEat = 1
  Unlimited = unlimited
  MaxTime = 2
INVARIANTS
  ForksAreHeldOnce
  WaitingIsAccountedFor
PROPERTIES
  ImplementsDining
  DeathIsTheLastLine
  Progress
CHECK_DEADLOCK FALSE
