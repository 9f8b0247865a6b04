SPECIFICATION Spec
CONSTANTS
  N = 2
  TimeToDie = 0
  MustEat = 2
  Unlimited = unlimited
  Capacity = 6
  MaxTime = 1
  MaxMeals = 3
INVARIANTS
  AllHaveEaten
CHECK_DEADLOCK FALSE
