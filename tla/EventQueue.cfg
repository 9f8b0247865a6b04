SPECIFICATION Spec
CONSTANTS
  Producers = {p1, p2, watchdog}
  Monitor = monitor
  Events = {e1, e2}
  MaxEvents = 4
  None = none
INVARIANTS
  MonitorAsleepOnlyWhenIdle
  OneEventPerSleeper
PROPERTIES
  ImplementsChannel
