SPECIFICATION Spec
CONSTANTS
  Clients = {c1, c2, c3}
  NoClient = none
  NumFds = 2
  NumReactors = 1
INVARIANTS
  TypeOK
  CallbacksAreAlive
  OneOwner
PROPERTIES
  HandedOverIsTaken
  ReadyIsServed
  SignalEndsTheThreads
CHECK_DEADLOCK FALSE
