SPECIFICATION Spec
CONSTANTS
  Clients = {c1}
  NoClient = none
  NumFds = 1
  NumReactors = 1
PROPERTIES
  InterruptionIsTransparent
CHECK_DEADLOCK FALSE
