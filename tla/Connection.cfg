SPECIFICATION Spec
CONSTANTS
  Requests <- MCRequests
  Scripts <- MCScripts
  HeadLen = 2
  ErrorLen = 1
  Room = 3
INVARIANTS
  AnswersAreWhole
  FinAfterTheAnswer
PROPERTIES
  ImplementsServer
  RequestsAreAnswered
  EndedClientIsLetGo
CHECK_DEADLOCK FALSE
