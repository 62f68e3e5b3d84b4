CONSTANTS
  MaxDepth = 3
  Lines = {l1, l2}
  Labels = {h1}
  Errors = {0, 5}
  NoAddr = null
SPECIFICATION Spec
INVARIANTS
  ListMatchesStack
  ResumeReturnsToFault
PROPERTIES
  ErrorReachesInnermostIdleHandler
  EveryErrorIsSettled
  ImplementsHandlerStack
CHECK_DEADLOCK FALSE
