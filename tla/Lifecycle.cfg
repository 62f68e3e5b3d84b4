CONSTANTS
  Thread = {main, t1, t2}
  Main = main
  Nobody = nobody
  Handles = 2
  MaxDepth = 4
  ExitsAlone = TRUE
SPECIFICATION Spec
INVARIANTS LocksExistWhenUsed NoCircularWait ShutdownIsComplete
PROPERTIES ExitEnds
CHECK_DEADLOCK FALSE
