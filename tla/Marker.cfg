CONSTANTS
  Objects = 4
  Blocks = 3
  RootAreas = 2
  BlockOf <- MCBlockOf
  Words <- MCWords
  Eager = {6}
  Direct = {1}
  StackSize = 1
  MaxStack = 2
  Dropped = 1
  SplitWords = 2
SPECIFICATION MarkSpec
PROPERTIES MarksReachable MarkingEnds
CHECK_DEADLOCK FALSE
