CONSTANTS
  t1 = t1
  t2 = t2
  Thread <- Threads
  Nobody = Nobody
  lines = 2
  columns = 2
  Letter = {65}
  Color = {7, 1}
  TabStop = 2
  Texts <- Strings
  Junk <- Cells0
  MaxCalls = 3
  Lib = {"cons", "$"}
  Driver = {"direct", "curses"}
  NoLib = NoLib
  NoDriver = NoDriver
  Config <- Lines
SPECIFICATION ConsoleSpec
INVARIANTS ScreenInBounds DriverIsSound
PROPERTIES ScreenSpec PrintEnds
CHECK_DEADLOCK FALSE
