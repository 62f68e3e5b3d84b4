CONSTANTS
  main = main
  t1 = t1
  t2 = t2
  i0 = i0
  i1 = i1
  i2 = i2
  Thread <- Threads
  Main = main
  Nobody = nobody
  Id <- Ids
  MainId = i0
  EndsBy = {"returns", "exits"}
  JoinsDetached = FALSE
SPECIFICATION Spec
INVARIANTS WorldStandsStill TableIsSound RunningIsRestarted
PROPERTIES CollectionEnds
CHECK_DEADLOCK FALSE
