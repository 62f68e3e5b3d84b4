CONSTANTS
  main = main
  a = a
  b = b
  c = c
  d = d
  e = e
  null = null
  wild = wild
  Thread <- Pool
  Main = main
  Killers <- MainAndA
  Waiters <- OnlyMain
  MaxLive = 3
  MaxFailures = 1
  NULL = null
  Wild = wild
SPECIFICATION Spec
INVARIANTS RegistrySound LostOnlyToLower CountAccounted
PROPERTIES WaiterGoesOn
CHECK_DEADLOCK FALSE
