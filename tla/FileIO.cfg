CONSTANTS
  t1 = t1
  t2 = t2
  noThread = noThread
  f1 = f1
  f2 = f2
  noFd = noFd
  Thread <- Threads
  NoThread = noThread
  Fd <- Descriptors
  NoFd = noFd
  VB_MAX_FILE_HANDLES = 4
  MaxHeld = 3
SPECIFICATION Spec
SYMMETRY Alike
INVARIANTS HandlesOwnDescriptors NoFileLost
PROPERTIES CloseAllClosesEverything
