CONSTANTS
  t1 = t1
  t2 = t2
  n1 = n1
  n2 = n2
  n3 = n3
  n4 = n4
  i1 = i1
  i2 = i2
  i3 = i3
  absent = absent
  dir = dir
  noInode = noInode
  Thread <- Threads
  Name <- Names
  Inode <- Inodes
  Disk <- DiskOf
  First <- Files
  Text <- Texts
  Absent = absent
  Dir = dir
  NoInode = noInode
  BufferSize = 2
  MaxStatements = 2
  ShortWrites = FALSE
  EndIsError = TRUE
SPECIFICATION Spec
INVARIANTS NothingLeftOpen
PROPERTIES TransferIsExact KillIsComplete DirOmitsNothing CopyEnds
CHECK_DEADLOCK FALSE
