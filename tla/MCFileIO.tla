------------------------------ MODULE MCFileIO ------------------------------
(* FileIO for TLC: two threads, four handles, two descriptors.              *)
EXTENDS FileIO, TLC

CONSTANTS t1, t2, noThread, f1, f2, noFd

Threads == {t1, t2}
Descriptors == {f1, f2}

\* No constant tells the threads, or the descriptors, apart.
Alike == Permutations(Threads) \union Permutations(Descriptors)
=============================================================================
