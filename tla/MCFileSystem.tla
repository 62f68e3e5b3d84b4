---------------------------- MODULE MCFileSystem ----------------------------
(* FileSystem for TLC: two threads and four names, three of them on one     *)
(* disk: a file of three bytes, a free name and a directory; and on the     *)
(* other disk a file of one byte.                                           *)
EXTENDS FileSystem, TLC

CONSTANTS t1, t2, n1, n2, n3, n4, i1, i2, i3, absent, dir, noInode

Threads == {t1, t2}
Names == {n1, n2, n3, n4}
Inodes == {i1, i2, i3}
DiskOf(n) == IF n = n3 THEN 2 ELSE 1
Files == (n1 :> i1) @@ (n2 :> absent) @@ (n3 :> i2) @@ (n4 :> dir)
Texts == (i1 :> <<1, 2, 3>>) @@ (i2 :> <<4>>) @@ (i3 :> <<>>)

Alike == Permutations(Threads)
=============================================================================
