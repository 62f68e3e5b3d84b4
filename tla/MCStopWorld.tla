----------------------------- MODULE MCStopWorld ----------------------------
(* StopWorld for TLC: the main thread and two others, of which the second   *)
(* may get the pthread_t of the first.                                      *)
EXTENDS StopWorld, TLC

CONSTANTS main, t1, t2, i0, i1, i2

Threads == {main, t1, t2}
Ids == {i0, i1, i2}
=============================================================================
