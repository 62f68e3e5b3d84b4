------------------------------ MODULE MCThreads ------------------------------
(* Threads for TLC: a main thread and the threads it may spin.              *)
EXTENDS Threads, TLC

CONSTANTS main, a, b, c, d, e, null, wild

Pool == {main, a, b, c}
LargePool == {main, a, b, c, d, e}
OnlyMain == {main}
MainAndA == {main, a}
Nobody == {}

\* No constant tells the threads of LargePool from each other where nobody
\* kills or waits.
Workers == Permutations({a, b, c, d, e})
=============================================================================
