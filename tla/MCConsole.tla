----------------------------- MODULE MCConsole ------------------------------
(* Console for TLC: a screen of three rows of three columns, on which TAB   *)
(* has a stop at every second column and none at the end of a row, each     *)
(* cell with its own character; two threads; and a configuration of four    *)
(* lines.                                                                   *)
EXTENDS Console, TLC

CONSTANTS t1, t2

Threads == {t1, t2}
Strings == {<<65, 65>>, <<9>>, <<13, 10, 65>>, <<7>>}
Cells0 == [p \in 0..(Size - 1) |-> IF p % 2 = 0 THEN 66 + p ELSE 7]
Lines ==
  << [mode |-> 1, lib |-> "cons", driver |-> "direct"],
     [mode |-> 0, lib |-> "cons", driver |-> "direct"],
     [mode |-> 0, lib |-> "$", driver |-> "curses"],
     [mode |-> 0, lib |-> "$", driver |-> "direct"] >>
=============================================================================
