---------------------------- MODULE MCCollector ----------------------------
(* Collector for TLC: a block of two objects, and one of one.               *)
EXTENDS Collector, Sequences

MCBlockOf == <<1, 1, 2>>
=============================================================================
