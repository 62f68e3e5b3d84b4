------------------------------ MODULE MCMarker ------------------------------
(* Marker for TLC: a block of two objects of one word, one of an object of  *)
(* two and one of an object without pointers; static data of one word and   *)
(* one word of the collector's own frames, scanned at once; a mark stack of *)
(* one entry, which may double.                                             *)
EXTENDS Marker

MCBlockOf == <<1, 1, 2, 3>>
MCWords == <<1, 1, 2, 0, 1, 1>>
=============================================================================
