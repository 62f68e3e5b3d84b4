------------------------------ MODULE Marking ------------------------------
(***************************************************************************)
(* What the mark phase of the garbage collector promises                   *)
(* (libgc/mark.c:252): it marks objects the roots lead to and no others,   *)
(* and when it is over it has marked all of them.                          *)
(*                                                                         *)
(* An area is an object or a part of the memory that is always scanned;    *)
(* contents gives what the words of each hold, an object or something      *)
(* else, by area and number of the word.                                   *)
(***************************************************************************)
EXTENDS Naturals

CONSTANTS
  Object,      \* the objects
  Root         \* the areas that are always scanned

VARIABLES contents, marked, over

\* S holds what the roots point to and what its members point to.
Closed(S, c) ==
  \A w \in DOMAIN c : w[1] \in Root \union S /\ c[w] \in Object => c[w] \in S

Reachable(c) == {o \in Object : \A S \in SUBSET Object : Closed(S, c) => o \in S}

Init == marked = {} /\ over = FALSE

\* Reachable objects are marked.
Mark ==
  /\ ~over
  /\ marked \subseteq marked' /\ marked' \subseteq Reachable(contents)
  /\ UNCHANGED <<contents, over>>

Finish ==
  /\ ~over
  /\ marked = Reachable(contents)
  /\ over' = TRUE
  /\ UNCHANGED <<contents, marked>>

Next == Mark \/ Finish

Spec == Init /\ [][Next]_<<contents, marked, over>>

=============================================================================
