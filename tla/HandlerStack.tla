---------------------------- MODULE HandlerStack ----------------------------
(***************************************************************************)
(* What the ON ERROR subsystem of BASIClib promises to one BASIC thread,   *)
(* without the linked list that implements it.                             *)
(*                                                                         *)
(* The thread is a stack of procedures 1..depth.  Some of them have a      *)
(* handler (registered), some of those handlers are executing (active).    *)
(* An error goes to the innermost handler that is not executing; every     *)
(* procedure above it leaves the stack together with its handler.  When    *)
(* every handler is executing, or there is none, the program ends.         *)
(***************************************************************************)
EXTENDS Naturals

CONSTANT MaxDepth   \* the deepest stack of procedures

VARIABLES
  depth,        \* the procedure that runs, 0 once the thread has finished
  registered,   \* the procedures that have a handler
  active,       \* the procedures whose handler is executing
  mode          \* "run", "error" while an error looks for its handler, "over"

absVars == <<depth, registered, active, mode>>

Idle == registered \ active

AbsTypeOK ==
  /\ depth \in 0..MaxDepth
  /\ registered \subseteq 1..depth
  /\ active \subseteq registered
  /\ mode \in {"run", "error", "over"}

AbsInit ==
  /\ depth = 1
  /\ registered = {}
  /\ active = {}
  /\ mode = "run"

Enter ==
  /\ mode = "run"
  /\ depth < MaxDepth
  /\ depth' = depth + 1
  /\ UNCHANGED <<registered, active, mode>>

Leave ==
  /\ mode = "run"
  /\ depth' = depth - 1
  /\ registered' = registered \ {depth}
  /\ active' = active \ {depth}
  /\ mode' = IF depth = 1 THEN "over" ELSE "run"

Establish ==
  /\ mode = "run"
  /\ registered' = registered \union {depth}
  /\ active' = active \ {depth}
  /\ UNCHANGED <<depth, mode>>

Raise ==
  /\ mode = "run"
  /\ mode' = "error"
  /\ UNCHANGED <<depth, registered, active>>

Deliver ==
  /\ mode = "error"
  /\ \E h \in Idle :
       /\ \A g \in Idle : g <= h
       /\ depth' = h
       /\ registered' = registered \intersect 1..h
       /\ active' = (active \intersect 1..h) \union {h}
  /\ mode' = "run"

EndUnhandled ==
  /\ mode = "error"
  /\ Idle = {}
  /\ mode' = "over"
  /\ UNCHANGED <<depth, registered, active>>

Recover ==
  /\ mode = "run"
  /\ depth \in active
  /\ active' = active \ {depth}
  /\ UNCHANGED <<depth, registered, mode>>

\* A fault of the running procedure ends the process.
Die ==
  /\ mode = "run"
  /\ mode' = "over"
  /\ UNCHANGED <<depth, registered, active>>

AbsNext ==
  \/ Enter \/ Leave \/ Establish \/ Raise \/ Deliver
  \/ EndUnhandled \/ Recover \/ Die

AbsSpec ==
  /\ AbsInit
  /\ [][AbsNext]_absVars
  /\ WF_absVars(Deliver \/ EndUnhandled)

=============================================================================
