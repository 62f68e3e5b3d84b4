------------------------------- MODULE OnError -------------------------------
(***************************************************************************)
(* The ON ERROR subsystem of one BASIC thread: BASIClib/BasicError.c and   *)
(* the macros of BasicError.h that compiled BASIC uses.                    *)
(*                                                                         *)
(* Every procedure that wants ON ERROR owns an __OnErrorHandler structure  *)
(* in its stack frame.  The structures of the procedures that executed an  *)
(* ON ERROR GOTO are linked, innermost first, into a list whose head is    *)
(* the thread's element of onErrorThreadStates.  A structure is named here *)
(* by the depth of its frame, which is its address: a new frame at the     *)
(* same depth reuses the memory, and what an old frame left there stays    *)
(* until __ONERRORVARS overwrites it.  0 is the NULL pointer.              *)
(*                                                                         *)
(* The loop that looks for a handler is one action per iteration.          *)
(***************************************************************************)
EXTENDS Naturals

CONSTANTS
  MaxDepth,   \* the deepest stack of procedures
  Lines,      \* statements of a procedure body
  Labels,     \* labels of error handlers
  Errors,     \* error numbers a statement may raise, ERR_NO_ERROR among them
  NoAddr      \* the NULL code address

ASSUME MaxDepthAssumption == MaxDepth \in Nat \ {0}
ASSUME AddressAssumption == NoAddr \notin Lines \union Labels

ERR_NO_ERROR == 0
ERR_RESUME_WITHOUT_ERROR == 20

VARIABLES
  depth,          \* the frame that runs, 0 once the thread's function returned
  at,             \* at[d]: the statement frame d is executing
  handlerAddr,    \* handlerAddr[d], isActive[d], next[d], instr[d]:
  isActive,       \*   the fields of the structure in frame d; instr stands
  next,           \*   for the pair thisInstruction, nextInstruction
  instr,
  head,           \* this thread's element of onErrorThreadStates
  basicErrno,     \* this thread's element of basicErrno
  cursor,         \* pHandler in __getOnErrorHandler
  phase,          \* "run", "scan" inside __getOnErrorHandler, "ended" when the
                  \*   thread returned, "exited", "crashed"
  faulted         \* history: faulted[d] is the statement frame d was executing
                  \*   when its handler was last entered

vars == <<depth, at, handlerAddr, isActive, next, instr, head, basicErrno,
          cursor, phase, faulted>>

Frame == 1..MaxDepth
Pointer == 0..MaxDepth
Position == Lines \union Labels \union {NoAddr}

TypeOK ==
  /\ depth \in Pointer
  /\ at \in [Frame -> Position]
  /\ handlerAddr \in [Frame -> Labels \union {NoAddr}]
  /\ isActive \in [Frame -> BOOLEAN]
  /\ next \in [Frame -> Pointer]
  /\ instr \in [Frame -> Lines \union {NoAddr}]
  /\ head \in Pointer
  /\ basicErrno \in Errors \union {ERR_NO_ERROR, ERR_RESUME_WITHOUT_ERROR}
  /\ cursor \in Pointer
  /\ phase \in {"run", "scan", "ended", "exited", "crashed"}
  /\ faulted \in [Frame -> Position]

------------------------------------------------------------------------------
(* __initThreadBasicError clears this thread's table elements, and the      *)
(* thread's outermost procedure starts with __ONERRORVARS.                  *)
Init ==
  /\ depth = 1
  /\ at = [d \in Frame |-> NoAddr]
  /\ handlerAddr = [d \in Frame |-> NoAddr]
  /\ isActive = [d \in Frame |-> FALSE]
  /\ next = [d \in Frame |-> 0]
  /\ instr = [d \in Frame |-> NoAddr]
  /\ head = 0
  /\ basicErrno = ERR_NO_ERROR
  /\ cursor = 0
  /\ phase = "run"
  /\ faulted = [d \in Frame |-> NoAddr]

\* A call: the new frame's structure is initialised by __ONERRORVARS.
Call ==
  LET d == depth + 1 IN
  /\ phase = "run"
  /\ depth < MaxDepth
  /\ depth' = d
  /\ at' = [at EXCEPT ![d] = NoAddr]
  /\ handlerAddr' = [handlerAddr EXCEPT ![d] = NoAddr]
  /\ isActive' = [isActive EXCEPT ![d] = FALSE]
  /\ next' = [next EXCEPT ![d] = 0]
  /\ instr' = [instr EXCEPT ![d] = NoAddr]
  /\ UNCHANGED <<head, basicErrno, cursor, phase, faulted>>

\* A mutant of Deregister: a return point without __exitCleanupOnError.
DeregisterForgotten(d) == head' = head

\* __deregisterOnErrorHandler: the head moves on only if it is this frame.
Deregister(d) == head' = IF head = d THEN next[d] ELSE head

\* A return, which __exitCleanupOnError precedes at every return point.
Return ==
  /\ phase = "run"
  /\ Deregister(depth)
  /\ depth' = depth - 1
  /\ phase' = IF depth = 1 THEN "ended" ELSE "run"
  /\ UNCHANGED <<at, handlerAddr, isActive, next, instr, basicErrno, cursor,
                 faulted>>

\* A mutant of Statement: __setInstructs without its test of isActive.
StatementInHandler(l) ==
  /\ phase = "run"
  /\ at' = [at EXCEPT ![depth] = l]
  /\ instr' = [instr EXCEPT ![depth] = l]
  /\ UNCHANGED <<depth, handlerAddr, isActive, next, head, basicErrno, cursor,
                 phase, faulted>>

\* __setInstructs records the statement unless the frame's handler runs.
Statement(l) ==
  /\ phase = "run"
  /\ at' = [at EXCEPT ![depth] = l]
  /\ instr' = IF isActive[depth] THEN instr ELSE [instr EXCEPT ![depth] = l]
  /\ UNCHANGED <<depth, handlerAddr, isActive, next, head, basicErrno, cursor,
                 phase, faulted>>

\* A mutant of Register: a frame that is the head already is pushed again.
RegisterTwice(d) ==
  /\ head' = d
  /\ next' = [next EXCEPT ![d] = head]
  /\ isActive' = [isActive EXCEPT ![d] = FALSE]

\* __registerOnErrorHandler: a frame that is not the head is pushed.
Register(d) ==
  /\ head' = d
  /\ next' = IF head # d THEN [next EXCEPT ![d] = head] ELSE next
  /\ isActive' = [isActive EXCEPT ![d] = FALSE]

\* ON ERROR GOTO a as statement l: __setOnErrorHandler, then __setInstructs.
SetOnErrorHandler(a, l) ==
  /\ phase = "run"
  /\ handlerAddr' = [handlerAddr EXCEPT ![depth] = a]
  /\ Register(depth)
  /\ at' = [at EXCEPT ![depth] = l]
  /\ instr' = [instr EXCEPT ![depth] = l]
  /\ UNCHANGED <<depth, basicErrno, cursor, phase, faulted>>

\* ON ERROR GOTO 0: the macro registers the NULL pointer.  A non-empty list is
\* overwritten first; the write to a field of *NULL then ends the process.
SetOnErrorHandlerOff ==
  /\ phase = "run"
  /\ head' = 0
  /\ phase' = "crashed"
  /\ UNCHANGED <<depth, at, handlerAddr, isActive, next, instr, basicErrno,
                 cursor, faulted>>

\* __runtimeError up to the search for a handler.
Throw(e) ==
  /\ basicErrno' = e
  /\ IF e = ERR_NO_ERROR
     THEN UNCHANGED <<cursor, phase>>
     ELSE cursor' = head /\ phase' = "scan"

RuntimeError(e) ==
  /\ phase = "run"
  /\ Throw(e)
  /\ UNCHANGED <<depth, at, handlerAddr, isActive, next, instr, head, faulted>>

\* One iteration of the loop of __getOnErrorHandler over an active handler.
SkipActive ==
  /\ phase = "scan"
  /\ cursor # 0
  /\ isActive[cursor]
  /\ cursor' = next[cursor]
  /\ UNCHANGED <<depth, at, handlerAddr, isActive, next, instr, head,
                 basicErrno, phase, faulted>>

\* A mutant of Usable: the search does not pass over active handlers.
UsableWhileActive(d) == d # 0 /\ handlerAddr[d] # NoAddr

Usable(d) == d # 0 /\ ~isActive[d] /\ handlerAddr[d] # NoAddr

\* A mutant of Trigger: the handler is entered without being made active.
TriggerInactive ==
  /\ phase = "scan"
  /\ Usable(cursor)
  /\ head' = cursor
  /\ depth' = cursor
  /\ at' = [at EXCEPT ![cursor] = handlerAddr[cursor]]
  /\ faulted' = [faulted EXCEPT ![cursor] = at[cursor]]
  /\ phase' = "run"
  /\ cursor' = 0
  /\ UNCHANGED <<handlerAddr, isActive, next, instr, basicErrno>>

\* __triggerOnError: the handler found becomes the head and is entered on its
\* own frame, which drops the frames above it.
Trigger ==
  /\ phase = "scan"
  /\ Usable(cursor)
  /\ head' = cursor
  /\ isActive' = [isActive EXCEPT ![cursor] = TRUE]
  /\ depth' = cursor
  /\ at' = [at EXCEPT ![cursor] = handlerAddr[cursor]]
  /\ faulted' = [faulted EXCEPT ![cursor] = at[cursor]]
  /\ phase' = "run"
  /\ cursor' = 0
  /\ UNCHANGED <<handlerAddr, next, instr, basicErrno>>

\* __defaultRuntimeErrorHandler: no handler, or one with a NULL address.
Unhandled ==
  /\ phase = "scan"
  /\ cursor # 0 => ~isActive[cursor] /\ handlerAddr[cursor] = NoAddr
  /\ phase' = "exited"
  /\ UNCHANGED <<depth, at, handlerAddr, isActive, next, instr, head,
                 basicErrno, cursor, faulted>>

CanResume == head = depth /\ isActive[depth]

\* RESUME outside a handler: __prepareResume raises error 20.
ResumeFails ==
  /\ phase = "run"
  /\ ~CanResume
  /\ Throw(ERR_RESUME_WITHOUT_ERROR)
  /\ UNCHANGED <<depth, at, handlerAddr, isActive, next, instr, head, faulted>>

\* RESUME and RESUME NEXT jump to the recorded statement (or its successor).
Resume ==
  /\ phase = "run"
  /\ CanResume
  /\ isActive' = [isActive EXCEPT ![depth] = FALSE]
  /\ at' = [at EXCEPT ![depth] = instr[depth]]
  /\ UNCHANGED <<depth, handlerAddr, next, instr, head, basicErrno, cursor,
                 phase, faulted>>

\* RESUME l: control goes on at l, whose __setInstructs records it.
ResumeLabel(l) ==
  /\ phase = "run"
  /\ CanResume
  /\ isActive' = [isActive EXCEPT ![depth] = FALSE]
  /\ at' = [at EXCEPT ![depth] = l]
  /\ instr' = [instr EXCEPT ![depth] = l]
  /\ UNCHANGED <<depth, handlerAddr, next, head, basicErrno, cursor, phase,
                 faulted>>

Search == SkipActive \/ Trigger \/ Unhandled

Next ==
  \/ Call
  \/ Return
  \/ \E l \in Lines : Statement(l)
  \/ \E a \in Labels, l \in Lines : SetOnErrorHandler(a, l)
  \/ SetOnErrorHandlerOff
  \/ \E e \in Errors : RuntimeError(e)
  \/ Search
  \/ ResumeFails
  \/ Resume
  \/ \E l \in Lines : ResumeLabel(l)

\* The loop of __getOnErrorHandler waits for nothing once the thread runs.
Spec == Init /\ [][Next]_vars /\ WF_vars(Search)

------------------------------------------------------------------------------
\* The live frames whose procedure executed an ON ERROR GOTO.
Registered == {d \in 1..depth : handlerAddr[d] # NoAddr}

\* d is the innermost member of S, or NULL if there is none.
IsInnermost(d, S) ==
  \/ d = 0 /\ S = {}
  \/ d \in S /\ \A e \in S : e <= d

(* The list that starts at onErrorThreadStates holds the structures of      *)
(* exactly the live procedures that executed ON ERROR GOTO, innermost       *)
(* first: no pointer of it reaches a frame that has returned or was dropped *)
(* by __setStackAndJump, and no live handler is missing from it.            *)
ListMatchesStack ==
  phase \in {"run", "scan", "ended"} =>
    /\ IsInnermost(head, Registered)
    /\ \A d \in Registered :
         IsInnermost(next[d], {e \in Registered : e < d})

(* RESUME and RESUME NEXT go back to the statement at which the procedure   *)
(* stood when the error reached its handler, whatever the handler executed  *)
(* and however deep below it the error arose.                               *)
ResumeReturnsToFault ==
  \A d \in Registered : isActive[d] => instr[d] = faulted[d]

(* __getOnErrorHandler gives an error to the innermost procedure whose      *)
(* handler is not executing; the program ends only if there is none.        *)
ErrorReachesInnermostIdleHandler ==
  [][/\ phase = "scan" /\ phase' = "run" =>
          /\ depth' \in Registered
          /\ ~isActive[depth']
          /\ \A d \in Registered : d > depth' => isActive[d]
     /\ phase' = "exited" => \A d \in Registered : isActive[d]]_vars

(* ON ERROR GOTO 0 turns error trapping off for the procedure that executes *)
(* it, and the procedure goes on (BasicError.c:316-318 and :344-349: such a *)
(* handler is registered with a NULL handlerAddr).                          *)
GotoZeroDisablesTrapping ==
  [][SetOnErrorHandlerOff =>
       phase' = "run" /\ (head' = depth => handlerAddr'[depth] = NoAddr)]_vars

(* Every error that is raised reaches a handler or ends the program: the    *)
(* walk along the list ends.                                                *)
EveryErrorIsSettled == phase = "scan" ~> phase # "scan"

\* The abstract state: which handlers execute, and what the thread is doing.
ActiveFrames == {d \in Registered : isActive[d]}

Mode ==
  IF phase = "run" THEN "run" ELSE IF phase = "scan" THEN "error" ELSE "over"

Abstract == INSTANCE HandlerStack WITH
  registered <- Registered, active <- ActiveFrames, mode <- Mode

(* The linked list and the walk along it implement the abstract stack of    *)
(* handlers: every call, return, ON ERROR, error and RESUME of BasicError.c *)
(* is one of its steps or changes nothing in it.                            *)
ImplementsHandlerStack == Abstract!AbsSpec

=============================================================================
