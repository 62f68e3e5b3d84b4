---------------------------- MODULE OnErrorProofs ----------------------------
(***************************************************************************)
(* Proofs about OnError, for every depth of the stack and every set of     *)
(* statements, labels and error numbers.                                   *)
(***************************************************************************)
EXTENDS OnError, TLAPS

\* A frame runs unless the thread has finished.
RunningFrame == phase \in {"run", "scan"} => depth \in Frame

\* The walk of __getOnErrorHandler stands at a listed structure or at the end
\* of the list, and passed executing handlers only.
SearchSound ==
  phase = "scan" =>
    /\ cursor = 0 \/ cursor \in Registered
    /\ \A d \in Registered : d > cursor => isActive[d]

\* While a handler is idle its frame's recorded statement is the one the frame
\* executes; while it executes, the one at which the error found the frame.
InstrRecorded ==
  \A d \in Registered :
    instr[d] = IF isActive[d] THEN faulted[d] ELSE at[d]

IInv ==
  /\ TypeOK
  /\ RunningFrame
  /\ ListMatchesStack
  /\ SearchSound
  /\ InstrRecorded

------------------------------------------------------------------------------
\* The innermost of a set of frames bounds it, and is the top frame if that
\* is in the set.
LEMMA InnermostBounds ==
  ASSUME NEW n \in Nat, NEW S \in SUBSET (1..n), NEW d, IsInnermost(d, S)
  PROVE  /\ d \in 0..n
         /\ \A e \in S : e <= d
         /\ n \in S => d = n
  <1>1. CASE d = 0 /\ S = {}
    BY <1>1
  <1>2. CASE d \in S /\ \A e \in S : e <= d
    <2>1. d \in 1..n
      BY <1>2
    <2>2. n \in S => n <= d
      BY <1>2
    <2>3. QED
      BY <1>2, <2>1, <2>2
  <1>3. QED
    BY <1>1, <1>2 DEF IsInnermost

LEMMA InitIInv == Init => IInv
  BY MaxDepthAssumption, AddressAssumption
  DEF Init, IInv, TypeOK, RunningFrame, ListMatchesStack, SearchSound,
      InstrRecorded, Registered, IsInnermost, Frame, Pointer, Position,
      ERR_NO_ERROR, ERR_RESUME_WITHOUT_ERROR

\* A call adds a frame without a handler: the listed frames stay as they are.
LEMMA CallPreserves == IInv /\ Call => IInv'
  <1> SUFFICES ASSUME IInv, Call PROVE IInv'
    OBVIOUS
  <1> USE MaxDepthAssumption, AddressAssumption DEF IInv, Frame, Pointer
  <1>1. TypeOK'
    BY DEF Call, TypeOK, Position
  <1>2. depth \in Nat /\ depth' = depth + 1 /\ depth' \in Frame
    BY DEF Call, TypeOK
  <1>3. Registered' = Registered
    BY <1>2 DEF Call, TypeOK, Registered
  <1>4. \A d \in Registered : /\ next'[d] = next[d]
                              /\ at'[d] = at[d]
                              /\ instr'[d] = instr[d]
                              /\ isActive'[d] = isActive[d]
    <2>1. \A d \in Registered : d \in Frame /\ d # depth + 1
      BY <1>2 DEF Registered
    <2>2. QED
      BY <1>2, <2>1 DEF Call, TypeOK
  <1>5. ListMatchesStack'
    BY <1>3, <1>4 DEF Call, ListMatchesStack, IsInnermost
  <1>6. InstrRecorded'
    BY <1>3, <1>4 DEF Call, InstrRecorded
  <1>7. RunningFrame' /\ SearchSound'
    BY <1>2 DEF Call, RunningFrame, SearchSound
  <1>8. QED
    BY <1>1, <1>5, <1>6, <1>7

\* A return unlinks the frame's structure if it is listed: it is the head then.
LEMMA ReturnPreserves == IInv /\ Return => IInv'
  <1> SUFFICES ASSUME IInv, Return PROVE IInv'
    OBVIOUS
  <1> USE MaxDepthAssumption, AddressAssumption DEF IInv, Frame, Pointer
  <1>1. depth \in 1..MaxDepth /\ depth' = depth - 1
    BY DEF Return, RunningFrame
  <1>2. TypeOK'
    BY <1>1 DEF Return, Deregister, TypeOK
  <1>3. Registered' = Registered \ {depth}
    BY <1>1 DEF Return, Registered
  <1>4. Registered \subseteq 1..depth /\ IsInnermost(head, Registered)
    BY DEF Registered, Return, ListMatchesStack
  <1>5. IsInnermost(head', Registered')
    <2>1. CASE head = depth
      <3>1. head \in Registered
        BY <2>1, <1>1, <1>4 DEF IsInnermost
      <3>2. Registered \ {depth} = {e \in Registered : e < depth}
        <4>1. \A e \in Registered : e # depth <=> e < depth
          BY <1>1, <1>4
        <4>2. QED
          BY <4>1
      <3>3. QED
        BY <2>1, <1>3, <3>1, <3>2 DEF Return, Deregister, ListMatchesStack
    <2>2. CASE head # depth
      <3>1. depth \notin Registered
        BY <2>2, <1>1, <1>4, InnermostBounds
      <3>2. QED
        BY <2>2, <1>3, <3>1 DEF Return, Deregister, ListMatchesStack
    <2>3. QED
      BY <2>1, <2>2
  <1>6. \A d \in Registered' :
          {e \in Registered' : e < d} = {e \in Registered : e < d}
    BY <1>1, <1>3, <1>4
  <1>7. ListMatchesStack'
    BY <1>3, <1>5, <1>6 DEF Return, ListMatchesStack, IsInnermost
  <1>8. RunningFrame' /\ SearchSound' /\ InstrRecorded'
    BY <1>1, <1>3 DEF Return, RunningFrame, SearchSound, InstrRecorded
  <1>9. QED
    BY <1>2, <1>7, <1>8

\* Statements, errors that are raised and RESUME leave the list alone.
LEMMA SameListPreserves ==
  ASSUME IInv, TypeOK', phase = "run", phase' \in {"run", "scan"},
         UNCHANGED <<depth, handlerAddr, next, head>>
  PROVE  RunningFrame' /\ ListMatchesStack' /\ Registered' = Registered
  BY DEF IInv, RunningFrame, ListMatchesStack, Registered, IsInnermost

LEMMA StatementPreserves ==
  ASSUME IInv, NEW l \in Lines, Statement(l)
  PROVE  IInv'
  <1> USE AddressAssumption DEF IInv, Frame, Pointer
  <1>1. depth \in Frame
    BY DEF Statement, RunningFrame
  <1>2. TypeOK'
    BY <1>1 DEF Statement, TypeOK, Position
  <1>3. RunningFrame' /\ ListMatchesStack' /\ Registered' = Registered
    BY <1>2, SameListPreserves DEF Statement
  <1>4. InstrRecorded'
    BY <1>1, <1>3 DEF Statement, TypeOK, InstrRecorded, Registered
  <1>5. SearchSound'
    BY DEF Statement, SearchSound
  <1>6. QED
    BY <1>2, <1>3, <1>4, <1>5

\* ON ERROR GOTO links the running frame, which is the innermost one.
LEMMA SetOnErrorHandlerPreserves ==
  ASSUME IInv, NEW a \in Labels, NEW l \in Lines, SetOnErrorHandler(a, l)
  PROVE  IInv'
  <1> USE MaxDepthAssumption, AddressAssumption DEF IInv, Frame, Pointer
  <1>1. depth \in 1..MaxDepth /\ depth' = depth
    BY DEF SetOnErrorHandler, RunningFrame
  <1>2. TypeOK'
    BY <1>1 DEF SetOnErrorHandler, Register, TypeOK, Position
  <1>3. Registered' = Registered \union {depth}
    BY <1>1 DEF SetOnErrorHandler, TypeOK, Registered
  <1>4. Registered \subseteq 1..depth /\ IsInnermost(head, Registered)
    BY DEF Registered, SetOnErrorHandler, ListMatchesStack
  <1>5. IsInnermost(head', Registered')
    BY <1>1, <1>3, <1>4 DEF SetOnErrorHandler, Register, IsInnermost
  <1>6. \A d \in Registered' :
          {e \in Registered' : e < d} = {e \in Registered : e < d}
    BY <1>1, <1>3, <1>4
  <1>7. ASSUME NEW d \in Registered'
        PROVE  IsInnermost(next'[d], {e \in Registered' : e < d})
    <2>1. CASE d = depth /\ head # depth
      <3>1. {e \in Registered : e < depth} = Registered
        <4>1. \A e \in Registered : e < depth
          BY <2>1, <1>1, <1>4, InnermostBounds
        <4>2. QED
          BY <4>1
      <3>2. next'[d] = head
        BY <2>1, <1>1 DEF SetOnErrorHandler, Register, TypeOK
      <3>3. QED
        BY <2>1, <3>1, <3>2, <1>6 DEF SetOnErrorHandler, ListMatchesStack
    <2>2. CASE d # depth \/ head = depth
      <3>1. d \in Registered
        BY <2>2, <1>1, <1>3 DEF SetOnErrorHandler, ListMatchesStack, IsInnermost
      <3>2. next'[d] = next[d]
        BY <2>2, <1>1 DEF SetOnErrorHandler, Register, TypeOK
      <3>3. QED
        BY <3>1, <3>2, <1>6 DEF SetOnErrorHandler, ListMatchesStack
    <2>3. QED
      BY <2>1, <2>2
  <1>8. ListMatchesStack'
    BY <1>5, <1>7 DEF ListMatchesStack
  <1>9. InstrRecorded'
    BY <1>1, <1>3 DEF SetOnErrorHandler, Register, TypeOK, InstrRecorded,
                      Registered
  <1>10. RunningFrame' /\ SearchSound'
    BY <1>1 DEF SetOnErrorHandler, RunningFrame, SearchSound
  <1>11. QED
    BY <1>2, <1>8, <1>9, <1>10

LEMMA SetOnErrorHandlerOffPreserves == IInv /\ SetOnErrorHandlerOff => IInv'
  <1> SUFFICES ASSUME IInv, SetOnErrorHandlerOff PROVE IInv'
    OBVIOUS
  <1>1. TypeOK'
    BY MaxDepthAssumption DEF SetOnErrorHandlerOff, IInv, TypeOK, Pointer
  <1>2. Registered' = Registered
    BY DEF SetOnErrorHandlerOff, Registered
  <1>3. QED
    BY <1>1, <1>2 DEF SetOnErrorHandlerOff, IInv, RunningFrame,
                      ListMatchesStack, SearchSound, InstrRecorded

\* An error starts the walk at the head, above which nothing is listed.
LEMMA ThrowPreserves ==
  ASSUME IInv, phase = "run",
         NEW e \in Errors \union {ERR_NO_ERROR, ERR_RESUME_WITHOUT_ERROR},
         Throw(e),
         UNCHANGED <<depth, at, handlerAddr, isActive, next, instr, head,
                     faulted>>
  PROVE  IInv'
  <1>1. TypeOK'
    BY DEF IInv, Throw, TypeOK
  <1>2. RunningFrame' /\ ListMatchesStack' /\ Registered' = Registered
    BY <1>1, SameListPreserves DEF Throw
  <1>3. Registered \subseteq 1..depth /\ depth \in Nat /\ head \in Nat
    BY DEF Registered, IInv, TypeOK, Pointer
  <1>4. SearchSound'
    <2>1. cursor' = head \/ phase' = "run"
      BY DEF Throw
    <2>2. IsInnermost(head, Registered)
      BY DEF IInv, ListMatchesStack
    <2>3. QED
      BY <2>1, <2>2, <1>2, <1>3 DEF SearchSound, IsInnermost
  <1>5. InstrRecorded'
    BY <1>2 DEF IInv, InstrRecorded
  <1>6. QED
    BY <1>1, <1>2, <1>4, <1>5 DEF IInv

\* The successor of an executing handler is the next one the stack holds.
LEMMA SkipActivePreserves == IInv /\ SkipActive => IInv'
  <1> SUFFICES ASSUME IInv, SkipActive PROVE IInv'
    OBVIOUS
  <1> USE DEF IInv
  <1>1. Registered' = Registered
    BY DEF SkipActive, Registered
  <1>2. cursor \in Registered /\ isActive[cursor]
    BY DEF SkipActive, SearchSound
  <1>3. Registered \subseteq 1..depth /\ depth \in 0..MaxDepth /\ cursor \in Frame
    BY <1>2, MaxDepthAssumption DEF Registered, TypeOK, Pointer, Frame
  <1>4. TypeOK'
    BY <1>3 DEF SkipActive, TypeOK
  <1>5. IsInnermost(cursor', {e \in Registered : e < cursor})
    BY <1>2 DEF SkipActive, ListMatchesStack
  <1>6. SearchSound'
    <2>1. ASSUME NEW d \in Registered, d > cursor', d # cursor
          PROVE  d > cursor
      <3>1. {e \in Registered : e < cursor} \in SUBSET (1..depth)
        BY <1>3
      <3>2. \A e \in Registered : e < cursor => e <= cursor'
        BY <3>1, <1>3, <1>5, MaxDepthAssumption, InnermostBounds
      <3>3. d \in Nat /\ cursor \in Nat /\ cursor' \in Nat
        BY <1>3, <1>4, MaxDepthAssumption DEF TypeOK, Frame, Pointer
      <3>4. QED
        BY <2>1, <3>2, <3>3
    <2>2. \A d \in Registered : d > cursor' => isActive[d]
      BY <1>2, <2>1 DEF SkipActive, SearchSound
    <2>3. cursor' = 0 \/ cursor' \in Registered
      BY <1>5 DEF IsInnermost
    <2>4. QED
      BY <1>1, <2>2, <2>3 DEF SkipActive, SearchSound
  <1>7. RunningFrame' /\ ListMatchesStack' /\ InstrRecorded'
    BY <1>1 DEF SkipActive, RunningFrame, ListMatchesStack, InstrRecorded,
                IsInnermost
  <1>8. QED
    BY <1>4, <1>6, <1>7

\* Entering a handler drops the frames above it, all of them from the list.
LEMMA TriggerPreserves == IInv /\ Trigger => IInv'
  <1> SUFFICES ASSUME IInv, Trigger PROVE IInv'
    OBVIOUS
  <1> USE DEF IInv
  <1>1. cursor \in Registered /\ ~isActive[cursor]
    BY DEF Trigger, Usable, SearchSound
  <1>2. /\ cursor \in 1..depth
        /\ depth \in 0..MaxDepth
        /\ cursor \in Frame
        /\ Registered \subseteq 1..depth
    BY <1>1, MaxDepthAssumption DEF Registered, TypeOK, Pointer, Frame
  <1>3. TypeOK'
    <2>1. cursor \in Pointer /\ 0 \in Pointer /\ handlerAddr[cursor] \in Position
      BY <1>2, MaxDepthAssumption DEF TypeOK, Pointer, Frame, Position
    <2>2. at[cursor] \in Position
      BY <1>2 DEF TypeOK
    <2>3. QED
      BY <1>2, <2>1, <2>2 DEF Trigger, TypeOK
  <1>4. Registered' = Registered \intersect 1..cursor
    BY <1>2 DEF Trigger, Registered
  <1>5. IsInnermost(head', Registered')
    BY <1>1, <1>2, <1>4 DEF Trigger, IsInnermost
  <1>6. \A d \in Registered' :
          {e \in Registered' : e < d} = {e \in Registered : e < d}
    <2>1. \A d \in Registered', e \in Registered : e < d => e \in Registered'
      BY <1>2, <1>4
    <2>2. QED
      BY <1>4, <2>1
  <1>7. ListMatchesStack'
    BY <1>4, <1>5, <1>6 DEF Trigger, ListMatchesStack, IsInnermost
  <1>8. InstrRecorded'
    BY <1>1, <1>2, <1>4 DEF Trigger, InstrRecorded, TypeOK
  <1>9. RunningFrame' /\ SearchSound'
    BY <1>2 DEF Trigger, RunningFrame, SearchSound
  <1>10. QED
    BY <1>3, <1>7, <1>8, <1>9

LEMMA UnhandledPreserves == IInv /\ Unhandled => IInv'
  BY DEF Unhandled, IInv, TypeOK, RunningFrame, ListMatchesStack, SearchSound,
         InstrRecorded, Registered

LEMMA ResumePreserves == IInv /\ Resume => IInv'
  <1> SUFFICES ASSUME IInv, Resume PROVE IInv'
    OBVIOUS
  <1> USE DEF IInv
  <1>1. depth \in Frame
    BY DEF Resume, RunningFrame
  <1>2. TypeOK'
    BY <1>1 DEF Resume, TypeOK, Position
  <1>3. RunningFrame' /\ ListMatchesStack' /\ Registered' = Registered
    BY <1>2, SameListPreserves DEF Resume
  <1>4. InstrRecorded'
    BY <1>1, <1>3 DEF Resume, CanResume, InstrRecorded, TypeOK, Registered,
                      Frame, Pointer
  <1>5. SearchSound'
    BY DEF Resume, SearchSound
  <1>6. QED
    BY <1>2, <1>3, <1>4, <1>5

LEMMA ResumeLabelPreserves ==
  ASSUME IInv, NEW l \in Lines, ResumeLabel(l)
  PROVE  IInv'
  <1> USE DEF IInv
  <1>1. depth \in Frame
    BY DEF ResumeLabel, RunningFrame
  <1>2. TypeOK'
    BY <1>1 DEF ResumeLabel, TypeOK, Position
  <1>3. RunningFrame' /\ ListMatchesStack' /\ Registered' = Registered
    BY <1>2, SameListPreserves DEF ResumeLabel
  <1>4. InstrRecorded'
    BY <1>1, <1>3 DEF ResumeLabel, CanResume, InstrRecorded, TypeOK,
                      Registered, Frame, Pointer
  <1>5. SearchSound'
    BY DEF ResumeLabel, SearchSound
  <1>6. QED
    BY <1>2, <1>3, <1>4, <1>5

LEMMA NextIInv == IInv /\ [Next]_vars => IInv'
  <1> SUFFICES ASSUME IInv, [Next]_vars PROVE IInv'
    OBVIOUS
  <1>1. CASE Call
    BY <1>1, CallPreserves
  <1>2. CASE Return
    BY <1>2, ReturnPreserves
  <1>3. CASE \E l \in Lines : Statement(l)
    BY <1>3, StatementPreserves
  <1>4. CASE \E a \in Labels, l \in Lines : SetOnErrorHandler(a, l)
    BY <1>4, SetOnErrorHandlerPreserves
  <1>5. CASE SetOnErrorHandlerOff
    BY <1>5, SetOnErrorHandlerOffPreserves
  <1>6. CASE \E e \in Errors : RuntimeError(e)
    BY <1>6, ThrowPreserves DEF RuntimeError
  <1>7. CASE Search
    BY <1>7, SkipActivePreserves, TriggerPreserves, UnhandledPreserves
    DEF Search
  <1>8. CASE ResumeFails
    BY <1>8, ThrowPreserves DEF ResumeFails
  <1>9. CASE Resume
    BY <1>9, ResumePreserves
  <1>10. CASE \E l \in Lines : ResumeLabel(l)
    BY <1>10, ResumeLabelPreserves
  <1>11. CASE UNCHANGED vars
    BY <1>11 DEF vars, IInv, TypeOK, RunningFrame, ListMatchesStack,
                 SearchSound, InstrRecorded, Registered, IsInnermost
  <1>12. QED
    BY <1>1, <1>2, <1>3, <1>4, <1>5, <1>6, <1>7, <1>8, <1>9, <1>10, <1>11
    DEF Next

LEMMA Invariance == Spec => []IInv
  BY InitIInv, NextIInv, PTL DEF Spec

------------------------------------------------------------------------------
(* Every variable of the subsystem keeps its type.                          *)
THEOREM TypeCorrect == Spec => []TypeOK
  <1>1. IInv => TypeOK
    BY DEF IInv
  <1>2. QED
    BY <1>1, Invariance, PTL

(* The handler list of a thread never holds a frame that has left the stack *)
(* and never misses a live one, at any depth.                               *)
THEOREM NoDanglingHandler == Spec => []ListMatchesStack
  <1>1. IInv => ListMatchesStack
    BY DEF IInv
  <1>2. QED
    BY <1>1, Invariance, PTL

(* RESUME and RESUME NEXT return to the statement that was interrupted.     *)
THEOREM ResumeIsExact == Spec => []ResumeReturnsToFault
  <1>1. IInv => ResumeReturnsToFault
    BY DEF IInv, InstrRecorded, ResumeReturnsToFault
  <1>2. QED
    BY <1>1, Invariance, PTL

(* An error is delivered to the innermost handler that is not executing,    *)
(* and the program ends unhandled only when every handler is executing.     *)
THEOREM InnermostIdleHandler == Spec => ErrorReachesInnermostIdleHandler
  <1> DEFINE Delivery ==
        /\ phase = "scan" /\ phase' = "run" =>
             /\ depth' \in Registered
             /\ ~isActive[depth']
             /\ \A d \in Registered : d > depth' => isActive[d]
        /\ phase' = "exited" => \A d \in Registered : isActive[d]
  <1>1. IInv /\ [Next]_vars => [Delivery]_vars
    <2> SUFFICES ASSUME IInv, Next PROVE Delivery
      OBVIOUS
    <2>1. CASE Trigger
      BY <2>1 DEF Trigger, Usable, IInv, SearchSound
    <2>2. CASE Unhandled
      <3>1. cursor = 0
        BY <2>2 DEF Unhandled, IInv, SearchSound, Registered
      <3>2. \A d \in Registered : d > 0
        BY DEF Registered
      <3>3. QED
        BY <2>2, <3>1, <3>2 DEF Unhandled, IInv, SearchSound
    <2>3. CASE SkipActive
      BY <2>3 DEF SkipActive
    <2>4. CASE ~Search
      BY <2>4 DEF Next, Call, Return, Statement, SetOnErrorHandler,
                  SetOnErrorHandlerOff, RuntimeError, ResumeFails, Throw,
                  Resume, ResumeLabel
    <2>5. QED
      BY <2>1, <2>2, <2>3, <2>4 DEF Search
  <1>2. QED
    BY <1>1, Invariance, PTL DEF Spec, ErrorReachesInnermostIdleHandler

------------------------------------------------------------------------------
\* The safety part of the abstract specification, under the mapping.
AbstractSafety == Abstract!AbsInit /\ [][Abstract!AbsNext]_(Abstract!absVars)

LEMMA InitRefines == Init => Abstract!AbsInit
  <1> SUFFICES ASSUME Init PROVE Abstract!AbsInit
    OBVIOUS
  <1>1. Registered = {} /\ ActiveFrames = {}
    BY MaxDepthAssumption DEF Init, Registered, ActiveFrames, Frame
  <1>2. QED
    BY <1>1 DEF Init, Mode, Abstract!AbsInit

LEMMA CallRefines == IInv /\ Call => Abstract!Enter
  <1> SUFFICES ASSUME IInv, Call PROVE Abstract!Enter
    OBVIOUS
  <1>1. depth \in Nat /\ depth' = depth + 1 /\ depth' \in Frame
    BY MaxDepthAssumption DEF Call, IInv, TypeOK, Pointer, Frame
  <1>2. Registered' = Registered
    BY <1>1 DEF Call, IInv, TypeOK, Registered
  <1>3. \A d \in Registered : isActive'[d] = isActive[d]
    <2>1. \A d \in Registered : d \in Frame /\ d # depth + 1
      BY <1>1, MaxDepthAssumption DEF Registered, Frame
    <2>2. QED
      BY <1>1, <2>1 DEF Call, IInv, TypeOK
  <1>4. ActiveFrames' = ActiveFrames
    BY <1>2, <1>3 DEF ActiveFrames
  <1>5. QED
    BY <1>2, <1>4 DEF Call, Mode, Abstract!Enter

LEMMA ReturnRefines == IInv /\ Return => Abstract!Leave
  <1> SUFFICES ASSUME IInv, Return PROVE Abstract!Leave
    OBVIOUS
  <1>1. depth \in 1..MaxDepth /\ depth' = depth - 1
    BY DEF Return, IInv, RunningFrame, Frame
  <1>2. Registered' = Registered \ {depth}
    BY <1>1, MaxDepthAssumption DEF Return, Registered
  <1>3. ActiveFrames' = ActiveFrames \ {depth}
    BY <1>2 DEF Return, ActiveFrames
  <1>4. QED
    BY <1>1, <1>2, <1>3 DEF Return, Mode, Abstract!Leave

LEMMA EstablishRefines ==
  ASSUME IInv, NEW a \in Labels, NEW l \in Lines, SetOnErrorHandler(a, l)
  PROVE  Abstract!Establish
  <1>1. depth \in 1..MaxDepth /\ depth' = depth
    BY DEF SetOnErrorHandler, IInv, RunningFrame, Frame
  <1>2. Registered' = Registered \union {depth}
    BY <1>1, MaxDepthAssumption, AddressAssumption
    DEF SetOnErrorHandler, IInv, TypeOK, Registered, Frame
  <1>3. ActiveFrames' = ActiveFrames \ {depth}
    BY <1>1, <1>2
    DEF SetOnErrorHandler, Register, IInv, TypeOK, ActiveFrames, Frame
  <1>4. QED
    BY <1>1, <1>2, <1>3 DEF SetOnErrorHandler, Mode, Abstract!Establish

LEMMA SearchRefines ==
  ASSUME IInv, Search
  PROVE  Abstract!AbsNext \/ UNCHANGED Abstract!absVars
  <1> USE DEF IInv
  <1>1. CASE SkipActive
    BY <1>1 DEF SkipActive, Registered, ActiveFrames, Mode, Abstract!absVars
  <1>2. CASE Trigger
    <2>1. cursor \in Registered /\ ~isActive[cursor]
      BY <1>2 DEF Trigger, Usable, SearchSound
    <2>2. /\ cursor \in 1..depth
          /\ depth \in 0..MaxDepth
          /\ cursor \in Frame
          /\ Registered \subseteq 1..depth
      BY <2>1, MaxDepthAssumption DEF Registered, TypeOK, Pointer, Frame
    <2>3. Registered' = Registered \intersect 1..cursor
      BY <1>2, <2>2 DEF Trigger, Registered
    <2>4. ActiveFrames' = (ActiveFrames \intersect 1..cursor) \union {cursor}
      BY <1>2, <2>1, <2>2, <2>3 DEF Trigger, TypeOK, ActiveFrames
    <2>5. cursor \in Abstract!Idle /\ \A g \in Abstract!Idle : g <= cursor
      BY <1>2, <2>1, <2>2
      DEF Trigger, SearchSound, Abstract!Idle, ActiveFrames
    <2>6. Abstract!Deliver
      BY <1>2, <2>3, <2>4, <2>5 DEF Trigger, Mode, Abstract!Deliver
    <2>7. QED
      BY <2>6 DEF Abstract!AbsNext
  <1>3. CASE Unhandled
    <2>1. cursor = 0
      BY <1>3 DEF Unhandled, SearchSound, Registered
    <2>2. \A d \in Registered : d > 0
      BY DEF Registered
    <2>3. Abstract!Idle = {}
      BY <1>3, <2>1, <2>2
      DEF Unhandled, SearchSound, Abstract!Idle, ActiveFrames
    <2>4. Registered' = Registered /\ ActiveFrames' = ActiveFrames
      BY <1>3 DEF Unhandled, Registered, ActiveFrames
    <2>5. Abstract!EndUnhandled
      BY <1>3, <2>3, <2>4 DEF Unhandled, Mode, Abstract!EndUnhandled
    <2>6. QED
      BY <2>5 DEF Abstract!AbsNext
  <1>4. QED
    BY <1>1, <1>2, <1>3 DEF Search

\* A RESUME ends the handler of the running frame.
LEMMA RecoverRefines ==
  ASSUME IInv, Resume \/ \E l \in Lines : ResumeLabel(l)
  PROVE  Abstract!Recover
  <1>1. /\ phase = "run" /\ phase' = "run"
        /\ depth \in Frame
        /\ head = depth /\ isActive[depth]
        /\ isActive' = [isActive EXCEPT ![depth] = FALSE]
        /\ UNCHANGED <<depth, handlerAddr>>
    BY DEF Resume, ResumeLabel, CanResume, IInv, RunningFrame
  <1>2. Registered' = Registered
    BY <1>1 DEF Registered
  <1>3. depth \in Registered
    BY <1>1, MaxDepthAssumption
    DEF IInv, ListMatchesStack, IsInnermost, Frame
  <1>4. depth \in ActiveFrames /\ ActiveFrames' = ActiveFrames \ {depth}
    BY <1>1, <1>2, <1>3 DEF ActiveFrames, IInv, TypeOK
  <1>5. QED
    BY <1>1, <1>2, <1>4 DEF Mode, Abstract!Recover

LEMMA NextRefines == IInv /\ [Next]_vars => [Abstract!AbsNext]_(Abstract!absVars)
  <1> SUFFICES ASSUME IInv, [Next]_vars
               PROVE  Abstract!AbsNext \/ UNCHANGED Abstract!absVars
    OBVIOUS
  <1>1. CASE Call
    BY <1>1, CallRefines DEF Abstract!AbsNext
  <1>2. CASE Return
    BY <1>2, ReturnRefines DEF Abstract!AbsNext
  <1>3. CASE \E l \in Lines : Statement(l)
    BY <1>3 DEF Statement, Registered, ActiveFrames, Mode, Abstract!absVars
  <1>4. CASE \E a \in Labels, l \in Lines : SetOnErrorHandler(a, l)
    BY <1>4, EstablishRefines DEF Abstract!AbsNext
  <1>5. CASE SetOnErrorHandlerOff
    BY <1>5 DEF SetOnErrorHandlerOff, Registered, ActiveFrames, Mode,
                Abstract!Die, Abstract!AbsNext
  <1>6. CASE (\E e \in Errors : RuntimeError(e)) \/ ResumeFails
    BY <1>6 DEF RuntimeError, ResumeFails, Throw, Registered, ActiveFrames,
                Mode, Abstract!Raise, Abstract!AbsNext, Abstract!absVars
  <1>7. CASE Search
    BY <1>7, SearchRefines
  <1>8. CASE Resume \/ \E l \in Lines : ResumeLabel(l)
    BY <1>8, RecoverRefines DEF Abstract!AbsNext
  <1>9. CASE UNCHANGED vars
    BY <1>9 DEF vars, Registered, ActiveFrames, Mode, Abstract!absVars
  <1>10. QED
    BY <1>1, <1>2, <1>3, <1>4, <1>5, <1>6, <1>7, <1>8, <1>9 DEF Next

(* The linked list of BasicError.c implements the abstract stack of         *)
(* handlers in every step, for stacks of any depth.                         *)
THEOREM ListImplementsStack == Spec => AbstractSafety
  BY InitRefines, NextRefines, Invariance, PTL DEF Spec, AbstractSafety

=============================================================================
