--------------------------- MODULE ResourceProofs ---------------------------
(***************************************************************************)
(* Proofs about the two stores a program takes from and gives back to.     *)
(*                                                                         *)
(* FileIO, for any number of threads, handles and file descriptors: no     *)
(* file is lost, an open handle owns its descriptor, and CLOSE without a   *)
(* number leaves none open.  Each invariant is inductive next to TypeOK.   *)
(*                                                                         *)
(* Collector, for every heap, every layout of objects in blocks and every  *)
(* number of roots: what the program can get at is never taken back, given *)
(* out again or on a free list.  What can be got at and what is on a list  *)
(* are computed step by step; the first lemmas show each to be the least   *)
(* set that is closed, and every step is judged by that alone.             *)
(***************************************************************************)
EXTENDS FileIO, Collector, FiniteSetTheorems, WellFoundedInduction, NaturalsInduction, TLAPS

------------------------------------------------------------------------------
(* Every variable keeps its type.                                           *)
THEOREM TypeCorrect == Spec => []TypeOK
<1> USE SizeAssumption, HeldAssumption, ThreadAssumption, FdAssumption
<1>1. Init => TypeOK
  <2> SUFFICES ASSUME Init PROVE TypeOK
    OBVIOUS
  <2>1. fileHandleTable \in [Slot -> [isOpen : BOOLEAN, fd : Fd \union {NoFd}]]
    BY DEF Init, Blank
  <2>2. /\ openFds \subseteq Fd
        /\ owner \in Thread \union {NoThread}
        /\ dropped \in BOOLEAN
    BY DEF Init
  <2>3. count \in 0..MaxHeld /\ (owner = NoThread <=> count = 0)
    BY DEF Init
  <2>4. closing \in [Thread -> 0..VB_MAX_FILE_HANDLES]
    BY DEF Init
  <2>5. err \in [Thread -> Errors]
    BY DEF Init, Errors
  <2> QED BY <2>1, <2>2, <2>3, <2>4, <2>5 DEF TypeOK
<1>2. TypeOK /\ [Next]_vars => TypeOK'
  <2> SUFFICES ASSUME TypeOK, [Next]_vars PROVE TypeOK'
    OBVIOUS
  <2>1. CASE UNCHANGED vars
    BY <2>1 DEF TypeOK, vars
  <2>2. CASE Next
    <3> PICK t \in Thread :
          \/ Open(t)
          \/ \E n \in Number : BadHandle(t, n) \/ Close(t, n)
          \/ CloseAll(t)
          \/ CloseTurn(t)
          \/ Look(t)
      BY <2>2 DEF Next
    <3>1. ASSUME NEW e \in Errors, Throw(t, e) PROVE err' \in [Thread -> Errors]
      BY <3>1 DEF TypeOK, Throw
    <3>2. ASSUME LockLeft(t)
          PROVE /\ owner' \in Thread \union {NoThread}
                /\ count' \in 0..MaxHeld
                /\ owner' = NoThread <=> count' = 0
      BY <3>2 DEF TypeOK, LockLeft
    <3>3. ASSUME NEW s \in Slot, CloseFails(t, s) \/ CloseSucceeds(t, s)
          PROVE /\ fileHandleTable' \in [Slot -> [isOpen : BOOLEAN, fd : Fd \union {NoFd}]]
                /\ openFds' \subseteq Fd
                /\ err' \in [Thread -> Errors]
                /\ dropped' \in BOOLEAN
      <4>1. CASE CloseFails(t, s)
        <5>1. err' \in [Thread -> Errors]
          BY <4>1, <3>1 DEF CloseFails, Errors, FileIOErrorFromErrno
        <5>2. CASE UNCHANGED <<openFds, dropped>>
          BY <4>1, <5>1, <5>2 DEF TypeOK, CloseFails
        <5>3. CASE openFds' = openFds \ {fileHandleTable[s].fd} /\ dropped' = TRUE
          BY <4>1, <5>1, <5>3 DEF TypeOK, CloseFails
        <5> QED BY <4>1, <5>2, <5>3 DEF CloseFails
      <4>2. CASE CloseSucceeds(t, s)
        <5>1. err' \in [Thread -> Errors]
          BY <4>2, <3>1 DEF CloseSucceeds, Done, Errors
        <5>2. openFds' \subseteq Fd /\ dropped' \in BOOLEAN
          BY <4>2 DEF CloseSucceeds, TypeOK
        <5>3. CASE fileHandleTable[s].isOpen
          <6> DEFINE Released == [fileHandleTable[s] EXCEPT !.isOpen = FALSE]
          <6>1. Released \in [isOpen : BOOLEAN, fd : Fd \union {NoFd}]
            BY DEF TypeOK
          <6>2. fileHandleTable' = [fileHandleTable EXCEPT ![s] = Released]
            BY <4>2, <5>3 DEF CloseSucceeds
          <6> QED BY <5>1, <5>2, <6>1, <6>2 DEF TypeOK
        <5>4. CASE ~fileHandleTable[s].isOpen
          BY <4>2, <5>1, <5>2, <5>4 DEF CloseSucceeds, TypeOK
        <5> QED BY <5>3, <5>4
      <4> QED BY <3>3, <4>1, <4>2
    <3>4. CASE Open(t)
      <4>1. ASSUME NEW m, NEW a, NEW l, OpenIllegal(t, m, a, l) PROVE TypeOK'
        BY <4>1, <3>1 DEF OpenIllegal, TypeOK, LockBalanced, Errors, ERR_INTERNAL_ERROR
      <4>2. CASE OpenFirst(t)
        BY <4>2, <3>1, <3>2 DEF OpenFirst, TypeOK, Errors, ERR_ILLEGAL_FUNCTION_CALL
      <4>3. ASSUME NEW n \in Number, OpenBadNumber(t, n) PROVE TypeOK'
        BY <4>3, <3>1 DEF OpenBadNumber, TypeOK, LockBalanced, Errors,
                          ERR_BAD_FILE_NAME_OR_NUMBER
      <4>4. ASSUME NEW n \in Number, OpenBusy(t, n) PROVE TypeOK'
        BY <4>4, <3>1, <3>2 DEF OpenBusy, TypeOK, Errors, ERR_FILE_ALREADY_OPEN
      <4>5. ASSUME NEW n \in Number, OpenFails(t, n) PROVE TypeOK'
        <5>1. err' \in [Thread -> Errors]
          BY <4>5, <3>1 DEF OpenFails, Errors, FileIOErrorFromErrno
        <5>2. fileHandleTable' \in [Slot -> [isOpen : BOOLEAN, fd : Fd \union {NoFd}]]
          BY <4>5 DEF OpenFails, TypeOK, Blank
        <5> QED BY <4>5, <5>1, <5>2, <3>2 DEF OpenFails, TypeOK
      <4>6. ASSUME NEW n \in Number, OpenSucceeds(t, n) PROVE TypeOK'
        <5>1. err' \in [Thread -> Errors]
          BY <4>6, <3>1 DEF OpenSucceeds, Done, Errors
        <5>2. /\ fileHandleTable' \in [Slot -> [isOpen : BOOLEAN, fd : Fd \union {NoFd}]]
              /\ openFds' \subseteq Fd
          BY <4>6 DEF OpenSucceeds, TypeOK
        <5> QED BY <4>6, <5>1, <5>2, <3>2 DEF OpenSucceeds, TypeOK
      <4> QED BY <3>4, <4>1, <4>2, <4>3, <4>4, <4>5, <4>6 DEF Open
    <3>5. ASSUME NEW n \in Number, BadHandle(t, n) PROVE TypeOK'
      BY <3>5, <3>1 DEF BadHandle, TypeOK, LockBalanced, Errors, ERR_ILLEGAL_FUNCTION_CALL
    <3>6. ASSUME NEW n \in Number, Close(t, n) PROVE TypeOK'
      BY <3>6, <3>3 DEF Close, TypeOK, LockBalanced
    <3>7. CASE CloseAll(t)
      <4>1. closing' \in [Thread -> 0..VB_MAX_FILE_HANDLES]
        BY <3>7 DEF CloseAll, TypeOK
      <4>2. err' \in [Thread -> Errors]
        BY <3>7, <3>1 DEF CloseAll, Done, Errors
      <4> QED BY <3>7, <4>1, <4>2 DEF CloseAll, TypeOK
    <3>8. CASE CloseTurn(t)
      <4>1. closing[t] - 1 \in Slot
        BY <3>8 DEF CloseTurn, Idle, TypeOK, Slot
      <4>2. closing' \in [Thread -> 0..VB_MAX_FILE_HANDLES]
        BY <3>8 DEF CloseTurn, Idle, TypeOK
      <4> QED BY <3>8, <4>1, <4>2, <3>3 DEF CloseTurn, TypeOK, LockBalanced
    <3>9. CASE Look(t)
      BY <3>9, <3>1 DEF Look, Done, TypeOK, LockBalanced, Errors
    <3> QED BY <3>4, <3>5, <3>6, <3>7, <3>8, <3>9
  <2> QED BY <2>1, <2>2
<1> QED BY <1>1, <1>2, PTL DEF Spec

------------------------------------------------------------------------------
\* What a step does to the table and to the open descriptors.
Keeps == UNCHANGED <<fileHandleTable, openFds, dropped>>

OpensSlot(s) ==
  /\ ~fileHandleTable[s].isOpen
  /\ \E f \in Fd \ openFds :
       /\ openFds' = openFds \union {f}
       /\ fileHandleTable' =
            [fileHandleTable EXCEPT ![s] = [isOpen |-> TRUE, fd |-> f]]
  /\ UNCHANGED dropped

ClearsSlot(s) ==
  /\ ~fileHandleTable[s].isOpen
  /\ fileHandleTable' = [fileHandleTable EXCEPT ![s] = Blank]
  /\ UNCHANGED <<openFds, dropped>>

ReleasesSlot(s) ==
  /\ fileHandleTable[s].isOpen
  /\ openFds' = openFds \ {fileHandleTable[s].fd}
  /\ fileHandleTable' = [fileHandleTable EXCEPT ![s].isOpen = FALSE]
  /\ UNCHANGED dropped

\* A close() that fails and releases the descriptor.
DropsSlot(s) ==
  /\ fileHandleTable[s].isOpen
  /\ openFds' = openFds \ {fileHandleTable[s].fd}
  /\ dropped' = TRUE
  /\ UNCHANGED fileHandleTable

LEMMA ClosingEffect ==
  ASSUME NEW t \in Thread, NEW s \in Slot, CloseFails(t, s) \/ CloseSucceeds(t, s)
  PROVE  Keeps \/ ReleasesSlot(s) \/ DropsSlot(s)
BY DEF CloseFails, CloseSucceeds, Keeps, ReleasesSlot, DropsSlot

\* Every step has one of these effects.
LEMMA StepEffect ==
  ASSUME TypeOK, [Next]_vars
  PROVE  \/ Keeps
         \/ \E s \in Slot : \/ OpensSlot(s) \/ ClearsSlot(s)
                          \/ ReleasesSlot(s) \/ DropsSlot(s)
<1>1. CASE UNCHANGED vars
  BY <1>1 DEF vars, Keeps
<1>2. CASE Next
  <2> PICK t \in Thread :
        \/ Open(t)
        \/ \E n \in Number : BadHandle(t, n) \/ Close(t, n)
        \/ CloseAll(t)
        \/ CloseTurn(t)
        \/ Look(t)
    BY <1>2 DEF Next
  <2>1. CASE Open(t)
    <3>1. ASSUME NEW m, NEW a, NEW l, OpenIllegal(t, m, a, l) PROVE Keeps
      BY <3>1 DEF OpenIllegal, Keeps
    <3>2. CASE OpenFirst(t)
      BY <3>2 DEF OpenFirst, Keeps
    <3>3. ASSUME NEW n \in Number, OpenBadNumber(t, n) \/ OpenBusy(t, n) PROVE Keeps
      BY <3>3 DEF OpenBadNumber, OpenBusy, Keeps
    <3>4. ASSUME NEW n \in Number, OpenFails(t, n) PROVE \E s \in Slot : ClearsSlot(s)
      BY <3>4 DEF OpenFails, ClearsSlot
    <3>5. ASSUME NEW n \in Number, OpenSucceeds(t, n) PROVE \E s \in Slot : OpensSlot(s)
      BY <3>5 DEF OpenSucceeds, OpensSlot
    <3> QED BY <2>1, <3>1, <3>2, <3>3, <3>4, <3>5 DEF Open
  <2>2. ASSUME NEW n \in Number, BadHandle(t, n) PROVE Keeps
    BY <2>2 DEF BadHandle, Keeps
  <2>3. ASSUME NEW n \in Number, Close(t, n)
        PROVE Keeps \/ \E s \in Slot : ReleasesSlot(s) \/ DropsSlot(s)
    BY <2>3, ClosingEffect DEF Close
  <2>4. CASE CloseAll(t) \/ Look(t)
    BY <2>4 DEF CloseAll, Look, Keeps
  <2>5. CASE CloseTurn(t)
    <3>1. closing[t] - 1 \in Slot
      BY <2>5, SizeAssumption DEF CloseTurn, Idle, TypeOK, Slot
    <3> QED BY <2>5, <3>1, ClosingEffect DEF CloseTurn
  <2> QED BY <2>1, <2>2, <2>3, <2>4, <2>5
<1> QED BY <1>1, <1>2

\* What OPEN, a failing OPEN and CLOSE do to the set of open handles.
LEMMA SlotsAfter ==
  ASSUME TypeOK, NEW s \in Slot
  PROVE  /\ \A f \in Fd : fileHandleTable' =
              [fileHandleTable EXCEPT ![s] = [isOpen |-> TRUE, fd |-> f]] =>
            /\ fileHandleTable'[s].fd = f /\ OpenSlots' = OpenSlots \union {s}
            /\ \A r \in Slot \ {s} : fileHandleTable'[r] = fileHandleTable[r]
         /\ ClearsSlot(s) =>
            /\ OpenSlots' = OpenSlots /\ s \notin OpenSlots
            /\ \A r \in Slot \ {s} : fileHandleTable'[r] = fileHandleTable[r]
         /\ ReleasesSlot(s) =>
            /\ OpenSlots' = OpenSlots \ {s}
            /\ \A r \in Slot \ {s} : fileHandleTable'[r] = fileHandleTable[r]
<1>1. ASSUME NEW f \in Fd,
             fileHandleTable' = [fileHandleTable EXCEPT ![s] = [isOpen |-> TRUE, fd |-> f]]
      PROVE  /\ fileHandleTable'[s].fd = f /\ OpenSlots' = OpenSlots \union {s}
             /\ \A r \in Slot \ {s} : fileHandleTable'[r] = fileHandleTable[r]
  <2>1. /\ fileHandleTable'[s].isOpen /\ fileHandleTable'[s].fd = f
        /\ \A r \in Slot \ {s} : fileHandleTable'[r] = fileHandleTable[r]
    BY <1>1 DEF TypeOK
  <2> QED BY <2>1 DEF OpenSlots
<1>2. ASSUME ClearsSlot(s)
      PROVE  /\ OpenSlots' = OpenSlots /\ s \notin OpenSlots
             /\ \A r \in Slot \ {s} : fileHandleTable'[r] = fileHandleTable[r]
  <2>1. /\ ~fileHandleTable'[s].isOpen /\ ~fileHandleTable[s].isOpen
        /\ \A r \in Slot \ {s} : fileHandleTable'[r] = fileHandleTable[r]
    BY <1>2 DEF ClearsSlot, TypeOK, Blank
  <2> QED BY <2>1 DEF OpenSlots
<1>3. ASSUME ReleasesSlot(s)
      PROVE  /\ OpenSlots' = OpenSlots \ {s}
             /\ \A r \in Slot \ {s} : fileHandleTable'[r] = fileHandleTable[r]
  <2>1. /\ ~fileHandleTable'[s].isOpen
        /\ \A r \in Slot \ {s} : fileHandleTable'[r] = fileHandleTable[r]
    BY <1>3 DEF ReleasesSlot, TypeOK
  <2> QED BY <2>1 DEF OpenSlots
<1> QED BY <1>1, <1>2, <1>3

(* Whatever OPEN and CLOSE meet on the way, and whether or not a close()    *)
(* that fails keeps its descriptor, every open file has a handle.           *)
THEOREM FilesKeepHandles == Spec => []NoFileLost
<1>1. Init => NoFileLost
  BY DEF Init, NoFileLost
<1>2. TypeOK /\ NoFileLost /\ [Next]_vars => NoFileLost'
  <2> SUFFICES ASSUME TypeOK, NoFileLost, [Next]_vars PROVE NoFileLost'
    OBVIOUS
  <2> SUFFICES ASSUME NEW g \in openFds'
               PROVE  \E r \in OpenSlots' : fileHandleTable'[r].fd = g
    BY DEF NoFileLost
  <2>0. g \in openFds => \E r \in OpenSlots : fileHandleTable[r].fd = g
    BY DEF NoFileLost
  <2>1. CASE Keeps
    BY <2>0, <2>1 DEF Keeps, OpenSlots
  <2>2. ASSUME NEW s \in Slot, OpensSlot(s)
        PROVE  \E r \in OpenSlots' : fileHandleTable'[r].fd = g
    <3>1. PICK f \in Fd \ openFds :
            /\ openFds' = openFds \union {f}
            /\ fileHandleTable' =
                 [fileHandleTable EXCEPT ![s] = [isOpen |-> TRUE, fd |-> f]]
      BY <2>2 DEF OpensSlot
    <3>2. /\ fileHandleTable'[s].fd = f /\ OpenSlots' = OpenSlots \union {s}
          /\ \A r \in Slot \ {s} : fileHandleTable'[r] = fileHandleTable[r]
      BY <3>1, SlotsAfter
    <3>3. s \notin OpenSlots /\ OpenSlots \subseteq Slot
      BY <2>2 DEF OpensSlot, OpenSlots
    <3> QED BY <2>0, <3>1, <3>2, <3>3
  <2>3. ASSUME NEW s \in Slot, ClearsSlot(s)
        PROVE  \E r \in OpenSlots' : fileHandleTable'[r].fd = g
    <3>1. /\ OpenSlots' = OpenSlots /\ s \notin OpenSlots
          /\ \A r \in Slot \ {s} : fileHandleTable'[r] = fileHandleTable[r]
      BY <2>3, SlotsAfter
    <3>2. g \in openFds /\ OpenSlots \subseteq Slot
      BY <2>3 DEF ClearsSlot, OpenSlots
    <3> QED BY <2>0, <3>1, <3>2
  <2>4. ASSUME NEW s \in Slot, ReleasesSlot(s)
        PROVE  \E r \in OpenSlots' : fileHandleTable'[r].fd = g
    <3>1. /\ OpenSlots' = OpenSlots \ {s} /\ OpenSlots \subseteq Slot
          /\ \A r \in Slot \ {s} : fileHandleTable'[r] = fileHandleTable[r]
      BY <2>4, SlotsAfter DEF OpenSlots
    <3>2. g \in openFds /\ g # fileHandleTable[s].fd
      BY <2>4 DEF ReleasesSlot
    <3> QED BY <2>0, <3>1, <3>2
  <2>5. ASSUME NEW s \in Slot, DropsSlot(s)
        PROVE  \E r \in OpenSlots' : fileHandleTable'[r].fd = g
    BY <2>0, <2>5 DEF DropsSlot, OpenSlots
  <2> QED BY <2>1, <2>2, <2>3, <2>4, <2>5, StepEffect
<1> QED BY <1>1, <1>2, TypeCorrect, PTL DEF Spec

(* Until a close() fails and releases its descriptor, each open handle has  *)
(* an open descriptor of its own.                                           *)
THEOREM DescriptorsOwned == Spec => []HandlesOwnDescriptors
<1>1. Init => HandlesOwnDescriptors
  BY DEF Init, HandlesOwnDescriptors, Owned, OpenSlots, Blank
<1>2. TypeOK /\ HandlesOwnDescriptors /\ [Next]_vars => HandlesOwnDescriptors'
  <2> SUFFICES ASSUME TypeOK, HandlesOwnDescriptors, [Next]_vars
               PROVE  HandlesOwnDescriptors'
    OBVIOUS
  <2>0. dropped => HandlesOwnDescriptors'
    <3>1. \A s \in Slot : OpensSlot(s) \/ ClearsSlot(s) \/ ReleasesSlot(s) => UNCHANGED dropped
      BY DEF OpensSlot, ClearsSlot, ReleasesSlot
    <3>2. dropped => dropped'
      BY <3>1, StepEffect DEF Keeps, DropsSlot
    <3> QED BY <3>2 DEF HandlesOwnDescriptors
  <2>1. SUFFICES ASSUME Owned PROVE HandlesOwnDescriptors'
    BY <2>0 DEF HandlesOwnDescriptors
  <2>2. CASE Keeps
    BY <2>1, <2>2 DEF Keeps, HandlesOwnDescriptors, Owned, OpenSlots
  <2>3. ASSUME NEW s \in Slot, OpensSlot(s) PROVE Owned'
    <3>1. PICK f \in Fd \ openFds :
            /\ openFds' = openFds \union {f}
            /\ fileHandleTable' =
                 [fileHandleTable EXCEPT ![s] = [isOpen |-> TRUE, fd |-> f]]
      BY <2>3 DEF OpensSlot
    <3>2. /\ fileHandleTable'[s].fd = f /\ OpenSlots' = OpenSlots \union {s}
          /\ \A r \in Slot \ {s} : fileHandleTable'[r] = fileHandleTable[r]
      BY <3>1, SlotsAfter
    <3>3. s \notin OpenSlots /\ OpenSlots \subseteq Slot
      BY <2>3 DEF OpensSlot, OpenSlots
    <3> QED BY <2>1, <3>1, <3>2, <3>3 DEF Owned
  <2>4. ASSUME NEW s \in Slot, ClearsSlot(s) PROVE Owned'
    <3>1. /\ OpenSlots' = OpenSlots /\ s \notin OpenSlots /\ OpenSlots \subseteq Slot
          /\ \A r \in Slot \ {s} : fileHandleTable'[r] = fileHandleTable[r]
      BY <2>4, SlotsAfter DEF OpenSlots
    <3> QED BY <2>1, <2>4, <3>1 DEF ClearsSlot, Owned
  <2>5. ASSUME NEW s \in Slot, ReleasesSlot(s) PROVE Owned'
    <3>1. /\ OpenSlots' = OpenSlots \ {s} /\ OpenSlots \subseteq Slot
          /\ \A r \in Slot \ {s} : fileHandleTable'[r] = fileHandleTable[r]
      BY <2>5, SlotsAfter DEF OpenSlots
    <3>2. s \in OpenSlots /\ openFds' = openFds \ {fileHandleTable[s].fd}
      BY <2>5 DEF ReleasesSlot, OpenSlots
    <3> QED BY <2>1, <3>1, <3>2 DEF Owned
  <2>6. ASSUME NEW s \in Slot, DropsSlot(s) PROVE HandlesOwnDescriptors'
    BY <2>6 DEF DropsSlot, HandlesOwnDescriptors
  <2> QED BY <2>2, <2>3, <2>4, <2>5, <2>6, StepEffect DEF HandlesOwnDescriptors
<1> QED BY <1>1, <1>2, TypeCorrect, PTL DEF Spec

------------------------------------------------------------------------------
(* A CLOSE loop that can go on has left no open handle behind it: a thread  *)
(* that opens one keeps the mutex and so stops every other thread's loop.   *)
ClosedBehind ==
  \A t \in Thread : closing[t] # 0 /\ CanLock(t) =>
    \A s \in Slot : s + 1 < closing[t] => ~fileHandleTable[s].isOpen

\* A step that opens no handle, moves no loop and gives no thread the mutex.
LEMMA ClosedBehindKept ==
  ASSUME TypeOK, ClosedBehind, UNCHANGED closing,
         \A t \in Thread : closing[t] # 0 => (CanLock(t)' => CanLock(t)),
         \A s \in Slot : fileHandleTable'[s].isOpen => fileHandleTable[s].isOpen
  PROVE  ClosedBehind'
BY DEF ClosedBehind

LEMMA ClosingOpensNothing ==
  ASSUME TypeOK, NEW t \in Thread, NEW s \in Slot,
         CloseFails(t, s) \/ CloseSucceeds(t, s)
  PROVE  \A r \in Slot : fileHandleTable'[r].isOpen => fileHandleTable[r].isOpen
<1>1. CASE UNCHANGED fileHandleTable
  BY <1>1
<1>2. CASE fileHandleTable' = [fileHandleTable EXCEPT ![s].isOpen = FALSE]
  BY <1>2 DEF TypeOK
<1> QED BY <1>1, <1>2 DEF CloseFails, CloseSucceeds

LEMMA SucceedingCloses ==
  ASSUME TypeOK, NEW t \in Thread, NEW s \in Slot, CloseSucceeds(t, s)
  PROVE  ~fileHandleTable'[s].isOpen
<1>1. CASE fileHandleTable[s].isOpen
  BY <1>1 DEF CloseSucceeds, TypeOK
<1>2. CASE ~fileHandleTable[s].isOpen
  BY <1>2 DEF CloseSucceeds
<1> QED BY <1>1, <1>2

\* Once t has taken the mutex for good no other thread's loop can go on.
LEMMA TakingLocksOut ==
  ASSUME TypeOK, NEW t \in Thread, Idle(t), LockLeft(t), UNCHANGED closing
  PROVE  \A u \in Thread : closing[u] # 0 => ~CanLock(u)'
BY ThreadAssumption DEF TypeOK, Idle, LockLeft, CanLock

LEMMA ClosedBehindStep ==
  ASSUME TypeOK, ClosedBehind, [Next]_vars
  PROVE  ClosedBehind'
<1>1. CASE UNCHANGED vars
  BY <1>1 DEF vars, ClosedBehind, CanLock
<1>2. CASE Next
  <2> PICK t \in Thread :
        \/ Open(t)
        \/ \E n \in Number : BadHandle(t, n) \/ Close(t, n)
        \/ CloseAll(t)
        \/ CloseTurn(t)
        \/ Look(t)
    BY <1>2 DEF Next
  <2>1. CASE Open(t)
    <3>1. ASSUME NEW m, NEW a, NEW l, OpenIllegal(t, m, a, l) PROVE ClosedBehind'
      BY <3>1, ClosedBehindKept DEF OpenIllegal, LockBalanced, CanLock
    <3>2. ASSUME NEW n \in Number, OpenBadNumber(t, n) PROVE ClosedBehind'
      BY <3>2, ClosedBehindKept DEF OpenBadNumber, LockBalanced, CanLock
    <3>3. ASSUME Idle(t), LockLeft(t), UNCHANGED closing PROVE ClosedBehind'
      BY <3>3, TakingLocksOut DEF ClosedBehind
    <3>4. CASE OpenFirst(t)
      BY <3>3, <3>4 DEF OpenFirst
    <3>5. ASSUME NEW n \in Number,
                 OpenBusy(t, n) \/ OpenFails(t, n) \/ OpenSucceeds(t, n)
          PROVE  ClosedBehind'
      BY <3>3, <3>5 DEF OpenBusy, OpenFails, OpenSucceeds
    <3> QED BY <2>1, <3>1, <3>2, <3>4, <3>5 DEF Open
  <2>2. ASSUME NEW n \in Number, BadHandle(t, n) PROVE ClosedBehind'
    BY <2>2, ClosedBehindKept DEF BadHandle, LockBalanced, CanLock
  <2>3. ASSUME NEW n \in Number, Close(t, n) PROVE ClosedBehind'
    BY <2>3, ClosedBehindKept, ClosingOpensNothing DEF Close, LockBalanced, CanLock
  <2>4. CASE CloseAll(t)
    <3>1. /\ closing'[t] = 1
          /\ \A u \in Thread \ {t} : closing'[u] = closing[u]
      BY <2>4 DEF CloseAll, TypeOK
    <3> QED BY <2>4, <3>1 DEF CloseAll, ClosedBehind, CanLock, Slot
  <2>5. CASE CloseTurn(t)
    <3> DEFINE s == closing[t] - 1
    <3>1. s \in Slot /\ closing[t] \in 1..VB_MAX_FILE_HANDLES
      BY <2>5, SizeAssumption DEF CloseTurn, Idle, TypeOK, Slot
    <3>2. \A r \in Slot : fileHandleTable'[r].isOpen => fileHandleTable[r].isOpen
      BY <2>5, <3>1, ClosingOpensNothing DEF CloseTurn
    <3>3. \A u \in Thread \ {t} : closing'[u] = closing[u]
      BY <2>5 DEF CloseTurn, TypeOK
    <3>4. \A r \in Slot : r + 1 < closing[t] => ~fileHandleTable[r].isOpen
      BY <2>5 DEF CloseTurn, Idle, ClosedBehind
    <3>5. closing'[t] # 0 =>
            \A r \in Slot : r + 1 < closing'[t] => ~fileHandleTable'[r].isOpen
      <4>1. CASE CloseSucceeds(t, s) /\ closing'[t] = closing[t] + 1
        <5>1. ~fileHandleTable'[s].isOpen
          BY <4>1, <3>1, SucceedingCloses
        <5> QED BY <4>1, <5>1, <3>1, <3>2, <3>4, SizeAssumption DEF Slot
      <4>2. CASE closing'[t] = 0
        BY <4>2
      <4> QED BY <2>5, <4>1, <4>2 DEF CloseTurn, TypeOK
    <3> QED BY <2>5, <3>2, <3>3, <3>5 DEF CloseTurn, ClosedBehind, LockBalanced, CanLock
  <2>6. CASE Look(t)
    BY <2>6, ClosedBehindKept DEF Look, LockBalanced, CanLock
  <2> QED BY <2>1, <2>2, <2>3, <2>4, <2>5, <2>6
<1> QED BY <1>1, <1>2

(* A CLOSE of everything that ends without an error leaves no open handle,  *)
(* although the mutex is free between its turns.                            *)
THEOREM CloseAllIsComplete == Spec => CloseAllClosesEverything
<1>1. Init => ClosedBehind
  BY DEF Init, ClosedBehind
<1>2. TypeOK /\ ClosedBehind /\ [Next]_vars => ClosedBehind'
  BY ClosedBehindStep
<1>3. TypeOK /\ ClosedBehind /\ [Next]_vars =>
        [\A t \in Thread :
           closing[t] # 0 /\ closing'[t] = 0 /\ err'[t] = 0
             => OpenSlots' = {}]_vars
  <2> SUFFICES ASSUME TypeOK, ClosedBehind, [Next]_vars, NEW t \in Thread,
                      closing[t] # 0, closing'[t] = 0, err'[t] = 0
               PROVE  OpenSlots' = {}
    OBVIOUS
  <2>1. CloseTurn(t)
    <3>1. \A u \in Thread, n \in Number :
            BadHandle(u, n) \/ Close(u, n) => UNCHANGED closing
      BY DEF BadHandle, Close
    <3>2. \A u \in Thread : Open(u) \/ Look(u) => UNCHANGED closing
      BY DEF Open, Look, OpenIllegal, OpenFirst, OpenBadNumber, OpenBusy,
             OpenFails, OpenSucceeds
    <3>3. \A u \in Thread : CloseAll(u) => closing'[t] # 0
      BY DEF CloseAll, TypeOK
    <3>4. \A u \in Thread \ {t} : CloseTurn(u) => closing'[t] = closing[t]
      BY DEF CloseTurn, TypeOK
    <3> QED BY <3>1, <3>2, <3>3, <3>4 DEF Next, vars
  <2> DEFINE s == closing[t] - 1
  <2>2. s \in Slot /\ closing[t] \in 1..VB_MAX_FILE_HANDLES
    BY <2>1, SizeAssumption DEF CloseTurn, Idle, TypeOK, Slot
  <2>3. ~CloseFails(t, s)
    BY DEF CloseFails, Throw, TypeOK, FileIOErrorFromErrno
  <2>4. CloseSucceeds(t, s) /\ closing[t] = VB_MAX_FILE_HANDLES
    BY <2>1, <2>2, <2>3 DEF CloseTurn, TypeOK
  <2>5. \A r \in Slot : fileHandleTable'[r].isOpen => fileHandleTable[r].isOpen
    BY <2>2, <2>4, ClosingOpensNothing
  <2>6. \A r \in Slot : r + 1 < closing[t] => ~fileHandleTable[r].isOpen
    BY <2>1 DEF CloseTurn, Idle, ClosedBehind
  <2>7. ~fileHandleTable'[s].isOpen
    BY <2>2, <2>4, SucceedingCloses
  <2>8. \A r \in Slot : r = s \/ r + 1 < closing[t]
    BY <2>4, SizeAssumption DEF Slot
  <2> QED BY <2>5, <2>6, <2>7, <2>8 DEF OpenSlots
<1> QED BY <1>1, <1>2, <1>3, TypeCorrect, PTL DEF Spec, CloseAllClosesEverything

------------------------------------------------------------------------------
\* What the search for a least set needs: Collector.

LEMMA MinExists ==
  ASSUME NEW S \in SUBSET Nat, S # {}
  PROVE  \E m \in S : \A b \in S : m <= b
<1>1. PICK m \in S : \A b \in S : ~(<<b, m>> \in OpToRel(<, Nat))
  <2>1. \E m \in S : \A b \in S : ~(<<b, m>> \in OpToRel(<, Nat))
    BY NatLessThanWellFounded, WFMin
  <2> QED BY <2>1
<1>2. \A b \in S : m <= b
  <2> SUFFICES ASSUME NEW b \in S, b < m PROVE FALSE
    OBVIOUS
  <2>1. <<b, m>> \in OpToRel(<, Nat)
    BY DEF OpToRel
  <2> QED BY <2>1, <1>1
<1> QED BY <1>2

------------------------------------------------------------------------------
\* A search: f[0] is where it starts, and G what is found from what was found.
Search(f, U, A, G, N) ==
  /\ f \in [0..N -> SUBSET U]
  /\ \A i \in 0..N : f[i] = IF i = 0 THEN A ELSE G[f[i - 1]]

\* R holds A and what is found from R, and no more than it must.
FoundAll(R, U, A, G) ==
  /\ R \in SUBSET U /\ A \subseteq R /\ G[R] = R
  /\ \A T \in SUBSET U : A \subseteq T /\ (\A V \in SUBSET T : G[V] \subseteq T) => R \subseteq T

LEMMA SearchExists ==
  ASSUME NEW U, NEW A \in SUBSET U, NEW G \in [SUBSET U -> SUBSET U], NEW N \in Nat
  PROVE  \E f : Search(f, U, A, G, N)
<1> DEFINE Is(f, m) == Search(f, U, A, G, m)
           B == {m \in Nat : ~ \E f : Is(f, m)}
<1>1. SUFFICES ASSUME B # {} PROVE FALSE
  OBVIOUS
<1>2. PICK m \in B : \A b \in B : m <= b
  BY <1>1, MinExists
<1>3. m \in Nat /\ ~ \E f : Is(f, m)
  OBVIOUS
<1>4. CASE m = 0
  <2> DEFINE f == [i \in 0..0 |-> A]
  <2>1. Is(f, 0)
    BY DEF Search
  <2> HIDE DEF Is, f
  <2> QED BY <1>3, <1>4, <2>1
<1>5. CASE m # 0
  <2>1. m - 1 \in Nat /\ m - 1 \notin B
    BY <1>2, <1>3, <1>5
  <2>2. PICK f : Is(f, m - 1)
    BY <2>1
  <2> DEFINE g == [i \in 0..m |-> IF i = m THEN G[f[m - 1]] ELSE f[i]]
  <2>3. f \in [0..(m - 1) -> SUBSET U]
        /\ \A i \in 0..(m - 1) : f[i] = IF i = 0 THEN A ELSE G[f[i - 1]]
    BY <2>2 DEF Search
  <2>4. G[f[m - 1]] \in SUBSET U
    BY <1>3, <1>5, <2>3
  <2>5. g \in [0..m -> SUBSET U]
    BY <1>3, <2>3, <2>4
  <2>6. ASSUME NEW i \in 0..m
        PROVE  g[i] = IF i = 0 THEN A ELSE G[g[i - 1]]
    <3>1. CASE i = m
      <4>1. g[i] = G[f[m - 1]] /\ g[i - 1] = f[m - 1]
        BY <1>3, <1>5, <3>1
      <4> QED BY <1>5, <3>1, <4>1
    <3>2. CASE i # m
      <4>1. i \in 0..(m - 1) /\ g[i] = f[i]
        BY <1>3, <3>2
      <4>2. i # 0 => i - 1 \in 0..m /\ i - 1 # m /\ g[i - 1] = f[i - 1]
        BY <1>3, <3>2
      <4> HIDE DEF g
      <4> QED BY <2>3, <4>1, <4>2
    <3> QED BY <3>1, <3>2
  <2> HIDE DEF g
  <2>7. Is(g, m)
    BY <2>5, <2>6 DEF Search
  <2> HIDE DEF Is
  <2> QED BY <1>3, <2>7
<1> QED BY <1>4, <1>5

\* It is over after as many steps as there is to be found, and finds no more than it must.
LEMMA SearchIs ==
  ASSUME NEW U, IsFiniteSet(U), NEW N, N = Cardinality(U),
         NEW A \in SUBSET U, NEW G \in [SUBSET U -> SUBSET U],
         \A T \in SUBSET U : T \subseteq G[T],
         NEW f, Search(f, U, A, G, N)
  PROVE  FoundAll(f[N], U, A, G)
<1>0. N \in Nat /\ f \in [0..N -> SUBSET U]
      /\ \A i \in 0..N : f[i] = IF i = 0 THEN A ELSE G[f[i - 1]]
  BY FS_CardinalityType DEF Search
<1>1. \A i \in 0..N : f[i] \in SUBSET U /\ IsFiniteSet(f[i]) /\ Cardinality(f[i]) \in Nat
  <2>1. \A T \in SUBSET U : IsFiniteSet(T) /\ Cardinality(T) \in Nat
    BY FS_Subset, FS_CardinalityType
  <2> QED BY <1>0, <2>1
<1>2. \A i \in 0..N : i # 0 => i - 1 \in 0..N /\ f[i] = G[f[i - 1]]
  BY <1>0
<1>3. f[0] = A /\ 0 \in 0..N /\ N \in 0..N
  BY <1>0
\* While it goes on it has found as many as it has made steps.
<1>4. ASSUME NEW j \in 0..N, G[f[j]] # f[j]
      PROVE  Cardinality(f[j]) >= j
  <2> DEFINE B == {i \in 0..N : G[f[i]] # f[i] /\ ~(Cardinality(f[i]) >= i)}
  <2>1. SUFFICES ASSUME B # {} PROVE FALSE
    BY <1>4
  <2>2. B \in SUBSET Nat
    BY <1>0
  <2>3. PICK i \in B : \A b \in B : i <= b
    BY <2>1, <2>2, MinExists
  <2>4. i \in 0..N /\ G[f[i]] # f[i] /\ Cardinality(f[i]) < i
    BY <1>0, <1>1
  <2>5. i # 0
    BY <1>1, <1>3, <2>4
  <2>6. i - 1 \in 0..N /\ f[i] = G[f[i - 1]] /\ i - 1 \notin B
    BY <1>0, <1>2, <2>3, <2>4, <2>5
  <2>7. G[f[i - 1]] # f[i - 1]
    BY <2>4, <2>6
  <2>8. Cardinality(f[i - 1]) >= i - 1
    BY <2>6, <2>7
  <2>9. Cardinality(f[i - 1]) < Cardinality(f[i])
    <3>1. f[i - 1] \in SUBSET f[i] /\ f[i - 1] # f[i]
      BY <1>1, <2>6, <2>7
    <3>2. Cardinality(f[i - 1]) <= Cardinality(f[i]) /\ Cardinality(f[i]) # Cardinality(f[i - 1])
      BY <1>1, <2>4, <3>1, FS_Subset
    <3> QED BY <1>1, <2>4, <2>6, <3>2
  <2> QED BY <1>1, <2>4, <2>6, <2>8, <2>9
<1>5. G[f[N]] = f[N]
  <2> SUFFICES ASSUME G[f[N]] # f[N] PROVE FALSE
    OBVIOUS
  <2>1. Cardinality(f[N]) >= N
    BY <1>3, <1>4
  <2>2. Cardinality(f[N]) <= N /\ (Cardinality(U) = Cardinality(f[N]) => U = f[N])
    BY <1>1, <1>3, FS_Subset
  <2>3. f[N] = U
    BY <1>0, <1>1, <1>3, <2>1, <2>2
  <2>4. f[N] \subseteq G[f[N]] /\ G[f[N]] \in SUBSET U
    BY <1>1, <1>3
  <2> QED BY <2>3, <2>4
\* It finds A and nothing that is not found from what was found.
<1>6. ASSUME NEW T \in SUBSET U, A \subseteq T, \A V \in SUBSET T : G[V] \subseteq T,
             NEW j \in 0..N
      PROVE  f[j] \subseteq T
  <2> DEFINE B == {i \in 0..N : ~(f[i] \subseteq T)}
  <2>1. SUFFICES ASSUME B # {} PROVE FALSE
    OBVIOUS
  <2>2. B \in SUBSET Nat
    BY <1>0
  <2>3. PICK i \in B : \A b \in B : i <= b
    BY <2>1, <2>2, MinExists
  <2>4. i \in 0..N /\ i # 0
    BY <1>3, <1>6
  <2>5. i - 1 \in 0..N /\ f[i] = G[f[i - 1]] /\ i - 1 \notin B
    BY <1>0, <1>2, <2>3, <2>4
  <2>6. f[i - 1] \in SUBSET T
    BY <2>5
  <2> QED BY <1>6, <2>5, <2>6
<1>7. A \subseteq f[N]
  <2> DEFINE B == {i \in 0..N : ~(A \subseteq f[i])}
  <2>1. SUFFICES ASSUME B # {} PROVE FALSE
    BY <1>3
  <2>2. B \in SUBSET Nat
    BY <1>0
  <2>3. PICK i \in B : \A b \in B : i <= b
    BY <2>1, <2>2, MinExists
  <2>4. i \in 0..N /\ i # 0
    BY <1>3
  <2>5. i - 1 \in 0..N /\ f[i] = G[f[i - 1]] /\ i - 1 \notin B
    BY <1>0, <1>2, <2>3, <2>4
  <2>6. f[i - 1] \subseteq f[i]
    BY <1>1, <2>5
  <2> QED BY <2>5, <2>6
<1> QED BY <1>1, <1>3, <1>5, <1>6, <1>7 DEF FoundAll

------------------------------------------------------------------------------
LEMMA ObjectsAre ==
  /\ Objects \in Nat \ {0} /\ Blocks \in Nat \ {0} /\ Roots \in Nat \ {0} /\ MaxRetries \in Nat
  /\ IsFiniteSet(Object) /\ Cardinality(Object) \in Nat
  /\ \A o : o \in Object <=> o \in Nat /\ o # 0 /\ o <= Objects
  /\ BlockOf \in [Object -> Block]
  /\ Object \intersect Root = {} /\ Noise \in Root /\ Pointers = Root \ {Noise}
<1>1. /\ Objects \in Nat \ {0} /\ Blocks \in Nat \ {0} /\ Roots \in Nat \ {0} /\ MaxRetries \in Nat
      /\ BlockOf \in [1..Objects -> 1..Blocks]
  BY CollectorAssumption
<1>2. IsFiniteSet(Object) /\ Cardinality(Object) \in Nat
  BY <1>1, FS_Interval, FS_CardinalityType DEF Object
<1>3. Object \intersect Root = {} /\ Noise \in Root
  BY <1>1 DEF Object, Root, Noise
<1> QED BY <1>1, <1>2, <1>3 DEF Object, Block, Pointers

\* The words hold objects or nothing.
Words == word \in [Object \union Root -> {0} \union Object] /\ head \in [Kind -> {0} \union Object]

\* What the words of T point to, and which objects are searched.
Targets(T) == {word[a] : a \in T} \intersect InUse
Followed(T) == {o \in T : KindOf(o) = "normal"}

Reaching(w, S) ==
  [i \in 0..Cardinality(Object) |->
     IF i = 0 THEN Targets(S) ELSE w[i - 1] \union Targets(Followed(w[i - 1]))]

\* What ReachableFrom(S) is: the least set that holds what S points to and what its
\* members do.
ReachableIsLeast ==
  Words =>
    \A S \in SUBSET (Object \union Root) :
      /\ ReachableFrom(S) \in SUBSET InUse
      /\ Targets(S) \subseteq ReachableFrom(S)
      /\ Targets(Followed(ReachableFrom(S))) \subseteq ReachableFrom(S)
      /\ \A T \in SUBSET Object :
           Targets(S) \subseteq T /\ Targets(Followed(T)) \subseteq T =>
             ReachableFrom(S) \subseteq T

LEMMA ReachableIs == ReachableIsLeast
<1> SUFFICES ASSUME Words, NEW S \in SUBSET (Object \union Root)
             PROVE  /\ ReachableFrom(S) \in SUBSET InUse
                    /\ Targets(S) \subseteq ReachableFrom(S)
                    /\ Targets(Followed(ReachableFrom(S))) \subseteq ReachableFrom(S)
                    /\ \A T \in SUBSET Object :
                         Targets(S) \subseteq T /\ Targets(Followed(T)) \subseteq T =>
                           ReachableFrom(S) \subseteq T
  BY DEF ReachableIsLeast
<1> DEFINE N == Cardinality(Object)
           U == Object
           A == Targets(S)
           G == [T \in SUBSET U |-> T \union Targets(Followed(T))]
           r == CHOOSE w : w = Reaching(w, S)
<1>1. InUse \in SUBSET Object /\ IsFiniteSet(U) /\ N \in Nat /\ N = Cardinality(U)
  BY ObjectsAre DEF InUse
<1>2. \A T : Targets(T) \in SUBSET InUse /\ Targets(T) \in SUBSET U
  BY <1>1 DEF Targets
<1>3. A \in SUBSET U /\ G \in [SUBSET U -> SUBSET U] /\ \A T \in SUBSET U : T \subseteq G[T]
  BY <1>2
<1>4. \A T \in SUBSET U : G[T] = T \union Targets(Followed(T))
  OBVIOUS
<1>5. ReachableFrom(S) = r[N]
  BY DEF ReachableFrom, Reaching, Targets, Followed
<1> HIDE DEF A, G, U, N
<1>6. \E w : w = Reaching(w, S)
  <2>1. \E f : Search(f, U, A, G, N)
    BY <1>1, <1>3, SearchExists
  <2>2. PICK f : Search(f, U, A, G, N)
    BY <2>1
  <2>3. /\ f \in [0..N -> SUBSET U]
        /\ \A i \in 0..N : f[i] = IF i = 0 THEN A ELSE G[f[i - 1]]
    BY <2>2 DEF Search
  <2>4. \A i \in 0..N : f[i] = IF i = 0 THEN A ELSE f[i - 1] \union Targets(Followed(f[i - 1]))
    <3>1. \A i \in 0..N : i # 0 => f[i - 1] \in SUBSET U
      BY <1>1, <2>3
    <3> QED BY <1>4, <2>3, <3>1
  <2>5. f = [i \in 0..N |-> f[i]]
    BY <2>3
  <2>6. f = Reaching(f, S)
    BY <2>4, <2>5 DEF Reaching, N, A
  <2> QED BY <2>6
<1>7. r = Reaching(r, S)
  BY <1>6
<1> HIDE DEF r
<1>8. \A i \in 0..N : r[i] = IF i = 0 THEN A ELSE r[i - 1] \union Targets(Followed(r[i - 1]))
  BY <1>7 DEF Reaching, N, A
<1>9. \A i \in 0..N : r[i] \in SUBSET U
  <2> DEFINE B == {i \in 0..N : r[i] \notin SUBSET U}
  <2> SUFFICES ASSUME B # {} PROVE FALSE
    OBVIOUS
  <2>1. B \in SUBSET Nat
    BY <1>1
  <2>2. PICK i \in B : \A b \in B : i <= b
    BY <2>1, MinExists
  <2>3. i \in 0..N /\ i # 0
    BY <1>3, <1>8
  <2>4. i - 1 \in 0..N /\ i - 1 \notin B
    BY <1>1, <2>2, <2>3
  <2> QED BY <1>2, <1>8, <2>2, <2>3, <2>4 DEF U
<1>10. r \in [0..N -> SUBSET U]
  <2>1. r = [i \in 0..N |-> r[i]]
    BY <1>7 DEF Reaching, N
  <2> QED BY <1>9, <2>1
<1>11. \A i \in 0..N : r[i] = IF i = 0 THEN A ELSE G[r[i - 1]]
  <2>1. \A i \in 0..N : i # 0 => r[i - 1] \in SUBSET U
    BY <1>1, <1>9
  <2> QED BY <1>4, <1>8, <2>1
<1>12. Search(r, U, A, G, N)
  BY <1>10, <1>11 DEF Search
<1>13. /\ r[N] \in SUBSET U /\ A \subseteq r[N] /\ G[r[N]] = r[N]
       /\ \A T \in SUBSET U : A \subseteq T /\ (\A V \in SUBSET T : G[V] \subseteq T) =>
            r[N] \subseteq T
  <2>1. FoundAll(r[N], U, A, G)
    BY <1>1, <1>3, <1>12, SearchIs
  <2> QED BY <2>1 DEF FoundAll
<1>14. Targets(Followed(r[N])) \subseteq r[N]
  BY <1>4, <1>13
<1>15. r[N] \subseteq InUse
  <2>1. \A V \in SUBSET InUse : G[V] \subseteq InUse
    BY <1>1, <1>2, <1>4 DEF U
  <2>2. A \subseteq InUse /\ InUse \in SUBSET U
    BY <1>1, <1>2 DEF A, U
  <2> QED BY <1>13, <2>1, <2>2
<1>16. ASSUME NEW T \in SUBSET Object, A \subseteq T, Targets(Followed(T)) \subseteq T
       PROVE  r[N] \subseteq T
  <2>1. \A V \in SUBSET T : Targets(Followed(V)) \subseteq Targets(Followed(T))
    BY DEF Targets, Followed
  <2>2. \A V \in SUBSET T : G[V] \subseteq T
    BY <1>4, <1>16, <2>1 DEF U
  <2> QED BY <1>13, <1>16, <2>2 DEF U
<1> QED BY <1>5, <1>13, <1>14, <1>15, <1>16 DEF A

------------------------------------------------------------------------------
\* What the links of T lead to, and the steps of the walk along list k.
Links(T) == {word[o] : o \in T} \ {0}

Walking(w, k) ==
  [i \in 0..Cardinality(Object) |->
     IF i = 0 THEN {head[k]} \ {0} ELSE w[i - 1] \union Links(w[i - 1])]

\* What OnList(k) is: the least set that holds the first object and what is linked to.
OnListIsLeast ==
  Words =>
    \A k \in Kind :
      /\ OnList(k) \in SUBSET Object
      /\ head[k] # 0 => head[k] \in OnList(k)
      /\ \A o \in OnList(k) : word[o] # 0 => word[o] \in OnList(k)
      /\ \A T \in SUBSET Object :
           (head[k] # 0 => head[k] \in T) /\ (\A o \in T : word[o] # 0 => word[o] \in T) =>
             OnList(k) \subseteq T

LEMMA OnListIs == OnListIsLeast
<1> SUFFICES ASSUME Words, NEW k \in Kind
             PROVE  /\ OnList(k) \in SUBSET Object
                    /\ head[k] # 0 => head[k] \in OnList(k)
                    /\ \A o \in OnList(k) : word[o] # 0 => word[o] \in OnList(k)
                    /\ \A T \in SUBSET Object :
                         (head[k] # 0 => head[k] \in T)
                         /\ (\A o \in T : word[o] # 0 => word[o] \in T) =>
                           OnList(k) \subseteq T
  BY DEF OnListIsLeast
<1> DEFINE N == Cardinality(Object)
           U == Object
           A == {head[k]} \ {0}
           G == [T \in SUBSET U |-> T \union Links(T)]
           r == CHOOSE w : w = Walking(w, k)
<1>1. IsFiniteSet(U) /\ N \in Nat /\ N = Cardinality(U)
  BY ObjectsAre
<1>2. \A T \in SUBSET U : Links(T) \in SUBSET U
  BY DEF Links, Words
<1>3. A \in SUBSET U /\ G \in [SUBSET U -> SUBSET U] /\ \A T \in SUBSET U : T \subseteq G[T]
  <2>1. A \in SUBSET U
    BY DEF Words
  <2> QED BY <1>2, <2>1
<1>4. \A T \in SUBSET U : G[T] = T \union Links(T)
  OBVIOUS
<1>5. OnList(k) = r[N]
  BY DEF OnList, Walking, Links
<1> HIDE DEF A, G, U, N
<1>6. \E w : w = Walking(w, k)
  <2>1. \E f : Search(f, U, A, G, N)
    BY <1>1, <1>3, SearchExists
  <2>2. PICK f : Search(f, U, A, G, N)
    BY <2>1
  <2>3. /\ f \in [0..N -> SUBSET U]
        /\ \A i \in 0..N : f[i] = IF i = 0 THEN A ELSE G[f[i - 1]]
    BY <2>2 DEF Search
  <2>4. \A i \in 0..N : f[i] = IF i = 0 THEN A ELSE f[i - 1] \union Links(f[i - 1])
    <3>1. \A i \in 0..N : i # 0 => f[i - 1] \in SUBSET U
      BY <1>1, <2>3
    <3> QED BY <1>4, <2>3, <3>1
  <2>5. f = [i \in 0..N |-> f[i]]
    BY <2>3
  <2>6. f = Walking(f, k)
    BY <2>4, <2>5 DEF Walking, N, A
  <2> QED BY <2>6
<1>7. r = Walking(r, k)
  BY <1>6
<1> HIDE DEF r
<1>8. \A i \in 0..N : r[i] = IF i = 0 THEN A ELSE r[i - 1] \union Links(r[i - 1])
  BY <1>7 DEF Walking, N, A
<1>9. \A i \in 0..N : r[i] \in SUBSET U
  <2> DEFINE B == {i \in 0..N : r[i] \notin SUBSET U}
  <2> SUFFICES ASSUME B # {} PROVE FALSE
    OBVIOUS
  <2>1. B \in SUBSET Nat
    BY <1>1
  <2>2. PICK i \in B : \A b \in B : i <= b
    BY <2>1, MinExists
  <2>3. i \in 0..N /\ i # 0
    BY <1>3, <1>8
  <2>4. i - 1 \in 0..N /\ i - 1 \notin B
    BY <1>1, <2>2, <2>3
  <2>5. r[i - 1] \in SUBSET U
    BY <2>4
  <2>6. r[i] \in SUBSET U
    BY <1>2, <1>8, <2>3, <2>5
  <2> QED BY <2>2, <2>6
<1>10. r \in [0..N -> SUBSET U]
  <2>1. r = [i \in 0..N |-> r[i]]
    BY <1>7 DEF Walking, N
  <2> QED BY <1>9, <2>1
<1>11. \A i \in 0..N : r[i] = IF i = 0 THEN A ELSE G[r[i - 1]]
  <2>1. \A i \in 0..N : i # 0 => r[i - 1] \in SUBSET U
    BY <1>1, <1>9
  <2> QED BY <1>4, <1>8, <2>1
<1>12. Search(r, U, A, G, N)
  BY <1>10, <1>11 DEF Search
<1>13. /\ r[N] \in SUBSET U /\ A \subseteq r[N] /\ G[r[N]] = r[N]
       /\ \A T \in SUBSET U : A \subseteq T /\ (\A V \in SUBSET T : G[V] \subseteq T) =>
            r[N] \subseteq T
  <2>1. FoundAll(r[N], U, A, G)
    BY <1>1, <1>3, <1>12, SearchIs
  <2> QED BY <2>1 DEF FoundAll
<1>14. Links(r[N]) \subseteq r[N]
  BY <1>4, <1>13
<1>15. ASSUME NEW T \in SUBSET Object, A \subseteq T, Links(T) \subseteq T
       PROVE  r[N] \subseteq T
  <2>1. \A V \in SUBSET T : Links(V) \subseteq Links(T)
    BY DEF Links
  <2>2. \A V \in SUBSET T : G[V] \subseteq T
    BY <1>4, <1>15, <2>1 DEF U
  <2> QED BY <1>13, <1>15, <2>2 DEF U
<1>16. \A o \in r[N] : word[o] # 0 => word[o] \in r[N]
  BY <1>14 DEF Links
<1>17. ASSUME NEW T \in SUBSET Object, head[k] # 0 => head[k] \in T,
              \A o \in T : word[o] # 0 => word[o] \in T
       PROVE  r[N] \subseteq T
  <2>1. A \subseteq T /\ Links(T) \subseteq T
    BY <1>17 DEF A, Links
  <2> QED BY <1>15, <2>1
<1>18. r[N] \in SUBSET Object /\ (head[k] # 0 => head[k] \in r[N])
  BY <1>13 DEF A, U
<1> QED BY <1>5, <1>16, <1>17, <1>18

------------------------------------------------------------------------------
\* The same of what the program can get at.
LiveIsLeast ==
  Words =>
    /\ Live \in SUBSET InUse /\ InUse \in SUBSET Object
    /\ \A a \in Places : word[a] \in InUse => word[a] \in Live
    /\ \A T \in SUBSET Object :
         (\A a \in Pointers \union {o \in T : KindOf(o) = "normal"} :
            word[a] \in InUse => word[a] \in T) =>
           Live \subseteq T

LEMMA LiveIs == LiveIsLeast
<1> SUFFICES ASSUME Words
             PROVE  /\ Live \in SUBSET InUse /\ InUse \in SUBSET Object
                    /\ \A a \in Places : word[a] \in InUse => word[a] \in Live
                    /\ \A T \in SUBSET Object :
                         (\A a \in Pointers \union {o \in T : KindOf(o) = "normal"} :
                            word[a] \in InUse => word[a] \in T) =>
                           Live \subseteq T
  BY DEF LiveIsLeast
<1>1. Pointers \in SUBSET (Object \union Root) /\ InUse \in SUBSET Object
  BY ObjectsAre DEF InUse
<1>2. /\ Live \in SUBSET InUse
      /\ Targets(Pointers) \subseteq Live
      /\ Targets(Followed(Live)) \subseteq Live
      /\ \A T \in SUBSET Object :
           Targets(Pointers) \subseteq T /\ Targets(Followed(T)) \subseteq T => Live \subseteq T
  BY <1>1, ReachableIs DEF ReachableIsLeast, Live
<1>3. ASSUME NEW a \in Places, word[a] \in InUse
      PROVE  word[a] \in Live
  <2>1. CASE a \in Pointers
    <3>1. word[a] \in Targets(Pointers)
      BY <1>3, <2>1 DEF Targets
    <3> QED BY <1>2, <3>1
  <2>2. CASE a \notin Pointers
    <3>1. a \in Followed(Live)
      BY <2>2 DEF Places, Followed
    <3>2. word[a] \in Targets(Followed(Live))
      BY <1>3, <3>1 DEF Targets
    <3> QED BY <1>2, <3>2
  <2> QED BY <2>1, <2>2
<1>4. ASSUME NEW T \in SUBSET Object,
             \A a \in Pointers \union {o \in T : KindOf(o) = "normal"} :
               word[a] \in InUse => word[a] \in T
      PROVE  Live \subseteq T
  <2>1. Targets(Pointers) \subseteq T
    BY <1>4 DEF Targets
  <2>2. Targets(Followed(T)) \subseteq T
    BY <1>4 DEF Targets, Followed
  <2> QED BY <1>2, <2>1, <2>2
<1> QED BY <1>1, <1>2, <1>3, <1>4

------------------------------------------------------------------------------
(* What the invariant needs besides: the program holds no pointer to what  *)
(* is in no block of objects, nothing it was given is outside of them, and *)
(* the word that awaits the new pointer is one the program can get at.     *)
PlacesPointAtObjects == \A a \in Places : word[a] # 0 => word[a] \in InUse

UsedInBlocks == used \subseteq InUse

RequestStands ==
  /\ pc # "program" => req.into \in Places
  /\ pc = "block" => head[req.kind] = 0

CollectorInv == HeapIsSound /\ PlacesPointAtObjects /\ UsedInBlocks /\ RequestStands

LEMMA TypesGiveWords == CollectorTypeOK => Words
BY DEF CollectorTypeOK, Words

\* A step that leaves alone the words of the places the program can get at, and the
\* blocks of what it can get at, leaves it what it has.
LEMMA LiveKept ==
  ASSUME Words, Words', PlacesPointAtObjects,
         \A o \in Live : KindOf(o)' = KindOf(o),
         \A a \in Places : word'[a] = word[a]
  PROVE  Live' = Live /\ Places' = Places /\ PlacesPointAtObjects'
<1>1. /\ Live \in SUBSET InUse /\ InUse \in SUBSET Object
      /\ \A a \in Places : word[a] \in InUse => word[a] \in Live
      /\ \A T \in SUBSET Object :
           (\A a \in Pointers \union {o \in T : KindOf(o) = "normal"} :
              word[a] \in InUse => word[a] \in T) =>
             Live \subseteq T
  BY LiveIs DEF LiveIsLeast
<1>2. /\ Live' \in SUBSET InUse' /\ InUse' \in SUBSET Object
      /\ \A a \in Places' : word'[a] \in InUse' => word'[a] \in Live'
      /\ \A T \in SUBSET Object :
           (\A a \in Pointers \union {o \in T : KindOf(o)' = "normal"} :
              word'[a] \in InUse' => word'[a] \in T) =>
             Live' \subseteq T
  <2>1. LiveIsLeast'
    BY LiveIs, PTL
  <2> QED BY <2>1 DEF LiveIsLeast
<1>3. Pointers \subseteq Places /\ Pointers \subseteq Places' /\ 0 \notin InUse'
  BY <1>2, ObjectsAre DEF Places
<1>4. \A o \in Live : o \in InUse' /\ (KindOf(o) = "normal" => o \in Places)
  BY <1>1 DEF InUse, Places
<1>5. \A o \in Live' : KindOf(o)' = "normal" => o \in Places'
  BY DEF Places
<1>6. \A a \in Places : word[a] # 0 => word[a] \in Live
  BY <1>1 DEF PlacesPointAtObjects
<1>7. Live' \subseteq Live
  <2>1. ASSUME NEW a \in Pointers \union {o \in Live : KindOf(o)' = "normal"}, word'[a] \in InUse'
        PROVE  word'[a] \in Live
    <3>1. a \in Places
      BY <1>3, <1>4, <2>1
    <3> QED BY <1>3, <1>6, <2>1, <3>1
  <2>2. Live \in SUBSET Object
    BY <1>1
  <2> QED BY <1>2, <2>1, <2>2
<1>8. Live \subseteq Live'
  <2>1. ASSUME NEW a \in Pointers \union {o \in Live' : KindOf(o) = "normal"}, word[a] \in InUse
        PROVE  word[a] \in Live'
    <3>1. a \in Places /\ a \in Places'
      BY <1>3, <1>4, <1>5, <1>7, <2>1
    <3>2. word[a] \in Live /\ word'[a] = word[a]
      BY <1>1, <2>1, <3>1
    <3> QED BY <1>2, <1>4, <3>1, <3>2
  <2>2. Live' \in SUBSET Object
    BY <1>2
  <2> QED BY <1>1, <2>1, <2>2
<1>9. Live' = Live
  BY <1>7, <1>8
<1>10. Places' = Places
  BY <1>9 DEF Places
<1>11. PlacesPointAtObjects'
  <2> SUFFICES ASSUME NEW a \in Places, word'[a] # 0 PROVE word'[a] \in InUse'
    BY <1>10 DEF PlacesPointAtObjects
  <2>1. word[a] \in Live
    BY <1>6
  <2> QED BY <1>4, <2>1
<1> QED BY <1>9, <1>10, <1>11

\* What is one list, sound.
ListSound(k) ==
  /\ \A o \in OnList(k) : KindOf(o) = k /\ word[o] # head[k]
  /\ \A o, p \in OnList(k) : word[o] = word[p] /\ word[o] # 0 => o = p

\* A step that leaves alone the words of a list, its first object and the blocks of
\* its objects, leaves the list.
LEMMA ListKept ==
  ASSUME Words, Words', NEW k \in Kind, ListSound(k),
         head'[k] = head[k],
         \A o \in OnList(k) : KindOf(o)' = KindOf(o) /\ word'[o] = word[o]
  PROVE  OnList(k)' \subseteq OnList(k) /\ ListSound(k)'
<1>1. /\ OnList(k) \in SUBSET Object
      /\ head[k] # 0 => head[k] \in OnList(k)
      /\ \A o \in OnList(k) : word[o] # 0 => word[o] \in OnList(k)
  BY OnListIs DEF OnListIsLeast
<1>2. \A T \in SUBSET Object :
        (head'[k] # 0 => head'[k] \in T) /\ (\A o \in T : word'[o] # 0 => word'[o] \in T) =>
          OnList(k)' \subseteq T
  <2>1. OnListIsLeast'
    BY OnListIs, PTL
  <2> QED BY <2>1 DEF OnListIsLeast
<1>3. OnList(k)' \subseteq OnList(k)
  BY <1>1, <1>2
<1>4. ListSound(k)'
  BY <1>3 DEF ListSound
<1> QED BY <1>3, <1>4

\* An empty list has nothing on it.
LEMMA EmptyList ==
  ASSUME Words', NEW k \in Kind, head'[k] = 0
  PROVE  OnList(k)' = {} /\ ListSound(k)'
<1>1. \A T \in SUBSET Object :
        (head'[k] # 0 => head'[k] \in T) /\ (\A o \in T : word'[o] # 0 => word'[o] \in T) =>
          OnList(k)' \subseteq T
  <2>1. OnListIsLeast'
    BY OnListIs, PTL
  <2> QED BY <2>1 DEF OnListIsLeast
<1>2. OnList(k)' = {}
  <2>1. ASSUME NEW T \in SUBSET Object, T = {}
        PROVE  OnList(k)' \subseteq T
    BY <1>1, <2>1
  <2>2. {} \in SUBSET Object
    OBVIOUS
  <2>3. OnList(k)' \subseteq {}
    BY <2>1, <2>2
  <2> QED BY <2>3
<1> QED BY <1>2 DEF ListSound

\* An invariant, its parts.
LEMMA SoundParts ==
  /\ FreeListsSound <=> \A k \in Kind : ListSound(k)
  /\ \A o : o \in Free <=> \E k \in Kind : o \in OnList(k)
BY DEF FreeListsSound, ListSound, Free

------------------------------------------------------------------------------
LEMMA MaxExists ==
  ASSUME NEW S \in SUBSET Object, S # {}
  PROVE  \E m \in S : \A p \in S : p <= m
<1> DEFINE B == {Objects - o : o \in S}
<1>1. Objects \in Nat /\ \A o \in S : o \in Nat /\ o <= Objects
  BY ObjectsAre
<1>2. B \in SUBSET Nat /\ B # {}
  BY <1>1
<1>3. \E n \in B : \A b \in B : n <= b
  <2> HIDE DEF B
  <2> QED BY <1>2, MinExists
<1>4. PICK m \in S : \A b \in B : Objects - m <= b
  BY <1>3
<1>5. \A p \in S : p <= m
  <2> SUFFICES ASSUME NEW p \in S PROVE p <= m
    OBVIOUS
  <2>1. Objects - m <= Objects - p
    BY <1>4
  <2> QED BY <1>1, <2>1
<1> QED BY <1>5

\* The objects of a block, put on a list that was empty: each links to the next lower.
LEMMA LinkedIs ==
  ASSUME NEW w \in [Object \union Root -> {0} \union Object], NEW S \in SUBSET Object
  PROVE  /\ Linked(w, S, 0) \in [Object \union Root -> {0} \union Object]
         /\ \A a \in Object \union Root : a \notin S => Linked(w, S, 0)[a] = w[a]
         /\ \A a \in S : Linked(w, S, 0)[a] # 0 =>
              Linked(w, S, 0)[a] \in S /\ Linked(w, S, 0)[a] < a
         /\ \A a, p \in S : p < a => Linked(w, S, 0)[a] # 0 /\ p <= Linked(w, S, 0)[a]
<1> DEFINE L == Linked(w, S, 0)
           D == Object \union Root
           Lower(a) == {o \in S : o < a}
           Below(a) == CHOOSE o \in S : o < a /\ \A p \in S : p < a => p <= o
<1>1. /\ DOMAIN L = D
      /\ \A a \in D : L[a] = IF a \notin S THEN w[a]
                             ELSE IF \E o \in S : o < a THEN Below(a) ELSE 0
  BY DEF Linked
<1>2. ASSUME NEW a \in S, \E o \in S : o < a
      PROVE  Below(a) \in S /\ Below(a) < a /\ \A p \in S : p < a => p <= Below(a)
  <2>1. Lower(a) \in SUBSET Object /\ Lower(a) # {}
    BY <1>2
  <2>2. \E m \in Lower(a) : \A p \in Lower(a) : p <= m
    <3> HIDE DEF Lower
    <3> QED BY <2>1, MaxExists
  <2>3. \E o \in S : o < a /\ \A p \in S : p < a => p <= o
    BY <2>2
  <2> QED BY <2>3
<1>3. S \subseteq D /\ 0 \notin S /\ \A o \in S : o \in Nat
  BY ObjectsAre
<1> HIDE DEF Below
<1>4. ASSUME NEW a \in S
      PROVE  /\ L[a] # 0 => L[a] \in S /\ L[a] < a
             /\ \A p \in S : p < a => L[a] # 0 /\ p <= L[a]
             /\ L[a] \in {0} \union Object
  <2>1. CASE \E o \in S : o < a
    <3>1. L[a] = Below(a)
      BY <1>1, <1>3, <2>1
    <3>2. Below(a) \in S /\ Below(a) < a /\ \A p \in S : p < a => p <= Below(a)
      BY <1>2, <2>1
    <3> QED BY <1>3, <3>1, <3>2
  <2>2. CASE ~ \E o \in S : o < a
    <3>1. L[a] = 0
      BY <1>1, <1>3, <2>2
    <3> QED BY <2>2, <3>1
  <2> QED BY <2>1, <2>2
<1>5. \A a \in D : a \notin S => L[a] = w[a]
  BY <1>1
<1>6. L \in [D -> {0} \union Object]
  <2>1. L = [a \in D |-> L[a]]
    BY <1>1 DEF Linked
  <2>2. \A a \in D : L[a] \in {0} \union Object
    BY <1>4, <1>5
  <2> HIDE DEF L
  <2> QED BY <2>1, <2>2
<1> HIDE DEF L
<1>7. /\ L \in [D -> {0} \union Object]
      /\ \A a \in D : a \notin S => L[a] = w[a]
      /\ \A a \in S : L[a] # 0 => L[a] \in S /\ L[a] < a
      /\ \A a, p \in S : p < a => L[a] # 0 /\ p <= L[a]
  BY <1>4, <1>5, <1>6
<1> QED BY <1>7 DEF L

LEMMA FrontIs ==
  ASSUME NEW S \in SUBSET Object
  PROVE  Front(S, 0) \in {0} \union Object
         /\ (Front(S, 0) # 0 => Front(S, 0) \in S /\ \A p \in S : p <= Front(S, 0))
         /\ (Front(S, 0) = 0 => S = {})
<1>1. CASE S = {}
  BY <1>1 DEF Front
<1>2. CASE S # {}
  <2>1. \E o \in S : \A p \in S : p <= o
    BY <1>2, MaxExists
  <2>2. Front(S, 0) = CHOOSE o \in S : \A p \in S : p <= o
    BY <1>2 DEF Front
  <2>3. Front(S, 0) \in S /\ \A p \in S : p <= Front(S, 0)
    BY <2>1, <2>2
  <2> QED BY <2>3, ObjectsAre
<1> QED BY <1>1, <1>2

\* The list is then of these objects, and sound.
LEMMA ListMade ==
  ASSUME Words, NEW k \in Kind, NEW S \in SUBSET Object,
         word' = Linked(word, S, 0), head' = [head EXCEPT ![k] = Front(S, 0)],
         \A o \in S : KindOf(o)' = k
  PROVE  Words' /\ OnList(k)' \subseteq S /\ ListSound(k)'
<1>1. /\ word' \in [Object \union Root -> {0} \union Object]
      /\ \A a \in S : word'[a] # 0 => word'[a] \in S /\ word'[a] < a
      /\ \A a, p \in S : p < a => word'[a] # 0 /\ p <= word'[a]
  <2>1. word \in [Object \union Root -> {0} \union Object]
    BY DEF Words
  <2> QED BY <2>1, LinkedIs
<1>2. head'[k] \in {0} \union Object /\ head'[k] = Front(S, 0)
  BY FrontIs DEF Words
<1>3. (head'[k] # 0 => head'[k] \in S /\ \A p \in S : p <= head'[k]) /\ (head'[k] = 0 => S = {})
  BY <1>2, FrontIs
<1>4. Words'
  <2>1. head' \in [Kind -> {0} \union Object]
    BY FrontIs DEF Words
  <2> QED BY <1>1, <2>1 DEF Words
<1>5. OnList(k)' \subseteq S
  <2>1. OnListIsLeast'
    BY OnListIs, PTL
  <2>2. \A T \in SUBSET Object :
          (head'[k] # 0 => head'[k] \in T) /\ (\A o \in T : word'[o] # 0 => word'[o] \in T) =>
            OnList(k)' \subseteq T
    BY <1>4, <2>1 DEF OnListIsLeast
  <2> QED BY <1>1, <1>3, <2>2
<1>6. \A o \in S : o \in Nat /\ o # 0
  BY ObjectsAre
<1>7. ASSUME NEW o \in S PROVE word'[o] # head'[k]
  <2>1. head'[k] # 0 /\ head'[k] \in S /\ o <= head'[k]
    BY <1>3
  <2>2. CASE word'[o] = 0
    BY <2>1, <2>2
  <2>3. CASE word'[o] # 0
    <3>1. word'[o] \in S /\ word'[o] < o
      BY <1>1, <2>3
    <3> QED BY <1>6, <2>1, <3>1
  <2> QED BY <2>2, <2>3
<1>8. ASSUME NEW o \in S, NEW p \in S, word'[o] = word'[p], word'[o] # 0
      PROVE  o = p
  <2>1. /\ word'[o] \in S /\ word'[o] < o /\ word'[p] < p
    BY <1>1, <1>8
  <2>2. ~(o < p)
    <3> SUFFICES ASSUME o < p PROVE FALSE
      OBVIOUS
    <3>1. o <= word'[p]
      BY <1>1
    <3> QED BY <1>6, <1>8, <2>1, <3>1
  <2>3. ~(p < o)
    <3> SUFFICES ASSUME p < o PROVE FALSE
      OBVIOUS
    <3>1. p <= word'[o]
      BY <1>1
    <3> QED BY <1>6, <1>8, <2>1, <3>1
  <2> QED BY <1>6, <2>2, <2>3
<1>9. ListSound(k)'
  BY <1>5, <1>7, <1>8 DEF ListSound
<1> QED BY <1>4, <1>5, <1>9

------------------------------------------------------------------------------
\* What the invariant says, and what follows from it.
LEMMA InvGives ==
  ASSUME CollectorInv
  PROVE  /\ CollectorTypeOK /\ Words /\ PlacesPointAtObjects
         /\ Live \subseteq used /\ used \subseteq InUse /\ Live \subseteq InUse
         /\ InUse \in SUBSET Object
         /\ used \intersect Free = {} /\ Live \intersect Free = {}
         /\ Free \in SUBSET Object
         /\ \A k \in Kind :
              /\ ListSound(k) /\ OnList(k) \in SUBSET Object /\ OnList(k) \subseteq Free
              /\ head[k] # 0 => head[k] \in OnList(k)
              /\ \A o \in OnList(k) : word[o] # 0 => word[o] \in OnList(k)
         /\ \A b \in unswept : InBlock(b) \intersect (Live \union Free) \subseteq marks
         /\ \A a \in Places : word[a] # 0 => word[a] \in Live
         /\ Places \subseteq Object \union Root /\ Pointers \subseteq Places
         /\ \A o \in Live : KindOf(o) = "normal" => o \in Places
         /\ Places \intersect Free = {} /\ Noise \notin Places
<1>1. /\ CollectorTypeOK /\ PlacesPointAtObjects /\ LiveIsUsed /\ UsedInBlocks
      /\ SweepIsSafe /\ FreeListsSound
  BY DEF CollectorInv, HeapIsSound
<1>2. Words
  BY <1>1, TypesGiveWords
<1>3. /\ Live \in SUBSET InUse /\ InUse \in SUBSET Object
      /\ \A a \in Places : word[a] \in InUse => word[a] \in Live
  BY <1>2, LiveIs DEF LiveIsLeast
<1>4. /\ Live \subseteq used /\ used \subseteq InUse /\ used \intersect Free = {}
      /\ \A b \in unswept : InBlock(b) \intersect (Live \union Free) \subseteq marks
  BY <1>1 DEF LiveIsUsed, UsedInBlocks, SweepIsSafe
<1>5. \A k \in Kind :
        /\ ListSound(k) /\ OnList(k) \in SUBSET Object /\ OnList(k) \subseteq Free
        /\ head[k] # 0 => head[k] \in OnList(k)
        /\ \A o \in OnList(k) : word[o] # 0 => word[o] \in OnList(k)
  <2>1. \A k \in Kind : ListSound(k) /\ OnList(k) \subseteq Free
    BY <1>1, SoundParts
  <2>2. \A k \in Kind :
          /\ OnList(k) \in SUBSET Object
          /\ head[k] # 0 => head[k] \in OnList(k)
          /\ \A o \in OnList(k) : word[o] # 0 => word[o] \in OnList(k)
    BY <1>2, OnListIs DEF OnListIsLeast
  <2> QED BY <2>1, <2>2
<1>6. Free \in SUBSET Object
  BY <1>5, SoundParts
<1>7. \A a \in Places : word[a] # 0 => word[a] \in Live
  BY <1>1, <1>3 DEF PlacesPointAtObjects
<1>8. /\ Places \subseteq Object \union Root /\ Pointers \subseteq Places
      /\ \A o \in Live : KindOf(o) = "normal" => o \in Places
  BY <1>3, ObjectsAre DEF Places
<1>9. Live \intersect Free = {}
  BY <1>4
<1>10. Places \intersect Free = {} /\ Noise \notin Places
  BY <1>3, <1>6, <1>9, ObjectsAre DEF Places
<1> QED BY <1>1, <1>2, <1>3, <1>4, <1>5, <1>6, <1>7, <1>8, <1>9, <1>10

\* A step after which the program can get at no more than L, and no more than F is free.
LEMMA StepSound ==
  ASSUME CollectorTypeOK', NEW L, Live' \subseteq L, NEW F, \A k \in Kind : OnList(k)' \subseteq F,
         \A k \in Kind : ListSound(k)',
         L \subseteq used', used' \intersect F = {},
         \A b \in unswept' : InBlock(b) \intersect (L \union F) \subseteq marks'
  PROVE  HeapIsSound'
<1>1. FreeListsSound' /\ Free' \subseteq F
  <2>1. (/\ FreeListsSound <=> \A k \in Kind : ListSound(k)
         /\ \A o : o \in Free <=> \E k \in Kind : o \in OnList(k))'
    BY SoundParts, PTL
  <2> QED BY <2>1
<1>2. LiveIsUsed'
  BY <1>1 DEF LiveIsUsed
<1>3. SweepIsSafe'
  BY <1>1 DEF SweepIsSafe, InBlock
<1> QED BY <1>1, <1>2, <1>3 DEF HeapIsSound

\* What the program can get at after a step, from what its places point at then.
LEMMA LiveBound ==
  ASSUME Words', NEW T \in SUBSET Object,
         \A a \in Pointers \union {o \in T : KindOf(o)' = "normal"} :
           word'[a] # 0 => word'[a] \in T
  PROVE  Live' \subseteq T
<1>1. /\ InUse' \in SUBSET Object
      /\ \A V \in SUBSET Object :
           (\A a \in Pointers \union {o \in V : KindOf(o)' = "normal"} :
              word'[a] \in InUse' => word'[a] \in V) =>
             Live' \subseteq V
  <2>1. LiveIsLeast'
    BY LiveIs, PTL
  <2> QED BY <2>1 DEF LiveIsLeast
<1>2. 0 \notin InUse'
  BY <1>1, ObjectsAre
<1> QED BY <1>1, <1>2

\* The places of the program after a step.
LEMMA PlacesBound ==
  ASSUME NEW T, Live' \subseteq T,
         \A a \in Pointers \union {o \in T : KindOf(o)' = "normal"} :
           word'[a] # 0 => word'[a] \in InUse'
  PROVE  PlacesPointAtObjects'
BY DEF PlacesPointAtObjects, Places

------------------------------------------------------------------------------
LEMMA InitSound == CollectorInit => CollectorInv
<1> SUFFICES ASSUME CollectorInit PROVE CollectorInv
  OBVIOUS
<1>1. CollectorTypeOK
  <2>1. 1 \in Block /\ 0 \in Nat /\ 0 \in 0..(MaxRetries + 1)
    BY ObjectsAre DEF Block
  <2>2. req \in [kind : Kind, into : {0} \union Object \union Pointers]
    BY DEF CollectorInit, NoRequest, Kind
  <2> QED BY <2>1, <2>2 DEF CollectorInit, CollectorTypeOK
<1>2. Words
  BY <1>1, TypesGiveWords
<1>3. \A k \in Kind : OnList(k) = {}
  <2> SUFFICES ASSUME NEW k \in Kind PROVE OnList(k) = {}
    OBVIOUS
  <2>1. \A T \in SUBSET Object :
          (head[k] # 0 => head[k] \in T) /\ (\A o \in T : word[o] # 0 => word[o] \in T) =>
            OnList(k) \subseteq T
    BY <1>2, OnListIs DEF OnListIsLeast
  <2>2. head[k] = 0 /\ {} \in SUBSET Object
    BY DEF CollectorInit
  <2>3. ASSUME NEW T \in SUBSET Object, T = {}
        PROVE  OnList(k) \subseteq T
    BY <2>1, <2>2, <2>3
  <2>4. OnList(k) \subseteq {}
    BY <2>2, <2>3
  <2> QED BY <2>4
<1>4. InUse = {}
  BY ObjectsAre DEF CollectorInit, InUse, KindOf, Kind
<1>5. Live = {}
  BY <1>2, <1>4, LiveIs DEF LiveIsLeast
<1>6. FreeListsSound /\ Free = {}
  BY <1>3, SoundParts DEF FreeListsSound
<1>7. HeapIsSound
  BY <1>1, <1>5, <1>6 DEF HeapIsSound, LiveIsUsed, SweepIsSafe, CollectorInit
<1>8. PlacesPointAtObjects
  BY <1>5, ObjectsAre DEF PlacesPointAtObjects, Places, CollectorInit
<1>9. UsedInBlocks /\ RequestStands
  BY DEF UsedInBlocks, RequestStands, CollectorInit
<1> QED BY <1>7, <1>8, <1>9 DEF CollectorInv

------------------------------------------------------------------------------
\* A word the program can write gets a pointer the program has, or nothing.
LEMMA WriteSound ==
  ASSUME CollectorInv, NEW a \in Places \union {Noise}, NEW v \in {0} \union Object,
         a # Noise => v \in {0} \union Live,
         word' = [word EXCEPT ![a] = v], pc = "program",
         UNCHANGED <<kind, head, marks, unswept, used, allocd, failCount, dontGc, pc, req>>
  PROVE  CollectorInv'
<1>1. /\ CollectorTypeOK /\ Words /\ PlacesPointAtObjects
      /\ Live \subseteq used /\ used \subseteq InUse /\ Live \subseteq InUse
      /\ InUse \in SUBSET Object
      /\ used \intersect Free = {}
      /\ \A k \in Kind : ListSound(k) /\ OnList(k) \subseteq Free
      /\ \A b \in unswept : InBlock(b) \intersect (Live \union Free) \subseteq marks
      /\ \A b \in Places : word[b] # 0 => word[b] \in Live
      /\ Places \subseteq Object \union Root /\ Pointers \subseteq Places
      /\ \A o \in Live : KindOf(o) = "normal" => o \in Places
      /\ Places \intersect Free = {} /\ Free \in SUBSET Object
  BY InvGives
<1>2. a \in Object \union Root /\ a \notin Free
  BY <1>1, ObjectsAre
<1>3. /\ word' \in [Object \union Root -> {0} \union Object]
      /\ \A x \in Object \union Root : word'[x] = IF x = a THEN v ELSE word[x]
  BY <1>1, <1>2 DEF Words
<1>4. CollectorTypeOK' /\ Words'
  BY <1>1, <1>3 DEF CollectorTypeOK, Words
<1>5. InUse' = InUse /\ \A o \in Object : KindOf(o)' = KindOf(o)
  BY DEF InUse, KindOf
<1>6. \A x \in Places : word'[x] # 0 => word'[x] \in Live
  <2> SUFFICES ASSUME NEW x \in Places, word'[x] # 0 PROVE word'[x] \in Live
    OBVIOUS
  <2>1. CASE x = a
    <3>1. a # Noise
      BY <2>1, ObjectsAre, <1>1 DEF Places
    <3> QED BY <1>2, <1>3, <2>1, <3>1
  <2>2. CASE x # a
    BY <1>1, <1>3, <2>2
  <2> QED BY <2>1, <2>2
<1>7. \A x \in Pointers \union {o \in Live : KindOf(o)' = "normal"} : x \in Places
  BY <1>1, <1>5
<1>8. Live' \subseteq Live
  <2>1. Live \in SUBSET Object
    BY <1>1
  <2>2. \A x \in Pointers \union {o \in Live : KindOf(o)' = "normal"} :
          word'[x] # 0 => word'[x] \in Live
    BY <1>6, <1>7
  <2> QED BY <1>4, <2>1, <2>2, LiveBound
<1>9. PlacesPointAtObjects'
  <2>1. \A x \in Pointers \union {o \in Live : KindOf(o)' = "normal"} :
          word'[x] # 0 => word'[x] \in InUse'
    BY <1>1, <1>5, <1>6, <1>7
  <2> QED BY <1>8, <2>1, PlacesBound
<1>10. \A k \in Kind : OnList(k)' \subseteq Free /\ ListSound(k)'
  <2> SUFFICES ASSUME NEW k \in Kind PROVE OnList(k)' \subseteq Free /\ ListSound(k)'
    OBVIOUS
  <2>1. \A o \in OnList(k) : KindOf(o)' = KindOf(o) /\ word'[o] = word[o]
    BY <1>1, <1>2, <1>3, <1>5
  <2>2. OnList(k)' \subseteq OnList(k) /\ ListSound(k)'
    BY <1>1, <1>4, <2>1, ListKept
  <2> QED BY <1>1, <2>2
<1>11. HeapIsSound'
  BY <1>1, <1>4, <1>8, <1>10, StepSound
<1>12. UsedInBlocks' /\ RequestStands'
  BY <1>1, <1>5 DEF UsedInBlocks, RequestStands
<1> QED BY <1>9, <1>11, <1>12 DEF CollectorInv

LEMMA CopySound ==
  ASSUME CollectorInv, NEW a \in Places, NEW b \in Places, Copy(a, b)
  PROVE  CollectorInv'
<1>1. word[b] \in {0} \union Live /\ Live \subseteq Object
  BY InvGives
<1>2. word[b] \in {0} \union Object
  BY <1>1
<1> QED BY <1>1, <1>2, WriteSound DEF Copy

LEMMA ForgetSound ==
  ASSUME CollectorInv, NEW a \in Places, Forget(a)
  PROVE  CollectorInv'
BY WriteSound DEF Forget

LEMMA ComputeSound ==
  ASSUME CollectorInv, NEW v \in {0} \union Numbers, Compute(v)
  PROVE  CollectorInv'
<1>1. v \in {0} \union Object
  BY CollectorAssumption DEF Object
<1> QED BY <1>1, WriteSound DEF Compute

\* A step that leaves the heap alone.
LEMMA HeapAlone ==
  ASSUME CollectorInv, UNCHANGED heap, CollectorTypeOK', RequestStands'
  PROVE  CollectorInv'
<1>1. UNCHANGED <<kind, word, head, marks, unswept, used>>
  BY DEF heap
<1>2. Live' = Live /\ \A k : OnList(k)' = OnList(k)
  BY <1>1 DEF Live, OnList, ReachableFrom, InUse, KindOf
<1>3. Free' = Free /\ Places' = Places /\ InUse' = InUse
  BY <1>1, <1>2 DEF Free, Places, InUse, KindOf
<1>4. LiveIsUsed' /\ SweepIsSafe'
  BY <1>1, <1>2, <1>3 DEF CollectorInv, HeapIsSound, LiveIsUsed, SweepIsSafe, InBlock
<1>5. FreeListsSound'
  BY <1>1, <1>2 DEF CollectorInv, HeapIsSound, FreeListsSound, KindOf
<1>6. PlacesPointAtObjects' /\ UsedInBlocks'
  BY <1>1, <1>3 DEF CollectorInv, PlacesPointAtObjects, UsedInBlocks
<1> QED BY <1>4, <1>5, <1>6 DEF CollectorInv, HeapIsSound

LEMMA EnableSound ==
  ASSUME CollectorInv, NEW b \in BOOLEAN, Enable(b)
  PROVE  CollectorInv'
<1>1. UNCHANGED <<heap, failCount, pc, req>> /\ dontGc' \in BOOLEAN /\ pc = "program"
  BY DEF Enable
<1>2. CollectorTypeOK'
  BY <1>1 DEF CollectorInv, HeapIsSound, CollectorTypeOK, heap
<1>3. RequestStands'
  BY <1>1 DEF RequestStands
<1> QED BY <1>1, <1>2, <1>3, HeapAlone

LEMMA StutterSound ==
  ASSUME CollectorInv, UNCHANGED collectorVars
  PROVE  CollectorInv'
<1>1. UNCHANGED heap /\ UNCHANGED <<failCount, dontGc, pc, req>>
  BY DEF collectorVars, heap
<1>2. CollectorTypeOK'
  BY <1>1 DEF CollectorInv, HeapIsSound, CollectorTypeOK, heap
<1>3. Live' = Live /\ UNCHANGED <<kind, word, head, marks, unswept, used>>
  BY <1>1 DEF heap, Live, ReachableFrom, InUse, KindOf
<1>4. Places' = Places
  BY <1>1, <1>3 DEF Places, KindOf
<1>5. RequestStands'
  BY <1>1, <1>3, <1>4 DEF CollectorInv, RequestStands
<1> QED BY <1>1, <1>2, <1>5, HeapAlone

------------------------------------------------------------------------------
\* The program is given the first object of a list.
LEMMA TakesSound ==
  ASSUME CollectorInv, NEW k \in Kind, NEW a \in Places, NEW clears \in BOOLEAN,
         k = "normal" => clears,
         Takes(k, a, clears),
         pc' = "program", req' \in [kind : Kind, into : {0} \union Object \union Pointers]
  PROVE  CollectorInv'
<1> DEFINE o == head[k]
<1>1. /\ CollectorTypeOK /\ Words
      /\ Live \subseteq used /\ used \subseteq InUse /\ Live \subseteq InUse
      /\ InUse \in SUBSET Object
      /\ used \intersect Free = {} /\ Live \intersect Free = {}
      /\ Free \in SUBSET Object
      /\ \A b \in unswept : InBlock(b) \intersect (Live \union Free) \subseteq marks
      /\ \A b \in Places : word[b] # 0 => word[b] \in Live
      /\ Places \subseteq Object \union Root /\ Pointers \subseteq Places
      /\ \A p \in Live : KindOf(p) = "normal" => p \in Places
      /\ Places \intersect Free = {}
  BY InvGives
<1>2. \A j \in Kind :
        /\ ListSound(j) /\ OnList(j) \in SUBSET Object /\ OnList(j) \subseteq Free
        /\ head[j] # 0 => head[j] \in OnList(j)
        /\ \A p \in OnList(j) : word[p] # 0 => word[p] \in OnList(j)
  BY InvGives
<1>3. /\ o # 0 /\ o \in OnList(k) /\ o \in Free /\ o \in Object /\ a # o
      /\ KindOf(o) = k /\ o \notin used /\ o \notin Live
  BY <1>1, <1>2 DEF Takes, ListSound
<1>4. /\ head' = [head EXCEPT ![k] = word[o]]
      /\ word' = [word EXCEPT ![a] = o, ![o] = IF clears THEN 0 ELSE @]
      /\ used' = used \union {o}
      /\ allocd' = TRUE
      /\ UNCHANGED <<kind, marks, unswept, failCount, dontGc>>
  BY DEF Takes
<1> HIDE DEF o
<1>5. /\ word' \in [Object \union Root -> {0} \union Object]
      /\ \A x \in Object \union Root : x # a /\ x # o => word'[x] = word[x]
      /\ word'[a] = o /\ (clears => word'[o] = 0)
      /\ head' \in [Kind -> {0} \union Object]
      /\ head'[k] = word[o] /\ \A j \in Kind : j # k => head'[j] = head[j]
  <2>1. /\ word \in [Object \union Root -> {0} \union Object]
        /\ head \in [Kind -> {0} \union Object]
        /\ a \in Object \union Root /\ o \in Object \union Root
    BY <1>1, <1>3 DEF Words
  <2> QED BY <1>3, <1>4, <2>1
<1>6. CollectorTypeOK' /\ Words'
  <2>1. /\ kind' \in [Block -> {"absent", "free"} \union Kind]
        /\ marks' \subseteq Object /\ used' \subseteq Object
        /\ unswept' \subseteq {b \in Block : kind'[b] \in Kind}
        /\ allocd' \in BOOLEAN /\ dontGc' \in BOOLEAN
        /\ failCount' \in 0..(MaxRetries + 1)
    BY <1>1, <1>3, <1>4 DEF CollectorTypeOK
  <2> QED BY <1>5, <2>1 DEF CollectorTypeOK, Words
<1>7. InUse' = InUse /\ (\A p \in Object : KindOf(p)' = KindOf(p)) /\ o \in InUse
  BY <1>3, <1>4 DEF InUse, KindOf
<1>8. \A x \in Pointers \union {p \in Live \union {o} : KindOf(p)' = "normal"} :
        word'[x] # 0 => word'[x] \in Live \union {o}
  <2> SUFFICES ASSUME NEW x \in Pointers \union {p \in Live \union {o} : KindOf(p)' = "normal"},
                      word'[x] # 0
               PROVE  word'[x] \in Live \union {o}
    OBVIOUS
  <2>1. CASE x = o
    <3>1. x \notin Pointers
      BY <1>3, <2>1, ObjectsAre
    <3>2. KindOf(o) = "normal"
      BY <1>3, <1>7, <2>1, <3>1
    <3> QED BY <1>3, <1>5, <2>1, <3>2
  <2>2. CASE x # o
    <3>1. x \in Places
      BY <1>1, <1>7, <2>2
    <3> QED BY <1>1, <1>5, <2>2, <3>1
  <2> QED BY <2>1, <2>2
<1>9. Live' \subseteq Live \union {o}
  <2>1. Live \union {o} \in SUBSET Object
    BY <1>1, <1>3
  <2> QED BY <1>6, <1>8, <2>1, LiveBound
<1>10. PlacesPointAtObjects'
  <2>1. \A x \in Pointers \union {p \in Live \union {o} : KindOf(p)' = "normal"} :
          word'[x] # 0 => word'[x] \in InUse'
    BY <1>1, <1>7, <1>8
  <2> QED BY <1>9, <2>1, PlacesBound
\* What is on a list stays there, but for the object that is taken.
<1>11. ASSUME NEW j \in Kind
       PROVE  OnList(j)' \subseteq Free \ {o} /\ ListSound(j)'
  <2>1. \A p \in OnList(j) : p # o => word'[p] = word[p] /\ KindOf(p)' = KindOf(p)
    BY <1>1, <1>2, <1>5, <1>7
  <2>2. CASE j = k
    <3> DEFINE T == OnList(k) \ {o}
    <3>1. \A p \in OnList(k) : word[p] # o
      BY <1>2 DEF ListSound, o
    <3>2. \A p \in T : word'[p] # 0 => word'[p] \in T
      BY <1>2, <2>1, <2>2, <3>1
    <3>3. head'[k] # 0 => head'[k] \in T
      BY <1>2, <1>3, <1>5, <3>1
    <3>4. \A V \in SUBSET Object :
            (head'[k] # 0 => head'[k] \in V) /\ (\A p \in V : word'[p] # 0 => word'[p] \in V) =>
              OnList(k)' \subseteq V
      <4>1. OnListIsLeast'
        BY OnListIs, PTL
      <4> QED BY <1>6, <4>1 DEF OnListIsLeast
    <3>5. OnList(k)' \subseteq T
      <4>1. T \in SUBSET Object
        BY <1>2
      <4> HIDE DEF T
      <4> QED BY <3>2, <3>3, <3>4, <4>1
    <3>6. CASE head'[k] = 0
      BY <1>6, <2>2, <3>6, EmptyList
    <3>7. CASE head'[k] # 0
      <4>1. ASSUME NEW p \in OnList(k)'
            PROVE  p \in OnList(k) /\ p # o /\ word'[p] = word[p] /\ KindOf(p)' = KindOf(p)
        BY <2>1, <2>2, <3>5
      <4>2. ASSUME NEW p \in OnList(k)' PROVE KindOf(p)' = k /\ word'[p] # head'[k]
        <5>1. word[p] = word[o] /\ word[o] # 0 => p = o
          BY <1>2, <1>3, <4>1 DEF ListSound
        <5>2. KindOf(p) = k
          BY <1>2, <4>1 DEF ListSound
        <5> QED BY <1>5, <3>7, <4>1, <5>1, <5>2
      <4>3. ASSUME NEW p \in OnList(k)', NEW q \in OnList(k)', word'[p] = word'[q], word'[p] # 0
            PROVE  p = q
        BY <1>2, <4>1, <4>3 DEF ListSound
      <4>4. ListSound(k)'
        BY <4>2, <4>3 DEF ListSound
      <4> QED BY <1>2, <2>2, <3>5, <4>4
    <3> QED BY <3>6, <3>7
  <2>3. CASE j # k
    <3>1. o \notin OnList(j)
      BY <1>2, <1>3, <2>3 DEF ListSound
    <3>2. head'[j] = head[j] /\ \A p \in OnList(j) : KindOf(p)' = KindOf(p) /\ word'[p] = word[p]
      BY <1>5, <2>1, <2>3, <3>1
    <3>3. OnList(j)' \subseteq OnList(j) /\ ListSound(j)'
      BY <1>1, <1>2, <1>6, <3>2, ListKept
    <3> QED BY <1>2, <3>1, <3>3
  <2> QED BY <2>2, <2>3
<1>12. HeapIsSound'
  <2> DEFINE L == Live \union {o}
             F == Free \ {o}
  <2>1. /\ L \subseteq used' /\ used' \intersect F = {}
        /\ \A b \in unswept' : InBlock(b) \intersect (L \union F) \subseteq marks'
    BY <1>1, <1>3, <1>4
  <2>2. Live' \subseteq L /\ \A j \in Kind : OnList(j)' \subseteq F /\ ListSound(j)'
    BY <1>9, <1>11
  <2> HIDE DEF L, F
  <2> QED BY <1>6, <2>1, <2>2, StepSound
<1>13. UsedInBlocks' /\ RequestStands'
  BY <1>1, <1>4, <1>7 DEF UsedInBlocks, RequestStands
<1> QED BY <1>10, <1>12, <1>13 DEF CollectorInv

LEMMA MemAllocSound ==
  ASSUME CollectorInv, NEW k \in Kind, NEW a \in Places, MemAlloc(k, a)
  PROVE  CollectorInv'
<1>1. CollectorTypeOK /\ Live \subseteq InUse /\ InUse \in SUBSET Object
  BY InvGives
<1>2. CASE head[k] # 0
  <2>1. Takes(k, a, k = "normal") /\ UNCHANGED <<pc, req>> /\ pc = "program"
    BY <1>2 DEF MemAlloc
  <2>2. (k = "normal") \in BOOLEAN /\ (k = "normal" => (k = "normal"))
    OBVIOUS
  <2>3. pc' = "program" /\ req' \in [kind : Kind, into : {0} \union Object \union Pointers]
    BY <1>1, <2>1 DEF CollectorTypeOK
  <2> DEFINE c == k = "normal"
  <2>4. c \in BOOLEAN /\ (k = "normal" => c) /\ Takes(k, a, c)
    BY <2>1
  <2> HIDE DEF c
  <2> QED BY <2>3, <2>4, TakesSound
<1>3. CASE head[k] = 0
  <2>1. /\ pc' = "sweep" /\ req' = [kind |-> k, into |-> a]
        /\ UNCHANGED <<heap, failCount, dontGc>>
    BY <1>3 DEF MemAlloc
  <2>2. a \in {0} \union Object \union Pointers
    BY <1>1 DEF Places
  <2>3. CollectorTypeOK'
    BY <1>1, <2>1, <2>2 DEF CollectorTypeOK, heap
  <2>4. Places' = Places
    BY <2>1 DEF Places, Live, ReachableFrom, InUse, KindOf, heap
  <2>5. RequestStands'
    BY <2>1, <2>4 DEF RequestStands
  <2> QED BY <2>1, <2>3, <2>5, HeapAlone
<1> QED BY <1>2, <1>3

LEMMA FoundSound ==
  ASSUME CollectorInv, Found
  PROVE  CollectorInv'
<1>1. CollectorTypeOK /\ RequestStands
  BY InvGives DEF CollectorInv
<1>2. /\ req.kind \in Kind /\ req.into \in Places /\ TRUE \in BOOLEAN
      /\ Takes(req.kind, req.into, TRUE) /\ pc' = "program" /\ req' = NoRequest
  BY <1>1 DEF Found, Returns, CollectorTypeOK, RequestStands
<1>3. req' \in [kind : Kind, into : {0} \union Object \union Pointers]
  BY <1>2 DEF NoRequest, Kind
<1> QED BY <1>2, <1>3, TakesSound

------------------------------------------------------------------------------
LEMMA MemFreeSound ==
  ASSUME CollectorInv, NEW a \in Places, MemFree(a)
  PROVE  CollectorInv'
<1> SUFFICES ASSUME NEW o, o = word[a], NEW k, k = KindOf(o)
             PROVE  CollectorInv'
  <2>1. \E o, k : o = word[a] /\ k = KindOf(o)
    OBVIOUS
  <2> QED BY <2>1
<1>1. /\ CollectorTypeOK /\ Words
      /\ Live \subseteq used /\ used \subseteq InUse /\ Live \subseteq InUse
      /\ InUse \in SUBSET Object
      /\ used \intersect Free = {} /\ Live \intersect Free = {}
      /\ Free \in SUBSET Object
      /\ \A b \in unswept : InBlock(b) \intersect (Live \union Free) \subseteq marks
      /\ \A b \in Places : word[b] # 0 => word[b] \in Live
      /\ Places \subseteq Object \union Root /\ Pointers \subseteq Places
      /\ \A p \in Live : KindOf(p) = "normal" => p \in Places
      /\ Places \intersect Free = {}
  BY InvGives
<1>2. \A j \in Kind :
        /\ ListSound(j) /\ OnList(j) \in SUBSET Object /\ OnList(j) \subseteq Free
        /\ head[j] # 0 => head[j] \in OnList(j)
        /\ \A p \in OnList(j) : word[p] # 0 => word[p] \in OnList(j)
  BY InvGives
<1>3. /\ o # 0 /\ o \in Live /\ o \in Object /\ k \in Kind /\ o \notin Free
  BY <1>1 DEF MemFree, InUse
<1>4. /\ word' = [word EXCEPT ![a] = 0, ![o] = head[k]]
      /\ head' = [head EXCEPT ![k] = o]
      /\ used' = used \ {o}
      /\ pc = "program"
      /\ \A b \in Places \ {a} : word[b] # o
      /\ UNCHANGED <<kind, marks, unswept, allocd, failCount, dontGc, pc, req>>
  BY DEF MemFree
<1>5. /\ word' \in [Object \union Root -> {0} \union Object]
      /\ \A x \in Object \union Root : x # a /\ x # o => word'[x] = word[x]
      /\ a # o => word'[a] = 0
      /\ word'[o] = head[k]
      /\ head' \in [Kind -> {0} \union Object]
      /\ head'[k] = o /\ \A j \in Kind : j # k => head'[j] = head[j]
  <2>1. /\ word \in [Object \union Root -> {0} \union Object]
        /\ head \in [Kind -> {0} \union Object]
        /\ a \in Object \union Root /\ o \in Object \union Root
    BY <1>1, <1>3 DEF Words
  <2> QED BY <1>3, <1>4, <2>1
<1>6. \A b \in Places \ {a} : word[b] # o
  BY <1>4
<1>7. CollectorTypeOK' /\ Words'
  <2>1. /\ kind' \in [Block -> {"absent", "free"} \union Kind]
        /\ marks' \subseteq Object /\ used' \subseteq Object
        /\ unswept' \subseteq {b \in Block : kind'[b] \in Kind}
        /\ allocd' \in BOOLEAN /\ dontGc' \in BOOLEAN
        /\ failCount' \in 0..(MaxRetries + 1)
        /\ pc' \in {"program", "sweep", "block", "collectOrExpand"}
        /\ req' \in [kind : Kind, into : {0} \union Object \union Pointers]
    BY <1>1, <1>4 DEF CollectorTypeOK
  <2> QED BY <1>5, <2>1 DEF CollectorTypeOK, Words
<1>8. InUse' = InUse /\ \A p \in Object : KindOf(p)' = KindOf(p)
  BY <1>4 DEF InUse, KindOf
<1>9. KindOf(o) = k
  OBVIOUS
<1> DEFINE L == Live \ {o}
           F == Free \union {o}
\* The program has no pointer to it any more.
<1>10. \A x \in Pointers \union {p \in L : KindOf(p)' = "normal"} :
         word'[x] # 0 => word'[x] \in L
  <2> SUFFICES ASSUME NEW x \in Pointers \union {p \in L : KindOf(p)' = "normal"},
                      word'[x] # 0
               PROVE  word'[x] \in L
    OBVIOUS
  <2>1. x \in Places /\ x # o
    <3>1. o \notin Pointers
      BY <1>3, ObjectsAre
    <3> QED BY <1>1, <1>8, <3>1
  <2>2. x # a
    BY <1>5, <2>1
  <2> QED BY <1>1, <1>5, <1>6, <2>1, <2>2
<1>11. Live' \subseteq L
  <2>1. L \in SUBSET Object
    BY <1>1
  <2> HIDE DEF L
  <2> QED BY <1>7, <1>10, <2>1, LiveBound
<1>12. PlacesPointAtObjects'
  <2>1. \A x \in Pointers \union {p \in L : KindOf(p)' = "normal"} :
          word'[x] # 0 => word'[x] \in InUse'
    BY <1>1, <1>8, <1>10
  <2> HIDE DEF L
  <2> QED BY <1>11, <2>1, PlacesBound
<1>13. ASSUME NEW j \in Kind
       PROVE  OnList(j)' \subseteq F /\ ListSound(j)'
  <2>1. \A p \in OnList(j) : p # o /\ word'[p] = word[p] /\ KindOf(p)' = KindOf(p)
    BY <1>1, <1>2, <1>3, <1>5, <1>8
  <2>2. CASE j = k
    <3> DEFINE T == OnList(k) \union {o}
    <3>1. \A p \in T : word'[p] # 0 => word'[p] \in T
      BY <1>2, <1>3, <1>5, <2>1, <2>2
    <3>2. \A V \in SUBSET Object :
            (head'[k] # 0 => head'[k] \in V) /\ (\A p \in V : word'[p] # 0 => word'[p] \in V) =>
              OnList(k)' \subseteq V
      <4>1. OnListIsLeast'
        BY OnListIs, PTL
      <4> QED BY <1>3, <1>7, <4>1 DEF OnListIsLeast
    <3>3. OnList(k)' \subseteq T
      <4>1. T \in SUBSET Object /\ head'[k] \in T
        BY <1>2, <1>3, <1>5
      <4> HIDE DEF T
      <4> QED BY <3>1, <3>2, <4>1
    <3>4. \A p \in OnList(k) : KindOf(p) = k /\ word[p] # head[k] /\ word[p] # o
      BY <1>2, <1>3 DEF ListSound
    <3>5. ASSUME NEW p \in T PROVE KindOf(p)' = k /\ word'[p] # head'[k]
      <4>1. CASE p = o
        <5>1. head[k] # o
          BY <1>2, <1>3
        <5> QED BY <1>3, <1>5, <1>8, <1>9, <4>1, <5>1
      <4>2. CASE p # o
        BY <1>5, <2>1, <2>2, <3>4, <4>2
      <4> QED BY <4>1, <4>2
    <3>6. ASSUME NEW p \in T, NEW q \in T, word'[p] = word'[q], word'[p] # 0
          PROVE  p = q
      <4>1. CASE p # o /\ q # o
        BY <1>2, <1>3, <2>1, <2>2, <3>6, <4>1 DEF ListSound
      <4>2. CASE p = o /\ q # o
        BY <1>5, <2>1, <2>2, <3>4, <3>6, <4>2
      <4>3. CASE p # o /\ q = o
        BY <1>5, <2>1, <2>2, <3>4, <3>6, <4>3
      <4> QED BY <4>1, <4>2, <4>3
    <3>7. ListSound(k)'
      <4> HIDE DEF T
      <4> QED BY <3>3, <3>5, <3>6 DEF ListSound
    <3> QED BY <1>2, <2>2, <3>3, <3>7
  <2>3. CASE j # k
    <3>1. head'[j] = head[j]
      BY <1>5, <2>3
    <3>2. OnList(j)' \subseteq OnList(j) /\ ListSound(j)'
      BY <1>1, <1>2, <1>7, <2>1, <3>1, ListKept
    <3> QED BY <1>2, <3>2
  <2> QED BY <2>2, <2>3
<1>14. HeapIsSound'
  <2>1. /\ L \subseteq used' /\ used' \intersect F = {}
        /\ \A b \in unswept' : InBlock(b) \intersect (L \union F) \subseteq marks'
    BY <1>1, <1>3, <1>4
  <2> HIDE DEF L, F
  <2> QED BY <1>7, <1>11, <1>13, <2>1, StepSound
<1>15. UsedInBlocks' /\ RequestStands'
  BY <1>1, <1>4, <1>8 DEF UsedInBlocks, RequestStands
<1> QED BY <1>12, <1>14, <1>15 DEF CollectorInv

------------------------------------------------------------------------------
\* A collection spares what the program can get at: its marks are a superset.
LEMMA SurvivorsAre ==
  ASSUME CollectorInv
  PROVE  Live \subseteq Survivors /\ Survivors \subseteq Object
<1>1. /\ Words /\ Live \intersect Free = {} /\ InUse \in SUBSET Object
      /\ Pointers \subseteq Root
  BY InvGives, ObjectsAre
<1>2. /\ ReachableFrom(Root) \in SUBSET InUse
      /\ Targets(Root) \subseteq ReachableFrom(Root)
      /\ Targets(Followed(ReachableFrom(Root))) \subseteq ReachableFrom(Root)
  <2>1. Root \in SUBSET (Object \union Root)
    OBVIOUS
  <2> QED BY <1>1, <2>1, ReachableIs DEF ReachableIsLeast
<1>3. \A T \in SUBSET Object :
        Targets(Pointers) \subseteq T /\ Targets(Followed(T)) \subseteq T => Live \subseteq T
  <2>1. Pointers \in SUBSET (Object \union Root)
    BY <1>1
  <2> QED BY <1>1, <2>1, ReachableIs DEF ReachableIsLeast, Live
<1>4. Live \subseteq ReachableFrom(Root)
  <2>1. Targets(Pointers) \subseteq ReachableFrom(Root)
    BY <1>1, <1>2 DEF Targets
  <2>2. ReachableFrom(Root) \in SUBSET Object
    BY <1>1, <1>2
  <2> QED BY <1>2, <1>3, <2>1, <2>2
<1> QED BY <1>1, <1>2, <1>4 DEF Survivors

LEMMA CollectSound ==
  ASSUME CollectorInv, Collect, failCount' \in 0..(MaxRetries + 1),
         UNCHANGED <<dontGc, req>>,
         pc' = "program" \/ (pc # "program" /\ pc' = "sweep")
  PROVE  CollectorInv'
<1>1. /\ CollectorTypeOK /\ Words /\ PlacesPointAtObjects
      /\ Live \subseteq used /\ used \subseteq InUse /\ Live \subseteq InUse
      /\ InUse \in SUBSET Object
      /\ Places \subseteq Object \union Root
      /\ RequestStands
  BY InvGives DEF CollectorInv
<1>2. PICK m : m = Survivors
  OBVIOUS
<1>3. PICK empty : empty = Emptied(m)
  OBVIOUS
<1>4. /\ marks' = m /\ allocd' = FALSE
      /\ head' = [k \in Kind |-> 0]
      /\ kind' = [b \in Block |-> IF b \in empty THEN "free" ELSE kind[b]]
      /\ unswept' = {b \in Block : kind[b] \in Kind} \ empty
      /\ used' = {o \in used : BlockOf[o] \notin empty}
      /\ word' = [a \in DOMAIN word |->
                    IF a \in Object /\ BlockOf[a] \in empty THEN 0 ELSE word[a]]
  BY <1>2, <1>3 DEF Collect, StartReclaim
<1>5. Live \subseteq m /\ m \subseteq Object
  BY <1>2, SurvivorsAre
<1>6. empty \subseteq Block /\ \A o \in m : BlockOf[o] \notin empty
  BY <1>3, <1>5 DEF Emptied, InBlock
<1>7. /\ word' \in [Object \union Root -> {0} \union Object]
      /\ \A a \in Object \union Root : ~(a \in Object /\ BlockOf[a] \in empty) => word'[a] = word[a]
  <2>1. word \in [Object \union Root -> {0} \union Object]
    BY <1>1 DEF Words
  <2> QED BY <1>4, <2>1
<1>8. /\ kind' \in [Block -> {"absent", "free"} \union Kind]
      /\ \A b \in Block : b \notin empty => kind'[b] = kind[b]
  <2>1. kind \in [Block -> {"absent", "free"} \union Kind]
    BY <1>1 DEF CollectorTypeOK
  <2> QED BY <1>4, <1>6, <2>1
<1>9. /\ unswept' \subseteq {b \in Block : kind'[b] \in Kind}
      /\ used' \subseteq Object /\ marks' \subseteq Object
  BY <1>1, <1>4, <1>5, <1>8
<1>10. head' \in [Kind -> {0} \union Object] /\ \A k \in Kind : head'[k] = 0
  BY <1>4
<1>11. CollectorTypeOK'
  <2>1. /\ allocd' \in BOOLEAN /\ dontGc' \in BOOLEAN
        /\ pc' \in {"program", "sweep", "block", "collectOrExpand"}
        /\ req' \in [kind : Kind, into : {0} \union Object \union Pointers]
    BY <1>1, <1>4 DEF CollectorTypeOK
  <2> QED BY <1>7, <1>8, <1>9, <1>10, <2>1 DEF CollectorTypeOK
<1>12. Words'
  BY <1>7, <1>10 DEF Words
<1>13. \A o \in Object : BlockOf[o] \in Block /\ (BlockOf[o] \notin empty => KindOf(o)' = KindOf(o))
  BY <1>8, ObjectsAre DEF KindOf
<1>14. Live' = Live /\ Places' = Places /\ PlacesPointAtObjects'
  <2>1. \A o \in Live : BlockOf[o] \notin empty /\ o \in Object
    BY <1>5, <1>6
  <2>2. \A o \in Live : KindOf(o)' = KindOf(o)
    BY <1>13, <2>1
  <2>3. \A a \in Places : word'[a] = word[a]
    <3> SUFFICES ASSUME NEW a \in Places PROVE word'[a] = word[a]
      OBVIOUS
    <3>1. CASE a \in Pointers
      <4>1. a \notin Object
        BY <3>1, ObjectsAre
      <4> QED BY <1>1, <1>7, <4>1
    <3>2. CASE a \in Live
      BY <1>1, <1>7, <2>1, <3>2
    <3> QED BY <3>1, <3>2 DEF Places
  <2> QED BY <1>1, <1>12, <2>2, <2>3, LiveKept
<1>15. \A k \in Kind : OnList(k)' = {} /\ ListSound(k)'
  BY <1>10, <1>12, EmptyList
<1>16. HeapIsSound'
  <2>1. Live \subseteq used'
    BY <1>1, <1>4, <1>5, <1>6
  <2> DEFINE F == {}
  <2>2. /\ used' \intersect F = {}
        /\ \A b \in unswept' : InBlock(b) \intersect (Live \union F) \subseteq marks'
        /\ \A k \in Kind : OnList(k)' \subseteq F
        /\ \A k \in Kind : ListSound(k)'
        /\ Live' \subseteq Live
    BY <1>4, <1>5, <1>14, <1>15
  <2> HIDE DEF F
  <2> QED BY <1>11, <2>1, <2>2, StepSound
<1>17. UsedInBlocks'
  <2>1. \A o \in used' : o \in Object /\ KindOf(o) \in Kind /\ KindOf(o)' = KindOf(o)
    BY <1>1, <1>4, <1>13 DEF InUse
  <2> QED BY <2>1 DEF UsedInBlocks, InUse
<1>18. RequestStands'
  BY <1>1, <1>14 DEF RequestStands
<1> QED BY <1>14, <1>16, <1>17, <1>18 DEF CollectorInv

LEMMA MemCollectSound ==
  ASSUME CollectorInv, MemCollect
  PROVE  CollectorInv'
<1>1. /\ Collect /\ pc' = "program" /\ UNCHANGED <<dontGc, req>> /\ UNCHANGED failCount
  BY DEF MemCollect
<1>2. failCount' \in 0..(MaxRetries + 1)
  BY <1>1, InvGives DEF CollectorTypeOK
<1> QED BY <1>1, <1>2, CollectSound

LEMMA CollectFirstSound ==
  ASSUME CollectorInv, CollectFirst
  PROVE  CollectorInv'
<1>1. /\ Collect /\ pc = "collectOrExpand" /\ pc' = "sweep"
      /\ UNCHANGED <<dontGc, req>> /\ UNCHANGED failCount
  BY DEF CollectFirst
<1>2. failCount' \in 0..(MaxRetries + 1)
  BY <1>1, InvGives DEF CollectorTypeOK
<1> QED BY <1>1, <1>2, CollectSound

LEMMA LastResortSound ==
  ASSUME CollectorInv, LastResort
  PROVE  CollectorInv'
<1>1. /\ Collect /\ pc = "collectOrExpand" /\ pc' = "sweep"
      /\ UNCHANGED <<dontGc, req>> /\ failCount' = failCount + 1 /\ failCount < MaxRetries
  BY DEF LastResort
<1>2. failCount' \in 0..(MaxRetries + 1)
  BY <1>1, InvGives, ObjectsAre DEF CollectorTypeOK
<1> QED BY <1>1, <1>2, CollectSound

------------------------------------------------------------------------------
\* A free block is made of objects of kind k, or one of them is swept: S is what is
\* put on the list, which was empty.
LEMMA FilledSound ==
  ASSUME CollectorInv, NEW k \in Kind, NEW S \in SUBSET Object, head[k] = 0,
         S \intersect (Live \union Free) = {},
         word' = Linked(word, S, head[k]), head' = [head EXCEPT ![k] = Front(S, @)],
         used' = used \ S,
         \A o \in S : KindOf(o)' = k,
         \A o \in InUse : KindOf(o)' = KindOf(o),
         kind' \in [Block -> {"absent", "free"} \union Kind],
         marks' \subseteq Object, unswept' \subseteq {b \in Block : kind'[b] \in Kind},
         failCount' \in 0..(MaxRetries + 1), UNCHANGED <<allocd, dontGc, req>>,
         pc # "program", pc' = "sweep",
         \A b \in unswept' :
           InBlock(b) \intersect (Live \union Free \union S) \subseteq marks'
  PROVE  CollectorInv'
<1>1. /\ CollectorTypeOK /\ Words /\ PlacesPointAtObjects
      /\ Live \subseteq used /\ used \subseteq InUse /\ Live \subseteq InUse
      /\ InUse \in SUBSET Object /\ Free \in SUBSET Object
      /\ used \intersect Free = {}
      /\ Places \subseteq Object \union Root
      /\ RequestStands
      /\ \A j \in Kind : ListSound(j) /\ OnList(j) \in SUBSET Object /\ OnList(j) \subseteq Free
  BY InvGives DEF CollectorInv
<1>2. word' = Linked(word, S, 0) /\ head' = [head EXCEPT ![k] = Front(S, 0)]
  <2>1. head \in [Kind -> {0} \union Object]
    BY <1>1 DEF Words
  <2> QED BY <2>1
<1>3. Words' /\ OnList(k)' \subseteq S /\ ListSound(k)'
  BY <1>1, <1>2, ListMade
<1>4. \A a \in Object \union Root : a \notin S => word'[a] = word[a]
  <2>1. word \in [Object \union Root -> {0} \union Object]
    BY <1>1 DEF Words
  <2>2. \A a \in Object \union Root : a \notin S => Linked(word, S, 0)[a] = word[a]
    BY <2>1, LinkedIs
  <2> QED BY <1>2, <2>2
<1>5. CollectorTypeOK'
  <2>1. /\ used' \subseteq Object /\ allocd' \in BOOLEAN /\ dontGc' \in BOOLEAN
        /\ pc' \in {"program", "sweep", "block", "collectOrExpand"}
        /\ req' \in [kind : Kind, into : {0} \union Object \union Pointers]
    BY <1>1 DEF CollectorTypeOK
  <2> QED BY <1>3, <2>1 DEF CollectorTypeOK, Words
<1>6. Live' = Live /\ Places' = Places /\ PlacesPointAtObjects'
  <2>1. \A a \in Places : word'[a] = word[a]
    <3> SUFFICES ASSUME NEW a \in Places PROVE word'[a] = word[a]
      OBVIOUS
    <3>1. a \notin S
      BY ObjectsAre DEF Places
    <3> QED BY <1>1, <1>4, <3>1
  <2>2. \A o \in Live : KindOf(o)' = KindOf(o)
    BY <1>1
  <2> QED BY <1>1, <1>3, <2>1, <2>2, LiveKept
<1>7. ASSUME NEW j \in Kind
      PROVE  OnList(j)' \subseteq Free \union S /\ ListSound(j)'
  <2>1. CASE j = k
    BY <1>3, <2>1
  <2>2. CASE j # k
    <3>1. head'[j] = head[j]
      BY <1>1, <1>2, <2>2 DEF Words
    <3>2. \A o \in OnList(j) : KindOf(o)' = KindOf(o) /\ word'[o] = word[o]
      <4> SUFFICES ASSUME NEW o \in OnList(j) PROVE KindOf(o)' = KindOf(o) /\ word'[o] = word[o]
        OBVIOUS
      <4>1. o \in Object /\ o \notin S
        BY <1>1
      <4>2. o \in InUse
        BY <1>1, <4>1 DEF ListSound, InUse
      <4> QED BY <1>4, <4>1, <4>2
    <3>3. OnList(j)' \subseteq OnList(j) /\ ListSound(j)'
      BY <1>1, <1>3, <3>1, <3>2, ListKept
    <3> QED BY <1>1, <3>3
  <2> QED BY <2>1, <2>2
<1>8. HeapIsSound'
  <2> DEFINE F == Free \union S
  <2>1. /\ Live \subseteq used' /\ used' \intersect F = {}
        /\ \A b \in unswept' : InBlock(b) \intersect (Live \union F) \subseteq marks'
    BY <1>1
  <2>2. Live' \subseteq Live /\ \A j \in Kind : OnList(j)' \subseteq F /\ ListSound(j)'
    BY <1>6, <1>7
  <2> HIDE DEF F
  <2> QED BY <1>5, <2>1, <2>2, StepSound
<1>9. UsedInBlocks'
  BY <1>1 DEF UsedInBlocks, InUse
<1>10. RequestStands'
  BY <1>1, <1>6 DEF RequestStands
<1> QED BY <1>6, <1>8, <1>9, <1>10 DEF CollectorInv

LEMMA SweepBlockSound ==
  ASSUME CollectorInv, NEW b \in Block, SweepBlock(b)
  PROVE  CollectorInv'
<1>1. /\ CollectorTypeOK /\ RequestStands
      /\ \A c \in unswept : InBlock(c) \intersect (Live \union Free) \subseteq marks
      /\ \A o \in Live : o \in Object
  BY InvGives DEF CollectorInv
<1>2. PICK k : k = req.kind
  OBVIOUS
<1>3. /\ k \in Kind /\ pc = "sweep" /\ head[k] = 0 /\ b \in unswept /\ kind[b] = k
      /\ unswept' = unswept \ {b}
      /\ UNCHANGED <<kind, marks, allocd, failCount, dontGc, pc, req>>
  BY <1>1, <1>2 DEF SweepBlock, CollectorTypeOK
<1>4. CASE UNCHANGED <<head, word, used>>
  <2>1. Live' = Live /\ (\A j : OnList(j)' = OnList(j)) /\ InUse' = InUse
    BY <1>3, <1>4 DEF Live, OnList, ReachableFrom, InUse, KindOf
  <2>2. Free' = Free /\ Places' = Places
    BY <1>3, <2>1 DEF Free, Places, KindOf
  <2>3. CollectorTypeOK'
    BY <1>1, <1>3, <1>4 DEF CollectorTypeOK
  <2>4. LiveIsUsed' /\ SweepIsSafe'
    BY <1>3, <1>4, <2>1, <2>2
       DEF CollectorInv, HeapIsSound, LiveIsUsed, SweepIsSafe, InBlock
  <2>5. FreeListsSound'
    BY <1>3, <1>4, <2>1 DEF CollectorInv, HeapIsSound, FreeListsSound, KindOf
  <2>6. PlacesPointAtObjects' /\ UsedInBlocks' /\ RequestStands'
    BY <1>3, <1>4, <2>1, <2>2
       DEF CollectorInv, PlacesPointAtObjects, UsedInBlocks, RequestStands
  <2> QED BY <2>3, <2>4, <2>5, <2>6 DEF CollectorInv, HeapIsSound
<1>5. CASE /\ head' = [head EXCEPT ![req.kind] = Front(Swept(b), @)]
           /\ word' = Linked(word, Swept(b), head[req.kind])
           /\ used' = used \ Swept(b)
  <2>1. PICK S : S = Swept(b)
    OBVIOUS
  <2>2. /\ S \in SUBSET Object /\ S \subseteq InBlock(b)
        /\ S \intersect (Live \union Free) = {} /\ S \intersect marks = {}
    BY <1>1, <1>3, <2>1 DEF Swept, InBlock
  <2>3. /\ word' = Linked(word, S, head[k]) /\ head' = [head EXCEPT ![k] = Front(S, @)]
        /\ used' = used \ S
    BY <1>2, <1>5, <2>1
  <2>4. (\A o \in S : KindOf(o)' = k) /\ \A o \in InUse : KindOf(o)' = KindOf(o)
    BY <1>3, <2>2 DEF InBlock, KindOf
  <2>5. /\ kind' \in [Block -> {"absent", "free"} \union Kind]
        /\ marks' \subseteq Object /\ unswept' \subseteq {c \in Block : kind'[c] \in Kind}
        /\ failCount' \in 0..(MaxRetries + 1)
    BY <1>1, <1>3 DEF CollectorTypeOK
  <2>6. \A c \in unswept' :
          InBlock(c) \intersect (Live \union Free \union S) \subseteq marks'
    <3>1. \A c \in unswept' : c # b /\ c \in unswept /\ InBlock(c) \intersect S = {}
      BY <1>3, <2>2 DEF InBlock
    <3> QED BY <1>1, <1>3, <3>1
  <2> QED BY <1>3, <2>2, <2>3, <2>4, <2>5, <2>6, FilledSound
<1> QED BY <1>4, <1>5 DEF SweepBlock

LEMMA NewBlockSound ==
  ASSUME CollectorInv, NEW b \in Block, NewBlock(b)
  PROVE  CollectorInv'
<1>1. /\ CollectorTypeOK /\ RequestStands
      /\ \A c \in unswept : InBlock(c) \intersect (Live \union Free) \subseteq marks
      /\ Live \subseteq InUse /\ used \subseteq InUse /\ InUse \in SUBSET Object
      /\ \A j \in Kind : ListSound(j) /\ OnList(j) \in SUBSET Object
  BY InvGives DEF CollectorInv
<1>2. PICK k : k = req.kind
  OBVIOUS
<1>3. PICK S : S = InBlock(b)
  OBVIOUS
<1>4. /\ k \in Kind /\ pc = "block" /\ pc' = "sweep" /\ kind[b] = "free"
      /\ kind' = [kind EXCEPT ![b] = k]
      /\ marks' = marks \ S
      /\ head' = [head EXCEPT ![k] = Front(S, @)]
      /\ word' = Linked(word, S, head[k])
      /\ failCount' = 0
      /\ UNCHANGED <<unswept, used, allocd, dontGc, req>>
  BY <1>1, <1>2, <1>3 DEF NewBlock, CollectorTypeOK
<1>5. head[k] = 0
  BY <1>1, <1>2, <1>4 DEF RequestStands
<1>6. S \in SUBSET Object /\ \A o \in S : o \notin InUse
  BY <1>3, <1>4 DEF InBlock, InUse, KindOf, Kind
<1>7. Free \subseteq InUse
  BY <1>1, SoundParts DEF ListSound, InUse
<1>8. S \intersect (Live \union Free) = {} /\ used' = used \ S
  BY <1>1, <1>4, <1>6, <1>7
<1>9. /\ kind' \in [Block -> {"absent", "free"} \union Kind]
      /\ kind'[b] = k /\ \A c \in Block : c # b => kind'[c] = kind[c]
  BY <1>1, <1>4 DEF CollectorTypeOK
<1>10. (\A o \in S : KindOf(o)' = k) /\ \A o \in InUse : KindOf(o)' = KindOf(o)
  <2>1. \A o \in Object : BlockOf[o] \in Block
    BY ObjectsAre
  <2>2. \A o \in InUse : o \in Object /\ BlockOf[o] # b
    BY <1>3, <1>6 DEF InBlock, InUse
  <2> QED BY <1>3, <1>9, <2>1, <2>2 DEF InBlock, KindOf
<1>11. b \notin unswept
  BY <1>1, <1>4 DEF CollectorTypeOK, Kind
<1>12. /\ marks' \subseteq Object /\ unswept' \subseteq {c \in Block : kind'[c] \in Kind}
       /\ failCount' \in 0..(MaxRetries + 1)
  <2>1. 0 \in 0..(MaxRetries + 1)
    BY ObjectsAre
  <2>2. marks \subseteq Object /\ unswept \subseteq {c \in Block : kind[c] \in Kind}
    BY <1>1 DEF CollectorTypeOK
  <2> QED BY <1>4, <1>9, <1>11, <2>1, <2>2
<1>13. \A c \in unswept' :
         InBlock(c) \intersect (Live \union Free \union S) \subseteq marks'
  <2>1. \A c \in unswept' : c # b /\ c \in unswept /\ InBlock(c) \intersect S = {}
    BY <1>3, <1>4, <1>11 DEF InBlock
  <2> QED BY <1>1, <1>4, <2>1
<1>14. pc # "program" /\ UNCHANGED <<allocd, dontGc, req>>
  BY <1>4
<1>15. /\ k \in Kind /\ S \in SUBSET Object /\ head[k] = 0
       /\ S \intersect (Live \union Free) = {}
       /\ word' = Linked(word, S, head[k]) /\ head' = [head EXCEPT ![k] = Front(S, @)]
       /\ used' = used \ S
       /\ kind' \in [Block -> {"absent", "free"} \union Kind]
       /\ pc # "program" /\ pc' = "sweep"
  BY <1>4, <1>5, <1>6, <1>8, <1>9, <1>14
<1> QED BY <1>10, <1>12, <1>13, <1>14, <1>15, FilledSound

------------------------------------------------------------------------------
LEMMA NoneToSweepSound ==
  ASSUME CollectorInv, NoneToSweep
  PROVE  CollectorInv'
<1>1. CollectorTypeOK /\ RequestStands
  BY InvGives DEF CollectorInv
<1>2. /\ pc = "sweep" /\ head[req.kind] = 0 /\ pc' = "block"
      /\ UNCHANGED <<heap, failCount, dontGc, req>>
  BY DEF NoneToSweep
<1>3. CollectorTypeOK'
  BY <1>1, <1>2 DEF CollectorTypeOK, heap
<1>4. Places' = Places
  BY <1>2 DEF Places, Live, ReachableFrom, InUse, KindOf, heap
<1>5. RequestStands'
  BY <1>1, <1>2, <1>4 DEF RequestStands, heap
<1> QED BY <1>2, <1>3, <1>5, HeapAlone

LEMMA NoBlockSound ==
  ASSUME CollectorInv, NoBlock
  PROVE  CollectorInv'
<1>1. CollectorTypeOK /\ RequestStands
  BY InvGives DEF CollectorInv
<1>2. /\ pc = "block" /\ pc' = "collectOrExpand"
      /\ UNCHANGED <<heap, failCount, dontGc, req>>
  BY DEF NoBlock
<1>3. CollectorTypeOK'
  BY <1>1, <1>2 DEF CollectorTypeOK, heap
<1>4. Places' = Places
  BY <1>2 DEF Places, Live, ReachableFrom, InUse, KindOf, heap
<1>5. RequestStands'
  BY <1>1, <1>2, <1>4 DEF RequestStands
<1> QED BY <1>2, <1>3, <1>5, HeapAlone

LEMMA OutOfMemorySound ==
  ASSUME CollectorInv, OutOfMemory
  PROVE  CollectorInv'
<1>1. CollectorTypeOK
  BY InvGives
<1>2. /\ failCount' = MaxRetries + 1 /\ pc' = "program" /\ req' = NoRequest
      /\ UNCHANGED <<heap, dontGc>>
  BY DEF OutOfMemory, Returns
<1>3. failCount' \in 0..(MaxRetries + 1)
  BY <1>2, ObjectsAre
<1>4. req' \in [kind : Kind, into : {0} \union Object \union Pointers]
  BY <1>2 DEF NoRequest, Kind
<1>5. CollectorTypeOK'
  BY <1>1, <1>2, <1>3, <1>4 DEF CollectorTypeOK, heap
<1>6. RequestStands'
  BY <1>2 DEF RequestStands
<1> QED BY <1>2, <1>5, <1>6, HeapAlone

\* Memory the heap grows by is free, and no object is in it.
LEMMA ExpandSound ==
  ASSUME CollectorInv, NEW b \in Block, Expand(b)
  PROVE  CollectorInv'
<1>1. /\ CollectorTypeOK /\ Words /\ PlacesPointAtObjects
      /\ Live \subseteq used /\ used \subseteq InUse /\ Live \subseteq InUse
      /\ InUse \in SUBSET Object /\ used \intersect Free = {}
      /\ RequestStands
      /\ \A c \in unswept : InBlock(c) \intersect (Live \union Free) \subseteq marks
      /\ \A j \in Kind : ListSound(j) /\ OnList(j) \in SUBSET Object /\ OnList(j) \subseteq Free
  BY InvGives DEF CollectorInv
<1>2. /\ pc = "collectOrExpand" /\ kind[b] = "absent"
      /\ kind' = [kind EXCEPT ![b] = "free"]
      /\ pc' = "sweep"
      /\ UNCHANGED <<word, head, marks, unswept, used, allocd, failCount, dontGc, req>>
  BY DEF Expand
<1>3. /\ kind' \in [Block -> {"absent", "free"} \union Kind]
      /\ \A c \in Block : c # b => kind'[c] = kind[c]
  BY <1>1, <1>2 DEF CollectorTypeOK
<1>4. \A c \in Block : kind[c] \in Kind => kind'[c] = kind[c]
  BY <1>2, <1>3 DEF Kind
<1>5. \A o \in InUse : KindOf(o)' = KindOf(o)
  <2>1. \A o \in InUse : BlockOf[o] \in Block /\ kind[BlockOf[o]] \in Kind
    BY ObjectsAre DEF InUse, KindOf
  <2> QED BY <1>4, <2>1 DEF KindOf
<1>6. CollectorTypeOK' /\ Words'
  <2>1. unswept' \subseteq {c \in Block : kind'[c] \in Kind}
    BY <1>1, <1>2, <1>4 DEF CollectorTypeOK
  <2> QED BY <1>1, <1>2, <1>3, <2>1 DEF CollectorTypeOK, Words
<1>7. Live' = Live /\ Places' = Places /\ PlacesPointAtObjects'
  <2>1. (\A o \in Live : KindOf(o)' = KindOf(o)) /\ \A a \in Places : word'[a] = word[a]
    BY <1>1, <1>2, <1>5
  <2> QED BY <1>1, <1>6, <2>1, LiveKept
<1>8. \A j \in Kind : OnList(j)' \subseteq Free /\ ListSound(j)'
  <2> SUFFICES ASSUME NEW j \in Kind PROVE OnList(j)' \subseteq Free /\ ListSound(j)'
    OBVIOUS
  <2>1. \A o \in OnList(j) : o \in InUse
    BY <1>1 DEF ListSound, InUse
  <2>2. head'[j] = head[j] /\ \A o \in OnList(j) : KindOf(o)' = KindOf(o) /\ word'[o] = word[o]
    BY <1>2, <1>5, <2>1
  <2>3. OnList(j)' \subseteq OnList(j) /\ ListSound(j)'
    BY <1>1, <1>6, <2>2, ListKept
  <2> QED BY <1>1, <2>3
<1>9. HeapIsSound'
  <2>1. /\ Live \subseteq used' /\ used' \intersect Free = {} /\ Live' \subseteq Live
        /\ \A c \in unswept' : InBlock(c) \intersect (Live \union Free) \subseteq marks'
    BY <1>1, <1>2, <1>7
  <2> QED BY <1>6, <1>8, <2>1, StepSound
<1>10. UsedInBlocks'
  BY <1>1, <1>2, <1>5 DEF UsedInBlocks, InUse
<1>11. RequestStands'
  BY <1>1, <1>2, <1>7 DEF RequestStands
<1> QED BY <1>7, <1>9, <1>10, <1>11 DEF CollectorInv

------------------------------------------------------------------------------
LEMMA NextSound ==
  ASSUME CollectorInv, CollectorNext
  PROVE  CollectorInv'
<1>1. CASE \E a, b \in Places : Copy(a, b)
  BY <1>1, CopySound
<1>2. CASE \E a \in Places : Forget(a)
  BY <1>2, ForgetSound
<1>3. CASE \E v \in {0} \union Numbers : Compute(v)
  BY <1>3, ComputeSound
<1>4. CASE \E b \in BOOLEAN : Enable(b)
  BY <1>4, EnableSound
<1>5. CASE \E a \in Places : MemFree(a)
  BY <1>5, MemFreeSound
<1>6. CASE \E k \in Kind, a \in Places : MemAlloc(k, a)
  BY <1>6, MemAllocSound
<1>7. CASE MemCollect
  BY <1>7, MemCollectSound
<1>8. CASE Allocating
  <2>1. CASE Found
    BY <2>1, FoundSound
  <2>2. CASE NoneToSweep
    BY <2>2, NoneToSweepSound
  <2>3. CASE NoBlock
    BY <2>3, NoBlockSound
  <2>4. CASE CollectFirst
    BY <2>4, CollectFirstSound
  <2>5. CASE LastResort
    BY <2>5, LastResortSound
  <2>6. CASE OutOfMemory
    BY <2>6, OutOfMemorySound
  <2>7. CASE \E b \in Block : SweepBlock(b) \/ NewBlock(b) \/ Expand(b)
    BY <2>7, SweepBlockSound, NewBlockSound, ExpandSound
  <2> QED BY <1>8, <2>1, <2>2, <2>3, <2>4, <2>5, <2>6, <2>7 DEF Allocating
<1> QED BY <1>1, <1>2, <1>3, <1>4, <1>5, <1>6, <1>7, <1>8 DEF CollectorNext

(* Whatever the program does with what it was given and whenever the        *)
(* collector runs, no object the program can get at is taken back, given    *)
(* out again or on a free list, the sweep that is put off spares it, and    *)
(* the free lists are lists of free objects of their kind (alloc.c:473,     *)
(* reclaim.c:574, new_hblk.c:160).  For every heap, every layout of objects *)
(* in blocks and every number of roots.                                     *)
THEOREM CollectorHeapIsSound == CollectorSpec => []HeapIsSound
<1>1. CollectorInit => CollectorInv
  BY InitSound
<1>2. CollectorInv /\ [CollectorNext]_collectorVars => CollectorInv'
  BY NextSound, StutterSound
<1>3. CollectorInv => HeapIsSound
  BY DEF CollectorInv
<1> QED BY <1>1, <1>2, <1>3, PTL DEF CollectorSpec

=============================================================================
