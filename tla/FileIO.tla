-------------------------------- MODULE FileIO --------------------------------
(***************************************************************************)
(* BASIC file handles: BASIClib/FileIOFunctions.c, in the build with       *)
(* threads.                                                                *)
(*                                                                         *)
(* The table has one structure per handle and is guarded by                *)
(* fileIOThreadLock, a recursive mutex: owner and count are its state.     *)
(* Each operation holds the lock from its first access of the table to its *)
(* last, so an operation is one action, which adds to count what it fails  *)
(* to release; a thread that cannot take the lock has no action.  CLOSE    *)
(* without a number locks and unlocks once per handle and is one action    *)
(* per handle.  A runtime error returns to the program's handler with the  *)
(* lock as it is.                                                          *)
(*                                                                         *)
(* Names, modes and record lengths do not change what happens to the table *)
(* and are not kept in it.  No operation sets isEOF or readAhead.          *)
(***************************************************************************)
EXTENDS Integers

CONSTANTS
  Thread,             \* the threads of the program
  NoThread,           \* the owner of a free lock
  Fd,                 \* file descriptors the process may have open
  NoFd,               \* what a structure that is not open holds instead
  VB_MAX_FILE_HANDLES,
  MaxHeld             \* bound on the count of the mutex

ASSUME ThreadAssumption == NoThread \notin Thread
ASSUME FdAssumption == NoFd \notin Fd
ASSUME SizeAssumption == VB_MAX_FILE_HANDLES \in Nat \ {0}
ASSUME HeldAssumption == MaxHeld \in Nat \ {0}

Slot == 0..(VB_MAX_FILE_HANDLES - 1)
Number == 0..(VB_MAX_FILE_HANDLES + 1)

FileMode == {"Random", "Binary", "Input", "Output", "Append"}
Access == {"Read", "Write", "ReadWrite"}
Lock == {"Given"}     \* any of the four: nothing tells them apart

Errors == {0, 5, 10, 51, 52, 55}
ERR_ILLEGAL_FUNCTION_CALL == 5
FileIOErrorFromErrno == 10
ERR_INTERNAL_ERROR == 51
ERR_BAD_FILE_NAME_OR_NUMBER == 52
ERR_FILE_ALREADY_OPEN == 55

VARIABLES
  fileHandleTable,  \* fileHandleTable[s]: fields isOpen, fd
  openFds,          \* the descriptors that are open
  owner, count,     \* fileIOThreadLock
  closing,          \* closing[t]: the next number of t's CLOSE loop, 0 outside
  err,              \* err[t]: the error t's last operation threw, 0 for none
  dropped           \* history: a close() that failed released its descriptor

vars == <<fileHandleTable, openFds, owner, count, closing, err, dropped>>

TypeOK ==
  /\ fileHandleTable \in [Slot -> [isOpen : BOOLEAN, fd : Fd \union {NoFd}]]
  /\ openFds \subseteq Fd
  /\ owner \in Thread \union {NoThread}
  /\ count \in 0..MaxHeld
  /\ owner = NoThread <=> count = 0
  /\ closing \in [Thread -> 0..VB_MAX_FILE_HANDLES]
  /\ err \in [Thread -> Errors]
  /\ dropped \in BOOLEAN

------------------------------------------------------------------------------
\* What memset, or a failing open(), leaves in a structure.
Blank == [isOpen |-> FALSE, fd |-> NoFd]

\* __initFileIOFunctions.
Init ==
  /\ fileHandleTable = [s \in Slot |-> Blank]
  /\ openFds = {}
  /\ owner = NoThread
  /\ count = 0
  /\ closing = [t \in Thread |-> 0]
  /\ err = [t \in Thread |-> 0]
  /\ dropped = FALSE

\* t is not inside a CLOSE loop.
Idle(t) == closing[t] = 0

\* The mutex lets t in.
CanLock(t) == owner \in {t, NoThread}

\* t took the lock and gave it back.
LockBalanced == UNCHANGED <<owner, count>>

\* t took the lock once more than it gave it back.
LockLeft(t) == count < MaxHeld /\ owner' = t /\ count' = count + 1

Throw(t, e) == err' = [err EXCEPT ![t] = e]
Done(t) == Throw(t, 0)

\* The argument check of _vbpS123ii_open.  The Default constants of access and
\* lock come after TERMINATION in their enumerations.
LegalArguments(fMode, fAccess, fLock) ==
  /\ fAccess \in Access
  /\ fLock \in Lock
  /\ ~(fMode = "Input" /\ fAccess = "Write")
  /\ ~(fMode = "Output" /\ fAccess = "Read")

Requested(fMode) == IF fMode = "Default" THEN "Random" ELSE fMode

\* OPEN with arguments the check refuses.  Every mode has arguments it accepts,
\* so the actions below do not name them.
OpenIllegal(t, fMode, fAccess, fLock) ==
  /\ Idle(t)
  /\ ~LegalArguments(Requested(fMode), fAccess, fLock)
  /\ Throw(t, ERR_INTERNAL_ERROR)
  /\ LockBalanced
  /\ UNCHANGED <<fileHandleTable, openFds, closing, dropped>>

InRange(n) == n \in 1..VB_MAX_FILE_HANDLES

\* OPEN AS #n with n out of range.
OpenBadNumber(t, n) ==
  /\ Idle(t)
  /\ ~InRange(n)
  /\ Throw(t, ERR_BAD_FILE_NAME_OR_NUMBER)
  /\ LockBalanced
  /\ UNCHANGED <<fileHandleTable, openFds, closing, dropped>>

\* The slot OPEN AS #n works on: the number is made 0-based by OPEN and again
\* by getFileStructAndLock.  No OPEN reaches the last slot.
OpenSlot(n) == n - 2

\* getFileStructAndLock refuses number 1, already 0-based, under the lock.
OpenFirst(t) ==
  /\ Idle(t)
  /\ CanLock(t)
  /\ OpenSlot(1) \notin Slot
  /\ Throw(t, ERR_ILLEGAL_FUNCTION_CALL)
  /\ LockLeft(t)
  /\ UNCHANGED <<fileHandleTable, openFds, closing, dropped>>

OpenBusy(t, n) ==
  /\ Idle(t)
  /\ CanLock(t)
  /\ InRange(n) /\ OpenSlot(n) \in Slot
  /\ fileHandleTable[OpenSlot(n)].isOpen
  /\ Throw(t, ERR_FILE_ALREADY_OPEN)
  /\ LockLeft(t)
  /\ UNCHANGED <<fileHandleTable, openFds, closing, dropped>>

\* open() fails: what is left is a cleared structure.
OpenFails(t, n) ==
  /\ Idle(t)
  /\ CanLock(t)
  /\ InRange(n) /\ OpenSlot(n) \in Slot
  /\ ~fileHandleTable[OpenSlot(n)].isOpen
  /\ fileHandleTable' = [fileHandleTable EXCEPT ![OpenSlot(n)] = Blank]
  /\ Throw(t, FileIOErrorFromErrno)
  /\ LockLeft(t)
  /\ UNCHANGED <<openFds, closing, dropped>>

\* open() succeeds.
OpenSucceeds(t, n) ==
  /\ Idle(t)
  /\ CanLock(t)
  /\ InRange(n) /\ OpenSlot(n) \in Slot
  /\ ~fileHandleTable[OpenSlot(n)].isOpen
  /\ \E f \in Fd \ openFds :
       /\ openFds' = openFds \union {f}
       /\ fileHandleTable' = [fileHandleTable EXCEPT ![OpenSlot(n)] =
                                [isOpen |-> TRUE, fd |-> f]]
  /\ Done(t)
  /\ LockLeft(t)
  /\ UNCHANGED <<closing, dropped>>

Open(t) ==
  \/ \E fMode \in FileMode \union {"Default"},
        fAccess \in Access \union {"Default"}, fLock \in Lock \union {"Default"} :
       OpenIllegal(t, fMode, fAccess, fLock)
  \/ OpenFirst(t)
  \/ \E n \in Number :
       \/ OpenBadNumber(t, n) \/ OpenBusy(t, n) \/ OpenFails(t, n)
       \/ OpenSucceeds(t, n)

------------------------------------------------------------------------------
\* A mutant of CloseFails: isOpen is reset before close() is called.
CloseFailsForgets(t, s) ==
  /\ fileHandleTable[s].isOpen
  /\ fileHandleTable' = [fileHandleTable EXCEPT ![s].isOpen = FALSE]
  /\ Throw(t, FileIOErrorFromErrno)
  /\ UNCHANGED <<openFds, dropped>>

\* close() fails; it may have released the descriptor all the same, as it does
\* on Linux where it was interrupted or could not write.
CloseFails(t, s) ==
  /\ fileHandleTable[s].isOpen
  /\ \/ UNCHANGED <<openFds, dropped>>
     \/ openFds' = openFds \ {fileHandleTable[s].fd} /\ dropped' = TRUE
  /\ Throw(t, FileIOErrorFromErrno)
  /\ UNCHANGED fileHandleTable

\* A mutant of CloseSucceeds: isOpen is not reset.
CloseSucceedsStays(t, s) ==
  /\ fileHandleTable[s].isOpen => /\ fileHandleTable[s].fd \in openFds
                                 /\ openFds' = openFds \ {fileHandleTable[s].fd}
  /\ ~fileHandleTable[s].isOpen => UNCHANGED openFds
  /\ Done(t)
  /\ UNCHANGED <<fileHandleTable, dropped>>

\* The handle is closed, or was not open.
CloseSucceeds(t, s) ==
  /\ IF fileHandleTable[s].isOpen
     THEN /\ fileHandleTable[s].fd \in openFds
          /\ openFds' = openFds \ {fileHandleTable[s].fd}
          /\ fileHandleTable' = [fileHandleTable EXCEPT ![s].isOpen = FALSE]
     ELSE UNCHANGED <<openFds, fileHandleTable>>
  /\ Done(t)
  /\ UNCHANGED dropped

\* CLOSE #n, and EOF(n), with a number getFileStructAndLock refuses.
BadHandle(t, n) ==
  /\ Idle(t)
  /\ n - 1 \notin Slot
  /\ Throw(t, ERR_ILLEGAL_FUNCTION_CALL)
  /\ LockBalanced
  /\ UNCHANGED <<fileHandleTable, openFds, closing, dropped>>

\* CLOSE #n.
Close(t, n) ==
  /\ Idle(t)
  /\ CanLock(t)
  /\ n - 1 \in Slot
  /\ CloseFails(t, n - 1) \/ CloseSucceeds(t, n - 1)
  /\ LockBalanced
  /\ UNCHANGED closing

\* CLOSE: the loop starts at number 1.
CloseAll(t) ==
  /\ Idle(t)
  /\ closing' = [closing EXCEPT ![t] = 1]
  /\ Done(t)
  /\ UNCHANGED <<fileHandleTable, openFds, owner, count, dropped>>

\* A mutant of CloseTurn: the loop goes on after a failing close().
CloseTurnGoesOn(t) ==
  /\ ~Idle(t)
  /\ CanLock(t)
  /\ CloseFails(t, closing[t] - 1) \/ CloseSucceeds(t, closing[t] - 1)
  /\ closing' = [closing EXCEPT ![t] =
                   IF @ = VB_MAX_FILE_HANDLES THEN 0 ELSE @ + 1]
  /\ LockBalanced

\* One turn of the loop; an error leaves it.
CloseTurn(t) ==
  /\ ~Idle(t)
  /\ CanLock(t)
  /\ \/ /\ CloseFails(t, closing[t] - 1)
        /\ closing' = [closing EXCEPT ![t] = 0]
     \/ /\ CloseSucceeds(t, closing[t] - 1)
        /\ closing' = [closing EXCEPT ![t] =
                         IF @ = VB_MAX_FILE_HANDLES THEN 0 ELSE @ + 1]
  /\ LockBalanced

\* EOF(n) and FREEFILE look under the lock and change nothing.
Look(t) ==
  /\ Idle(t)
  /\ CanLock(t)
  /\ Done(t)
  /\ LockBalanced
  /\ UNCHANGED <<fileHandleTable, openFds, closing, dropped>>

Next ==
  \E t \in Thread :
    \/ Open(t)
    \/ \E n \in Number : BadHandle(t, n) \/ Close(t, n)
    \/ CloseAll(t)
    \/ CloseTurn(t)
    \/ Look(t)

Spec == Init /\ [][Next]_vars

------------------------------------------------------------------------------
OpenSlots == {s \in Slot : fileHandleTable[s].isOpen}

(* Every open handle has a descriptor that is open and that no other handle *)
(* has.                                                                     *)
Owned ==
  /\ \A s \in OpenSlots : fileHandleTable[s].fd \in openFds
  /\ \A s, r \in OpenSlots :
       fileHandleTable[s].fd = fileHandleTable[r].fd => s = r

(* No two handles share a file and none has lost its own, whatever OPEN and *)
(* CLOSE meet on the way, as long as no close() has failed and released its *)
(* descriptor, which the handle then still names (FileIOFunctions.c:301).   *)
HandlesOwnDescriptors == dropped \/ Owned

(* No file stays open that no handle names: the error paths of OPEN and     *)
(* CLOSE leave nothing CLOSE cannot reach, though CLOSE throws out of its   *)
(* section and OPEN clears the structure it is about to use                 *)
(* (FileIOFunctions.c:251, :301-307).                                       *)
NoFileLost == \A f \in openFds : \E s \in OpenSlots : fileHandleTable[s].fd = f

(* A CLOSE loop that comes to its end has closed every handle              *)
(* (FileIOFunctions.c:276): no other thread reopened one behind it, though  *)
(* the loop gives the mutex back between two handles.                       *)
CloseAllClosesEverything ==
  [][\A t \in Thread :
       closing[t] # 0 /\ closing'[t] = 0 /\ err'[t] = 0
         => OpenSlots' = {}]_vars

(* An operation that returns or throws gives the mutex back                 *)
(* (FileIOFunctions.c:269, threads.txt:177-186).                            *)
LockGivenBack == [][count' <= count]_vars

(* OPEN AS #n opens the handle CLOSE #n closes, that of slot n - 1          *)
(* (FileIOFunctions.c:79, :242).                                            *)
OpenUsesItsHandle ==
  [][\A t \in Thread, n \in 1..VB_MAX_FILE_HANDLES :
       OpenSucceeds(t, n) => fileHandleTable'[n - 1].isOpen]_vars

=============================================================================
