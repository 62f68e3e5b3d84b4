------------------------------ MODULE Lifecycle ------------------------------
(***************************************************************************)
(* Start and stop of BASIClib, in the build with threads: Initialize.c, the *)
(* init and deinit function of each module, and the sections the modules   *)
(* run under their locks in between.                                       *)
(*                                                                         *)
(* What a thread has yet to do is a sequence of steps on locks, todo[t]:   *)
(* the whole of __initBasicLib, the exit handler __deinitBasicLib, or one  *)
(* library call.  What the calls do with the data under the locks is left  *)
(* out; here it matters which locks exist, who holds them, and in which    *)
(* order they are taken.  The locks are recursive mutexes.                 *)
(*                                                                         *)
(* The first use of a lock that does not exist is recorded in misused and  *)
(* ends the behaviour.                                                     *)
(***************************************************************************)
EXTENDS Integers, Sequences

CONSTANTS
  Thread,      \* operating-system threads; none is used twice
  Main,        \* the thread that runs main()
  Nobody,      \* the holder of a free lock
  Handles,     \* VB_MAX_FILE_HANDLES
  MaxDepth,    \* bound on how often one thread holds one lock
  ExitsAlone   \* whether programs end their threads before they end

ASSUME ThreadAssumption == Main \in Thread /\ Nobody \notin Thread
ASSUME HandlesAssumption == Handles \in Nat \ {0}
ASSUME DepthAssumption == MaxDepth \in Nat /\ MaxDepth >= 4
ASSUME ExitAssumption == ExitsAlone \in BOOLEAN

Lock == {"basicErrorLock", "consoleLock", "envrLock", "registryLock",
         "fileSystemLock", "fileIOThreadLock", "lock"}

None == "none"

VARIABLES
  phase,      \* of the library
  pc,         \* "unborn", "live" or "dead"
  todo,       \* todo[t]: the steps t's present call has yet to take
  lockState,  \* "none", "ready" or "destroyed"
  holder,     \* holder[l]: the thread that holds l
  depth,      \* depth[l]: how often it holds l
  strings,    \* initializedStrings of Language.c
  exiter,     \* the thread the exit handler runs in, or Nobody
  misused     \* the lock first used while it did not exist

vars == <<phase, pc, todo, lockState, holder, depth, strings, exiter, misused>>

\* "init" until __initBasicLib returns (or "failed"); "up"; "exit" while the
\* exit handler runs; then "gone", or "aborted" when the handler was cut short.
Phase == {"init", "failed", "up", "exit", "gone", "aborted"}

------------------------------------------------------------------------------
Step == [op : {"get", "put", "create", "destroy"}, lock : Lock]
          \union [op : {"language", "console", "noConsole", "noLanguage",
                        "killAll", "close"}]
          \union [op : {"closeAll"}, left : Nat]
          \union [op : {"kill"}, who : Thread]

Get(l) == [op |-> "get", lock |-> l]
Put(l) == [op |-> "put", lock |-> l]
Create(l) == [op |-> "create", lock |-> l]
Destroy(l) == [op |-> "destroy", lock |-> l]

Section(l) == <<Get(l), Put(l)>>

\* A section under l that looks up the caller's index, under Threads' lock.
IndexUnder(l) == <<Get(l)>> \o Section("lock") \o <<Put(l)>>

\* __initThread: BasicError.c's tables grow, then those of FileSystemFunctions.
InitThread == Section("basicErrorLock") \o Section("fileSystemLock")

\* __deinitThread, then the registry: __prepareThreadToTerminate.
PrepareToTerminate == Section("fileSystemLock") \o Section("lock")

\* A mutant of InitScript: the threads are initialised too early.
InitScriptThreadsEarly ==
  <<[op |-> "language"], Create("basicErrorLock"), [op |-> "console"],
    Create("envrLock"), Create("registryLock"), Create("lock")>>
    \o InitThread
    \o <<Create("fileSystemLock"), Create("fileIOThreadLock")>>

\* __initBasicLib.  The modules without a lock and without a part in an error
\* (memory, signals, time, GUI) have no step.
InitScript ==
  <<[op |-> "language"], Create("basicErrorLock"), [op |-> "console"],
    Create("envrLock"), Create("registryLock"), Create("fileSystemLock"),
    Create("fileIOThreadLock"), Create("lock")>>
    \o InitThread

\* What _vbp_close has left to do, with n handles to go.
CloseAll(n) == [op |-> "closeAll", left |-> n]

\* What __deinitBasicLib does from __deinitThreads to __deinitBasicError.
DeinitThreadsToErrors ==
  <<Get("lock"), [op |-> "killAll"], Put("lock"), Destroy("lock"),
    [op |-> "noConsole"], Destroy("basicErrorLock")>>

\* A mutant of DeinitScript: a lock is forgotten.
DeinitScriptForgets ==
  <<Destroy("fileSystemLock"), CloseAll(Handles), Destroy("fileIOThreadLock"),
    Destroy("envrLock")>>
    \o DeinitThreadsToErrors \o <<[op |-> "noLanguage"]>>

\* __deinitBasicLib.  __deinitFileIOFunctions closes the program's files before
\* it destroys its lock.
DeinitScript ==
  <<Destroy("fileSystemLock"), CloseAll(Handles), Destroy("fileIOThreadLock"),
    Destroy("registryLock"), Destroy("envrLock")>>
    \o DeinitThreadsToErrors \o <<[op |-> "noLanguage"]>>

\* A mutant of Calls: one call takes DIR$'s two locks in the other order.
CallsCrossed ==
  {IndexUnder("fileSystemLock"),
   <<Get("lock")>> \o Section("fileSystemLock") \o <<Put("lock")>>}

\* The steps of __terminateThread on thread u: its caller's index, the id of
\* u, __prepareThreadToTerminate, and SIGKILL.
Terminate(u) ==
  Section("lock") \o Section("lock") \o PrepareToTerminate
    \o <<[op |-> "kill", who |-> u]>>

\* OPEN obtains its lock twice and releases it once, whether it succeeds or not.
Open == <<Get("fileIOThreadLock")>> \o Section("fileIOThreadLock")

\* What a call into the library does with locks: the handlers of a thread
\* (BasicError.c:198, :229), DIR$ (FileSystemFunctions.c:458), the registry,
\* the environment, the console, CLOSE of a handle, and OPEN, as often as
\* leaves room for a CLOSE and for one more in the exit handler.
Calls ==
  {IndexUnder("basicErrorLock"), IndexUnder("fileSystemLock"),
   Section("registryLock"), Section("envrLock"), Section("fileIOThreadLock")}
    \union (IF lockState["consoleLock"] = None THEN {}
            ELSE {Section("consoleLock")})
    \union (IF depth["fileIOThreadLock"] + 3 > MaxDepth THEN {} ELSE {Open})

------------------------------------------------------------------------------
TypeOK ==
  /\ phase \in Phase
  /\ pc \in [Thread -> {"unborn", "live", "dead"}]
  /\ todo \in [Thread -> Seq(Step)]
  /\ lockState \in [Lock -> {None, "ready", "destroyed"}]
  /\ holder \in [Lock -> Thread \union {Nobody}]
  /\ depth \in [Lock -> 0..MaxDepth]
  /\ strings \in BOOLEAN
  /\ exiter \in Thread \union {Nobody}
  /\ misused \in Lock \union {None}

Init ==
  /\ phase = "init"
  /\ pc = [t \in Thread |-> IF t = Main THEN "live" ELSE "unborn"]
  /\ todo = [t \in Thread |-> IF t = Main THEN InitScript ELSE <<>>]
  /\ lockState = [l \in Lock |-> None]
  /\ holder = [l \in Lock |-> Nobody]
  /\ depth = [l \in Lock |-> 0]
  /\ strings = FALSE
  /\ exiter = Nobody
  /\ misused = None

Over == phase \in {"failed", "gone", "aborted"} \/ misused # None

\* t takes the step at the head of its script.
Next1(t) ==
  /\ ~Over
  /\ pc[t] = "live"
  /\ todo[t] # <<>>
  /\ todo' = [todo EXCEPT ![t] = Tail(@)]

At(t, op) == todo[t] # <<>> /\ Head(todo[t]).op = op

\* A mutant of Obtain: the locks are not recursive.
ObtainOnce(t) ==
  /\ At(t, "get")
  /\ Next1(t)
  /\ LET l == Head(todo[t]).lock
     IN /\ holder[l] = Nobody
        /\ IF lockState[l] = "ready"
           THEN /\ depth[l] < MaxDepth
                /\ holder' = [holder EXCEPT ![l] = t]
                /\ depth' = [depth EXCEPT ![l] = @ + 1]
                /\ UNCHANGED misused
           ELSE misused' = l /\ UNCHANGED <<holder, depth>>
  /\ UNCHANGED <<phase, pc, lockState, strings, exiter>>

\* __obtainThreadLock.
Obtain(t) ==
  /\ At(t, "get")
  /\ Next1(t)
  /\ LET l == Head(todo[t]).lock
     IN /\ holder[l] \in {t, Nobody}
        /\ IF lockState[l] = "ready"
           THEN /\ depth[l] < MaxDepth
                /\ holder' = [holder EXCEPT ![l] = t]
                /\ depth' = [depth EXCEPT ![l] = @ + 1]
                /\ UNCHANGED misused
           ELSE misused' = l /\ UNCHANGED <<holder, depth>>
  /\ UNCHANGED <<phase, pc, lockState, strings, exiter>>

\* __releaseThreadLock.  A script releases what it obtained.
Release(t) ==
  /\ At(t, "put")
  /\ Next1(t)
  /\ LET l == Head(todo[t]).lock
     IN /\ depth' = [depth EXCEPT ![l] = @ - 1]
        /\ holder' = [holder EXCEPT ![l] = IF depth[l] = 1 THEN Nobody ELSE @]
  /\ UNCHANGED <<phase, pc, lockState, strings, misused, exiter>>

\* __createThreadLock, called once for each lock.
CreateLock(t) ==
  /\ At(t, "create")
  /\ Next1(t)
  /\ lockState' = [lockState EXCEPT ![Head(todo[t]).lock] = "ready"]
  /\ UNCHANGED <<phase, pc, holder, depth, strings, misused, exiter>>

\* The console driver found has a lock of its own, or has none.
InitConsole(t) ==
  /\ At(t, "console")
  /\ Next1(t)
  /\ \/ lockState' = [lockState EXCEPT !["consoleLock"] = "ready"]
     \/ UNCHANGED lockState
  /\ UNCHANGED <<phase, pc, holder, depth, strings, misused, exiter>>

\* __initLanguage and __deinitLanguage.
InitLanguage(t) ==
  /\ At(t, "language")
  /\ Next1(t)
  /\ strings' = TRUE
  /\ UNCHANGED <<phase, pc, lockState, holder, depth, misused, exiter>>

DeinitLanguage(t) ==
  /\ At(t, "noLanguage")
  /\ Next1(t)
  /\ strings' = FALSE
  /\ UNCHANGED <<phase, pc, lockState, holder, depth, misused, exiter>>

\* A step of __initBasicLib throws: before initialized is set an error prints
\* its text, if there is one yet, and exits; no exit handler is registered.
InitFails ==
  /\ phase = "init" /\ misused = None
  /\ \E op \in {"create", "console", "language"} : At(Main, op)
  /\ phase' = "failed"
  /\ UNCHANGED <<pc, todo, lockState, holder, depth, strings, misused, exiter>>

\* atexit, and initialized = true.
InitDone ==
  /\ phase = "init" /\ misused = None
  /\ todo[Main] = <<>>
  /\ phase' = "up"
  /\ UNCHANGED <<pc, todo, lockState, holder, depth, strings, misused, exiter>>

------------------------------------------------------------------------------
\* t executes the program's own code.
Runs(t) ==
  /\ phase \in {"up", "exit"} /\ misused = None
  /\ pc[t] = "live"
  /\ todo[t] = <<>>
  /\ t # exiter

\* A thread of the program calls the library.
Call(t) ==
  /\ Runs(t)
  /\ \E c \in Calls : todo' = [todo EXCEPT ![t] = c]
  /\ UNCHANGED <<phase, pc, lockState, holder, depth, strings, misused, exiter>>

\* __spinThread: the lock is held across pthread_create, so obtaining it,
\* creating u and releasing it is one step.  u starts with __initThread.
Spin(t, u) ==
  /\ Runs(t)
  /\ pc[u] = "unborn"
  /\ holder["lock"] = Nobody
  /\ IF lockState["lock"] = "ready"
     THEN /\ pc' = [pc EXCEPT ![u] = "live"]
          /\ todo' = [todo EXCEPT ![u] = InitThread]
          /\ UNCHANGED misused
     ELSE misused' = "lock" /\ UNCHANGED <<pc, todo>>
  /\ UNCHANGED <<phase, lockState, holder, depth, strings, exiter>>

\* A thread's function returns: __terminateCurrentThread, to its last step.
\* What is left of the thread after that holds no new lock.
ThreadReturns(t) ==
  /\ Runs(t)
  /\ t # Main
  /\ todo' = [todo EXCEPT ![t] = Section("lock") \o PrepareToTerminate
                                   \o <<[op |-> "kill", who |-> t]>>]
  /\ UNCHANGED <<phase, pc, lockState, holder, depth, strings, misused, exiter>>

\* pthread_kill, or pthread_exit when t ends itself.  Locks a thread holds
\* stay taken.
Kill(t) ==
  /\ At(t, "kill")
  /\ ~Over /\ pc[t] = "live"
  /\ LET u == Head(todo[t]).who
     IN /\ pc' = [pc EXCEPT ![u] = "dead"]
        /\ todo' = [todo EXCEPT ![t] = Tail(@), ![u] = <<>>]
  /\ UNCHANGED <<phase, lockState, holder, depth, strings, misused, exiter>>

\* The program calls __terminateThread on another of its threads.
TerminateOther(t) ==
  /\ Runs(t)
  /\ \E u \in Thread \ {t} :
       /\ pc[u] = "live"
       /\ todo' = [todo EXCEPT ![t] = Terminate(u)]
  /\ UNCHANGED <<phase, pc, lockState, holder, depth, strings, misused, exiter>>

\* t ends the program: it returns from main, or an error of t has no handler.
\* The exit handler runs in t; what t was doing is abandoned.
Exit(t) ==
  /\ phase = "up"
  /\ Runs(t)
  /\ ExitsAlone => \A u \in Thread \ {t} : pc[u] # "live"
  /\ phase' = "exit"
  /\ todo' = [todo EXCEPT ![t] = DeinitScript]
  /\ exiter' = t
  /\ UNCHANGED <<pc, lockState, holder, depth, strings, misused>>

\* SIGINT: __sigintHandler calls exit() in the middle of whatever Main does.
Interrupt ==
  /\ phase = "up" /\ misused = None
  /\ pc[Main] = "live"
  /\ ExitsAlone => \A u \in Thread \ {Main} : pc[u] # "live"
  /\ phase' = "exit"
  /\ todo' = [todo EXCEPT ![Main] = DeinitScript]
  /\ exiter' = Main
  /\ UNCHANGED <<pc, lockState, holder, depth, strings, misused>>

\* The loop of __deinitThreads; the order of the victims tells nothing apart.
KillAll(t) ==
  /\ At(t, "killAll")
  /\ ~Over /\ pc[t] = "live"
  /\ LET others == {u \in Thread \ {t} : pc[u] = "live"}
     IN IF others = {}
        THEN todo' = [todo EXCEPT ![t] = Tail(@)]
        ELSE \E u \in others : todo' = [todo EXCEPT ![t] = Terminate(u) \o @]
  /\ UNCHANGED <<phase, pc, lockState, holder, depth, strings, misused, exiter>>

\* The loop of _vbp_close: each handle has a section of its own.
CloseHandles(t) ==
  /\ At(t, "closeAll")
  /\ ~Over /\ pc[t] = "live"
  /\ todo' = [todo EXCEPT ![t] =
       (IF Head(@).left = 0 THEN <<>>
        ELSE <<Get("fileIOThreadLock"), [op |-> "close"], Put("fileIOThreadLock"),
               CloseAll(Head(@).left - 1)>>) \o Tail(@)]
  /\ UNCHANGED <<phase, pc, lockState, holder, depth, strings, misused, exiter>>

\* _vbpin_close in its section: a close() that fails is an error, which ends
\* the exit handler.  A handle can be open only if t has done OPEN, which left
\* t the lock: another thread's would have kept t out.
CloseHandle(t) ==
  /\ At(t, "close")
  /\ Next1(t)
  /\ \/ UNCHANGED <<phase, depth>>
     \/ /\ depth["fileIOThreadLock"] > 1
        /\ depth' = [depth EXCEPT !["fileIOThreadLock"] = @ - 1]
        /\ phase' = "aborted"
  /\ UNCHANGED <<pc, lockState, holder, strings, misused, exiter>>

\* __destroyThreadLock.  A held mutex is not destroyed, which is an error, and
\* as initialized is false by now the error ends the exit handler.
DestroyLock(t) ==
  /\ At(t, "destroy")
  /\ Next1(t)
  /\ LET l == Head(todo[t]).lock
     IN IF holder[l] = Nobody
        THEN lockState' = [lockState EXCEPT ![l] = "destroyed"] /\ UNCHANGED phase
        ELSE phase' = "aborted" /\ UNCHANGED lockState
  /\ UNCHANGED <<pc, holder, depth, strings, misused, exiter>>

\* __deinitConsole: the driver destroys its lock if it has one, after a last
\* section under it.
DeinitConsole(t) ==
  /\ At(t, "noConsole")
  /\ ~Over /\ pc[t] = "live"
  /\ todo' = [todo EXCEPT ![t] =
       (IF lockState["consoleLock"] = None THEN <<>>
        ELSE Section("consoleLock") \o <<Destroy("consoleLock")>>) \o Tail(@)]
  /\ UNCHANGED <<phase, pc, lockState, holder, depth, strings, misused, exiter>>

\* The exit handler returns and the process ends.
Gone ==
  /\ phase = "exit" /\ misused = None
  /\ todo[exiter] = <<>>
  /\ phase' = "gone"
  /\ UNCHANGED <<pc, todo, lockState, holder, depth, strings, exiter, misused>>

LibraryStep(t) ==
  \/ Obtain(t) \/ Release(t) \/ Kill(t)
  \/ CreateLock(t) \/ InitConsole(t) \/ InitLanguage(t)
  \/ DestroyLock(t) \/ KillAll(t) \/ CloseHandles(t) \/ CloseHandle(t)
  \/ DeinitConsole(t) \/ DeinitLanguage(t)

Next ==
  \/ \E t \in Thread : \/ LibraryStep(t) \/ Call(t) \/ ThreadReturns(t)
                       \/ TerminateOther(t) \/ Exit(t)
  \/ \E t, u \in Thread : Spin(t, u)
  \/ InitFails \/ InitDone \/ Interrupt \/ Gone

\* A thread inside the library goes on, and so does the end of the process;
\* what the program does next is its own choice.
Fairness == (\A t \in Thread : WF_vars(LibraryStep(t))) /\ WF_vars(Gone)

Spec == Init /\ [][Next]_vars /\ Fairness

------------------------------------------------------------------------------
(* No lock is used before __createThreadLock or after __destroyThreadLock   *)
(* (Threads.c:372, :399): __initThreads, the last init call, starts the     *)
(* main thread in every module (Initialize.c:149), and the exit handler     *)
(* destroys the locks while calls of other threads may be under way.        *)
LocksExistWhenUsed == misused = None

\* t waits for a lock u holds.
WaitsFor(t, u) ==
  /\ pc[t] = "live"
  /\ At(t, "get")
  /\ holder[Head(todo[t]).lock] = u
  /\ u # t

(* Threads never wait for each other in a circle, though several of the     *)
(* library's calls look for the caller's index under a lock of their own    *)
(* (BasicError.c:198, FileSystemFunctions.c:458) and OPEN keeps its lock    *)
(* (FileIOFunctions.c:269).                                                 *)
NoCircularWait ==
  \A S \in SUBSET Thread :
    S # {} => \E t \in S : \A u \in S : ~WaitsFor(t, u)

(* When the exit handler is through, every lock __initBasicLib created has  *)
(* been destroyed and nobody holds any (Initialize.c:159).  An error that   *)
(* cuts it short still found the text it prints (BasicError.c:494): the     *)
(* texts go last.                                                           *)
ShutdownIsComplete ==
  /\ phase = "gone" => /\ \A l \in Lock : lockState[l] # "ready"
                       /\ \A l \in Lock : holder[l] = Nobody
  /\ phase = "aborted" => strings

(* A program that ends with its threads ended comes to its end, unless one  *)
(* of them left a lock taken, as OPEN does: the exit handler closes every   *)
(* handle, each under the lock of OPEN (FileIOFunctions.c:72), and waits    *)
(* for nothing that does not come, even when it interrupts main in the      *)
(* middle of a call (SignalHandlers.c:40).                                  *)
ExitEnds ==
  phase = "exit" /\ (\A l \in Lock : holder[l] \in {exiter, Nobody})
    ~> phase \in {"gone", "aborted"}

=============================================================================
