------------------------------- MODULE Threads -------------------------------
(***************************************************************************)
(* The thread registry of BASIClib (Threads.c, built without               *)
(* SINGLE_THREADED) and the per-thread table of BasicError.c, which is     *)
(* sized from it.                                                          *)
(*                                                                         *)
(* What Threads.c does between obtaining and releasing its lock is one     *)
(* action: it calls out only to pthread_create and pthread_detach.  The    *)
(* code between two such sections runs unlocked and is an action of its    *)
(* own, so the sections of several threads interleave.  SIGKILL ends the   *)
(* thread it is sent to, as the code expects; a thread killed inside the   *)
(* library may hold the lock, which then stays taken, as it does when the  *)
(* collector's pthread_create waits for a thread the system refused.       *)
(*                                                                         *)
(* The first undefined step (a read past the vector, a use of the vector   *)
(* after the collector freed it, a signal to an indeterminate thread) sets *)
(* fault and ends the behaviour.                                           *)
(***************************************************************************)
EXTENDS Integers, FiniteSets

CONSTANTS
  Thread,       \* operating-system threads; none is used twice
  Main,         \* the thread that initialised the library
  Killers,      \* threads whose program calls __terminateThread on others
  Waiters,      \* threads whose program calls __waitForThreadToDie
  MaxLive,      \* how many threads the program runs at a time
  MaxFailures,  \* bound on failing pthread_create calls
  NULL,         \* the free mark of the vector
  Wild          \* an indeterminate pthread_t

ASSUME MainAssumption == Main \in Thread
ASSUME RoleAssumption == Killers \subseteq Thread /\ Waiters \subseteq Thread
ASSUME NullAssumption == NULL \notin Thread /\ Wild \notin Thread /\ Wild # NULL
ASSUME BoundAssumption == MaxLive \in Nat /\ MaxFailures \in Nat

VARIABLES
  pc,           \* where each thread is
  tidx,         \* tidx[t]: the index __spinThread chose for t
  indexes,      \* the vector of thread ids, 0..maxIndex
  maxIndex,
  threadCount,
  block,        \* vector elements the collector's block was allocated for
  detached,     \* threads pthread_detach was called on
  lock,         \* a killed or stuck thread that owns the lock, or NULL
  target,       \* target[t]: the index and thread id t works on
  want,         \* want[t]: maxThreads in t's __initThreadBasicError
  tableSize,    \* elements of basicErrno and onErrorThreadStates
  failures,     \* history: failing pthread_create calls
  missed,       \* history: terminations that found their slot free
  fault         \* "none", or the first undefined step

vars == <<pc, tidx, indexes, maxIndex, threadCount, block, detached, lock,
          target, want, tableSize, failures, missed, fault>>

PC == {"unborn", "created", "sizing", "running", "leaving", "detached",
       "killing", "striking", "joining", "blocked", "stuck", "dead"}

NoTarget == [idx |-> -1, tid |-> NULL]

TypeOK ==
  /\ pc \in [Thread -> PC]
  /\ tidx \in [Thread -> Nat]
  /\ maxIndex \in Nat \union {-1}
  /\ indexes \in [0..maxIndex -> Thread \union {NULL}]
  /\ threadCount \in Int
  /\ block \in Nat
  /\ detached \subseteq Thread
  /\ lock \in Thread \union {NULL}
  /\ target \in [Thread -> [idx : Nat \union {-1},
                            tid : Thread \union {NULL, Wild}]]
  /\ want \in [Thread -> Nat]
  /\ tableSize \in Nat
  /\ failures \in 0..MaxFailures
  /\ missed \in Nat
  /\ fault \in {"none", "bounds", "freed", "wild"}

Born == {t \in Thread : pc[t] # "unborn"}
Live == {t \in Born : pc[t] # "dead"}
Listed == {indexes[i] : i \in 0..maxIndex} \ {NULL}

------------------------------------------------------------------------------
\* __initThreads, and the main thread's own __initThread(0).
Init ==
  /\ pc = [t \in Thread |-> IF t = Main THEN "running" ELSE "unborn"]
  /\ tidx = [t \in Thread |-> 0]
  /\ maxIndex = 0
  /\ indexes = [i \in 0..0 |-> Main]
  /\ threadCount = 1
  /\ block = 1
  /\ detached = {}
  /\ lock = NULL
  /\ target = [t \in Thread |-> NoTarget]
  /\ want = [t \in Thread |-> 0]
  /\ tableSize = 1
  /\ failures = 0
  /\ missed = 0
  /\ fault = "none"

\* A section under the lock can run.
Unlocked == lock = NULL /\ fault = "none"

\* A mutant of IsSpinSlot: the last slot is taken for a free one.
IsSpinSlotLast(s) == s = maxIndex

\* The slot __spinThread takes: the first free one, or one past the last.
IsSpinSlot(s) ==
  /\ s \in 0..(maxIndex + 1)
  /\ s <= maxIndex => indexes[s] = NULL
  /\ \A i \in 0..maxIndex : i < s => indexes[i] # NULL

\* A mutant of StoreInSlot: a thread that reuses a slot is not counted.
StoreInSlotCountsGrowth(s, tid) ==
  /\ maxIndex' = IF s > maxIndex THEN s ELSE maxIndex
  /\ indexes' = [i \in 0..maxIndex' |-> IF i = s THEN tid ELSE indexes[i]]
  /\ block' = IF s + 1 > block THEN s + 1 ELSE block
  /\ threadCount' = threadCount + maxIndex' - maxIndex

\* The vector after tid is stored in slot s, which may make it grow.
StoreInSlot(s, tid) ==
  /\ maxIndex' = IF s > maxIndex THEN s ELSE maxIndex
  /\ indexes' = [i \in 0..maxIndex' |-> IF i = s THEN tid ELSE indexes[i]]
  /\ block' = IF s + 1 > block THEN s + 1 ELSE block
  /\ threadCount' = threadCount + 1

\* __spinThread: thread t creates thread u.
Spin(t, u) ==
  /\ Unlocked
  /\ pc[t] = "running"
  /\ pc[u] = "unborn"
  /\ Cardinality(Live) < MaxLive
  /\ \E s \in 0..(maxIndex + 1) :
       /\ IsSpinSlot(s)
       /\ StoreInSlot(s, u)
       /\ tidx' = [tidx EXCEPT ![u] = s]
  /\ pc' = [pc EXCEPT ![u] = "created"]
  /\ UNCHANGED <<detached, lock, target, want, tableSize, failures, missed, fault>>

\* pthread_create fails: the slot, the count and maxIndex stay as they are by
\* then.
CreateFails(t) ==
  /\ Unlocked
  /\ pc[t] = "running"
  /\ failures < MaxFailures
  /\ \E s \in 0..(maxIndex + 1) : IsSpinSlot(s) /\ StoreInSlot(s, NULL)
  /\ failures' = failures + 1
  /\ UNCHANGED <<tidx, detached, target, want, tableSize, missed, fault>>

\* The collector's wrapper found no memory: t gets the runtime error, which its
\* program handles.
SpinFails(t) ==
  /\ CreateFails(t)
  /\ UNCHANGED <<pc, lock>>

\* The system refused the thread: the wrapper waits for its registration, which
\* never comes, with the registry's lock taken.
SpinSticks(t) ==
  /\ CreateFails(t)
  /\ pc' = [pc EXCEPT ![t] = "stuck"]
  /\ lock' = t

\* __initThreadBasicError, first line: __getHighestThreadIndex takes no lock.
ReadHighest(t) ==
  /\ fault = "none"
  /\ pc[t] = "created"
  /\ want' = [want EXCEPT ![t] = maxIndex + 1]
  /\ pc' = [pc EXCEPT ![t] = "sizing"]
  /\ UNCHANGED <<tidx, indexes, maxIndex, threadCount, block, detached, lock,
                 target, tableSize, failures, missed, fault>>

\* The rest of it, under basicErrorLock: both tables get the size read before,
\* and the thread's elements are cleared, inside the tables or not.
ResizeTables(t) ==
  /\ fault = "none"
  /\ pc[t] = "sizing"
  /\ tableSize' = want[t]
  /\ pc' = [pc EXCEPT ![t] = "running"]
  /\ fault' = IF tidx[t] < want[t] THEN fault ELSE "bounds"
  /\ want' = [want EXCEPT ![t] = 0]
  /\ UNCHANGED <<tidx, indexes, maxIndex, threadCount, block, detached, lock,
                 target, failures, missed>>

\* __getCurrentThreadIndex of a thread the vector does not hold: its loop has
\* no upper bound.
LookupStrays(t) ==
  /\ Unlocked
  /\ pc[t] = "running"
  /\ t \notin Listed
  /\ fault' = "bounds"
  /\ UNCHANGED <<pc, tidx, indexes, maxIndex, threadCount, block, detached,
                 lock, target, want, tableSize, failures, missed>>

\* __terminateCurrentThread looks its index up; also the end of __threadEntry.
Leave(t) ==
  /\ Unlocked
  /\ pc[t] = "running"
  /\ t # Main
  /\ \E i \in 0..maxIndex :
       /\ indexes[i] = t
       /\ target' = [target EXCEPT ![t] = [idx |-> i, tid |-> t]]
  /\ pc' = [pc EXCEPT ![t] = "leaving"]
  /\ UNCHANGED <<tidx, indexes, maxIndex, threadCount, block, detached, lock,
                 want, tableSize, failures, missed, fault>>

\* What the collector may do to the old block, whose new address the code
\* drops: keep it in place, or free it once it is less than half used (the
\* boundary case depends on how the collector was built).
ShrinkOutcomes(n) ==
  IF 2 * n < block THEN {"freed"}
  ELSE IF 2 * n = block THEN {"none", "freed"} ELSE {"none"}

\* The locked section of __prepareThreadToTerminate for index k.  It keeps the
\* vector below its highest free slot n.
TakeOut(k) ==
  IF k > maxIndex
  THEN /\ fault' = "bounds"
       /\ UNCHANGED <<indexes, maxIndex, threadCount, detached, missed>>
  ELSE LET cleared == [indexes EXCEPT ![k] = NULL] IN
       \E n \in 0..maxIndex :
         /\ cleared[n] = NULL
         /\ \A i \in 0..maxIndex : i > n => cleared[i] # NULL
         /\ threadCount' = threadCount - 1
         /\ maxIndex' = n - 1
         /\ indexes' = [i \in 0..(n - 1) |-> cleared[i]]
         /\ detached' = detached \union ({indexes[k]} \ {NULL})
         /\ missed' = IF indexes[k] = NULL THEN missed + 1 ELSE missed
         /\ fault' \in ShrinkOutcomes(n)

\* A mutant of Prepare: the thread stays in the vector.
PrepareKeepsSlot(t) ==
  /\ Unlocked
  /\ pc[t] \in {"leaving", "killing"}
  /\ pc' = [pc EXCEPT ![t] = IF @ = "leaving" THEN "detached" ELSE "striking"]
  /\ UNCHANGED <<tidx, indexes, maxIndex, threadCount, block, detached, lock,
                 target, want, tableSize, failures, missed, fault>>

Prepare(t) ==
  /\ Unlocked
  /\ pc[t] \in {"leaving", "killing"}
  /\ TakeOut(target[t].idx)
  /\ pc' = [pc EXCEPT ![t] = IF @ = "leaving" THEN "detached" ELSE "striking"]
  /\ UNCHANGED <<tidx, block, lock, target, want, tableSize, failures>>

\* pthread_exit.
Exit(t) ==
  /\ fault = "none"
  /\ pc[t] = "detached"
  /\ pc' = [pc EXCEPT ![t] = "dead"]
  /\ target' = [target EXCEPT ![t] = NoTarget]
  /\ UNCHANGED <<tidx, indexes, maxIndex, threadCount, block, detached, lock,
                 want, tableSize, failures, missed, fault>>

\* The locked lookup of __terminateThread(i): the thread id stays indeterminate
\* when i is outside the vector.
LookUpVictim(t, i) ==
  /\ Unlocked
  /\ t \in Killers
  /\ pc[t] = "running"
  /\ t \in Listed
  /\ i <= maxIndex => indexes[i] # t
  /\ target' = [target EXCEPT ![t] =
                  [idx |-> i, tid |-> IF i <= maxIndex THEN indexes[i] ELSE Wild]]
  /\ pc' = [pc EXCEPT ![t] = "killing"]
  /\ UNCHANGED <<tidx, indexes, maxIndex, threadCount, block, detached, lock,
                 want, tableSize, failures, missed, fault>>

\* pthread_kill(thread, SIGKILL) finds no thread to end.
StrikeNobody(t) ==
  /\ fault = "none"
  /\ pc[t] = "striking"
  /\ target[t].tid \notin Live
  /\ pc' = [pc EXCEPT ![t] = "running"]
  /\ target' = [target EXCEPT ![t] = NoTarget]
  /\ fault' = IF target[t].tid = Wild THEN "wild" ELSE "none"
  /\ UNCHANGED <<tidx, indexes, maxIndex, threadCount, block, detached, lock,
                 want, tableSize, failures, missed>>

\* pthread_kill(thread, SIGKILL).  A victim whose code enters a locked section
\* may be inside it.
Strike(t, v) ==
  /\ fault = "none"
  /\ pc[t] = "striking"
  /\ target[t].tid = v
  /\ v \in Live
  /\ pc' = [pc EXCEPT ![t] = "running", ![v] = "dead"]
  /\ target' = [target EXCEPT ![t] = NoTarget, ![v] = NoTarget]
  /\ want' = [want EXCEPT ![v] = 0]
  /\ \/ UNCHANGED lock
     \/ /\ lock = NULL
        /\ pc[v] \in {"running", "leaving", "killing"}
        /\ lock' = v
  /\ UNCHANGED <<tidx, indexes, maxIndex, threadCount, block, detached,
                 tableSize, failures, missed, fault>>

\* The locked lookup of __waitForThreadToDie(i), for an i that names a thread.
LookUpForJoin(t, i) ==
  /\ Unlocked
  /\ t \in Waiters
  /\ pc[t] = "running"
  /\ i \in 0..maxIndex
  /\ indexes[i] \notin {NULL, t}
  /\ target' = [target EXCEPT ![t] = [idx |-> i, tid |-> indexes[i]]]
  /\ pc' = [pc EXCEPT ![t] = "joining"]
  /\ UNCHANGED <<tidx, indexes, maxIndex, threadCount, block, detached, lock,
                 want, tableSize, failures, missed, fault>>

\* pthread_join: refused for a detached or finished thread, else it blocks.
Join(t) ==
  LET v == target[t].tid IN
  /\ fault = "none"
  /\ pc[t] = "joining"
  /\ IF v \in detached \/ v \notin Live
     THEN /\ pc' = [pc EXCEPT ![t] = "running"]
          /\ target' = [target EXCEPT ![t] = NoTarget]
     ELSE /\ pc' = [pc EXCEPT ![t] = "blocked"]
          /\ UNCHANGED target
  /\ UNCHANGED <<tidx, indexes, maxIndex, threadCount, block, detached, lock,
                 want, tableSize, failures, missed, fault>>

\* A mutant of Wake: the end of a detached thread wakes nobody.
WakeUnlessDetached(t) ==
  /\ fault = "none"
  /\ pc[t] = "blocked"
  /\ target[t].tid \notin Live \union detached
  /\ pc' = [pc EXCEPT ![t] = "running"]
  /\ target' = [target EXCEPT ![t] = NoTarget]
  /\ UNCHANGED <<tidx, indexes, maxIndex, threadCount, block, detached, lock,
                 want, tableSize, failures, missed, fault>>

Wake(t) ==
  /\ fault = "none"
  /\ pc[t] = "blocked"
  /\ target[t].tid \notin Live
  /\ pc' = [pc EXCEPT ![t] = "running"]
  /\ target' = [target EXCEPT ![t] = NoTarget]
  /\ UNCHANGED <<tidx, indexes, maxIndex, threadCount, block, detached, lock,
                 want, tableSize, failures, missed, fault>>

\* What a thread does by itself once it is inside the library.
Progress(t) ==
  \/ ReadHighest(t) \/ ResizeTables(t) \/ Prepare(t) \/ Exit(t)
  \/ StrikeNobody(t) \/ \E v \in Thread : Strike(t, v)
  \/ Join(t) \/ Wake(t)

Next ==
  \E t \in Thread :
    \/ \E u \in Thread : Spin(t, u)
    \/ SpinFails(t)
    \/ SpinSticks(t)
    \/ LookupStrays(t)
    \/ Leave(t)
    \/ \E u \in Born : LookUpVictim(t, tidx[u])
    \/ \E u \in Born : LookUpForJoin(t, tidx[u])
    \/ Progress(t)

\* The operating system runs every thread; what a program calls is its choice.
Spec == Init /\ [][Next]_vars /\ \A t \in Thread : WF_vars(Progress(t))

------------------------------------------------------------------------------
(* A slot of the vector names a thread that has not ended, and the slot is  *)
(* the index that thread was given: data kept per index belongs to it.      *)
RegistrySound ==
  \A i \in 0..maxIndex :
    indexes[i] # NULL => indexes[i] \in Live /\ tidx[indexes[i]] = i

\* A thread with a lower index than t was terminated.
Outlived(t) == \E u \in detached : tidx[u] < tidx[t]

(* The registry loses a running thread only to one that was terminated at a *)
(* lower index (Threads.c:148-157): threads that start, stop and kill each  *)
(* other in any order never push out one at or below their own index.       *)
LostOnlyToLower ==
  \A t \in Born : t \in Listed \/ t \in detached \/ Outlived(t)

(* __getThreadCount (Threads.c:305-309) counts the threads that were spun   *)
(* and not terminated, one too many for each thread the system refused      *)
(* (:285-297) and one too few for each termination of an index whose thread *)
(* was gone by then (:143-147); nothing else moves it, in any order.        *)
CountAccounted ==
  threadCount + missed = Cardinality(Born \ detached) + failures


(* Once __initThread has run for a thread, the tables of BasicError.c hold  *)
(* an element for it (BasicError.c:105-106).                                *)
TableCoversThread ==
  \A t \in Live :
    pc[t] \notin {"created", "sizing", "detached"} => tidx[t] < tableSize

(* __waitForThreadToDie returns only after the thread has ended             *)
(* (Threads.c:207-208, threads.txt:141-144).                                *)
WaitOutlastsThread ==
  [][\A t \in Thread :
       pc[t] \in {"joining", "blocked"} /\ pc'[t] = "running"
         => target[t].tid \notin Live]_vars

(* The vector the registry works on is allocated (Threads.c:126: it is      *)
(* resized when a thread terminates).                                       *)
VectorStaysAllocated == fault # "freed"

(* A thread that is blocked in __waitForThreadToDie goes on once the thread *)
(* it waits for has begun to terminate, unless that one waits for a lock    *)
(* nobody will give back (Threads.c:223).                                   *)
WaiterGoesOn ==
  \A t \in Waiters : \A u \in Thread \ {t} :
    pc[t] = "blocked" /\ target[t].tid = u /\ pc[u] \in {"leaving", "detached"}
      ~> \/ pc[t] # "blocked"
         \/ pc[u] = "leaving" /\ lock # NULL
         \/ fault # "none"

=============================================================================
