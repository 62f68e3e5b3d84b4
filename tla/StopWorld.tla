----------------------------- MODULE StopWorld -----------------------------
(***************************************************************************)
(* How the garbage collector stops a program's threads while it marks and  *)
(* lets them go on (libgc/linux_threads.c).  BASIClib/Threads.c creates    *)
(* and joins its threads through this module (libgc/gc.h:745), but         *)
(* detaches them behind its back.                                          *)
(*                                                                         *)
(* The allocation lock protects the table of threads; a section under it   *)
(* is one step unless a collection is made in it.  A signal that is        *)
(* pending is not queued a second time.  The semaphores wait through       *)
(* signals.  The collector is not incremental, and SIG_SUSPEND cannot be   *)
(* masked by the program (pthread_sigmask is wrapped).  All threads hash   *)
(* to one list of the table, the newest first.                             *)
(***************************************************************************)
EXTENDS Integers, FiniteSets

CONSTANTS
  Thread,          \* none is used twice
  Main, Nobody,
  Id,              \* what pthread_t there are; one is used again when it is free
  MainId,
  EndsBy,          \* how threads end, out of "returns" and "exits"
  JoinsDetached    \* whether a thread is joined that has detached itself

ASSUME ThreadAssumption ==
  IsFiniteSet(Thread) /\ Main \in Thread /\ Nobody \notin Thread /\ MainId \in Id
ASSUME EndsAssumption ==
  EndsBy \subseteq {"returns", "exits"} /\ JoinsDetached \in BOOLEAN

SIG_SUSPEND == "SIGPWR"
SIG_RESTART == "SIGXCPU"

VARIABLES
  pc,         \* where each thread is
  id,         \* its pthread_t
  aim,        \* the thread it has created and waits for, or joins
  record,     \* the record of that thread, which a join is going to remove
  left,       \* the threads whose resources the system releases at their end
  GC_threads, \* the records, each of the thread that made it
  next,       \* the records behind each in the list
  FINISHED, DETACHED,   \* the records with these flags
  lock,       \* the owner of the allocation lock
  phase,      \* of the collection its owner makes
  todo,       \* the records GC_stop_world() or GC_start_world() have yet to look at
  live,       \* n_live_threads, less the acknowledgements waited for
  acks,       \* GC_suspend_ack_sem
  pending,    \* the signals sent to a thread and not yet taken
  handler     \* GC_suspend_handler() of each thread: "none", "acked", "waits"

threads == <<pc, id, aim, record, left>>
table == <<GC_threads, next, FINISHED, DETACHED>>
collection == <<lock, phase, todo, live>>
signals == <<acks, pending, handler>>
vars == <<pc, id, aim, record, left, GC_threads, next, FINISHED, DETACHED, lock, phase, todo,
          live, acks, pending, handler>>

\* What a thread does when it is neither waiting nor about to end.
Busy == {"runs", "creates", "awaits", "joins", "joined"}

TypeOK ==
  /\ pc \in [Thread -> Busy \union {"unborn", "starting", "registered", "exiting", "dead", "gone"}]
  /\ id \in [Thread -> Id]
  /\ aim \in [Thread -> Thread \union {Nobody}]
  /\ record \in [Thread -> Thread \union {Nobody}]
  /\ left \subseteq Thread
  /\ GC_threads \subseteq Thread /\ next \in [Thread -> SUBSET Thread]
  /\ FINISHED \subseteq Thread /\ DETACHED \subseteq Thread
  /\ lock \in Thread \union {Nobody}
  /\ phase \in {"none", "stopping", "waiting", "stopped", "starting"}
  /\ todo \subseteq Thread
  /\ live \in Nat /\ acks \in Nat
  /\ pending \in [Thread -> SUBSET {SIG_SUSPEND, SIG_RESTART}]
  /\ handler \in [Thread -> {"none", "acked", "waits"}]

\* GC_thr_init() has been called.
Init ==
  /\ pc = [t \in Thread |-> IF t = Main THEN "runs" ELSE "unborn"]
  /\ id = [t \in Thread |-> MainId]
  /\ aim = [t \in Thread |-> Nobody] /\ record = aim
  /\ left = {}
  /\ GC_threads = {Main} /\ next = [t \in Thread |-> {}]
  /\ FINISHED = {} /\ DETACHED = {Main}
  /\ lock = Nobody /\ phase = "none" /\ todo = {} /\ live = 0
  /\ acks = 0
  /\ pending = [t \in Thread |-> {}]
  /\ handler = [t \in Thread |-> "none"]

------------------------------------------------------------------------------
Alive(t) == pc[t] \in Busy \union {"starting", "registered", "exiting"}

\* Ids that denote a thread, or one that has ended and was not joined.
Taken == {id[t] : t \in {u \in Thread : Alive(u) \/ pc[u] = "dead"}}

\* The thread pthread_kill() sends a signal to.
Bearer(i) == {t \in Thread : Alive(t) /\ id[t] = i}

\* GC_lookup_thread(): the newest record with the id.
Records(i) == {t \in GC_threads : id[t] = i}
Lookup(i) ==
  IF Records(i) = {} THEN Nobody
  ELSE CHOOSE t \in Records(i) : \A u \in Records(i) : t \notin next[u]

\* GC_delete_thread() and GC_delete_gc_thread().
Delete(t) ==
  /\ GC_threads' = GC_threads \ {t}
  /\ next' = [u \in Thread |-> IF u = t THEN {} ELSE next[u] \ {t}]

\* t executes the code there: no signal's handler, and no collection.
At(t, where) == pc[t] = where /\ handler[t] = "none" /\ (lock = t => phase = "none")

\* t may take the allocation lock, or has it already.
MayLock(t) == lock \in {Nobody, t} /\ phase = "none"

------------------------------------------------------------------------------
\* GC_pthread_create(): the attributes are looked at under the lock.
Create(t) ==
  /\ At(t, "runs") /\ MayLock(t)
  /\ pc' = [pc EXCEPT ![t] = "creates"]
  /\ UNCHANGED <<id, aim, record, left, table, collection, signals>>

\* pthread_create() makes u, which has a pthread_t of its own.  Then t waits for
\* the semaphore in u's start_info.  Threads that are not born yet are all alike.
Spawn(t, u) ==
  /\ At(t, "creates") /\ pc[u] = "unborn" /\ u = CHOOSE v \in Thread : pc[v] = "unborn"
  /\ \E i \in Id \ Taken : id' = [id EXCEPT ![u] = i]
  /\ \E d \in BOOLEAN :
       /\ DETACHED' = IF d THEN DETACHED \union {u} ELSE DETACHED
       /\ left' = IF d THEN left \union {u} ELSE left
  /\ pc' = [pc EXCEPT ![t] = "awaits", ![u] = "starting"]
  /\ aim' = [aim EXCEPT ![t] = u]
  /\ UNCHANGED <<record, GC_threads, next, FINISHED, collection, signals>>

\* It fails, and t waits for a thread that is not there.
SpawnFails(t) ==
  /\ At(t, "creates")
  /\ pc' = [pc EXCEPT ![t] = "awaits"]
  /\ UNCHANGED <<id, aim, record, left, table, collection, signals>>

\* GC_start_routine() under the lock: GC_new_thread().
Register(u) ==
  /\ At(u, "starting") /\ MayLock(u)
  /\ GC_threads' = GC_threads \union {u}
  /\ next' = [next EXCEPT ![u] = GC_threads]
  /\ pc' = [pc EXCEPT ![u] = "registered"]
  /\ lock' = Nobody
  /\ UNCHANGED <<id, aim, record, left, FINISHED, DETACHED, phase, todo, live, signals>>

\* A mutant of Registered: the parent does not wait.
RegisteredAnyway(u) == TRUE

\* The semaphore of u has been posted.
Registered(u) == pc[u] \notin {"starting", "registered"}

Post(u) ==
  /\ At(u, "registered")
  /\ pc' = [pc EXCEPT ![u] = "runs"]
  /\ UNCHANGED <<id, aim, record, left, table, collection, signals>>

Created(t) ==
  /\ At(t, "awaits") /\ aim[t] # Nobody
  /\ Registered(aim[t])
  /\ pc' = [pc EXCEPT ![t] = "runs"]
  /\ aim' = [aim EXCEPT ![t] = Nobody]
  /\ UNCHANGED <<id, record, left, table, collection, signals>>

\* pthread_detach() of the thread itself (Threads.c:159), which is not wrapped.
Detach(t) ==
  /\ At(t, "runs") /\ t # Main
  /\ left' = IF \E u \in Thread : pc[u] = "joins" /\ aim[u] = t THEN left ELSE left \union {t}
  /\ UNCHANGED <<pc, id, aim, record, table, collection, signals>>

\* The thread's function returns and the flag is set without the lock; or the
\* thread calls pthread_exit().
End(t) ==
  /\ At(t, "runs") /\ t # Main
  /\ \E how \in EndsBy :
       FINISHED' = IF how = "returns" THEN FINISHED \union {t} ELSE FINISHED
  /\ pc' = [pc EXCEPT ![t] = "exiting"]
  /\ UNCHANGED <<id, aim, record, left, GC_threads, next, DETACHED, collection, signals>>

\* A mutant of ExitProc: the record of a detached thread stays.
ExitProcKeeps(t) ==
  /\ At(t, "exiting") /\ MayLock(t)
  /\ UNCHANGED <<GC_threads, next, FINISHED>>
  /\ pc' = [pc EXCEPT ![t] = IF t \in left THEN "gone" ELSE "dead"]
  /\ UNCHANGED <<id, aim, record, left, DETACHED, collection, signals>>

\* GC_thread_exit_proc(), and the end of the thread.
ExitProc(t) ==
  LET me == Lookup(id[t])
  IN /\ At(t, "exiting") /\ MayLock(t)
     /\ IF me \in DETACHED THEN Delete(me) /\ UNCHANGED FINISHED
        ELSE FINISHED' = FINISHED \union {me} /\ UNCHANGED <<GC_threads, next>>
     /\ pc' = [pc EXCEPT ![t] = IF t \in left THEN "gone" ELSE "dead"]
     /\ UNCHANGED <<id, aim, record, left, DETACHED, collection, signals>>

\* GC_pthread_join(): the record is looked up under the lock.  What is joined is
\* not detached, unless by itself, and nobody else joins it.
Join(t, u) ==
  /\ At(t, "runs") /\ MayLock(t)
  /\ u # t /\ pc[u] \notin {"unborn", "gone"} /\ Registered(u) /\ u \notin DETACHED
  /\ u \notin left \/ JoinsDetached
  /\ \A v \in Thread : aim[v] # u
  /\ pc' = [pc EXCEPT ![t] = "joins"]
  /\ aim' = [aim EXCEPT ![t] = u]
  /\ record' = [record EXCEPT ![t] = Lookup(id[u])]
  /\ UNCHANGED <<id, left, table, collection, signals>>

\* pthread_join() returns, at once if the thread is detached.  The id is free.
Joined(t) ==
  LET u == aim[t]
  IN /\ At(t, "joins")
     /\ pc[u] = "dead" \/ u \in left
     /\ pc' = [pc EXCEPT ![t] = "joined", ![u] = IF pc[u] = "dead" THEN "gone" ELSE pc[u]]
     /\ UNCHANGED <<id, aim, record, left, table, collection, signals>>

\* GC_delete_gc_thread().
JoinEnd(t) ==
  /\ At(t, "joined") /\ MayLock(t)
  /\ Delete(record[t])
  /\ pc' = [pc EXCEPT ![t] = "runs"]
  /\ aim' = [aim EXCEPT ![t] = Nobody]
  /\ record' = [record EXCEPT ![t] = Nobody]
  /\ UNCHANGED <<id, left, FINISHED, DETACHED, collection, signals>>

------------------------------------------------------------------------------
\* All records but those with t's own id.
Others(t) == {u \in GC_threads : id[u] # id[t]}

\* t allocates, and the allocation makes a collection: GC_stop_world().  So may
\* GC_new_thread() of a thread that is not in the table yet.
Collect(t) ==
  /\ At(t, "runs") \/ At(t, "starting")
  /\ lock = Nobody
  /\ lock' = t
  /\ phase' = "stopping"
  /\ todo' = Others(t)
  /\ live' = 0
  /\ UNCHANGED <<threads, table, signals>>

\* The loops' body: pthread_kill(), but for a record that is finished.
Sends(u, sig) ==
  /\ todo' = todo \ {u}
  /\ pending' = IF u \in FINISHED THEN pending
                ELSE [t \in Thread |-> IF t \in Bearer(id[u]) THEN pending[t] \union {sig}
                                       ELSE pending[t]]

\* A thread that is not there any more (ESRCH) is not counted.
Suspend(t, u) ==
  /\ lock = t /\ phase = "stopping" /\ u \in todo
  /\ Sends(u, SIG_SUSPEND)
  /\ live' = IF u \in FINISHED \/ Bearer(id[u]) = {} THEN live ELSE live + 1
  /\ UNCHANGED <<threads, table, lock, phase, acks, handler>>

Suspended(t) ==
  /\ lock = t /\ phase = "stopping" /\ todo = {}
  /\ phase' = "waiting"
  /\ UNCHANGED <<threads, table, lock, todo, live, signals>>

\* sem_wait().
Wait(t) ==
  /\ lock = t /\ phase = "waiting" /\ live > 0
  /\ acks > 0
  /\ acks' = acks - 1
  /\ live' = live - 1
  /\ UNCHANGED <<threads, table, lock, phase, todo, pending, handler>>

\* A mutant of Stopped: one acknowledgement is not waited for.
StoppedEarly(t) ==
  /\ lock = t /\ phase = "waiting" /\ live <= 1
  /\ phase' = "stopped"
  /\ live' = 0
  /\ UNCHANGED <<threads, table, lock, todo, signals>>

Stopped(t) ==
  /\ lock = t /\ phase = "waiting" /\ live = 0
  /\ phase' = "stopped"
  /\ UNCHANGED <<threads, table, lock, todo, live, signals>>

\* The heap is marked (Marker), and GC_start_world() begins.
Marked(t) ==
  /\ lock = t /\ phase = "stopped"
  /\ phase' = "starting"
  /\ todo' = Others(t)
  /\ UNCHANGED <<threads, table, lock, live, signals>>

Restart(t, u) ==
  /\ lock = t /\ phase = "starting" /\ u \in todo
  /\ Sends(u, SIG_RESTART)
  /\ UNCHANGED <<threads, table, lock, phase, live, acks, handler>>

\* The allocation ends.  A thread that registers itself keeps the lock.
Started(t) ==
  /\ lock = t /\ phase = "starting" /\ todo = {}
  /\ phase' = "none"
  /\ lock' = IF pc[t] = "starting" THEN t ELSE Nobody
  /\ UNCHANGED <<threads, table, todo, live, signals>>

Collects(t) ==
  \/ \E u \in Thread : Suspend(t, u) \/ Restart(t, u)
  \/ Suspended(t) \/ Wait(t) \/ Stopped(t) \/ Marked(t) \/ Started(t)

------------------------------------------------------------------------------
\* SIG_SUSPEND: GC_suspend_handler() up to its sem_post(), with all signals masked.
TakeSuspend(t) ==
  /\ Alive(t) /\ handler[t] = "none" /\ SIG_SUSPEND \in pending[t]
  /\ pending' = [pending EXCEPT ![t] = @ \ {SIG_SUSPEND}]
  /\ handler' = [handler EXCEPT ![t] = "acked"]
  /\ acks' = acks + 1
  /\ UNCHANGED <<threads, table, collection>>

\* signal = 0, and sigsuspend() with SIG_RESTART unmasked.
Sigsuspend(t) ==
  /\ handler[t] = "acked"
  /\ handler' = [handler EXCEPT ![t] = "waits"]
  /\ UNCHANGED <<threads, table, collection, acks, pending>>

\* A mutant of TakeRestart: the signal is not masked until then, and is reset.
TakeRestartUnmasked(t) ==
  /\ handler[t] \in {"acked", "waits"} /\ SIG_RESTART \in pending[t]
  /\ pending' = [pending EXCEPT ![t] = @ \ {SIG_RESTART}]
  /\ handler' = [handler EXCEPT ![t] = IF @ = "waits" THEN "none" ELSE "acked"]
  /\ UNCHANGED <<threads, table, collection, acks>>

\* SIG_RESTART: GC_restart_handler(), after which the loop ends.
TakeRestart(t) ==
  /\ handler[t] = "waits" /\ SIG_RESTART \in pending[t]
  /\ pending' = [pending EXCEPT ![t] = @ \ {SIG_RESTART}]
  /\ handler' = [handler EXCEPT ![t] = "none"]
  /\ UNCHANGED <<threads, table, collection, acks>>

Handles(t) == TakeSuspend(t) \/ Sigsuspend(t) \/ TakeRestart(t)

Next == \E t \in Thread :
  \/ Create(t) \/ SpawnFails(t) \/ Register(t) \/ Post(t) \/ Created(t)
  \/ Detach(t) \/ End(t) \/ ExitProc(t) \/ Joined(t) \/ JoinEnd(t) \/ Collect(t)
  \/ \E u \in Thread : Spawn(t, u) \/ Join(t, u)
  \/ Collects(t)
  \/ Handles(t)

\* Signals are taken and a collection goes on.  Who gets the allocation lock, a
\* spin lock, nobody says.
Spec ==
  /\ Init /\ [][Next]_vars
  /\ WF_vars(\E t \in Thread : Collects(t))
  /\ \A t \in Thread : WF_vars(Handles(t))

------------------------------------------------------------------------------
(* While the collector marks, no thread but its own that could hold a       *)
(* pointer into the heap executes, and each has acknowledged, so that its   *)
(* stack pointer is the one that is scanned (linux_threads.c:356, :432).    *)
WorldStandsStill ==
  phase = "stopped" =>
    /\ acks = 0
    /\ \A t \in Thread \ {lock} :
         /\ pc[t] \in Busy \union {"registered"} => t \in GC_threads \ FINISHED
         /\ pc[t] \in Busy \union {"registered"} => handler[t] # "none"

(* A thread that is not in the table yet has its start_info on the stack of *)
(* one that is (linux_threads.c:677), for as long as it has not noticed.    *)
StartInfoIsHeld ==
  \A u \in Thread : pc[u] \in {"starting", "registered"} =>
    \E t \in GC_threads \ FINISHED : pc[t] = "awaits" /\ aim[t] = u

(* A signal goes to the thread whose record it is, which is there ("Not     *)
(* really there anymore.  Possible?", linux_threads.c:344) and has not been *)
(* sent it before, although ids are used again.                             *)
SignalsReachTheirThread ==
  \A u \in todo \ FINISHED :
    /\ Bearer(id[u]) = {u}
    /\ phase = "stopping" => SIG_SUSPEND \notin pending[u]
    /\ phase = "starting" => SIG_RESTART \notin pending[u]

(* Every thread finds its own record until it has ended, and a join removes *)
(* that of the thread it joins (linux_threads.c:561).                       *)
RecordsAreOwn ==
  /\ \A t \in Thread : pc[t] \in Busy \union {"registered", "exiting"} => Lookup(id[t]) = t
  /\ \A t \in Thread : pc[t] \in {"joins", "joined"} => record[t] = aim[t]

(* The table of threads is what the collector takes it for.                 *)
TableIsSound == StartInfoIsHeld /\ SignalsReachTheirThread /\ RecordsAreOwn

(* When no collection is made, a thread that waits in its handler has been  *)
(* sent the signal to go on ("Wait until that thread tells us to restart by *)
(* sending this thread a SIG_RESTART signal.", linux_threads.c:190).        *)
StoppedIsRestarted ==
  phase = "none" => \A t \in Thread : handler[t] # "none" => SIG_RESTART \in pending[t]

(* The same, but for threads that returned from their function when the     *)
(* signal was on its way.                                                   *)
RunningIsRestarted ==
  phase = "none" => \A t \in Thread \ FINISHED :
                      handler[t] # "none" => SIG_RESTART \in pending[t]

(* A collection comes to its end: every thread that is counted acknowledges.*)
CollectionEnds == phase # "none" ~> phase = "none"

=============================================================================
