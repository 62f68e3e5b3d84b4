-------------------------- MODULE CollectionProofs --------------------------
(***************************************************************************)
(* Proofs about the two halves of a collection.                            *)
(*                                                                         *)
(* StopWorld, for any finite number of threads and any ids: if nobody      *)
(* joins a thread that has detached itself, the world stands still while   *)
(* the collector marks, and who was stopped is told to go on.              *)
(*                                                                         *)
(* Marker, for every memory, every layout of the blocks and every size of  *)
(* the mark stack: the mark phase, which runs while the world stands       *)
(* still, marks what the roots lead to and nothing else, however often the *)
(* stack overflows.                                                        *)
(***************************************************************************)
EXTENDS Marker, StopWorld, FiniteSetTheorems, SequenceTheorems, TLAPS

------------------------------------------------------------------------------
\* The world is stopped: StopWorld.

\* The pthread_t of t cannot be given to another thread.
Held(t) == Alive(t) \/ pc[t] = "dead"

IdsDiffer ==
  \A t, u \in Thread : Held(t) /\ Held(u) /\ t # u => id[t] # id[u]

\* A record that is not finished is that of a living thread, and every thread
\* has one from its start until it has ended, or has been joined.
TableHoldsLiving ==
  /\ \A t \in GC_threads : pc[t] \notin {"unborn", "starting"}
  /\ \A t \in GC_threads \ FINISHED : Alive(t)
  /\ \A t \in Thread : Alive(t) /\ pc[t] # "starting" => t \in GC_threads
  /\ \A t \in Thread : pc[t] = "dead" /\ t \notin DETACHED => t \in GC_threads
  /\ \A t \in FINISHED : pc[t] \in {"exiting", "dead", "gone"}

\* Records of others with the id of a thread are behind its own.
NewestFirst ==
  /\ \A t \in Thread : next[t] \subseteq GC_threads \ {t}
  /\ \A t \in GC_threads : Held(t) =>
       \A u \in GC_threads \ {t} : id[u] = id[t] => u \in next[t] /\ t \notin next[u]

\* A join has exclusive use of the record it found.
JoinsKnow ==
  \A t \in Thread :
    /\ pc[t] = "joins" =>
         /\ aim[t] \in Thread \ (left \union DETACHED)
         /\ pc[aim[t]] \in Busy \union {"exiting", "dead"}
         /\ record[t] = aim[t]
         /\ \A u \in Thread \ {t} : aim[u] # aim[t]
    /\ pc[t] = "joined" => aim[t] \in Thread /\ record[t] = aim[t] /\ pc[aim[t]] = "gone"

\* The collector executes nothing else and is sent no signal.
CollectorWorks ==
  /\ phase # "none" =>
       /\ lock \in Thread /\ pc[lock] \in {"runs", "starting"}
       /\ handler[lock] = "none" /\ pending[lock] = {}
       /\ todo \subseteq GC_threads
       /\ \A u \in todo : id[u] # id[lock]
  /\ phase \in {"none", "waiting", "stopped"} => todo = {}

\* The threads that have yet to take the signal.
Sent == {t \in Thread : SIG_SUSPEND \in pending[t]}

\* Each signal sent is acknowledged once.
AcksCounted ==
  IF phase \in {"stopping", "waiting"} THEN live = acks + Cardinality(Sent)
  ELSE acks = 0 /\ Sent = {}

\* Signals are for threads in the table, and that to go on only for one that
\* waits.
SignalsAreAwaited ==
  \A t \in Thread :
    /\ handler[t] # "none" \/ pending[t] # {} => t \in GC_threads /\ Alive(t)
    /\ handler[t] = "none" => SIG_RESTART \notin pending[t]

\* t stands still, or will when it has taken the signal.
Halts(t) == SIG_SUSPEND \in pending[t] \/ (handler[t] # "none" /\ SIG_RESTART \notin pending[t])

Halting ==
  /\ phase = "stopping" => \A t \in todo \ FINISHED : SIG_SUSPEND \notin pending[t]
  /\ phase \in {"stopping", "waiting", "stopped"} =>
       \A t \in GC_threads \ (FINISHED \union todo) : id[t] # id[lock] => Halts(t)

GoingOn ==
  /\ phase = "starting" => \A t \in todo \ FINISHED : handler[t] # "none" /\ SIG_RESTART \notin pending[t]
  /\ phase \in {"none", "starting"} =>
       \A t \in Thread \ FINISHED : handler[t] # "none" => SIG_RESTART \in pending[t] \/ t \in todo

IInv ==
  /\ TypeOK /\ IdsDiffer /\ TableHoldsLiving /\ NewestFirst /\ JoinsKnow /\ StartInfoIsHeld
  /\ CollectorWorks /\ AcksCounted /\ SignalsAreAwaited /\ Halting /\ GoingOn

------------------------------------------------------------------------------
LEMMA InitIInv == Init => IInv
  <1> SUFFICES ASSUME Init PROVE IInv
    OBVIOUS
  <1>1. Sent = {}
    BY DEF Init, Sent
  <1>2. QED
    BY <1>1, ThreadAssumption DEF Init, IInv, TypeOK, IdsDiffer, TableHoldsLiving, NewestFirst,
      JoinsKnow, StartInfoIsHeld, CollectorWorks, AcksCounted, SignalsAreAwaited, Halting,
      GoingOn, Held, Alive, Busy, SIG_SUSPEND, SIG_RESTART

\* What a thread does by itself.
LEMMA OwnStep ==
  ASSUME IInv, NEW t \in Thread,
         Create(t) \/ SpawnFails(t) \/ Post(t) \/ Created(t) \/ Detach(t) \/ End(t)
  PROVE  IInv'
  <1> USE ThreadAssumption DEF Create, SpawnFails, Post, Created, Detach, End, Registered,
      At, MayLock, Alive, Held, Busy, table, collection, signals
  <1>0. Sent' = Sent
    BY DEF IInv, TypeOK, Sent
  <1>1. TypeOK'
    BY DEF IInv, TypeOK
  <1>2. IdsDiffer'
    BY DEF IInv, TypeOK, IdsDiffer
  <1>3. TableHoldsLiving'
    BY DEF IInv, TypeOK, TableHoldsLiving
  <1>4. NewestFirst'
    BY DEF IInv, TypeOK, NewestFirst, TableHoldsLiving, IdsDiffer
  <1>5. JoinsKnow'
    BY DEF IInv, TypeOK, JoinsKnow, TableHoldsLiving
  <1>6. StartInfoIsHeld'
    BY DEF IInv, TypeOK, StartInfoIsHeld, TableHoldsLiving
  <1>7. CollectorWorks'
    BY DEF IInv, TypeOK, CollectorWorks
  <1>8. AcksCounted'
    BY <1>0 DEF IInv, TypeOK, AcksCounted, CollectorWorks
  <1>9. SignalsAreAwaited'
    BY DEF IInv, TypeOK, SignalsAreAwaited, TableHoldsLiving
  <1>10. Halting'
    BY DEF IInv, TypeOK, Halting, Halts, TableHoldsLiving, SignalsAreAwaited
  <1>11. GoingOn'
    BY DEF IInv, TypeOK, GoingOn
  <1>12. QED
    BY <1>1, <1>2, <1>3, <1>4, <1>5, <1>6, <1>7, <1>8, <1>9, <1>10, <1>11 DEF IInv

\* What changes the table.
LEMMA TableStep ==
  ASSUME IInv, NEW t \in Thread,
         Register(t) \/ JoinEnd(t)
  PROVE  IInv'
  <1> USE ThreadAssumption DEF Register, JoinEnd, Delete, At, MayLock, Alive, Held, Busy, collection, signals
  <1>0. Sent' = Sent
    BY DEF IInv, TypeOK, Sent
  <1>1. TypeOK'
    BY DEF IInv, TypeOK
  <1>2. IdsDiffer'
    BY DEF IInv, TypeOK, IdsDiffer
  <1>3. TableHoldsLiving'
    BY DEF IInv, TypeOK, TableHoldsLiving, JoinsKnow
  <1>4. NewestFirst'
    BY DEF IInv, TypeOK, NewestFirst, TableHoldsLiving, IdsDiffer
  <1>5. JoinsKnow'
    BY DEF IInv, TypeOK, JoinsKnow, TableHoldsLiving
  <1>6. StartInfoIsHeld'
    BY DEF IInv, TypeOK, StartInfoIsHeld, TableHoldsLiving, JoinsKnow
  <1>7. CollectorWorks'
    BY DEF IInv, TypeOK, CollectorWorks
  <1>8. AcksCounted'
    BY <1>0 DEF IInv, TypeOK, AcksCounted, CollectorWorks
  <1>9. SignalsAreAwaited'
    BY DEF IInv, TypeOK, SignalsAreAwaited, TableHoldsLiving, JoinsKnow
  <1>10. Halting'
    BY DEF IInv, TypeOK, Halting, Halts, TableHoldsLiving, CollectorWorks, SignalsAreAwaited
  <1>11. GoingOn'
    BY DEF IInv, TypeOK, GoingOn
  <1>12. QED
    BY <1>1, <1>2, <1>3, <1>4, <1>5, <1>6, <1>7, <1>8, <1>9, <1>10, <1>11 DEF IInv

\* The turns of a collection.
LEMMA PhaseStep ==
  ASSUME IInv, NEW t \in Thread,
         Suspended(t) \/ Marked(t) \/ Started(t)
  PROVE  IInv'
  <1> USE ThreadAssumption DEF Suspended, Marked, Started, Others, Alive, Held, Busy, threads, table, signals
  <1>0. Sent' = Sent
    BY DEF IInv, TypeOK, Sent
  <1>1. TypeOK'
    BY DEF IInv, TypeOK
  <1>2. IdsDiffer'
    BY DEF IInv, TypeOK, IdsDiffer
  <1>3. TableHoldsLiving'
    BY DEF IInv, TypeOK, TableHoldsLiving
  <1>4. NewestFirst'
    BY DEF IInv, TypeOK, NewestFirst, TableHoldsLiving, IdsDiffer
  <1>5. JoinsKnow'
    BY DEF IInv, TypeOK, JoinsKnow, TableHoldsLiving
  <1>6. StartInfoIsHeld'
    BY DEF IInv, TypeOK, StartInfoIsHeld, TableHoldsLiving
  <1>7. CollectorWorks'
    BY DEF IInv, TypeOK, CollectorWorks
  <1>8. AcksCounted'
    BY <1>0 DEF IInv, TypeOK, AcksCounted, CollectorWorks
  <1>9. SignalsAreAwaited'
    BY DEF IInv, TypeOK, SignalsAreAwaited, TableHoldsLiving
  <1>10. Halting'
    BY DEF IInv, TypeOK, Halting, Halts, TableHoldsLiving, SignalsAreAwaited
  <1>11. GoingOn'
    <2>1. CASE Marked(t)
      <3>1. /\ \A u \in GC_threads \ FINISHED : id[u] # id[t] => handler[u] # "none" /\ SIG_RESTART \notin pending[u]
            /\ handler[t] = "none" /\ pc[t] \in {"runs", "starting"}
        BY <2>1 DEF IInv, CollectorWorks, Halting, Halts, AcksCounted, Sent, TypeOK
      <3>2. \A u \in Thread : handler[u] # "none" => u \in GC_threads /\ id[u] # id[t]
        BY <3>1 DEF IInv, SignalsAreAwaited, IdsDiffer
      <3>3. QED
        BY <2>1, <3>1, <3>2 DEF IInv, TypeOK, GoingOn
    <2>2. CASE Suspended(t)
      BY <2>2 DEF IInv, TypeOK, GoingOn
    <2>3. CASE Started(t)
      BY <2>3 DEF IInv, TypeOK, GoingOn
    <2>4. QED
      BY <2>1, <2>2, <2>3
  <1>12. QED
    BY <1>1, <1>2, <1>3, <1>4, <1>5, <1>6, <1>7, <1>8, <1>9, <1>10, <1>11 DEF IInv

\* The handlers.
LEMMA HandlerStep ==
  ASSUME IInv, NEW t \in Thread,
         Sigsuspend(t) \/ TakeRestart(t)
  PROVE  IInv'
  <1> USE ThreadAssumption DEF Sigsuspend, TakeRestart, Alive, Held, Busy, threads, table, collection, SIG_SUSPEND, SIG_RESTART
  <1>0. Sent' = Sent
    BY DEF IInv, TypeOK, Sent
  <1>1. TypeOK'
    BY DEF IInv, TypeOK
  <1>2. IdsDiffer'
    BY DEF IInv, TypeOK, IdsDiffer
  <1>3. TableHoldsLiving'
    BY DEF IInv, TypeOK, TableHoldsLiving
  <1>4. NewestFirst'
    BY DEF IInv, TypeOK, NewestFirst, TableHoldsLiving, IdsDiffer
  <1>5. JoinsKnow'
    BY DEF IInv, TypeOK, JoinsKnow, TableHoldsLiving
  <1>6. StartInfoIsHeld'
    BY DEF IInv, TypeOK, StartInfoIsHeld, TableHoldsLiving
  <1>7. CollectorWorks'
    BY DEF IInv, TypeOK, CollectorWorks
  <1>8. AcksCounted'
    BY <1>0 DEF IInv, TypeOK, AcksCounted, CollectorWorks
  <1>9. SignalsAreAwaited'
    BY DEF IInv, TypeOK, SignalsAreAwaited, TableHoldsLiving
  <1>10. Halting'
    BY DEF IInv, TypeOK, Halting, Halts, TableHoldsLiving, SignalsAreAwaited
  <1>11. GoingOn'
    BY DEF IInv, TypeOK, GoingOn
  <1>12. QED
    BY <1>1, <1>2, <1>3, <1>4, <1>5, <1>6, <1>7, <1>8, <1>9, <1>10, <1>11 DEF IInv

LEMMA NothingSent ==
  ASSUME TypeOK, Cardinality(Sent) = 0
  PROVE  Sent = {}
  <1>1. IsFiniteSet(Sent)
    BY ThreadAssumption, FS_Subset DEF Sent
  <1>2. QED
    BY <1>1, FS_EmptySet

LEMMA StoppedStep ==
  ASSUME IInv, NEW t \in Thread,
         Stopped(t)
  PROVE  IInv'
  <1> USE ThreadAssumption DEF Stopped, Alive, Held, Busy, threads, table, signals
  <1>0. Sent' = Sent
    BY DEF IInv, TypeOK, Sent
  <1>1. TypeOK'
    BY DEF IInv, TypeOK
  <1>2. IdsDiffer'
    BY DEF IInv, TypeOK, IdsDiffer
  <1>3. TableHoldsLiving'
    BY DEF IInv, TypeOK, TableHoldsLiving
  <1>4. NewestFirst'
    BY DEF IInv, TypeOK, NewestFirst, TableHoldsLiving, IdsDiffer
  <1>5. JoinsKnow'
    BY DEF IInv, TypeOK, JoinsKnow, TableHoldsLiving
  <1>6. StartInfoIsHeld'
    BY DEF IInv, TypeOK, StartInfoIsHeld, TableHoldsLiving
  <1>7. CollectorWorks'
    BY DEF IInv, TypeOK, CollectorWorks
  <1>8. AcksCounted'
    <2>1. Cardinality(Sent) \in Nat
      BY ThreadAssumption, FS_Subset, FS_CardinalityType DEF Sent
    <2>2. live = acks + Cardinality(Sent) /\ live = 0
      BY DEF IInv, AcksCounted
    <2>3. acks = 0 /\ Cardinality(Sent) = 0
      BY <2>1, <2>2 DEF IInv, TypeOK
    <2>4. Sent = {}
      BY <2>3, NothingSent DEF IInv
    <2>5. QED
      BY <1>0, <2>3, <2>4 DEF AcksCounted
  <1>9. SignalsAreAwaited'
    BY DEF IInv, TypeOK, SignalsAreAwaited, TableHoldsLiving
  <1>10. Halting'
    BY DEF IInv, TypeOK, Halting, Halts, TableHoldsLiving, SignalsAreAwaited
  <1>11. GoingOn'
    BY DEF IInv, TypeOK, GoingOn
  <1>12. QED
    BY <1>1, <1>2, <1>3, <1>4, <1>5, <1>6, <1>7, <1>8, <1>9, <1>10, <1>11 DEF IInv

LEMMA WaitStep ==
  ASSUME IInv, NEW t \in Thread,
         Wait(t)
  PROVE  IInv'
  <1> USE ThreadAssumption DEF Wait, Alive, Held, Busy, threads, table
  <1>0. Sent' = Sent
    BY DEF IInv, TypeOK, Sent
  <1>1. TypeOK'
    BY DEF IInv, TypeOK
  <1>2. IdsDiffer'
    BY DEF IInv, TypeOK, IdsDiffer
  <1>3. TableHoldsLiving'
    BY DEF IInv, TypeOK, TableHoldsLiving
  <1>4. NewestFirst'
    BY DEF IInv, TypeOK, NewestFirst, TableHoldsLiving, IdsDiffer
  <1>5. JoinsKnow'
    BY DEF IInv, TypeOK, JoinsKnow, TableHoldsLiving
  <1>6. StartInfoIsHeld'
    BY DEF IInv, TypeOK, StartInfoIsHeld, TableHoldsLiving
  <1>7. CollectorWorks'
    BY DEF IInv, TypeOK, CollectorWorks
  <1>8. AcksCounted'
    <2>1. Cardinality(Sent) \in Nat
      BY ThreadAssumption, FS_Subset, FS_CardinalityType DEF Sent
    <2>2. live = acks + Cardinality(Sent)
      BY DEF IInv, AcksCounted
    <2>3. live' = acks' + Cardinality(Sent')
      BY <1>0, <2>1, <2>2 DEF IInv, TypeOK
    <2>4. QED
      BY <2>3 DEF AcksCounted
  <1>9. SignalsAreAwaited'
    BY DEF IInv, TypeOK, SignalsAreAwaited, TableHoldsLiving
  <1>10. Halting'
    BY DEF IInv, TypeOK, Halting, Halts, TableHoldsLiving, SignalsAreAwaited
  <1>11. GoingOn'
    BY DEF IInv, TypeOK, GoingOn
  <1>12. QED
    BY <1>1, <1>2, <1>3, <1>4, <1>5, <1>6, <1>7, <1>8, <1>9, <1>10, <1>11 DEF IInv

LEMMA CollectStep ==
  ASSUME IInv, NEW t \in Thread,
         Collect(t)
  PROVE  IInv'
  <1> USE ThreadAssumption DEF Collect, Others, At, Alive, Held, Busy, threads, table, signals
  <1>0. Sent' = Sent
    BY DEF IInv, TypeOK, Sent
  <1>1. TypeOK'
    BY DEF IInv, TypeOK
  <1>2. IdsDiffer'
    BY DEF IInv, TypeOK, IdsDiffer
  <1>3. TableHoldsLiving'
    BY DEF IInv, TypeOK, TableHoldsLiving
  <1>4. NewestFirst'
    BY DEF IInv, TypeOK, NewestFirst, TableHoldsLiving, IdsDiffer
  <1>5. JoinsKnow'
    BY DEF IInv, TypeOK, JoinsKnow, TableHoldsLiving
  <1>6. StartInfoIsHeld'
    BY DEF IInv, TypeOK, StartInfoIsHeld, TableHoldsLiving
  <1>7. CollectorWorks'
    BY DEF IInv, TypeOK, CollectorWorks, SignalsAreAwaited, AcksCounted, Sent
  <1>8. AcksCounted'
    <2>1. phase \notin {"stopping", "waiting"}
      BY DEF IInv, CollectorWorks
    <2>2. acks = 0 /\ Sent = {}
      BY <2>1 DEF IInv, AcksCounted
    <2>3. QED
      BY <1>0, <2>2, FS_EmptySet DEF AcksCounted
  <1>9. SignalsAreAwaited'
    BY DEF IInv, TypeOK, SignalsAreAwaited, TableHoldsLiving
  <1>10. Halting'
    <2>1. phase = "none"
      BY ThreadAssumption DEF IInv, CollectorWorks
    <2>2. Sent = {}
      BY <2>1 DEF IInv, AcksCounted
    <2>3. QED
      BY <2>1, <2>2 DEF IInv, TypeOK, Halting, Sent
  <1>11. GoingOn'
    BY DEF IInv, TypeOK, GoingOn
  <1>12. QED
    BY <1>1, <1>2, <1>3, <1>4, <1>5, <1>6, <1>7, <1>8, <1>9, <1>10, <1>11 DEF IInv

\* A signal reaches the thread whose record is looked at, and no other.
LEMMA BearerIsOwn ==
  ASSUME TypeOK, IdsDiffer, TableHoldsLiving, NEW u \in GC_threads \ FINISHED
  PROVE  Bearer(id[u]) = {u}
  BY DEF TypeOK, IdsDiffer, TableHoldsLiving, Bearer, Held

\* A thread finds its own record.
LEMMA LookupFindsOwn ==
  ASSUME TypeOK, NewestFirst, NEW t \in GC_threads, Held(t)
  PROVE  Lookup(id[t]) = t
  <1>1. t \in Records(id[t]) /\ \A u \in Records(id[t]) : t \notin next[u]
    BY DEF TypeOK, NewestFirst, Records
  <1>2. \A v \in Records(id[t]) : (\A u \in Records(id[t]) : v \notin next[u]) => v = t
    BY <1>1 DEF TypeOK, NewestFirst, Records
  <1>3. QED
    BY <1>1, <1>2 DEF Lookup

LEMMA SuspendStep ==
  ASSUME IInv, NEW t \in Thread, NEW u \in Thread, Suspend(t, u)
  PROVE  IInv'
  <1> USE ThreadAssumption DEF Alive, Held, Busy, threads, table, SIG_SUSPEND, SIG_RESTART
  <1>a. \/ u \in FINISHED /\ pending' = pending /\ live' = live
        \/ u \notin FINISHED /\ pending' = [pending EXCEPT ![u] = @ \union {SIG_SUSPEND}] /\ live' = live + 1
    <2>1. CASE u \in FINISHED
      BY <2>1 DEF Suspend, Sends
    <2>2. CASE u \notin FINISHED
      <3>1. Bearer(id[u]) = {u}
        BY <2>2, BearerIsOwn DEF IInv, CollectorWorks, Suspend
      <3>2. QED
        BY <2>2, <3>1 DEF Suspend, Sends, IInv, TypeOK
    <2>3. QED
      BY <2>1, <2>2
  <1>b. /\ lock = t /\ phase = "stopping" /\ u \in todo /\ todo' = todo \ {u}
        /\ UNCHANGED <<threads, table, lock, phase, acks, handler>>
    BY DEF Suspend, Sends
  <1>c. u \in GC_threads
    BY <1>b DEF IInv, CollectorWorks
  <1>1. TypeOK'
    BY <1>a, <1>b, <1>c DEF IInv, TypeOK
  <1>2. IdsDiffer'
    BY <1>a, <1>b, <1>c DEF IInv, TypeOK, IdsDiffer
  <1>3. TableHoldsLiving'
    BY <1>a, <1>b, <1>c DEF IInv, TypeOK, TableHoldsLiving
  <1>4. NewestFirst'
    BY <1>a, <1>b, <1>c DEF IInv, TypeOK, NewestFirst, TableHoldsLiving, IdsDiffer
  <1>5. JoinsKnow'
    BY <1>a, <1>b, <1>c DEF IInv, TypeOK, JoinsKnow, TableHoldsLiving
  <1>6. StartInfoIsHeld'
    BY <1>a, <1>b, <1>c DEF IInv, TypeOK, StartInfoIsHeld, TableHoldsLiving
  <1>7. CollectorWorks'
    BY <1>a, <1>b, <1>c DEF IInv, TypeOK, CollectorWorks
  <1>8. AcksCounted'
    <2>1. IsFiniteSet(Sent) /\ Cardinality(Sent) \in Nat
      BY FS_Subset, FS_CardinalityType DEF Sent
    <2>2. live = acks + Cardinality(Sent)
      BY <1>b DEF IInv, AcksCounted
    <2>3. CASE u \in FINISHED
      <3>1. Sent' = Sent
        BY <1>a, <2>3 DEF Sent
      <3>2. QED
        BY <1>a, <1>b, <2>2, <2>3, <3>1 DEF AcksCounted
    <2>4. CASE u \notin FINISHED
      <3>1. u \notin Sent /\ Sent' = Sent \union {u}
        BY <1>a, <1>b, <2>4 DEF IInv, TypeOK, Halting, Sent
      <3>2. Cardinality(Sent') = Cardinality(Sent) + 1
        BY <2>1, <3>1, FS_AddElement
      <3>3. live' = acks' + Cardinality(Sent')
        BY <1>a, <1>b, <2>1, <2>2, <2>4, <3>2 DEF IInv, TypeOK
      <3>4. QED
        BY <1>b, <3>3 DEF AcksCounted
    <2>5. QED
      BY <2>3, <2>4
  <1>9. SignalsAreAwaited'
    BY <1>a, <1>b, <1>c DEF IInv, TypeOK, SignalsAreAwaited, TableHoldsLiving
  <1>10. Halting'
    BY <1>a, <1>b, <1>c DEF IInv, TypeOK, Halting, Halts, TableHoldsLiving, SignalsAreAwaited
  <1>11. GoingOn'
    BY <1>a, <1>b, <1>c DEF IInv, TypeOK, GoingOn
  <1>12. QED
    BY <1>1, <1>2, <1>3, <1>4, <1>5, <1>6, <1>7, <1>8, <1>9, <1>10, <1>11 DEF IInv

LEMMA RestartStep ==
  ASSUME IInv, NEW t \in Thread, NEW u \in Thread, Restart(t, u)
  PROVE  IInv'
  <1> USE ThreadAssumption DEF Alive, Held, Busy, threads, table, SIG_SUSPEND, SIG_RESTART
  <1>a. \/ u \in FINISHED /\ pending' = pending
        \/ u \notin FINISHED /\ pending' = [pending EXCEPT ![u] = @ \union {SIG_RESTART}]
    <2>1. CASE u \in FINISHED
      BY <2>1 DEF Restart, Sends
    <2>2. CASE u \notin FINISHED
      <3>1. Bearer(id[u]) = {u}
        BY <2>2, BearerIsOwn DEF IInv, CollectorWorks, Restart
      <3>2. QED
        BY <2>2, <3>1 DEF Restart, Sends, IInv, TypeOK
    <2>3. QED
      BY <2>1, <2>2
  <1>b. /\ lock = t /\ phase = "starting" /\ u \in todo /\ todo' = todo \ {u}
        /\ UNCHANGED <<threads, table, lock, phase, live, acks, handler>>
    BY DEF Restart, Sends
  <1>c. u \in GC_threads
    BY <1>b DEF IInv, CollectorWorks
  <1>d. Sent' = Sent
    BY <1>a DEF IInv, TypeOK, Sent, SIG_SUSPEND, SIG_RESTART
  <1>1. TypeOK'
    BY <1>a, <1>b, <1>c DEF IInv, TypeOK
  <1>2. IdsDiffer'
    BY <1>a, <1>b, <1>c DEF IInv, TypeOK, IdsDiffer
  <1>3. TableHoldsLiving'
    BY <1>a, <1>b, <1>c DEF IInv, TypeOK, TableHoldsLiving
  <1>4. NewestFirst'
    BY <1>a, <1>b, <1>c DEF IInv, TypeOK, NewestFirst, TableHoldsLiving, IdsDiffer
  <1>5. JoinsKnow'
    BY <1>a, <1>b, <1>c DEF IInv, TypeOK, JoinsKnow, TableHoldsLiving
  <1>6. StartInfoIsHeld'
    BY <1>a, <1>b, <1>c DEF IInv, TypeOK, StartInfoIsHeld, TableHoldsLiving
  <1>7. CollectorWorks'
    BY <1>a, <1>b, <1>c DEF IInv, TypeOK, CollectorWorks
  <1>8. AcksCounted'
    BY <1>b, <1>d DEF IInv, TypeOK, AcksCounted, CollectorWorks
  <1>9. SignalsAreAwaited'
    BY <1>a, <1>b, <1>c DEF IInv, TypeOK, SignalsAreAwaited, TableHoldsLiving, GoingOn
  <1>10. Halting'
    BY <1>a, <1>b, <1>c DEF IInv, TypeOK, Halting, Halts, TableHoldsLiving, SignalsAreAwaited
  <1>11. GoingOn'
    BY <1>a, <1>b, <1>c DEF IInv, TypeOK, GoingOn
  <1>12. QED
    BY <1>1, <1>2, <1>3, <1>4, <1>5, <1>6, <1>7, <1>8, <1>9, <1>10, <1>11 DEF IInv

LEMMA TakeSuspendStep ==
  ASSUME IInv, NEW t \in Thread, TakeSuspend(t)
  PROVE  IInv'
  <1> USE ThreadAssumption DEF TakeSuspend, Alive, Held, Busy, threads, table, collection, SIG_SUSPEND, SIG_RESTART
  <1>a. t \in Sent /\ Sent' = Sent \ {t} /\ phase \in {"stopping", "waiting"}
    BY DEF IInv, TypeOK, AcksCounted, Sent
  <1>1. TypeOK'
    BY DEF IInv, TypeOK
  <1>2. IdsDiffer'
    BY DEF IInv, TypeOK, IdsDiffer
  <1>3. TableHoldsLiving'
    BY DEF IInv, TypeOK, TableHoldsLiving
  <1>4. NewestFirst'
    BY DEF IInv, TypeOK, NewestFirst, TableHoldsLiving, IdsDiffer
  <1>5. JoinsKnow'
    BY DEF IInv, TypeOK, JoinsKnow, TableHoldsLiving
  <1>6. StartInfoIsHeld'
    BY DEF IInv, TypeOK, StartInfoIsHeld, TableHoldsLiving
  <1>7. CollectorWorks'
    BY <1>a DEF IInv, TypeOK, CollectorWorks
  <1>8. AcksCounted'
    <2>1. IsFiniteSet(Sent) /\ Cardinality(Sent) \in Nat
      BY FS_Subset, FS_CardinalityType DEF Sent
    <2>2. Cardinality(Sent') = Cardinality(Sent) - 1
      BY <1>a, <2>1, FS_RemoveElement
    <2>3. live = acks + Cardinality(Sent)
      BY <1>a DEF IInv, AcksCounted
    <2>4. live' = acks' + Cardinality(Sent')
      BY <2>1, <2>2, <2>3 DEF IInv, TypeOK
    <2>5. QED
      BY <1>a, <2>4 DEF AcksCounted
  <1>9. SignalsAreAwaited'
    BY DEF IInv, TypeOK, SignalsAreAwaited, TableHoldsLiving
  <1>10. Halting'
    BY <1>a DEF IInv, TypeOK, Halting, Halts, TableHoldsLiving, SignalsAreAwaited
  <1>11. GoingOn'
    BY <1>a DEF IInv, TypeOK, GoingOn
  <1>12. QED
    BY <1>1, <1>2, <1>3, <1>4, <1>5, <1>6, <1>7, <1>8, <1>9, <1>10, <1>11 DEF IInv

LEMMA SpawnStep ==
  ASSUME IInv, NEW t \in Thread, NEW u \in Thread, Spawn(t, u)
  PROVE  IInv'
  <1> USE ThreadAssumption DEF Taken, Alive, Held, Busy, collection, signals
  <1>a. PICK i \in Id \ Taken : id' = [id EXCEPT ![u] = i]
    BY DEF Spawn
  <1>b. PICK d \in BOOLEAN : DETACHED' = (IF d THEN DETACHED \union {u} ELSE DETACHED)
                             /\ left' = (IF d THEN left \union {u} ELSE left)
    BY DEF Spawn
  <1>c. /\ pc[t] = "creates" /\ handler[t] = "none" /\ (lock = t => phase = "none") /\ pc[u] = "unborn"
        /\ pc' = [pc EXCEPT ![t] = "awaits", ![u] = "starting"]
        /\ aim' = [aim EXCEPT ![t] = u]
        /\ UNCHANGED <<record, GC_threads, next, FINISHED, collection, signals>>
    BY DEF Spawn, At
  <1>d. Sent' = Sent
    BY <1>c DEF Sent, signals
  <1>e. u \notin GC_threads
    BY <1>c DEF IInv, TableHoldsLiving
  <1>f. pc' \in [Thread -> Busy \union {"unborn", "starting", "registered", "exiting", "dead", "gone"}]
    BY <1>c DEF IInv, TypeOK
  <1>1. TypeOK'
    BY <1>a, <1>b, <1>c, <1>f DEF IInv, TypeOK
  <1>2. IdsDiffer'
    BY <1>a, <1>c, <1>e DEF IInv, TypeOK, IdsDiffer
  <1>3. TableHoldsLiving'
    BY <1>b, <1>c DEF IInv, TypeOK, TableHoldsLiving
  <1>4. NewestFirst'
    BY <1>a, <1>c, <1>e DEF IInv, TypeOK, NewestFirst, TableHoldsLiving, IdsDiffer
  <1>5. JoinsKnow'
    BY <1>b, <1>c DEF IInv, TypeOK, JoinsKnow, TableHoldsLiving
  <1>6. StartInfoIsHeld'
    BY <1>a, <1>c, <1>e DEF IInv, TypeOK, StartInfoIsHeld, TableHoldsLiving
  <1>7. CollectorWorks'
    BY <1>a, <1>c, <1>e DEF IInv, TypeOK, CollectorWorks
  <1>8. AcksCounted'
    BY <1>c, <1>d DEF IInv, TypeOK, AcksCounted, CollectorWorks
  <1>9. SignalsAreAwaited'
    BY <1>a, <1>c, <1>e DEF IInv, TypeOK, SignalsAreAwaited, TableHoldsLiving
  <1>10. Halting'
    BY <1>a, <1>c, <1>e DEF IInv, TypeOK, Halting, Halts, TableHoldsLiving, SignalsAreAwaited, CollectorWorks
  <1>11. GoingOn'
    BY <1>a, <1>c, <1>e DEF IInv, TypeOK, GoingOn
  <1>12. QED
    BY <1>1, <1>2, <1>3, <1>4, <1>5, <1>6, <1>7, <1>8, <1>9, <1>10, <1>11 DEF IInv

LEMMA ExitProcStep ==
  ASSUME IInv, NEW t \in Thread, ExitProc(t)
  PROVE  IInv'
  <1> USE ThreadAssumption DEF Delete, Alive, Held, Busy, collection, signals
  <1>c. /\ pc[t] = "exiting" /\ handler[t] = "none" /\ phase = "none"
        /\ pc' = [pc EXCEPT ![t] = IF t \in left THEN "gone" ELSE "dead"]
        /\ UNCHANGED <<id, aim, record, left, DETACHED, collection, signals>>
    BY DEF ExitProc, At, MayLock
  <1>a. Lookup(id[t]) = t
    BY <1>c, LookupFindsOwn DEF IInv, TypeOK, TableHoldsLiving
  <1>b. \/ t \in DETACHED /\ Delete(t) /\ FINISHED' = FINISHED
        \/ t \notin DETACHED /\ FINISHED' = FINISHED \union {t} /\ UNCHANGED <<GC_threads, next>>
    BY <1>a DEF ExitProc
  <1>d. Sent' = Sent /\ Sent = {}
    BY <1>c DEF IInv, AcksCounted, Sent, signals
  <1>1. TypeOK'
    BY <1>b, <1>c DEF IInv, TypeOK
  <1>2. IdsDiffer'
    BY <1>b, <1>c DEF IInv, TypeOK, IdsDiffer
  <1>3. TableHoldsLiving'
    BY <1>b, <1>c DEF IInv, TypeOK, TableHoldsLiving
  <1>4. NewestFirst'
    BY <1>b, <1>c DEF IInv, TypeOK, NewestFirst, TableHoldsLiving, IdsDiffer
  <1>5. JoinsKnow'
    BY <1>b, <1>c DEF IInv, TypeOK, JoinsKnow, TableHoldsLiving
  <1>6. StartInfoIsHeld'
    BY <1>b, <1>c DEF IInv, TypeOK, StartInfoIsHeld, TableHoldsLiving
  <1>7. CollectorWorks'
    BY <1>b, <1>c DEF IInv, TypeOK, CollectorWorks
  <1>8. AcksCounted'
    BY <1>c, <1>d DEF IInv, TypeOK, AcksCounted, CollectorWorks
  <1>9. SignalsAreAwaited'
    BY <1>b, <1>c, <1>d DEF IInv, TypeOK, SignalsAreAwaited, TableHoldsLiving, Sent, SIG_SUSPEND, SIG_RESTART
  <1>10. Halting'
    BY <1>b, <1>c DEF IInv, TypeOK, Halting, Halts, TableHoldsLiving, SignalsAreAwaited
  <1>11. GoingOn'
    BY <1>b, <1>c DEF IInv, TypeOK, GoingOn
  <1>12. QED
    BY <1>1, <1>2, <1>3, <1>4, <1>5, <1>6, <1>7, <1>8, <1>9, <1>10, <1>11 DEF IInv

LEMMA JoinStep ==
  ASSUME JoinsDetached = FALSE, IInv, NEW t \in Thread, NEW u \in Thread, Join(t, u)
  PROVE  IInv'
  <1> USE ThreadAssumption DEF Alive, Held, Busy, table, collection, signals
  <1>a. /\ pc[u] \in Busy \union {"exiting", "dead"} /\ u \notin DETACHED \union left
        /\ pc[t] = "runs" /\ handler[t] = "none" /\ phase = "none" /\ u # t
        /\ \A v \in Thread : aim[v] # u
    BY DEF IInv, TypeOK, Join, At, MayLock, Registered
  <1>b. Lookup(id[u]) = u
    BY <1>a, LookupFindsOwn DEF IInv, TypeOK, TableHoldsLiving
  <1>c. /\ pc' = [pc EXCEPT ![t] = "joins"] /\ aim' = [aim EXCEPT ![t] = u]
        /\ record' = [record EXCEPT ![t] = u]
        /\ UNCHANGED <<id, left, table, collection, signals>>
    BY <1>b DEF Join
  <1>d. Sent' = Sent
    BY <1>c DEF Sent, signals
  <1>1. TypeOK'
    BY <1>a, <1>c DEF IInv, TypeOK
  <1>2. IdsDiffer'
    BY <1>a, <1>c DEF IInv, TypeOK, IdsDiffer
  <1>3. TableHoldsLiving'
    BY <1>a, <1>c DEF IInv, TypeOK, TableHoldsLiving
  <1>4. NewestFirst'
    BY <1>a, <1>c DEF IInv, TypeOK, NewestFirst, TableHoldsLiving, IdsDiffer
  <1>5. JoinsKnow'
    BY <1>a, <1>c DEF IInv, TypeOK, JoinsKnow, TableHoldsLiving
  <1>6. StartInfoIsHeld'
    BY <1>a, <1>c DEF IInv, TypeOK, StartInfoIsHeld, TableHoldsLiving
  <1>7. CollectorWorks'
    BY <1>a, <1>c DEF IInv, TypeOK, CollectorWorks
  <1>8. AcksCounted'
    BY <1>c, <1>d DEF IInv, TypeOK, AcksCounted, CollectorWorks
  <1>9. SignalsAreAwaited'
    BY <1>a, <1>c DEF IInv, TypeOK, SignalsAreAwaited, TableHoldsLiving
  <1>10. Halting'
    BY <1>a, <1>c DEF IInv, TypeOK, Halting, Halts, TableHoldsLiving, SignalsAreAwaited
  <1>11. GoingOn'
    BY <1>a, <1>c DEF IInv, TypeOK, GoingOn
  <1>12. QED
    BY <1>1, <1>2, <1>3, <1>4, <1>5, <1>6, <1>7, <1>8, <1>9, <1>10, <1>11 DEF IInv

LEMMA JoinedStep ==
  ASSUME IInv, NEW t \in Thread, Joined(t)
  PROVE  IInv'
  <1> USE ThreadAssumption DEF Alive, Held, Busy, table, collection, signals
  <1>a. PICK u \in Thread : u = aim[t] /\ pc[u] = "dead" /\ u \notin left \union DETACHED /\ record[t] = u
    BY DEF IInv, JoinsKnow, Joined, At
  <1>b. /\ pc[t] = "joins" /\ handler[t] = "none" /\ (lock = t => phase = "none")
        /\ pc' = [pc EXCEPT ![t] = "joined", ![u] = "gone"]
        /\ UNCHANGED <<id, aim, record, left, table, collection, signals>>
    BY <1>a DEF Joined, At
  <1>c. Sent' = Sent
    BY <1>b DEF Sent, signals
  <1>1. TypeOK'
    BY <1>a, <1>b DEF IInv, TypeOK
  <1>2. IdsDiffer'
    BY <1>a, <1>b DEF IInv, TypeOK, IdsDiffer
  <1>3. TableHoldsLiving'
    BY <1>a, <1>b DEF IInv, TypeOK, TableHoldsLiving
  <1>4. NewestFirst'
    BY <1>a, <1>b DEF IInv, TypeOK, NewestFirst, TableHoldsLiving, IdsDiffer
  <1>5. JoinsKnow'
    BY <1>a, <1>b DEF IInv, TypeOK, JoinsKnow, TableHoldsLiving
  <1>6. StartInfoIsHeld'
    BY <1>a, <1>b DEF IInv, TypeOK, StartInfoIsHeld, TableHoldsLiving
  <1>7. CollectorWorks'
    BY <1>a, <1>b DEF IInv, TypeOK, CollectorWorks
  <1>8. AcksCounted'
    BY <1>b, <1>c DEF IInv, TypeOK, AcksCounted, CollectorWorks
  <1>9. SignalsAreAwaited'
    BY <1>a, <1>b DEF IInv, TypeOK, SignalsAreAwaited, TableHoldsLiving
  <1>10. Halting'
    BY <1>a, <1>b DEF IInv, TypeOK, Halting, Halts, TableHoldsLiving, SignalsAreAwaited
  <1>11. GoingOn'
    BY <1>a, <1>b DEF IInv, TypeOK, GoingOn
  <1>12. QED
    BY <1>1, <1>2, <1>3, <1>4, <1>5, <1>6, <1>7, <1>8, <1>9, <1>10, <1>11 DEF IInv

LEMMA NextIInv ==
  ASSUME JoinsDetached = FALSE, IInv, [Next]_vars
  PROVE  IInv'
  <1>1. CASE UNCHANGED vars
    <2>1. Sent' = Sent
      BY <1>1 DEF Sent, vars
    <2>2. QED
      BY <1>1, <2>1 DEF vars, IInv, TypeOK, IdsDiffer, TableHoldsLiving, NewestFirst, JoinsKnow,
        StartInfoIsHeld, CollectorWorks, AcksCounted, SignalsAreAwaited, Halting, Halts, GoingOn,
        Held, Alive, Busy
  <1>2. ASSUME NEW t \in Thread, Collects(t)
        PROVE  IInv'
    <2>1. CASE \E u \in Thread : Suspend(t, u) \/ Restart(t, u)
      BY <2>1, SuspendStep, RestartStep
    <2>2. CASE Suspended(t) \/ Wait(t) \/ Stopped(t) \/ Marked(t) \/ Started(t)
      BY <2>2, PhaseStep, WaitStep, StoppedStep
    <2>3. QED
      BY <1>2, <2>1, <2>2 DEF Collects
  <1>3. ASSUME NEW t \in Thread, Handles(t)
        PROVE  IInv'
    BY <1>3, TakeSuspendStep, HandlerStep DEF Handles
  <1>4. ASSUME NEW t \in Thread, NEW u \in Thread, Spawn(t, u) \/ Join(t, u)
        PROVE  IInv'
    BY <1>4, SpawnStep, JoinStep
  <1>5. ASSUME NEW t \in Thread,
               \/ Create(t) \/ SpawnFails(t) \/ Post(t) \/ Created(t) \/ Detach(t) \/ End(t)
               \/ Register(t) \/ JoinEnd(t) \/ ExitProc(t) \/ Joined(t) \/ Collect(t)
        PROVE  IInv'
    BY <1>5, OwnStep, TableStep, ExitProcStep, JoinedStep, CollectStep
  <1>6. QED
    BY <1>1, <1>2, <1>3, <1>4, <1>5 DEF Next

LEMMA Invariance == ASSUME JoinsDetached = FALSE PROVE Spec => []IInv
  BY InitIInv, NextIInv, PTL DEF Spec

------------------------------------------------------------------------------
(* Every variable keeps its type (linux_threads.c), whatever the threads do *)
(* but join one that has detached itself.                                   *)
THEOREM TypeCorrect == ASSUME JoinsDetached = FALSE PROVE Spec => []TypeOK
  <1>1. IInv => TypeOK
    BY DEF IInv
  <1>2. QED
    BY <1>1, Invariance, PTL

(* While the collector marks every other thread stands still and has        *)
(* acknowledged (GC_stop_world, linux_threads.c:325).                       *)
THEOREM WorldStopped == ASSUME JoinsDetached = FALSE PROVE Spec => []WorldStandsStill
  <1>1. ASSUME IInv, phase = "stopped"
        PROVE  acks = 0 /\ \A t \in Thread \ {lock} :
                 pc[t] \in Busy \union {"registered"} => t \in GC_threads \ FINISHED /\ handler[t] # "none"
    <2>1. acks = 0 /\ Sent = {} /\ todo = {}
      BY <1>1 DEF IInv, AcksCounted, CollectorWorks
    <2>2. lock \in Thread /\ Alive(lock)
      BY <1>1 DEF IInv, CollectorWorks, Alive, Busy
    <2>3. ASSUME NEW t \in Thread \ {lock}, pc[t] \in Busy \union {"registered"}
          PROVE  t \in GC_threads \ FINISHED /\ handler[t] # "none"
      <3>1. t \in GC_threads \ FINISHED /\ Alive(t)
        BY <1>1, <2>3 DEF IInv, TableHoldsLiving, Alive, Busy
      <3>2. id[t] # id[lock]
        BY <1>1, <2>2, <3>1 DEF IInv, IdsDiffer, Held
      <3>3. Halts(t) /\ SIG_SUSPEND \notin pending[t]
        BY <1>1, <2>1, <3>1, <3>2 DEF IInv, Halting, Sent
      <3>4. QED
        BY <3>1, <3>3 DEF Halts
    <2>4. QED
      BY <2>1, <2>3
  <1>2. IInv => WorldStandsStill
    BY <1>1 DEF WorldStandsStill
  <1>3. QED
    BY <1>2, Invariance, PTL

(* The table holds the thread it should under each id, signals reach that   *)
(* thread, and joins remove the record of the thread they joined            *)
(* (GC_lookup_thread, linux_threads.c:315), although ids are used again.    *)
THEOREM TableSound == ASSUME JoinsDetached = FALSE PROVE Spec => []TableIsSound
  <1>1. ASSUME IInv
        PROVE  SignalsReachTheirThread
    <2>1. \A u \in todo \ FINISHED : phase \in {"stopping", "starting"} /\ u \in GC_threads \ FINISHED
      BY <1>1 DEF IInv, TypeOK, CollectorWorks
    <2>2. \A u \in todo \ FINISHED : Bearer(id[u]) = {u}
      BY <1>1, <2>1, BearerIsOwn DEF IInv
    <2>3. QED
      BY <1>1, <2>2 DEF IInv, SignalsReachTheirThread, Halting, GoingOn
  <1>2. ASSUME IInv
        PROVE  RecordsAreOwn
    <2>1. ASSUME NEW t \in Thread, pc[t] \in Busy \union {"registered", "exiting"}
          PROVE  Lookup(id[t]) = t
      <3>1. t \in GC_threads /\ Held(t)
        BY <1>2, <2>1 DEF IInv, TableHoldsLiving, Held, Alive, Busy
      <3>2. QED
        BY <1>2, <3>1, LookupFindsOwn DEF IInv
    <2>2. QED
      BY <1>2, <2>1 DEF IInv, JoinsKnow, RecordsAreOwn
  <1>3. IInv => TableIsSound
    BY <1>1, <1>2 DEF TableIsSound, IInv
  <1>4. QED
    BY <1>3, Invariance, PTL

(* When no collection is made, a thread that was stopped and had not        *)
(* returned has been sent the signal to go on (GC_start_world,              *)
(* linux_threads.c:364).                                                    *)
THEOREM StoppedGoesOn == ASSUME JoinsDetached = FALSE PROVE Spec => []RunningIsRestarted
  <1>1. IInv => RunningIsRestarted
    BY DEF IInv, CollectorWorks, GoingOn, RunningIsRestarted
  <1>2. QED
    BY <1>1, Invariance, PTL

------------------------------------------------------------------------------
\* The mark phase: Marker.

\* An entry is a part of its area.
Fits(e) == 1 <= e.from /\ e.to <= Words[e.area]

EntriesFit == Fits(cur) /\ \A k \in 1..Len(stack) : Fits(stack[k])

\* Until all roots have been pushed nothing is marked but by them.
Fresh == ~objectsMarked /\ roots = 0 => marked = {} /\ ~Scanning /\ at = 0

\* What S holds and the roots are all that is marked, being scanned or to be
\* scanned.
Within(S) ==
  /\ marked \subseteq S
  /\ Scanning => cur.area \in Root \union S
  /\ \A k \in 1..Len(stack) : stack[k].area \in Root \union S

\* No more is marked than must be.
Sound == \A S \in SUBSET Object : Promise!Closed(S, contents) => Within(S)

\* When the phase is over, all is marked that must be.
Complete == state = "none" => Idle /\ Promise!Closed(marked, contents)

MarkInv == MarkTypeOK /\ EntriesFit /\ Fresh /\ NothingIsForgotten /\ Sound /\ Complete

USE DEF Object, Root, Area

------------------------------------------------------------------------------
LEMMA EntryFacts ==
  /\ \A o \in Area : Whole(o) \in Entry /\ Fits(Whole(o))
  /\ \A a \in Area : Words[a] \in Nat
  /\ Nothing \in Entry /\ Fits(Nothing)
  BY AreaAssumption DEF Whole, Entry, Nothing, Fits

LEMMA AppendFacts ==
  ASSUME NEW s \in Seq(Entry), NEW e \in Entry
  PROVE  /\ Append(s, e) \in Seq(Entry)
         /\ Len(Append(s, e)) = Len(s) + 1
         /\ \A k \in 1..Len(s) : Append(s, e)[k] = s[k]
         /\ Append(s, e)[Len(s) + 1] = e
  BY AppendProperties

LEMMA PrefixFacts ==
  ASSUME NEW s \in Seq(Entry), NEW n \in 0..Len(s)
  PROVE  /\ SubSeq(s, 1, n) \in Seq(Entry)
         /\ Len(SubSeq(s, 1, n)) = n
         /\ \A k \in 1..n : SubSeq(s, 1, n)[k] = s[k]
  <1>1. \A k \in 1..n : s[k] \in Entry
    BY ElementOfSeq
  <1>2. QED
    BY <1>1, SubSeqProperties

\* What PushObj() does to the stack: it holds no entry but the old ones and the
\* new one, and if the state is still valid all of them.
LEMMA PushObjFacts ==
  ASSUME MarkTypeOK, EntriesFit, NEW o \in Object, PushObj(o)
  PROVE  /\ stack' \in Seq(Entry) /\ Len(stack') <= size
         /\ tooSmall' \in BOOLEAN
         /\ state' \in {state, "invalid"}
         /\ \A k \in 1..Len(stack') : Fits(stack'[k])
         /\ \A k \in 1..Len(stack') :
              stack'[k] = Whole(o) \/ \E j \in 1..Len(stack) : stack'[k] = stack[j]
         /\ state' # "invalid" =>
              /\ \A k \in 1..Len(stack) : \E j \in 1..Len(stack') : stack'[j] = stack[k]
              /\ Words[o] # 0 => \E j \in 1..Len(stack') : stack'[j] = Whole(o)
  <1> DEFINE e == Whole(o)
  <1>1. e \in Entry /\ Fits(e)
    BY EntryFacts
  <1>2. /\ stack \in Seq(Entry) /\ Len(stack) \in Nat /\ Len(stack) <= size /\ size \in Nat
        /\ \A k \in 1..Len(stack) : Fits(stack[k])
    BY StackAssumption, LenProperties DEF MarkTypeOK, EntriesFit
  <1>3. CASE Words[o] = 0
    BY <1>2, <1>3 DEF PushObj, MarkTypeOK
  <1>4. CASE Words[o] # 0 /\ HasRoom
    <2>1. stack' = Append(stack, e) /\ UNCHANGED <<state, tooSmall>> /\ Len(stack) < size
      BY <1>4 DEF PushObj, HasRoom
    <2>2. Len(stack') = Len(stack) + 1 /\ stack' \in Seq(Entry) /\ stack'[Len(stack) + 1] = e
          /\ \A k \in 1..Len(stack) : stack'[k] = stack[k]
      BY <1>1, <1>2, <2>1, AppendFacts
    <2>3. \A k \in 1..Len(stack') : k \in 1..Len(stack) \/ k = Len(stack) + 1
      BY <1>2, <2>2
    <2>4. Len(stack) + 1 \in 1..Len(stack') /\ \A k \in 1..Len(stack) : k \in 1..Len(stack')
      BY <1>2, <2>2
    <2> HIDE DEF e
    <2>5. QED
      BY <1>1, <1>2, <2>1, <2>2, <2>3, <2>4 DEF MarkTypeOK, e
  <1>5. CASE Words[o] # 0 /\ ~HasRoom
    <2> DEFINE kept == SubSeq(stack, 1, size - Dropped)
    <2>1. /\ stack' = Append(kept, e) /\ state' = "invalid" /\ tooSmall' = TRUE
          /\ Len(stack) = size
      <3>1. stack' = Append(kept, e) /\ state' = "invalid" /\ tooSmall' = TRUE
        BY <1>5 DEF PushObj
      <3>2. Len(stack) = size
        BY <1>2, <1>5 DEF HasRoom
      <3>3. QED
        BY <3>1, <3>2
    <2>2. size - Dropped \in 0..Len(stack) /\ size - Dropped + 1 <= size
      BY <1>2, <2>1, StackAssumption DEF MarkTypeOK
    <2>3. /\ kept \in Seq(Entry) /\ Len(kept) = size - Dropped
          /\ \A k \in 1..(size - Dropped) : kept[k] = stack[k]
      BY <1>2, <2>2, PrefixFacts
    <2> HIDE DEF kept
    <2>4. Len(stack') = Len(kept) + 1 /\ stack' \in Seq(Entry) /\ stack'[Len(kept) + 1] = e
          /\ \A k \in 1..Len(kept) : stack'[k] = kept[k]
      BY <1>1, <2>1, <2>3, AppendFacts
    <2>5. \A k \in 1..Len(stack') : k \in 1..Len(kept) \/ k = Len(kept) + 1
      BY <2>2, <2>3, <2>4
    <2>6. \A k \in 1..Len(kept) : stack'[k] = stack[k] /\ k \in 1..Len(stack)
      BY <2>2, <2>3, <2>4
    <2> HIDE DEF e
    <2>7. QED
      BY <1>1, <1>2, <2>1, <2>2, <2>3, <2>4, <2>5, <2>6 DEF MarkTypeOK, e
  <1>6. QED
    BY <1>3, <1>4, <1>5

\* The same of a word: if the object it points to was not marked, it is marked and,
\* unless entries were dropped, to be scanned.
LEMMA PushContentsFacts ==
  ASSUME MarkTypeOK, EntriesFit, NEW v \in Pointer, PushContents(v)
  PROVE  /\ stack' \in Seq(Entry) /\ Len(stack') <= size
         /\ tooSmall' \in BOOLEAN
         /\ state' \in {state, "invalid"}
         /\ marked' = marked \union ({v} \intersect Object)
         /\ \A k \in 1..Len(stack') : Fits(stack'[k])
         /\ \A k \in 1..Len(stack') :
              \/ v \in Object /\ stack'[k] = Whole(v)
              \/ \E j \in 1..Len(stack) : stack'[k] = stack[j]
         /\ state' # "invalid" =>
              /\ \A k \in 1..Len(stack) : \E j \in 1..Len(stack') : stack'[j] = stack[k]
              /\ v \in Object \ marked /\ Words[v] # 0 =>
                   \E j \in 1..Len(stack') : stack'[j] = Whole(v)
  <1>1. CASE v \in Object \ marked
    <2>1. marked' = marked \union {v} /\ PushObj(v)
      BY <1>1 DEF PushContents
    <2> HIDE DEF Object
    <2>2. QED
      BY <1>1, <2>1, PushObjFacts
  <1>2. CASE v \notin Object \ marked
    <2>1. UNCHANGED <<marked, stack, state, tooSmall>>
      BY <1>2 DEF PushContents
    <2>2. QED
      BY <1>2, <2>1 DEF MarkTypeOK, EntriesFit
  <1>3. QED
    BY <1>1, <1>2

\* What TakeTop does: what the stack covered is covered by the stack and what is
\* being scanned.
LEMMA TakeTopFacts ==
  ASSUME MarkTypeOK, EntriesFit, TakeTop
  PROVE  /\ stack' \in Seq(Entry) /\ Len(stack') <= size /\ cur' \in Entry
         /\ Fits(cur') /\ \A k \in 1..Len(stack') : Fits(stack'[k])
         /\ \E j \in 1..Len(stack) : cur'.area = stack[j].area
         /\ \A k \in 1..Len(stack') :
              \E j \in 1..Len(stack) : stack'[k].area = stack[j].area
         /\ \A k \in 1..Len(stack), a \in Area, i \in Nat :
              Covers(stack[k], a, i) =>
                \/ Covers(cur', a, i)
                \/ \E j \in 1..Len(stack') : Covers(stack'[j], a, i)
  <1> DEFINE n == Len(stack)
             top == stack[n]
             rest == top.from + SplitWords - 1
  <1>1. /\ stack \in Seq(Entry) /\ n \in Nat \ {0} /\ n <= size /\ n \in 1..n /\ size \in Nat
        /\ \A k \in 1..n : stack[k] \in Entry /\ Fits(stack[k])
    <2>1. stack \in Seq(Entry) /\ stack # << >>
      BY DEF MarkTypeOK, TakeTop
    <2>2. n \in Nat \ {0}
      BY <2>1, EmptySeq, LenProperties
    <2>3. QED
      BY <2>1, <2>2, ElementOfSeq, StackAssumption DEF MarkTypeOK, EntriesFit
  <1>2. top \in Entry /\ Fits(top) /\ top.from \in Nat /\ top.to \in Nat
    BY <1>1 DEF Entry
  <1>3. CASE top.to - top.from + 1 >= SplitWords
    <2>1. /\ stack' = [stack EXCEPT ![n].from = rest]
          /\ cur' = [top EXCEPT !.to = rest - 1]
      BY <1>3 DEF TakeTop
    <2>2. rest \in Nat /\ rest - 1 \in Nat /\ rest <= top.to /\ rest >= 1
      BY <1>2, <1>3, StackAssumption DEF Fits
    <2>3. cur' \in Entry /\ cur'.area = top.area /\ cur'.from = top.from /\ cur'.to = rest - 1
      BY <1>2, <2>1, <2>2 DEF Entry
    <2> DEFINE remains == [top EXCEPT !.from = rest]
    <2>4. remains \in Entry /\ remains.area = top.area /\ remains.from = rest /\ remains.to = top.to
      BY <1>2, <2>2 DEF Entry
    <2>5. stack' = [stack EXCEPT ![n] = remains]
      BY <2>1
    <2>6. /\ stack' \in Seq(Entry) /\ Len(stack') = n /\ stack'[n] = remains
          /\ \A k \in 1..n : k # n => stack'[k] = stack[k]
      <3> HIDE DEF remains
      <3>1. QED
        BY <1>1, <2>4, <2>5, ExceptSeq
    <2>7. Fits(remains) /\ Fits(cur')
      <3>1. Words[top.area] \in Nat /\ 1 <= top.from /\ top.to <= Words[top.area]
        BY <1>2, EntryFacts DEF Fits, Entry
      <3> HIDE DEF remains, top, rest
      <3>2. QED
        BY <1>2, <2>2, <2>3, <2>4, <3>1 DEF Fits
    <2>8. \A a \in Area, i \in Nat : Covers(top, a, i) => Covers(cur', a, i) \/ Covers(remains, a, i)
      BY <1>2, <2>2, <2>3, <2>4 DEF Covers
    <2>9. \A k \in 1..n, a \in Area, i \in Nat :
            Covers(stack[k], a, i) =>
              \/ Covers(cur', a, i)
              \/ \E j \in 1..n : Covers(stack'[j], a, i)
      <3> HIDE DEF remains
      <3>1. SUFFICES ASSUME NEW k \in 1..n, NEW a \in Area, NEW i \in Nat, Covers(stack[k], a, i)
                     PROVE  Covers(cur', a, i) \/ \E j \in 1..n : Covers(stack'[j], a, i)
        OBVIOUS
      <3>2. CASE k = n
        BY <1>1, <2>6, <2>8, <3>1, <3>2
      <3>3. CASE k # n
        BY <2>6, <3>1, <3>3
      <3>4. QED
        BY <3>2, <3>3
    <2>10. \A k \in 1..n : /\ Fits(stack'[k])
                           /\ \E j \in 1..n : stack'[k].area = stack[j].area
      <3> HIDE DEF remains
      <3>1. QED
        BY <1>1, <2>4, <2>6, <2>7
    <2> HIDE DEF remains
    <2>11. QED
      BY <1>1, <2>3, <2>6, <2>7, <2>9, <2>10
  <1>4. CASE ~(top.to - top.from + 1 >= SplitWords)
    <2>1. stack' = SubSeq(stack, 1, n - 1) /\ cur' = top
      BY <1>4 DEF TakeTop
    <2>2. n - 1 \in 0..n
      BY <1>1
    <2>3. /\ stack' \in Seq(Entry) /\ Len(stack') = n - 1
          /\ \A k \in 1..(n - 1) : stack'[k] = stack[k]
      BY <1>1, <2>1, <2>2, PrefixFacts
    <2>4. \A k \in 1..n : k = n \/ k \in 1..(n - 1)
      BY <1>1
    <2>5. \A k \in 1..(n - 1) : k \in 1..n
      BY <1>1
    <2>6. \A k \in 1..n, a \in Area, i \in Nat :
            Covers(stack[k], a, i) =>
              Covers(cur', a, i) \/ \E j \in 1..(n - 1) : Covers(stack'[j], a, i)
      BY <2>1, <2>3, <2>4
    <2>7. \A k \in 1..(n - 1) : /\ Fits(stack'[k])
                                 /\ \E j \in 1..n : stack'[k].area = stack[j].area
      BY <1>1, <2>3, <2>5
    <2>8. n - 1 <= size
      BY <1>1
    <2>9. QED
      BY <1>1, <1>2, <2>1, <2>3, <2>6, <2>7, <2>8
  <1>5. QED
    BY <1>3, <1>4

------------------------------------------------------------------------------
\* Type correctness, with entries that are parts of their areas.

\* The word being scanned is a word of the memory.
LEMMA WordInMemory ==
  ASSUME MarkTypeOK, EntriesFit, Scanning
  PROVE  /\ cur.area \in Area /\ cur.from \in 1..Words[cur.area]
         /\ <<cur.area, cur.from>> \in Word
         /\ contents[<<cur.area, cur.from>>] \in Pointer
  <1>1. /\ cur.area \in Area /\ cur.from \in Nat /\ cur.to \in Nat /\ cur.from <= cur.to
        /\ 1 <= cur.from /\ cur.to <= Words[cur.area] /\ Words[cur.area] \in Nat
    BY EntryFacts DEF MarkTypeOK, EntriesFit, Scanning, Entry, Fits
  <1>2. cur.from \in 1..Words[cur.area]
    BY <1>1
  <1>3. <<cur.area, cur.from>> \in Word
    BY <1>1, <1>2 DEF Word
  <1>4. contents \in [Word -> Pointer]
    BY DEF MarkTypeOK, Memory
  <1>5. QED
    BY <1>1, <1>2, <1>3, <1>4

LEMMA ScanBlockFacts ==
  ASSUME NEW h \in 1..(Blocks + 1), ScanBlock(h)
  PROVE  /\ h \in 1..Blocks /\ scan' = h + 1 /\ scan' \in 0..(Blocks + 1) /\ roots' = roots
         /\ at' \in {0} \union Object
         /\ \A o \in Object : BlockOf[o] = h =>
              at' \in Object /\ BlockOf[at'] = h /\ at' <= o
  <1>1. h \in 1..Blocks /\ Blocks \in Nat
    BY AreaAssumption DEF ScanBlock
  <1>2. QED
    BY <1>1 DEF ScanBlock, IsFirst

LEMMA PushRootFacts ==
  ASSUME MarkTypeOK, EntriesFit, PushRoot
  PROVE  /\ stack' \in Seq(Entry) /\ Len(stack') <= size /\ cur' \in Entry
         /\ Fits(cur') /\ \A k \in 1..Len(stack') : Fits(stack'[k])
         /\ state' \in {state, "aborted"}
         /\ roots \in Root /\ roots' = roots + 1
         /\ cur' = cur \/ cur' = Whole(roots)
         /\ \A k \in 1..Len(stack') :
              stack'[k] = Whole(roots) \/ \E j \in 1..Len(stack) : stack'[k] = stack[j]
         /\ \A k \in 1..Len(stack) : k \in 1..Len(stack') /\ stack'[k] = stack[k]
         /\ state' # "aborted" =>
              \/ Words[roots] = 0 \/ cur' = Whole(roots)
              \/ \E j \in 1..Len(stack') : stack'[j] = Whole(roots)
  <1> DEFINE e == Whole(roots)
  <1>1. /\ roots \in Root /\ roots' = roots + 1 /\ RootAt(roots) = roots /\ e \in Entry /\ Fits(e)
        /\ stack \in Seq(Entry) /\ Len(stack) \in Nat /\ Len(stack) <= size /\ size \in Nat
        /\ cur \in Entry /\ Fits(cur) /\ \A k \in 1..Len(stack) : Fits(stack[k])
    BY EntryFacts, LenProperties, StackAssumption DEF PushRoot, RootAt, MarkTypeOK, EntriesFit
  <1>2. CASE roots \in Eager
    <2>1. cur' = e /\ UNCHANGED <<stack, state>>
      BY <1>1, <1>2 DEF PushRoot
    <2>2. QED
      BY <1>1, <2>1
  <1>3. CASE roots \notin Eager /\ Words[roots] = 0
    <2>1. UNCHANGED <<cur, stack, state>>
      BY <1>1, <1>3 DEF PushRoot
    <2>2. QED
      BY <1>1, <1>3, <2>1
  <1>4. CASE roots \notin Eager /\ Words[roots] # 0 /\ HasRoom
    <2>1. UNCHANGED <<cur, state>> /\ stack' = Append(stack, e) /\ Len(stack) < size
      BY <1>1, <1>4 DEF PushRoot, HasRoom
    <2>2. Len(stack') = Len(stack) + 1 /\ stack' \in Seq(Entry) /\ stack'[Len(stack) + 1] = e
          /\ \A k \in 1..Len(stack) : stack'[k] = stack[k]
      BY <1>1, <2>1, AppendFacts
    <2>3. \A k \in 1..Len(stack') : k \in 1..Len(stack) \/ k = Len(stack) + 1
      BY <1>1, <2>2
    <2>4. Len(stack) + 1 \in 1..Len(stack') /\ \A k \in 1..Len(stack) : k \in 1..Len(stack')
      BY <1>1, <2>2
    <2> HIDE DEF e
    <2>5. QED
      BY <1>1, <2>1, <2>2, <2>3, <2>4 DEF e
  <1>5. CASE roots \notin Eager /\ Words[roots] # 0 /\ ~HasRoom
    <2>1. UNCHANGED <<cur, stack>> /\ state' = "aborted"
      BY <1>1, <1>5 DEF PushRoot
    <2>2. QED
      BY <1>1, <2>1
  <1>6. QED
    BY <1>2, <1>3, <1>4, <1>5

\* What PushMarked does to the stack, and that it goes on to the next of the block.
LEMMA PushMarkedFacts ==
  ASSUME MarkTypeOK, EntriesFit, PushMarked
  PROVE  /\ stack' \in Seq(Entry) /\ Len(stack') <= size /\ cur' \in Entry
         /\ tooSmall' \in BOOLEAN /\ state' \in {state, "invalid"}
         /\ at \in Object /\ at' \in {0} \union Object
         /\ Fits(cur') /\ \A k \in 1..Len(stack') : Fits(stack'[k])
         /\ cur' = cur \/ (at \in marked /\ cur' = Whole(at))
         /\ \A k \in 1..Len(stack') :
              \/ at \in marked /\ stack'[k] = Whole(at)
              \/ \E j \in 1..Len(stack) : stack'[k] = stack[j]
         /\ state' # "invalid" =>
              /\ \A k \in 1..Len(stack) : \E j \in 1..Len(stack') : stack'[j] = stack[k]
              /\ at \in marked /\ Words[at] # 0 =>
                   cur' = Whole(at) \/ \E j \in 1..Len(stack') : stack'[j] = Whole(at)
         /\ \A o \in Object :
              BlockOf[o] = BlockOf[at] /\ o > at =>
                at' \in Object /\ BlockOf[o] = BlockOf[at'] /\ o >= at'
  <1> DEFINE Follows ==
        \A o \in Object : BlockOf[o] = BlockOf[at] /\ o > at =>
          at' \in Object /\ BlockOf[o] = BlockOf[at'] /\ o >= at'
  <1>1. /\ at \in Object /\ Objects \in Nat /\ cur \in Entry /\ Fits(cur)
        /\ stack \in Seq(Entry) /\ Len(stack) <= size /\ tooSmall \in BOOLEAN
        /\ \A k \in 1..Len(stack) : Fits(stack[k])
    BY AreaAssumption DEF PushMarked, MarkTypeOK, EntriesFit
  <1>2. Whole(at) \in Entry /\ Fits(Whole(at))
    BY <1>1, EntryFacts
  <1>3. at' \in {0} \union Object
    BY <1>1 DEF PushMarked
  <1>4. Follows
    <2> SUFFICES ASSUME NEW o \in Object, BlockOf[o] = BlockOf[at], o > at
                 PROVE  at' \in Object /\ BlockOf[o] = BlockOf[at'] /\ o >= at'
      OBVIOUS
    <2>1. at + 1 \in Object /\ at <= at + 1 /\ at + 1 <= o
      BY <1>1
    <2>2. BlockOf[at] <= BlockOf[at + 1] /\ BlockOf[at + 1] <= BlockOf[o]
      BY <1>1, <2>1, AreaAssumption
    <2>3. BlockOf[at] \in Nat /\ BlockOf[at + 1] \in Nat
      BY <1>1, <2>1, AreaAssumption
    <2>4. BlockOf[at + 1] = BlockOf[at]
      BY <2>2, <2>3
    <2>5. at' = at + 1
      BY <1>1, <2>1, <2>4 DEF PushMarked
    <2>6. QED
      BY <2>1, <2>4, <2>5
  <1> HIDE DEF Follows, Object
  <1>5. CASE at \notin marked
    <2>1. UNCHANGED <<cur, stack, state, tooSmall>>
      BY <1>5 DEF PushMarked
    <2>2. tooSmall' \in BOOLEAN
      BY <1>1, <2>1
    <2>3. Len(stack') <= size /\ stack' = stack /\ cur' = cur /\ state' = state
      BY <1>1, <2>1
    <2>4. QED
      BY <1>1, <1>3, <1>4, <1>5, <2>2, <2>3 DEF Follows
  <1>6. CASE at \in marked /\ BlockOf[at] \in Direct
    <2>1. cur' = Whole(at) /\ UNCHANGED <<stack, state, tooSmall>>
      BY <1>6 DEF PushMarked
    <2>2. QED
      BY <1>1, <1>2, <1>3, <1>4, <1>6, <2>1 DEF Follows
  <1>7. CASE at \in marked /\ BlockOf[at] \notin Direct
    <2>1. cur' = cur /\ PushObj(at)
      BY <1>7 DEF PushMarked
    <2> DEFINE Pushed ==
          /\ stack' \in Seq(Entry) /\ Len(stack') <= size
          /\ state' \in {state, "invalid"}
          /\ \A k \in 1..Len(stack') : Fits(stack'[k])
          /\ \A k \in 1..Len(stack') :
               stack'[k] = Whole(at) \/ \E j \in 1..Len(stack) : stack'[k] = stack[j]
          /\ state' # "invalid" =>
               /\ \A k \in 1..Len(stack) : \E j \in 1..Len(stack') : stack'[j] = stack[k]
               /\ Words[at] # 0 => \E j \in 1..Len(stack') : stack'[j] = Whole(at)
    <2>2. Pushed /\ tooSmall' \in BOOLEAN
      BY <1>1, <2>1, PushObjFacts
    <2>3. QED
      BY <1>1, <1>3, <1>4, <1>7, <2>1, <2>2 DEF Follows
  <1>8. QED
    BY <1>5, <1>6, <1>7

LEMMA GrowsFacts ==
  ASSUME MarkTypeOK, GrowsIfTooSmall
  PROVE  size' \in StackSize..MaxStack /\ tooSmall' \in BOOLEAN /\ size <= size'
  <1>1. size \in Nat /\ size \in StackSize..MaxStack /\ tooSmall \in BOOLEAN
    BY StackAssumption DEF MarkTypeOK
  <1>2. CASE tooSmall
    <2>1. Grows
      BY <1>2 DEF GrowsIfTooSmall
    <2>2. tooSmall' = FALSE
      BY <2>1 DEF Grows
    <2>3. size' = size \/ (size' = 2 * size /\ size' \in StackSize..MaxStack)
      BY <2>1 DEF Grows
    <2>4. size' \in StackSize..MaxStack /\ size <= size'
      BY <1>1, <2>3
    <2>5. QED
      BY <2>2, <2>4
  <1>3. CASE ~tooSmall
    BY <1>1, <1>3 DEF GrowsIfTooSmall
  <1>4. QED
    BY <1>2, <1>3

LEMMA TypeStep ==
  ASSUME MarkTypeOK, EntriesFit, [MarkNext]_markVars
  PROVE  MarkTypeOK' /\ EntriesFit'
  <1>1. CASE ScanWord
    <2>1. PushContents(contents[<<cur.area, cur.from>>])
      BY <1>1 DEF ScanWord
    <2>2. contents[<<cur.area, cur.from>>] \in Pointer
      BY <1>1, WordInMemory DEF ScanWord
    <2>3. cur' = [cur EXCEPT !.from = @ + 1] /\ UNCHANGED <<contents, scan, size, objectsMarked, roots, at>>
      BY <1>1 DEF ScanWord
    <2>4. cur' \in Entry /\ Fits(cur')
      <3>1. cur.area \in Area /\ cur.from \in Nat /\ cur.to \in Nat
        BY DEF MarkTypeOK, Entry
      <3>2. cur' = [area |-> cur.area, from |-> cur.from + 1, to |-> cur.to]
        BY <2>3 DEF MarkTypeOK, Entry
      <3>3. 1 <= cur.from /\ cur.to <= Words[cur.area]
        BY DEF EntriesFit, Fits
      <3> HIDE DEF Object, Root, Area
      <3>4. QED
        BY <3>1, <3>2, <3>3 DEF Entry, Fits
    <2>5. marked' \subseteq Object
      BY <2>1, <2>2, PushContentsFacts DEF MarkTypeOK
    <2> HIDE DEF Object, Root, Area
    <2>6. QED
      BY <2>1, <2>2, <2>3, <2>4, <2>5, PushContentsFacts DEF MarkTypeOK, EntriesFit
  <1>2. CASE BeginFull \/ BeginRoots \/ EndRoots \/ ContinueScan \/ BeginScan \/ Finish
    <2>1. UNCHANGED <<contents, marked, stack, cur>>
      BY <1>2 DEF BeginFull, BeginRoots, EndRoots, ContinueScan, BeginScan, Finish
    <2>2. EntriesFit'
      BY <2>1 DEF EntriesFit
    <2>3. CASE BeginFull \/ BeginRoots \/ EndRoots
      <3>1. /\ UNCHANGED <<scan, size, tooSmall, at>> /\ objectsMarked' \in BOOLEAN
            /\ state' \in {"pushUncollectable", "rootsPushed", "invalid", state}
        BY <2>3 DEF BeginFull, BeginRoots, EndRoots, MarkTypeOK
      <3>2. roots' \in {0} \union ((Objects + 1)..(Objects + RootAreas + 1))
        BY <2>3, AreaAssumption DEF BeginFull, BeginRoots, EndRoots, MarkTypeOK
      <3>3. QED
        BY <2>1, <2>2, <3>1, <3>2 DEF MarkTypeOK
    <2>4. CASE BeginScan
      <3>1. ScanBlock(1) /\ 1 \in 1..(Blocks + 1)
        BY <2>4, AreaAssumption DEF BeginScan
      <3>2. size' \in StackSize..MaxStack /\ tooSmall' \in BOOLEAN /\ size <= size'
        BY <2>4, GrowsFacts DEF BeginScan
      <3>3. at' \in {0} \union Object /\ scan' \in 0..(Blocks + 1) /\ roots' = roots
        BY <3>1, ScanBlockFacts
      <3>4. Len(stack) \in Nat
        BY LenProperties DEF MarkTypeOK
      <3>5. Len(stack) <= size'
        BY <3>2, <3>4, StackAssumption DEF MarkTypeOK
      <3>6. QED
        BY <2>1, <2>2, <2>4, <3>2, <3>3, <3>5 DEF BeginScan, MarkTypeOK
    <2>5. CASE ContinueScan
      <3>1. scan \in 1..(Blocks + 1)
        BY <2>5, AreaAssumption DEF ContinueScan, MarkTypeOK
      <3>2. at' \in {0} \union Object /\ scan' \in 0..(Blocks + 1)
            /\ roots' \in {0} \union ((Objects + 1)..(Objects + RootAreas + 1))
        <4>1. CASE ScanBlock(scan)
          BY <3>1, <4>1, ScanBlockFacts DEF MarkTypeOK
        <4>2. CASE ScanEnds(scan, state = "partiallyInvalid")
          BY <4>2, AreaAssumption DEF ScanEnds, MarkTypeOK
        <4>3. QED
          BY <2>5, <4>1, <4>2 DEF ContinueScan
      <3>3. QED
        BY <2>1, <2>2, <2>5, <3>2 DEF ContinueScan, MarkTypeOK
    <2>6. CASE Finish
      <3>1. size' \in StackSize..MaxStack /\ tooSmall' \in BOOLEAN /\ size <= size'
        BY <2>6, GrowsFacts DEF Finish
      <3>2. Len(stack) <= size'
        BY <3>1, LenProperties, StackAssumption DEF MarkTypeOK
      <3>3. QED
        BY <2>1, <2>2, <2>6, <3>1, <3>2 DEF Finish, MarkTypeOK
    <2>7. QED
      BY <1>2, <2>3, <2>4, <2>5, <2>6
  <1>3. CASE PushRoot
    <2>1. UNCHANGED <<contents, marked, scan, size, tooSmall, objectsMarked, at>>
      BY <1>3 DEF PushRoot
    <2>2. roots' \in {0} \union ((Objects + 1)..(Objects + RootAreas + 1))
      BY <1>3, PushRootFacts, AreaAssumption
    <2> HIDE DEF Object, Root, Area
    <2>3. QED
      BY <1>3, <2>1, <2>2, PushRootFacts DEF MarkTypeOK, EntriesFit
  <1>4. CASE TakeTop
    <2>1. UNCHANGED <<contents, marked, state, scan, size, tooSmall, roots, at>>
          /\ objectsMarked' = TRUE
      BY <1>4 DEF TakeTop
    <2> HIDE DEF Object, Root, Area
    <2>2. QED
      BY <1>4, <2>1, TakeTopFacts DEF MarkTypeOK, EntriesFit
  <1>5. CASE PushMarked
    <2>1. UNCHANGED <<contents, marked, scan, size, objectsMarked, roots>>
      BY <1>5 DEF PushMarked
    <2> HIDE DEF Object, Root, Area
    <2>2. QED
      BY <1>5, <2>1, PushMarkedFacts DEF MarkTypeOK, EntriesFit
  <1>6. CASE UNCHANGED markVars
    BY <1>6 DEF markVars, MarkTypeOK, EntriesFit
  <1>7. QED
    BY <1>1, <1>2, <1>3, <1>4, <1>5, <1>6 DEF MarkNext

------------------------------------------------------------------------------
\* The mark phase forgets nothing without remembering that it did.

LEMMA FreshStep ==
  ASSUME MarkTypeOK, Fresh, [MarkNext]_markVars
  PROVE  Fresh'
  <1>1. CASE ScanWord \/ PushRoot \/ PushMarked
    BY <1>1, AreaAssumption DEF ScanWord, PushRoot, PushMarked, Fresh, MarkTypeOK
  <1>2. CASE EndRoots \/ TakeTop \/ BeginScan \/ ContinueScan
    BY <1>2 DEF EndRoots, TakeTop, BeginScan, ContinueScan, Fresh
  <1>3. CASE BeginRoots
    BY <1>3, AreaAssumption DEF BeginRoots, Fresh
  <1>4. CASE BeginFull \/ Finish \/ UNCHANGED markVars
    BY <1>4 DEF BeginFull, Finish, markVars, Fresh, Scanning
  <1>5. QED
    BY <1>1, <1>2, <1>3, <1>4 DEF MarkNext

\* Nothing that is not being scanned covers a word.
LEMMA NotScanning ==
  ASSUME MarkTypeOK, ~Scanning, NEW a \in Area, NEW i \in Nat
  PROVE  ~Covers(cur, a, i)
  <1>1. cur.from \in Nat /\ cur.to \in Nat
    BY DEF MarkTypeOK, Entry
  <1>2. QED
    BY <1>1 DEF Covers, Scanning

LEMMA WholeCovers ==
  ASSUME NEW a \in Area, NEW i \in 1..Words[a]
  PROVE  Covers(Whole(a), a, i) /\ Words[a] # 0 /\ i \in Nat
  <1>1. Words[a] \in Nat
    BY EntryFacts
  <1>2. QED
    BY <1>1 DEF Covers, Whole

\* In a step after which the state is valid, what was not lost is not lost.
LEMMA NotLostKept ==
  ASSUME MarkTypeOK, EntriesFit, [MarkNext]_markVars, Valid', NEW a \in Area, NEW i \in 1..Words[a],
         ~Lost(a, i)
  PROVE  ~Lost(a, i)'
  <1>1. i \in Nat /\ contents' = contents
    BY WholeCovers
    DEF MarkNext, ScanWord, BeginFull, BeginRoots, PushRoot, EndRoots, TakeTop, BeginScan,
        ContinueScan, PushMarked, Finish, markVars
  <1>2. state' # "invalid" /\ state' # "aborted"
    BY DEF Valid
  <1>3. CASE UNCHANGED <<stack, cur, marked>>
    BY <1>1, <1>3 DEF Lost, Grey
  <1>4. CASE ScanWord
    <2> DEFINE v == contents[<<cur.area, cur.from>>]
    <2>1. PushContents(v) /\ v \in Pointer /\ cur' = [cur EXCEPT !.from = @ + 1]
      BY <1>4, WordInMemory DEF ScanWord
    <2>2. /\ marked' = marked \union ({v} \intersect Object)
          /\ \A k \in 1..Len(stack) : \E j \in 1..Len(stack') : stack'[j] = stack[k]
      <3> HIDE DEF v, Object
      <3>1. QED
        BY <1>2, <2>1, PushContentsFacts
    <2>3. /\ cur.area \in Area /\ cur.from \in Nat /\ cur.to \in Nat
          /\ cur'.area = cur.area /\ cur'.from = cur.from + 1 /\ cur'.to = cur.to
      BY <2>1 DEF MarkTypeOK, Entry
    <2>4. Covers(cur, a, i) => Covers(cur', a, i) \/ (a = cur.area /\ i = cur.from)
      BY <1>1, <2>3 DEF Covers
    <2>5. Grey(a, i) => Grey(a, i)' \/ (a = cur.area /\ i = cur.from)
      <3> HIDE DEF v, Object
      <3>1. QED
        BY <2>2, <2>4 DEF Grey
    <2>6. QED
      BY <1>1, <2>2, <2>5 DEF Lost
  <1>5. CASE PushRoot
    <2>1. marked' = marked /\ ~Scanning
      BY <1>5 DEF PushRoot
    <2>2. \A k \in 1..Len(stack) : k \in 1..Len(stack') /\ stack'[k] = stack[k]
      BY <1>5, PushRootFacts
    <2>3. QED
      BY <1>1, <2>1, <2>2, NotScanning DEF Lost, Grey
  <1>6. CASE TakeTop
    <2>1. marked' = marked /\ ~Scanning
      BY <1>6 DEF TakeTop, Idle
    <2>2. \A k \in 1..Len(stack) :
            Covers(stack[k], a, i) =>
              Covers(cur', a, i) \/ \E j \in 1..Len(stack') : Covers(stack'[j], a, i)
      BY <1>1, <1>6, TakeTopFacts
    <2>3. QED
      BY <1>1, <2>1, <2>2, NotScanning DEF Lost, Grey
  <1>7. CASE PushMarked
    <2>1. marked' = marked /\ ~Scanning
      BY <1>7 DEF PushMarked
    <2>2. \A k \in 1..Len(stack) : \E j \in 1..Len(stack') : stack'[j] = stack[k]
      BY <1>2, <1>7, PushMarkedFacts
    <2>3. QED
      BY <1>1, <2>1, <2>2, NotScanning DEF Lost, Grey
  <1>8. CASE BeginFull \/ BeginRoots \/ EndRoots \/ ContinueScan \/ BeginScan \/ Finish
    <2>1. UNCHANGED <<stack, cur, marked>>
      BY <1>8 DEF BeginFull, BeginRoots, EndRoots, ContinueScan, BeginScan, Finish
    <2>2. QED
      BY <1>3, <2>1
  <1>9. CASE UNCHANGED markVars
    BY <1>3, <1>9 DEF markVars
  <1>10. QED
    BY <1>4, <1>5, <1>6, <1>7, <1>8, <1>9 DEF MarkNext

\* An object that has just been put on the stack, or is being scanned, loses nothing.
LEMMA CoveredIsNotLost ==
  ASSUME NEW a \in Area,
         Words[a] = 0 \/ cur' = Whole(a) \/ \E j \in 1..Len(stack') : stack'[j] = Whole(a)
  PROVE  \A i \in 1..Words[a] : ~Lost(a, i)'
  <1> SUFFICES ASSUME NEW i \in 1..Words[a] PROVE ~Lost(a, i)'
    OBVIOUS
  <1>1. Covers(Whole(a), a, i) /\ Words[a] # 0
    BY WholeCovers
  <1>2. Grey(a, i)'
    BY <1>1 DEF Grey
  <1>3. QED
    BY <1>2 DEF Lost

\* What the invariant says of an object and of a root.
ObjectKept(o) == Pending(o) \/ \A i \in 1..Words[o] : ~Lost(o, i)
RootKept(a) == a < roots \/ state = "rootsPushed" => \A i \in 1..Words[a] : ~Lost(a, i)

LEMMA KeptStep ==
  ASSUME MarkTypeOK, EntriesFit, [MarkNext]_markVars, Valid', Valid, NothingIsForgotten
  PROVE  /\ \A o \in marked : Pending(o) \/ \A i \in 1..Words[o] : ~Lost(o, i)'
         /\ \A a \in Root : a < roots \/ state = "rootsPushed" =>
              \A i \in 1..Words[a] : ~Lost(a, i)'
  <1>1. \A o \in marked : o \in Area
    BY DEF MarkTypeOK
  <1>2. QED
    BY <1>1, NotLostKept DEF NothingIsForgotten

LEMMA ForgottenStep ==
  ASSUME MarkTypeOK, EntriesFit, Fresh, NothingIsForgotten, Complete, [MarkNext]_markVars
  PROVE  NothingIsForgotten'
  <1> SUFFICES ASSUME Valid'
               PROVE  /\ \A o \in marked' : ObjectKept(o)'
                      /\ \A a \in Root : RootKept(a)'
    BY DEF NothingIsForgotten, ObjectKept, RootKept
  <1> DEFINE Kept ==
        /\ \A o \in marked : Pending(o) \/ \A i \in 1..Words[o] : ~Lost(o, i)'
        /\ \A a \in Root : a < roots \/ state = "rootsPushed" =>
             \A i \in 1..Words[a] : ~Lost(a, i)'
  <1>1. state' # "invalid" /\ state' # "aborted"
    BY DEF Valid
  <1>2. Valid => Kept
    BY KeptStep
  <1> HIDE DEF Kept
  <1>3. CASE ScanWord
    <2>1. PICK v \in Pointer : PushContents(v)
      BY <1>3, WordInMemory DEF ScanWord
    <2>2. /\ UNCHANGED <<scan, roots, at>>
          /\ state' = state /\ marked' = marked \union ({v} \intersect Object)
          /\ v \in Object \ marked /\ Words[v] # 0 =>
               \E j \in 1..Len(stack') : stack'[j] = Whole(v)
      <3>1. UNCHANGED <<scan, roots, at>>
        BY <1>3 DEF ScanWord
      <3> HIDE DEF Object
      <3>2. QED
        BY <1>1, <2>1, <3>1, PushContentsFacts
    <2>3. Kept
      BY <1>2, <2>2 DEF Valid
    <2>4. \A o \in Object : Pending(o)' = Pending(o)
      BY <2>2 DEF Pending
    <2>5. ASSUME v \in Object \ marked PROVE ObjectKept(v)'
      BY <2>2, <2>5, CoveredIsNotLost DEF ObjectKept
    <2>6. \A o \in marked : ObjectKept(o)'
      BY <2>3, <2>4 DEF ObjectKept, Kept, MarkTypeOK
    <2>7. \A a \in Root : RootKept(a)'
      BY <2>2, <2>3 DEF RootKept, Kept
    <2>8. QED
      BY <2>2, <2>5, <2>6, <2>7
  <1>4. CASE BeginFull
    <2>1. marked' = {} /\ state' = "pushUncollectable" /\ roots' = 0
      BY <1>4 DEF BeginFull, Fresh, Idle
    <2>2. QED
      BY <2>1, AreaAssumption DEF RootKept
  <1>5. CASE BeginRoots
    <2>1. state' = state /\ marked' = marked /\ state = "pushUncollectable" /\ roots' = Objects + 1
      BY <1>5 DEF BeginRoots
    <2>2. Kept
      BY <1>2, <2>1 DEF Valid
    <2>3. QED
      BY <2>1, <2>2, AreaAssumption DEF RootKept, ObjectKept, Kept, Pending
  <1>6. CASE PushRoot
    <2>1. /\ state' = state /\ marked' = marked /\ UNCHANGED <<scan, at>>
          /\ roots \in Root /\ roots' = roots + 1
          /\ \/ Words[roots] = 0 \/ cur' = Whole(roots)
             \/ \E j \in 1..Len(stack') : stack'[j] = Whole(roots)
      BY <1>1, <1>6, PushRootFacts DEF PushRoot
    <2>2. Kept
      BY <1>2, <2>1 DEF Valid
    <2>3. PICK r \in Root : r = roots
      BY <2>1
    <2>4. \A o \in marked : ~Pending(o) /\ ~Pending(o)'
      BY <2>1, AreaAssumption DEF Pending
    <2>5. \A a \in Root : a < roots' => a < roots \/ a = r
      BY <2>1, <2>3, AreaAssumption
    <2>6. \A i \in 1..Words[r] : ~Lost(r, i)'
      BY <2>1, <2>3, CoveredIsNotLost
    <2>7. \A a \in Root : RootKept(a)'
      BY <2>1, <2>2, <2>5, <2>6 DEF RootKept, Kept
    <2>8. \A o \in marked : ObjectKept(o)'
      BY <2>2, <2>4 DEF ObjectKept, Kept
    <2>9. QED
      BY <2>1, <2>7, <2>8
  <1>7. CASE EndRoots
    <2>1. /\ state' = "rootsPushed" /\ state # "invalid" /\ state # "aborted" /\ marked' = marked
          /\ roots = Objects + RootAreas + 1
      BY <1>1, <1>7 DEF EndRoots
    <2>2. state # "none" => Kept
      BY <1>2, <2>1 DEF Valid, MarkTypeOK
    <2>3. state # "none"
      BY <2>1, AreaAssumption DEF Complete, Idle
    <2>4. \A a \in Root : a < roots
      BY <2>1, AreaAssumption
    <2>5. roots # 0
      BY <2>1, AreaAssumption
    <2>6. \A o \in marked : ~Pending(o)
      BY <2>5 DEF Pending
    <2>7. QED
      BY <2>1, <2>2, <2>3, <2>4, <2>6 DEF RootKept, ObjectKept, Kept
  <1>8. CASE TakeTop
    <2>1. UNCHANGED <<state, marked, scan, roots, at>>
      BY <1>8 DEF TakeTop
    <2>2. Kept
      BY <1>2, <2>1 DEF Valid
    <2>3. \A o \in marked : Pending(o)' = Pending(o)
      BY <2>1 DEF Pending
    <2>4. QED
      BY <2>1, <2>2, <2>3 DEF RootKept, ObjectKept, Kept
  <1>9. CASE BeginScan
    <2>1. /\ ScanBlock(1) /\ 1 \in 1..(Blocks + 1) /\ roots = 0 /\ marked' = marked
          /\ state' = "partiallyInvalid"
      BY <1>9, AreaAssumption DEF BeginScan, Idle
    <2>2. /\ scan' = 2 /\ roots' = 0
          /\ \A o \in Object : BlockOf[o] = 1 =>
               at' \in Object /\ BlockOf[at'] = 1 /\ at' <= o
      BY <2>1, ScanBlockFacts
    <2>3. \A o \in Object : Pending(o)'
      BY <2>1, <2>2, AreaAssumption DEF Pending
    <2>4. QED
      BY <2>1, <2>2, <2>3, AreaAssumption DEF RootKept, ObjectKept, MarkTypeOK
  <1>10. CASE ContinueScan
    <2>1. /\ state' = state /\ state = "partiallyInvalid" /\ marked' = marked
          /\ roots = 0 /\ at = 0 /\ scan \in 1..(Blocks + 1)
      BY <1>1, <1>10, AreaAssumption DEF ContinueScan, Idle, MarkTypeOK
    <2>2. Kept
      BY <1>2, <2>1 DEF Valid
    <2>3. CASE ScanBlock(scan)
      <3>1. /\ scan \in 1..Blocks /\ scan' = scan + 1 /\ roots' = 0
            /\ \A o \in Object : BlockOf[o] = scan =>
                 at' \in Object /\ BlockOf[at'] = scan /\ at' <= o
        BY <2>1, <2>3, ScanBlockFacts
      <3>2. \A o \in Object : Pending(o) => Pending(o)'
        BY <2>1, <3>1, AreaAssumption DEF Pending
      <3>3. QED
        BY <2>1, <2>2, <3>1, <3>2, AreaAssumption DEF RootKept, ObjectKept, Kept, MarkTypeOK
    <2>4. CASE ScanEnds(scan, state = "partiallyInvalid")
      <3>1. scan > Blocks /\ roots' = Objects + 1
        BY <2>1, <2>4 DEF ScanEnds
      <3>2. \A o \in Object : ~Pending(o)
        BY <2>1, <3>1, AreaAssumption DEF Pending
      <3>3. QED
        BY <2>1, <2>2, <3>1, <3>2, AreaAssumption DEF RootKept, ObjectKept, Kept, MarkTypeOK
    <2>5. QED
      BY <1>10, <2>3, <2>4 DEF ContinueScan
  <1>11. CASE PushMarked
    <2>1. /\ state' = state /\ marked' = marked /\ UNCHANGED <<scan, roots>> /\ at \in Object
          /\ at \in marked /\ Words[at] # 0 =>
               cur' = Whole(at) \/ \E j \in 1..Len(stack') : stack'[j] = Whole(at)
          /\ \A o \in Object :
               BlockOf[o] = BlockOf[at] /\ o > at =>
                 at' \in Object /\ BlockOf[o] = BlockOf[at'] /\ o >= at'
      BY <1>1, <1>11, PushMarkedFacts DEF PushMarked
    <2>2. Kept
      BY <1>2, <2>1 DEF Valid
    <2>3. PICK p \in Object : p = at
      BY <2>1
    <2>4. ASSUME p \in marked PROVE \A i \in 1..Words[p] : ~Lost(p, i)'
      BY <2>1, <2>3, <2>4, CoveredIsNotLost
    <2>5. \A o \in Object : Pending(o) => o = p \/ Pending(o)'
      BY <2>1, <2>3, AreaAssumption DEF Pending
    <2>6. \A o \in marked : ObjectKept(o)'
      BY <2>2, <2>4, <2>5 DEF ObjectKept, Kept, MarkTypeOK
    <2>7. \A a \in Root : RootKept(a)'
      BY <2>1, <2>2 DEF RootKept, Kept
    <2>8. QED
      BY <2>1, <2>6, <2>7
  <1>12. CASE Finish
    BY <1>1, <1>12 DEF Finish, Valid
  <1>13. CASE UNCHANGED markVars
    <2>1. UNCHANGED <<contents, state, marked, scan, roots, at, stack, cur>>
      BY <1>13 DEF markVars
    <2>2. QED
      BY <2>1 DEF NothingIsForgotten, RootKept, ObjectKept, Lost, Grey, Pending, Valid
  <1>14. QED
    BY <1>3, <1>4, <1>5, <1>6, <1>7, <1>8, <1>9, <1>10, <1>11, <1>12, <1>13 DEF MarkNext

------------------------------------------------------------------------------
\* Nothing is marked that the roots do not lead to.

\* The words of the memory stay as they are, and marks are not taken away.
LEMMA MarksGrow ==
  ASSUME MarkTypeOK, EntriesFit, [MarkNext]_markVars
  PROVE  contents' = contents /\ marked \subseteq marked'
  <1>1. CASE ScanWord
    <2>1. PICK v \in Pointer : PushContents(v)
      BY <1>1, WordInMemory DEF ScanWord
    <2>2. marked \subseteq marked'
      BY <2>1 DEF PushContents
    <2>3. QED
      BY <1>1, <2>2 DEF ScanWord
  <1>2. CASE ~ScanWord
    BY <1>2
    DEF MarkNext, BeginFull, BeginRoots, PushRoot, EndRoots, TakeTop, BeginScan, ContinueScan,
        PushMarked, Finish, markVars
  <1>3. QED
    BY <1>1, <1>2

LEMMA WithinStep ==
  ASSUME MarkTypeOK, EntriesFit, [MarkNext]_markVars, NEW S \in SUBSET Object,
         Promise!Closed(S, contents), Within(S)
  PROVE  Within(S)'
  <1>1. CASE ScanWord
    <2>1. PICK v \in Pointer : PushContents(v) /\ v = contents[<<cur.area, cur.from>>]
      BY <1>1, WordInMemory DEF ScanWord
    <2>2. cur.area \in Root \union S /\ Scanning
      BY <1>1 DEF ScanWord, Within
    <2>3. <<cur.area, cur.from>> \in DOMAIN contents
      BY <2>2, WordInMemory DEF MarkTypeOK, Memory
    <2>4. v \in Object => v \in S
      BY <2>1, <2>2, <2>3 DEF Promise!Closed
    <2>5. /\ marked' = marked \union ({v} \intersect Object)
          /\ \A k \in 1..Len(stack') :
               \/ v \in Object /\ stack'[k] = Whole(v)
               \/ \E j \in 1..Len(stack) : stack'[k] = stack[j]
      <3> HIDE DEF Object
      <3>1. QED
        BY <2>1, PushContentsFacts
    <2>6. cur'.area = cur.area
      BY <1>1 DEF ScanWord, MarkTypeOK, Entry
    <2> HIDE DEF Object, Root
    <2>7. QED
      BY <2>2, <2>4, <2>5, <2>6 DEF Within, Whole
  <1>2. CASE PushRoot
    <2>1. /\ marked' = marked /\ roots \in Root /\ ~Scanning
          /\ cur' = cur \/ cur' = Whole(roots)
          /\ \A k \in 1..Len(stack') :
               stack'[k] = Whole(roots) \/ \E j \in 1..Len(stack) : stack'[k] = stack[j]
      BY <1>2, PushRootFacts DEF PushRoot
    <2> HIDE DEF Object, Root
    <2>2. QED
      BY <2>1 DEF Within, Whole, Scanning
  <1>3. CASE TakeTop
    <2>1. /\ marked' = marked
          /\ \E j \in 1..Len(stack) : cur'.area = stack[j].area
          /\ \A k \in 1..Len(stack') : \E j \in 1..Len(stack) : stack'[k].area = stack[j].area
      BY <1>3, TakeTopFacts DEF TakeTop
    <2> HIDE DEF Object, Root
    <2>2. QED
      BY <2>1 DEF Within
  <1>4. CASE PushMarked
    <2>1. /\ marked' = marked /\ ~Scanning
          /\ cur' = cur \/ (at \in marked /\ cur' = Whole(at))
          /\ \A k \in 1..Len(stack') :
               \/ at \in marked /\ stack'[k] = Whole(at)
               \/ \E j \in 1..Len(stack) : stack'[k] = stack[j]
      BY <1>4, PushMarkedFacts DEF PushMarked
    <2> HIDE DEF Object, Root
    <2>2. QED
      BY <2>1 DEF Within, Whole, Scanning
  <1>5. CASE BeginFull \/ BeginRoots \/ EndRoots \/ BeginScan \/ ContinueScan \/ Finish
             \/ UNCHANGED markVars
    <2>1. UNCHANGED <<marked, stack, cur>>
      BY <1>5 DEF BeginFull, BeginRoots, EndRoots, BeginScan, ContinueScan, Finish, markVars
    <2>2. QED
      BY <2>1 DEF Within, Scanning
  <1>6. QED
    BY <1>1, <1>2, <1>3, <1>4, <1>5 DEF MarkNext

LEMMA SoundStep ==
  ASSUME MarkTypeOK, EntriesFit, Sound, [MarkNext]_markVars
  PROVE  Sound'
  <1>1. contents' = contents
    BY MarksGrow
  <1>2. SUFFICES ASSUME NEW S \in SUBSET Object, Promise!Closed(S, contents)
                 PROVE  Within(S)'
    BY <1>1 DEF Sound, Promise!Closed
  <1>3. Within(S)
    BY <1>2 DEF Sound
  <1>4. QED
    BY <1>2, <1>3, WithinStep

------------------------------------------------------------------------------
\* When the phase is over, everything is marked that the roots lead to.

\* Nothing follows the end.
LEMMA NoneStays ==
  ASSUME Complete, state = "none", [MarkNext]_markVars
  PROVE  UNCHANGED markVars
  <1>1. ~Scanning /\ roots = 0 /\ at = 0
    BY DEF Complete, Idle
  <1>2. QED
    BY <1>1, AreaAssumption
    DEF MarkNext, ScanWord, BeginFull, BeginRoots, PushRoot, EndRoots, TakeTop, BeginScan,
        ContinueScan, PushMarked, Finish, Marks

\* Only Finish ends the phase.
LEMMA OnlyFinishEnds ==
  ASSUME MarkTypeOK, EntriesFit, state # "none", [MarkNext]_markVars, state' = "none"
  PROVE  Finish
  <1>1. CASE ScanWord
    <2>1. PICK v \in Pointer : PushContents(v)
      BY <1>1, WordInMemory DEF ScanWord
    <2>2. state' \in {state, "invalid"}
      BY <2>1 DEF PushContents, PushObj
    <2>3. QED
      BY <2>2
  <1>2. CASE PushRoot
    <2>1. state' \in {state, "aborted"}
      BY <1>2, PushRootFacts
    <2>2. QED
      BY <2>1
  <1>3. CASE PushMarked
    <2>1. state' \in {state, "invalid"}
      BY <1>3, PushMarkedFacts
    <2>2. QED
      BY <2>1
  <1>4. CASE BeginFull \/ BeginRoots \/ EndRoots \/ TakeTop \/ BeginScan \/ ContinueScan
             \/ UNCHANGED markVars
    BY <1>4 DEF BeginFull, BeginRoots, EndRoots, TakeTop, BeginScan, ContinueScan, markVars
  <1>5. QED
    BY <1>1, <1>2, <1>3, <1>4 DEF MarkNext

LEMMA FinishIsComplete ==
  ASSUME MarkTypeOK, NothingIsForgotten, Finish
  PROVE  Promise!Closed(marked, contents)
  <1>1. /\ Valid /\ state = "rootsPushed" /\ ~Scanning
        /\ stack = << >>
    BY DEF Finish, Valid, Idle
  <1>2. SUFFICES ASSUME NEW a \in Root \union marked, NEW i \in 1..Words[a],
                        contents[<<a, i>>] \in Object
                 PROVE  contents[<<a, i>>] \in marked
    <2>1. DOMAIN contents = Word
      BY DEF MarkTypeOK, Memory
    <2>2. \A w \in Word : \E a \in Area : \E i \in 1..Words[a] : w = <<a, i>>
      BY DEF Word
    <2>3. QED
      BY <2>1, <2>2 DEF Promise!Closed
  <1>3. a \in Area
    BY DEF MarkTypeOK
  <1>4. ~Lost(a, i)
    BY <1>1 DEF NothingIsForgotten, Pending
  <1>5. 1..Len(stack) = {}
    BY <1>1
  <1>6. ~Grey(a, i)
    BY <1>1, <1>3, <1>5, NotScanning, WholeCovers DEF Grey
  <1>7. QED
    BY <1>2, <1>4, <1>6 DEF Lost

LEMMA CompleteStep ==
  ASSUME MarkTypeOK, EntriesFit, NothingIsForgotten, Complete, [MarkNext]_markVars
  PROVE  Complete'
  <1> SUFFICES ASSUME state' = "none"
               PROVE  Idle' /\ Promise!Closed(marked', contents')
    BY DEF Complete
  <1>1. CASE state = "none"
    <2>1. UNCHANGED markVars /\ Idle /\ Promise!Closed(marked, contents)
      BY <1>1, NoneStays DEF Complete
    <2>2. QED
      BY <2>1 DEF markVars, Idle, Scanning
  <1>2. CASE state # "none"
    <2>1. Finish
      BY <1>2, OnlyFinishEnds
    <2>2. Promise!Closed(marked, contents)
      BY <2>1, FinishIsComplete
    <2>3. QED
      BY <2>1, <2>2 DEF Finish, Idle, Scanning
  <1>3. QED
    BY <1>1, <1>2

------------------------------------------------------------------------------
LEMMA MarkInitInv == MarkInit => MarkInv
  <1> SUFFICES ASSUME MarkInit PROVE MarkInv
    OBVIOUS
  <1>1. stack = << >> /\ Len(stack) = 0 /\ stack \in Seq(Entry) /\ 1..Len(stack) = {}
    BY EmptySeq DEF MarkInit
  <1>2. cur \in Entry /\ Fits(cur) /\ ~Scanning
    BY EntryFacts DEF MarkInit, Nothing, Scanning
  <1>3. MarkTypeOK /\ EntriesFit
    <2>1. size \in StackSize..MaxStack /\ Len(stack) <= size
      BY <1>1, StackAssumption DEF MarkInit
    <2>2. scan \in 0..(Blocks + 1)
      BY AreaAssumption DEF MarkInit
    <2>3. tooSmall \in BOOLEAN /\ objectsMarked \in BOOLEAN
      BY DEF MarkInit
    <2>4. EntriesFit
      BY <1>1, <1>2 DEF EntriesFit
    <2>5. contents \in Memory /\ marked \subseteq Object /\ state = "invalid" /\ roots = 0 /\ at = 0
      BY DEF MarkInit
    <2>6. QED
      BY <1>1, <1>2, <2>1, <2>2, <2>3, <2>4, <2>5 DEF MarkTypeOK
  <1>4. Fresh
    BY <1>2 DEF MarkInit, Fresh
  <1>5. NothingIsForgotten /\ Complete
    BY DEF MarkInit, NothingIsForgotten, Valid, Complete
  <1>6. Sound
    BY <1>1, <1>2 DEF MarkInit, Sound, Within
  <1>7. QED
    BY <1>3, <1>4, <1>5, <1>6 DEF MarkInv

LEMMA MarkStepInv == MarkInv /\ [MarkNext]_markVars => MarkInv'
  BY TypeStep, FreshStep, ForgottenStep, SoundStep, CompleteStep DEF MarkInv

THEOREM MarkInvariance == MarkSpec => []MarkInv
  BY MarkInitInv, MarkStepInv, PTL DEF MarkSpec

(* In every state the variables of the mark phase hold what they are for:   *)
(* the mark stack stays within its size, and so do the roots and the blocks *)
(* that are still to be looked at (mark.c:437, 464).                        *)
THEOREM MarkTypeCorrect == MarkSpec => []MarkTypeOK
  <1>1. MarkInv => MarkTypeOK
    BY DEF MarkInv
  <1>2. QED
    BY <1>1, MarkInvariance, PTL

(* However small the mark stack and however often it overflows, a marked    *)
(* object is forgotten only while the state says so (mark.c:326, 437).      *)
THEOREM NothingForgotten == MarkSpec => []NothingIsForgotten
  <1>1. MarkInv => NothingIsForgotten
    BY DEF MarkInv
  <1>2. QED
    BY <1>1, MarkInvariance, PTL

------------------------------------------------------------------------------
\* What the roots lead to is marked in the end, and only that is marked ever.
LEMMA ReachableMarked ==
  ASSUME MarkTypeOK, NothingIsForgotten, Sound, Finish
  PROVE  marked = Promise!Reachable(contents)
  <1>1. marked \subseteq Object /\ Promise!Closed(marked, contents)
    BY FinishIsComplete DEF MarkTypeOK
  <1>2. marked \subseteq Promise!Reachable(contents)
    BY <1>1 DEF Sound, Within, Promise!Reachable
  <1>3. Promise!Reachable(contents) \subseteq marked
    BY <1>1 DEF Promise!Reachable
  <1>4. QED
    BY <1>2, <1>3

LEMMA StepImplements == MarkInv /\ MarkInv' /\ [MarkNext]_markVars =>
                          [Promise!Next]_<<contents, marked, state = "none">>
  <1> SUFFICES ASSUME MarkInv, MarkInv', [MarkNext]_markVars
               PROVE  [Promise!Next]_<<contents, marked, state = "none">>
    OBVIOUS
  <1>1. contents' = contents /\ marked \subseteq marked'
    BY MarksGrow DEF MarkInv
  <1>2. CASE state = "none"
    <2>1. UNCHANGED markVars
      BY <1>2, NoneStays DEF MarkInv
    <2>2. QED
      BY <2>1 DEF markVars
  <1>3. CASE state # "none" /\ state' = "none"
    <2>1. Finish
      BY <1>3, OnlyFinishEnds DEF MarkInv
    <2>2. marked = Promise!Reachable(contents)
      BY <2>1, ReachableMarked DEF MarkInv
    <2>3. UNCHANGED <<contents, marked>>
      BY <2>1 DEF Finish
    <2>4. Promise!Finish
      BY <1>3, <2>2, <2>3 DEF Promise!Finish
    <2>5. QED
      BY <2>4 DEF Promise!Next
  <1>4. CASE state # "none" /\ state' # "none"
    <2>1. marked' \subseteq Object
      BY DEF MarkInv, MarkTypeOK
    <2>2. \A S \in SUBSET Object : Promise!Closed(S, contents) => marked' \subseteq S
      BY <1>1 DEF MarkInv, Sound, Within, Promise!Closed
    <2>3. marked' \subseteq Promise!Reachable(contents)
      BY <2>1, <2>2 DEF Promise!Reachable
    <2>4. Promise!Mark
      BY <1>1, <1>4, <2>3 DEF Promise!Mark
    <2>5. QED
      BY <2>4 DEF Promise!Next
  <1>5. QED
    BY <1>2, <1>3, <1>4

(* For every memory and every mark stack, the mark phase marks objects the  *)
(* roots lead to and no others, and all of them by the time it is over      *)
(* (mark.c:252-370, 464-634): Marker implements Marking.                    *)
THEOREM MarksExactly == MarkSpec => MarksReachable
  <1>1. MarkInit => Promise!Init
    BY DEF MarkInit, Promise!Init
  <1>2. QED
    BY <1>1, MarkInvariance, StepImplements, PTL DEF MarkSpec, MarksReachable, Promise!Spec

=============================================================================
