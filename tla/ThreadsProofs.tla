----------------------------- MODULE ThreadsProofs -----------------------------
(***************************************************************************)
(* The registry of threads for any number of threads, killers and waiters: *)
(* a slot that names a thread names a live one, at that thread's index,    *)
(* whatever the threads that leave and kill each other have looked up and  *)
(* not yet used; which threads it loses; and what its count says.          *)
(***************************************************************************)
EXTENDS Threads, FiniteSetTheorems, TLAPS

Tid == Thread \union {NULL, Wild}

\* A thread about to take a slot out knows where its target is, if the vector
\* still holds it; a thread that leaves is its own target.
AimSound ==
  \A t \in Thread : pc[t] \in {"leaving", "killing"} =>
    /\ target[t].idx \in Nat
    /\ target[t].tid \in Listed => target[t].idx = tidx[target[t].tid]
    /\ pc[t] = "leaving" => target[t].tid = t

\* Who is about to be struck, or to exit, is in the vector no more.
StrickenUnlisted ==
  \A t \in Thread :
    /\ pc[t] = "striking" => target[t].tid \notin Listed
    /\ pc[t] = "detached" => t \notin Listed

\* No thread is looked up before it is spun.
TargetsBorn == \A t \in Thread : target[t].tid \in Born \union {NULL, Wild}

IInv == TypeOK /\ RegistrySound /\ AimSound /\ StrickenUnlisted /\ TargetsBorn

------------------------------------------------------------------------------
\* A thread stored in a slot is added to the vector and moves nobody.
LEMMA StoreEffect ==
  ASSUME TypeOK, NEW s \in 0..(maxIndex + 1), NEW u \in Thread \union {NULL},
         IsSpinSlot(s), StoreInSlot(s, u)
  PROVE  /\ s \in Nat
         /\ maxIndex' \in Nat
         /\ block' \in Nat
         /\ threadCount' \in Int
         /\ indexes' \in [0..maxIndex' -> Thread \union {NULL}]
         /\ s \in 0..maxIndex' /\ indexes'[s] = u
         /\ \A i \in 0..maxIndex' :
              i # s => i \in 0..maxIndex /\ indexes'[i] = indexes[i]
         /\ threadCount' = threadCount + 1
         /\ Listed' \subseteq Listed \union {u}
         /\ Listed \subseteq Listed'
         /\ u # NULL => u \in Listed'
<1>1. s \in Nat /\ maxIndex \in Nat \union {-1} /\ maxIndex' \in Nat /\ block' \in Nat
  BY DEF TypeOK, StoreInSlot
<1>2. ASSUME NEW i \in 0..maxIndex', i # s PROVE i \in 0..maxIndex
  BY <1>1, <1>2 DEF StoreInSlot
<1>3. indexes' = [i \in 0..maxIndex' |-> IF i = s THEN u ELSE indexes[i]]
  BY DEF StoreInSlot
<1>4. \A i \in 0..maxIndex : indexes[i] \in Thread \union {NULL}
  BY DEF TypeOK
<1>5. indexes' \in [0..maxIndex' -> Thread \union {NULL}]
  BY <1>2, <1>3, <1>4
<1>6. threadCount' \in Int
  BY DEF TypeOK, StoreInSlot
<1>7. s \in 0..maxIndex' /\ indexes'[s] = u
  BY <1>1, <1>3 DEF StoreInSlot
<1>8. \A i \in 0..maxIndex' : i # s => i \in 0..maxIndex /\ indexes'[i] = indexes[i]
  BY <1>2, <1>3
<1>9. Listed' \subseteq Listed \union {u}
  BY <1>7, <1>8 DEF Listed
<1>10. Listed \subseteq Listed'
  <2> SUFFICES ASSUME NEW i \in 0..maxIndex, indexes[i] # NULL
               PROVE  indexes[i] \in Listed'
    BY DEF Listed
  <2>1. i # s /\ i \in 0..maxIndex'
    BY <1>1 DEF IsSpinSlot, StoreInSlot
  <2> QED BY <1>8, <2>1 DEF Listed
<1>11. u # NULL => u \in Listed'
  BY <1>7 DEF Listed
<1>12. threadCount' = threadCount + 1
  BY DEF StoreInSlot
<1> QED BY <1>1, <1>5, <1>6, <1>7, <1>8, <1>9, <1>10, <1>11, <1>12

\* What is left of the vector when slot k was taken out of it.
LEMMA TakeOutEffect ==
  ASSUME TypeOK, fault = "none", NEW k \in Nat, TakeOut(k)
  PROVE  /\ maxIndex' \in Nat \union {-1}
         /\ indexes' \in [0..maxIndex' -> Thread \union {NULL}]
         /\ threadCount' \in Int
         /\ detached' \subseteq Thread /\ missed' \in Nat
         /\ fault' \in {"none", "bounds", "freed"}
         /\ \A i \in 0..maxIndex' :
              /\ i \in 0..maxIndex
              /\ indexes'[i] = IF i = k THEN NULL ELSE indexes[i]
         /\ Listed' \subseteq Listed
<1>0. maxIndex \in Nat \union {-1} /\ indexes \in [0..maxIndex -> Thread \union {NULL}]
  BY DEF TypeOK
<1>1. CASE k > maxIndex
  <2>1. UNCHANGED <<indexes, maxIndex, threadCount, detached, missed>> /\ fault' = "bounds"
    BY <1>1 DEF TakeOut
  <2>2. \A i \in 0..maxIndex : i # k
    BY <1>0, <1>1
  <2> QED BY <2>1, <2>2, <1>0 DEF TypeOK, Listed
<1>2. CASE ~(k > maxIndex)
  <2> DEFINE cleared == [indexes EXCEPT ![k] = NULL]
  <2>1. PICK n \in 0..maxIndex :
          /\ threadCount' = threadCount - 1
          /\ maxIndex' = n - 1
          /\ indexes' = [i \in 0..(n - 1) |-> cleared[i]]
          /\ detached' = detached \union ({indexes[k]} \ {NULL})
          /\ missed' = IF indexes[k] = NULL THEN missed + 1 ELSE missed
          /\ fault' \in ShrinkOutcomes(n)
    BY <1>2 DEF TakeOut
  <2>2. k \in 0..maxIndex
    BY <1>0, <1>2
  <2>3. n \in Nat /\ \A i \in 0..(n - 1) : i \in 0..maxIndex
    BY <1>0
  <2>4. \A i \in 0..maxIndex :
          /\ cleared[i] = IF i = k THEN NULL ELSE indexes[i]
          /\ cleared[i] \in Thread \union {NULL}
    BY <1>0, <2>2
  <2>5. maxIndex' \in Nat \union {-1}
    BY <2>1, <2>3
  <2>6. indexes' \in [0..maxIndex' -> Thread \union {NULL}]
    BY <2>1, <2>3, <2>4
  <2>7. \A i \in 0..maxIndex' :
          i \in 0..maxIndex /\ indexes'[i] = IF i = k THEN NULL ELSE indexes[i]
    BY <2>1, <2>3, <2>4
  <2>8. Listed' \subseteq Listed
    BY <2>7 DEF Listed
  <2>9. threadCount' \in Int /\ detached' \subseteq Thread /\ missed' \in Nat
    BY <2>1, <2>2, <1>0 DEF TypeOK
  <2>10. fault' \in {"none", "bounds", "freed"}
    BY <2>1 DEF ShrinkOutcomes
  <2> QED BY <2>5, <2>6, <2>7, <2>8, <2>9, <2>10
<1> QED BY <1>1, <1>2

LEMMA InitInv == Init => IInv
<1> SUFFICES ASSUME Init PROVE IInv
  OBVIOUS
<1> USE MainAssumption, NullAssumption, BoundAssumption
<1>1. TypeOK
  BY DEF Init, TypeOK, PC, NoTarget
<1>2. Listed = {Main}
  BY DEF Init, Listed
<1>3. RegistrySound
  BY DEF Init, RegistrySound, Live, Born
<1>4. AimSound /\ StrickenUnlisted
  BY DEF Init, AimSound, StrickenUnlisted
<1>5. TargetsBorn
  BY DEF Init, TargetsBorn, NoTarget
<1> QED BY <1>1, <1>3, <1>4, <1>5 DEF IInv

\* A step of t that leaves the vector alone and ends no thread keeps the
\* invariant if it keeps types, and what it makes of t's own state is sound.
LEMMA QuietStep ==
  ASSUME IInv, TypeOK', NEW t \in Thread,
         UNCHANGED <<indexes, maxIndex, tidx>>,
         \A u \in Thread \ {t} : pc'[u] = pc[u] /\ target'[u] = target[u],
         pc[t] \notin {"unborn", "dead"}, pc'[t] \notin {"unborn", "dead"},
         target'[t].tid \in Born \union {NULL, Wild},
         pc'[t] \in {"leaving", "killing"} =>
           /\ target'[t].idx \in Nat
           /\ target'[t].tid \in Listed => target'[t].idx = tidx[target'[t].tid]
           /\ pc'[t] = "leaving" => target'[t].tid = t,
         pc'[t] = "striking" => target'[t].tid \notin Listed,
         pc'[t] = "detached" => t \notin Listed
  PROVE  IInv'
<1>1. Listed' = Listed
  BY DEF Listed
<1>2. Live' = Live /\ Born' = Born
  <2>1. \A u \in Thread : /\ pc'[u] = "unborn" <=> pc[u] = "unborn"
                          /\ pc'[u] = "dead" <=> pc[u] = "dead"
    OBVIOUS
  <2> QED BY <2>1 DEF Live, Born
<1>3. RegistrySound'
  BY <1>2 DEF IInv, RegistrySound
<1>4. AimSound'
  BY <1>1 DEF IInv, AimSound
<1>5. StrickenUnlisted'
  BY <1>1 DEF IInv, StrickenUnlisted
<1>6. TargetsBorn'
  BY <1>2 DEF IInv, TargetsBorn
<1> QED BY <1>3, <1>4, <1>5, <1>6 DEF IInv

------------------------------------------------------------------------------
\* One lemma for each action.

LEMMA SpinStep ==
  ASSUME IInv, NEW t \in Thread, NEW u \in Thread, Spin(t, u)
  PROVE  IInv'
<1>1. PICK s \in 0..(maxIndex + 1) :
        IsSpinSlot(s) /\ StoreInSlot(s, u) /\ tidx' = [tidx EXCEPT ![u] = s]
  BY DEF Spin
<1>2. TypeOK
  BY DEF IInv
<1>3. /\ s \in 0..maxIndex' /\ indexes'[s] = u /\ s \in Nat
      /\ \A i \in 0..maxIndex' :
           i # s => i \in 0..maxIndex /\ indexes'[i] = indexes[i]
      /\ Listed' \subseteq Listed \union {u}
  BY <1>1, <1>2, StoreEffect
<1>4. TypeOK'
  <2>1. pc' \in [Thread -> PC] /\ tidx' \in [Thread -> Nat]
    BY <1>1, <1>2, <1>3 DEF Spin, TypeOK, PC
  <2>2. /\ maxIndex' \in Nat /\ block' \in Nat /\ threadCount' \in Int
        /\ indexes' \in [0..maxIndex' -> Thread \union {NULL}]
    BY <1>1, <1>2, StoreEffect
  <2> QED BY <1>2, <2>1, <2>2 DEF Spin, TypeOK
<1>5. u \notin Born
  BY DEF Spin, Born
<1>6. Live' = Live \union {u} /\ Born' = Born \union {u}
  BY <1>2 DEF Spin, Live, Born, TypeOK
<1>7. \A v \in Born : tidx'[v] = tidx[v] /\ pc'[v] = pc[v]
  BY <1>1, <1>2, <1>5 DEF Spin, TypeOK, Born
<1>8. RegistrySound'
  <2> SUFFICES ASSUME NEW i \in 0..maxIndex', indexes'[i] # NULL
               PROVE  indexes'[i] \in Live' /\ tidx'[indexes'[i]] = i
    BY DEF RegistrySound
  <2>1. CASE i = s
    BY <2>1, <1>1, <1>2, <1>3, <1>6 DEF TypeOK
  <2>2. CASE i # s
    BY <2>2, <1>3, <1>6, <1>7 DEF IInv, RegistrySound, Live
  <2> QED BY <2>1, <2>2
<1>9. \A v \in Thread : target'[v].tid # u
  BY <1>5, NullAssumption DEF Spin, IInv, TargetsBorn
<1>10. \A v \in Thread : pc'[v] # "created" => v # u /\ pc'[v] = pc[v]
  BY <1>2 DEF Spin, TypeOK
<1>11. AimSound'
  <2> SUFFICES ASSUME NEW v \in Thread, pc'[v] \in {"leaving", "killing"}
               PROVE  /\ target'[v].idx \in Nat
                      /\ target'[v].tid \in Listed' =>
                           target'[v].idx = tidx'[target'[v].tid]
                      /\ pc'[v] = "leaving" => target'[v].tid = v
    BY DEF AimSound
  <2>1. pc[v] = pc'[v] /\ target' = target
    BY <1>10 DEF Spin
  <2>2. target[v].tid \in Listed' => target[v].tid \in Listed /\ target[v].tid \in Born
    BY <1>3, <1>9, <2>1 DEF IInv, RegistrySound, Listed, Live
  <2> QED BY <1>7, <2>1, <2>2 DEF IInv, AimSound
<1>12. StrickenUnlisted'
  BY <1>3, <1>9, <1>10 DEF Spin, IInv, StrickenUnlisted
<1>13. TargetsBorn'
  BY <1>6 DEF Spin, IInv, TargetsBorn
<1> QED BY <1>4, <1>8, <1>11, <1>12, <1>13 DEF IInv

LEMMA CreateFailsStep ==
  ASSUME IInv, NEW t \in Thread, SpinFails(t) \/ SpinSticks(t)
  PROVE  IInv'
<1>0. CreateFails(t)
  BY DEF SpinFails, SpinSticks
<1>1. PICK s \in 0..(maxIndex + 1) : IsSpinSlot(s) /\ StoreInSlot(s, NULL)
  BY <1>0 DEF CreateFails
<1>2. TypeOK
  BY DEF IInv
<1>3. /\ indexes'[s] = NULL
      /\ \A i \in 0..maxIndex' :
           i # s => i \in 0..maxIndex /\ indexes'[i] = indexes[i]
  BY <1>1, <1>2, StoreEffect
<1>4. TypeOK'
  <2>1. /\ maxIndex' \in Nat /\ block' \in Nat /\ threadCount' \in Int
        /\ indexes' \in [0..maxIndex' -> Thread \union {NULL}]
    BY <1>1, <1>2, StoreEffect
  <2>2. failures' \in 0..MaxFailures
    BY <1>0, <1>2, BoundAssumption DEF CreateFails, TypeOK
  <2>3. pc' \in [Thread -> PC] /\ lock' \in Thread \union {NULL}
    BY <1>2 DEF SpinFails, SpinSticks, TypeOK, PC
  <2> QED BY <1>0, <1>2, <2>1, <2>2, <2>3 DEF CreateFails, TypeOK
<1>5. Listed' \subseteq Listed
  BY <1>3 DEF Listed
<1>6. /\ \A u \in Thread : pc'[u] = pc[u] \/ (pc[u] = "running" /\ pc'[u] = "stuck")
      /\ UNCHANGED <<tidx, target>>
  BY <1>0, <1>2 DEF CreateFails, SpinFails, SpinSticks, TypeOK
<1>7. Live' = Live /\ Born' = Born
  <2>1. \A u \in Thread : /\ pc'[u] = "unborn" <=> pc[u] = "unborn"
                          /\ pc'[u] = "dead" <=> pc[u] = "dead"
    BY <1>6
  <2> QED BY <2>1 DEF Live, Born
<1>8. RegistrySound'
  BY <1>3, <1>6, <1>7 DEF IInv, RegistrySound
<1>9. AimSound' /\ StrickenUnlisted' /\ TargetsBorn'
  <2>1. AimSound'
    BY <1>5, <1>6 DEF IInv, AimSound
  <2>2. StrickenUnlisted'
    BY <1>5, <1>6 DEF IInv, StrickenUnlisted
  <2>3. TargetsBorn'
    BY <1>6, <1>7 DEF IInv, TargetsBorn
  <2> QED BY <2>1, <2>2, <2>3
<1> QED BY <1>4, <1>8, <1>9 DEF IInv

\* The steps that only move their own thread, or find a fault.
LEMMA ReadHighestStep ==
  ASSUME IInv, NEW t \in Thread, ReadHighest(t)
  PROVE  IInv'
<1>1. TypeOK'
  <2>1. pc' \in [Thread -> PC]
    BY DEF ReadHighest, IInv, TypeOK, PC
  <2>2. want' \in [Thread -> Nat]
    BY DEF ReadHighest, IInv, TypeOK
  <2> QED BY <2>1, <2>2 DEF ReadHighest, IInv, TypeOK
<1> QED BY <1>1, QuietStep DEF ReadHighest, IInv, TypeOK, TargetsBorn

LEMMA ResizeTablesStep ==
  ASSUME IInv, NEW t \in Thread, ResizeTables(t)
  PROVE  IInv'
<1>1. TypeOK'
  BY DEF ResizeTables, IInv, TypeOK, PC
<1> QED BY <1>1, QuietStep DEF ResizeTables, IInv, TypeOK, TargetsBorn

LEMMA LookupStraysStep ==
  ASSUME IInv, NEW t \in Thread, LookupStrays(t)
  PROVE  IInv'
<1>1. TypeOK'
  BY DEF LookupStrays, IInv, TypeOK
<1> QED BY <1>1, QuietStep DEF LookupStrays, IInv, TypeOK, TargetsBorn

LEMMA JoinStep ==
  ASSUME IInv, NEW t \in Thread, Join(t) \/ Wake(t)
  PROVE  IInv'
<1>1. TypeOK'
  <2>1. target' \in [Thread -> [idx : Nat \union {-1}, tid : Thread \union {NULL, Wild}]]
    BY DEF Join, Wake, IInv, TypeOK, NoTarget
  <2>2. pc' \in [Thread -> PC]
    BY DEF Join, Wake, IInv, TypeOK, PC
  <2> QED BY <2>1, <2>2 DEF Join, Wake, IInv, TypeOK
<1>2. /\ pc'[t] \in {"running", "blocked"} /\ pc[t] \in {"joining", "blocked"}
      /\ target'[t] \in {target[t], NoTarget}
      /\ \A u \in Thread \ {t} : pc'[u] = pc[u] /\ target'[u] = target[u]
      /\ UNCHANGED <<indexes, maxIndex, tidx>>
  BY DEF Join, Wake, IInv, TypeOK
<1>3. target'[t].tid \in Born \union {NULL, Wild}
  BY <1>2 DEF IInv, TargetsBorn, NoTarget
<1> QED BY <1>1, <1>2, <1>3, QuietStep

LEMMA LeaveStep ==
  ASSUME IInv, NEW t \in Thread, Leave(t)
  PROVE  IInv'
<1>1. PICK i \in 0..maxIndex :
        /\ indexes[i] = t
        /\ target' = [target EXCEPT ![t] = [idx |-> i, tid |-> t]]
  BY DEF Leave
<1>2. TypeOK /\ i \in Nat /\ tidx[t] = i /\ t \in Born
  BY <1>1, NullAssumption DEF IInv, TypeOK, RegistrySound, Live
<1>3. TypeOK'
  BY <1>1, <1>2 DEF Leave, TypeOK, PC
<1>4. target'[t] = [idx |-> i, tid |-> t] /\ pc'[t] = "leaving"
  BY <1>1, <1>2 DEF Leave, TypeOK
<1> QED BY <1>1, <1>2, <1>3, <1>4, QuietStep DEF Leave, TypeOK

LEMMA LookUpStep ==
  ASSUME IInv, NEW t \in Thread, NEW u \in Born,
         LookUpVictim(t, tidx[u]) \/ LookUpForJoin(t, tidx[u])
  PROVE  IInv'
<1> DEFINE i == tidx[u]
           aim == target'[t]
<1>1. TypeOK /\ i \in Nat
  BY DEF IInv, TypeOK, Born
<1>2. i \in 0..maxIndex => indexes[i] \in Thread \union {NULL}
  BY <1>1 DEF TypeOK
<1>3. i <= maxIndex => i \in 0..maxIndex
  BY <1>1 DEF TypeOK
<1>4. /\ aim.idx = i
      /\ aim.tid \in Tid
      /\ target' = [target EXCEPT ![t] = aim]
      /\ aim = [idx |-> i, tid |-> aim.tid]
      /\ aim.tid = Wild \/ (i \in 0..maxIndex /\ aim.tid = indexes[i])
      /\ pc'[t] \in {"killing", "joining"} /\ pc[t] = "running"
      /\ pc' = [pc EXCEPT ![t] = pc'[t]]
  BY <1>1, <1>2, <1>3 DEF LookUpVictim, LookUpForJoin, TypeOK, Tid
<1>5. TypeOK'
  <2> DEFINE Aim == [idx : Nat \union {-1}, tid : Thread \union {NULL, Wild}]
  <2>1. target' \in [Thread -> Aim]
    <3>1. aim \in Aim
      <4> HIDE DEF i
      <4> QED BY <1>1, <1>4 DEF Tid
    <3>2. target \in [Thread -> Aim]
      BY <1>1 DEF TypeOK
    <3> HIDE DEF Aim, aim
    <3> QED BY <1>4, <3>1, <3>2
  <2>2. pc' \in [Thread -> PC]
    BY <1>1, <1>4 DEF TypeOK, PC
  <2> QED BY <1>1, <2>1, <2>2 DEF LookUpVictim, LookUpForJoin, TypeOK
<1>6. aim.tid \in Born \union {NULL, Wild}
  BY <1>4 DEF IInv, RegistrySound, Live
<1>7. aim.tid \in Listed => aim.idx = tidx[aim.tid]
  <2>1. aim.tid # Wild \/ aim.tid \notin Listed
    BY <1>1, NullAssumption DEF Listed, TypeOK
  <2> QED BY <2>1, <1>4 DEF IInv, RegistrySound, Listed
<1> QED BY <1>1, <1>4, <1>5, <1>6, <1>7, QuietStep
        DEF LookUpVictim, LookUpForJoin, TypeOK

\* The slot of the target goes: the target, if listed, was in that slot only.
LEMMA PrepareStep ==
  ASSUME IInv, NEW t \in Thread, Prepare(t)
  PROVE  IInv'
<1> DEFINE k == target[t].idx
           v == target[t].tid
<1>1. TypeOK /\ k \in Nat /\ fault = "none"
  BY DEF IInv, AimSound, Prepare, Unlocked
<1>2. /\ \A i \in 0..maxIndex' :
           /\ i \in 0..maxIndex
           /\ indexes'[i] = IF i = k THEN NULL ELSE indexes[i]
      /\ Listed' \subseteq Listed
  BY <1>1, TakeOutEffect DEF Prepare
<1>3. TypeOK'
  <2>1. /\ maxIndex' \in Nat \union {-1}
        /\ indexes' \in [0..maxIndex' -> Thread \union {NULL}]
        /\ threadCount' \in Int
        /\ detached' \subseteq Thread /\ missed' \in Nat
        /\ fault' \in {"none", "bounds", "freed"}
    BY <1>1, TakeOutEffect DEF Prepare
  <2>2. pc' \in [Thread -> PC]
    BY <1>1 DEF Prepare, TypeOK, PC
  <2> QED BY <1>1, <2>1, <2>2 DEF Prepare, TypeOK
<1>4. /\ pc[t] \in {"leaving", "killing"}
      /\ pc'[t] = IF pc[t] = "leaving" THEN "detached" ELSE "striking"
      /\ \A u \in Thread \ {t} : pc'[u] = pc[u]
  BY <1>1 DEF Prepare, TypeOK
<1>5. Live' = Live /\ Born' = Born
  <2>1. \A u \in Thread : /\ pc'[u] = "unborn" <=> pc[u] = "unborn"
                          /\ pc'[u] = "dead" <=> pc[u] = "dead"
    BY <1>4
  <2>2. \A u \in Thread : (u \in Born' <=> u \in Born) /\ (u \in Live' <=> u \in Live)
    BY <2>1 DEF Born, Live
  <2>3. Born \subseteq Thread /\ Born' \subseteq Thread
    BY DEF Born
  <2>4. Live \subseteq Thread /\ Live' \subseteq Thread
    BY <2>3 DEF Live
  <2> QED BY <2>2, <2>3, <2>4
<1>6. v \notin Listed'
  <2> SUFFICES ASSUME NEW i \in 0..maxIndex', indexes'[i] = v, v # NULL
               PROVE  FALSE
    BY DEF Listed
  <2>1. i # k /\ i \in 0..maxIndex /\ indexes[i] = v
    BY <1>2
  <2>2. tidx[v] = i /\ v \in Listed
    BY <2>1 DEF IInv, RegistrySound, Listed
  <2>3. k = tidx[v]
    BY <1>4, <2>2 DEF IInv, AimSound
  <2> QED BY <2>1, <2>2, <2>3
<1>7. RegistrySound'
  BY <1>2, <1>5 DEF Prepare, IInv, RegistrySound
<1>8. AimSound'
  BY <1>2, <1>4 DEF Prepare, IInv, AimSound
<1>9. StrickenUnlisted'
  <2>1. pc[t] = "leaving" => v = t
    BY DEF IInv, AimSound
  <2> QED BY <1>2, <1>4, <1>6, <2>1 DEF Prepare, IInv, StrickenUnlisted
<1>10. TargetsBorn'
  BY <1>5 DEF Prepare, IInv, TargetsBorn
<1> QED BY <1>3, <1>7, <1>8, <1>9, <1>10 DEF IInv

\* Whoever ends is in the vector no more.
LEMMA EndStep ==
  ASSUME IInv, TypeOK', NEW t \in Thread, NEW v, v \notin Listed,
         UNCHANGED <<indexes, maxIndex, tidx>>,
         \A u \in Thread \ {t, v} : pc'[u] = pc[u],
         \A u \in Thread : target'[u] \in {target[u], NoTarget},
         v \in Thread => pc[v] # "unborn" /\ pc'[v] = "dead",
         pc[t] \notin {"unborn", "dead"},
         \A u \in Thread : pc'[u] \notin {"running", "dead"} => target'[u] = target[u],
         t # v => pc'[t] = "running"
  PROVE  IInv'
<1>1. Listed' = Listed
  BY DEF Listed
<1>2. Live' = Live \ {v} /\ Born' = Born
  <2>1. \A u \in Thread : /\ pc'[u] = "unborn" <=> pc[u] = "unborn"
                          /\ u # v => (pc'[u] = "dead" <=> pc[u] = "dead")
    OBVIOUS
  <2> QED BY <2>1 DEF Live, Born
<1>3. RegistrySound'
  BY <1>2 DEF IInv, RegistrySound, Listed
<1>4. AimSound'
  BY <1>1 DEF IInv, AimSound
<1>5. StrickenUnlisted'
  BY <1>1 DEF IInv, StrickenUnlisted
<1>6. TargetsBorn'
  BY <1>2 DEF IInv, TargetsBorn, NoTarget
<1> QED BY <1>3, <1>4, <1>5, <1>6 DEF IInv

LEMMA ExitStep ==
  ASSUME IInv, NEW t \in Thread, Exit(t)
  PROVE  IInv'
<1>1. TypeOK'
  <2>1. target' \in [Thread -> [idx : Nat \union {-1}, tid : Thread \union {NULL, Wild}]]
    BY DEF Exit, IInv, TypeOK, NoTarget
  <2>2. pc' \in [Thread -> PC]
    BY DEF Exit, IInv, TypeOK, PC
  <2> QED BY <2>1, <2>2 DEF Exit, IInv, TypeOK
<1>2. t \notin Listed
  BY DEF Exit, IInv, StrickenUnlisted
<1>3. /\ pc[t] = "detached" /\ pc'[t] = "dead" /\ target'[t] = NoTarget
      /\ \A u \in Thread \ {t} : pc'[u] = pc[u] /\ target'[u] = target[u]
      /\ UNCHANGED <<indexes, maxIndex, tidx>>
  BY DEF Exit, IInv, TypeOK
<1> QED BY <1>1, <1>2, <1>3, EndStep

LEMMA StrikeStep ==
  ASSUME IInv, NEW t \in Thread, NEW v \in Thread, Strike(t, v)
  PROVE  IInv'
<1>1. TypeOK /\ pc[t] = "striking" /\ v \notin Listed /\ pc[v] # "unborn"
  BY DEF Strike, IInv, StrickenUnlisted, Live, Born
<1>2. /\ pc' = [pc EXCEPT ![t] = "running", ![v] = "dead"]
      /\ target' = [target EXCEPT ![t] = NoTarget, ![v] = NoTarget]
      /\ want' = [want EXCEPT ![v] = 0]
  BY DEF Strike
<1>3. TypeOK'
  <2>1. pc' \in [Thread -> PC]
    BY <1>1, <1>2 DEF TypeOK, PC
  <2>2. lock' \in Thread \union {NULL} /\ want' \in [Thread -> Nat]
    BY <1>1, <1>2 DEF Strike, TypeOK
  <2>3. target' \in [Thread -> [idx : Nat \union {-1}, tid : Thread \union {NULL, Wild}]]
    BY <1>1, <1>2 DEF TypeOK, NoTarget
  <2> QED BY <1>1, <2>1, <2>2, <2>3 DEF Strike, TypeOK
<1>4. /\ \A u \in Thread \ {t, v} : pc'[u] = pc[u] /\ target'[u] = target[u]
      /\ pc'[v] = "dead" /\ target'[v] = NoTarget
      /\ t # v => pc'[t] = "running" /\ target'[t] = NoTarget
  BY <1>1, <1>2 DEF TypeOK
<1>5. UNCHANGED <<indexes, maxIndex, tidx>>
  BY DEF Strike
<1> QED BY <1>1, <1>3, <1>4, <1>5, EndStep

LEMMA StrikeNobodyStep ==
  ASSUME IInv, NEW t \in Thread, StrikeNobody(t)
  PROVE  IInv'
<1>1. TypeOK /\ pc[t] = "striking"
  BY DEF StrikeNobody, IInv
<1>2. /\ pc' = [pc EXCEPT ![t] = "running"]
      /\ target' = [target EXCEPT ![t] = NoTarget]
      /\ UNCHANGED <<indexes, maxIndex, tidx>>
  BY DEF StrikeNobody
<1>3. TypeOK'
  <2>1. target' \in [Thread -> [idx : Nat \union {-1}, tid : Thread \union {NULL, Wild}]]
    BY <1>1, <1>2 DEF TypeOK, NoTarget
  <2>2. pc' \in [Thread -> PC]
    BY <1>1, <1>2 DEF TypeOK, PC
  <2> QED BY <1>1, <2>1, <2>2 DEF StrikeNobody, TypeOK
<1>4. /\ pc'[t] = "running" /\ target'[t].tid = NULL
      /\ \A u \in Thread \ {t} : pc'[u] = pc[u] /\ target'[u] = target[u]
  BY <1>1, <1>2 DEF TypeOK, NoTarget
<1> QED BY <1>1, <1>2, <1>3, <1>4, QuietStep

------------------------------------------------------------------------------
LEMMA StepInv == IInv /\ [Next]_vars => IInv'
<1> SUFFICES ASSUME IInv, [Next]_vars PROVE IInv'
  OBVIOUS
<1>1. CASE UNCHANGED vars
  BY <1>1 DEF vars, IInv, TypeOK, RegistrySound, AimSound, StrickenUnlisted,
              TargetsBorn, Listed, Live, Born
<1>2. CASE Next
  <2> PICK t \in Thread :
        \/ \E u \in Thread : Spin(t, u)
        \/ SpinFails(t) \/ SpinSticks(t)
        \/ LookupStrays(t)
        \/ Leave(t)
        \/ \E u \in Born : LookUpVictim(t, tidx[u])
        \/ \E u \in Born : LookUpForJoin(t, tidx[u])
        \/ Progress(t)
    BY <1>2 DEF Next
  <2>1. CASE Progress(t)
    BY <2>1, ReadHighestStep, ResizeTablesStep, PrepareStep, ExitStep, StrikeStep,
       StrikeNobodyStep, JoinStep DEF Progress
  <2> QED BY <2>1, SpinStep, CreateFailsStep, LookupStraysStep, LeaveStep, LookUpStep
<1> QED BY <1>1, <1>2

(* Every variable keeps its type.                                           *)
THEOREM TypeCorrect == Spec => []TypeOK
<1>1. IInv => TypeOK
  BY DEF IInv
<1> QED BY <1>1, InitInv, StepInv, PTL DEF Spec

(* A slot that names a thread names one that has not ended, and the slot is *)
(* that thread's index, for any number of threads that spin, leave and kill *)
(* each other, until the first undefined step.                              *)
THEOREM RegistryIsSound == Spec => []RegistrySound
<1>1. IInv => RegistrySound
  BY DEF IInv
<1> QED BY <1>1, InitInv, StepInv, PTL DEF Spec

------------------------------------------------------------------------------
(* Which threads the vector has lost, and what the count says of them.      *)

\* Who was terminated is in no slot, and was spun.
TerminatedGone == detached \subseteq Born /\ detached \cap Listed = {}

\* An index somebody is about to free is that of a thread.
AimBorn ==
  \A t \in Thread : pc[t] \in {"leaving", "killing"} =>
    \E w \in Born : tidx[w] = target[t].idx

LossInv ==
  /\ TerminatedGone /\ AimBorn /\ LostOnlyToLower
  /\ IsFiniteSet(Born) /\ CountAccounted

LEMMA InitLoss == Init => LossInv
<1> SUFFICES ASSUME Init PROVE LossInv
  OBVIOUS
<1> USE MainAssumption, NullAssumption
<1>1. Born = {Main} /\ detached = {} /\ Listed = {Main}
  BY DEF Init, Born, Listed
<1>2. TerminatedGone /\ AimBorn /\ LostOnlyToLower
  BY <1>1 DEF Init, TerminatedGone, AimBorn, LostOnlyToLower
<1>3. IsFiniteSet(Born) /\ Cardinality(Born \ detached) = 1
  BY <1>1, FS_Singleton
<1> QED BY <1>2, <1>3 DEF Init, LossInv, CountAccounted

\* A step that moves neither the vector nor its numbers, spins nobody and
\* looks up an index of a thread if any.
LEMMA QuietLoss ==
  ASSUME LossInv,
         UNCHANGED <<indexes, maxIndex, tidx, detached, threadCount, missed, failures>>,
         Born' = Born,
         \A u \in Thread : pc'[u] \in {"leaving", "killing"} =>
           \/ pc[u] = pc'[u] /\ target'[u] = target[u]
           \/ \E w \in Born : tidx[w] = target'[u].idx
  PROVE  LossInv'
<1>1. Listed' = Listed
  BY DEF Listed
<1>2. TerminatedGone' /\ AimBorn'
  BY <1>1 DEF LossInv, TerminatedGone, AimBorn
<1>3. LostOnlyToLower'
  BY <1>1 DEF LossInv, LostOnlyToLower, Outlived
<1> QED BY <1>2, <1>3 DEF LossInv, CountAccounted

\* A new thread takes nobody's slot and is counted.
LEMMA SpinLoss ==
  ASSUME IInv, LossInv, NEW t \in Thread, NEW u \in Thread, Spin(t, u)
  PROVE  LossInv'
<1>1. PICK s \in 0..(maxIndex + 1) :
        IsSpinSlot(s) /\ StoreInSlot(s, u) /\ tidx' = [tidx EXCEPT ![u] = s]
  BY DEF Spin
<1>2. TypeOK
  BY DEF IInv
<1>3. /\ Listed' \subseteq Listed \union {u} /\ Listed \subseteq Listed' /\ u \in Listed'
      /\ threadCount' = threadCount + 1
  BY <1>1, <1>2, StoreEffect, NullAssumption
<1>4. /\ u \notin Born /\ Born' = Born \union {u}
      /\ UNCHANGED <<detached, missed, failures, target>>
  BY <1>2 DEF Spin, Born, TypeOK
<1>5. \A v \in Born : tidx'[v] = tidx[v]
  BY <1>1, <1>2, <1>4 DEF TypeOK, Born
<1>6. \A v \in Thread : pc'[v] # "created" => pc'[v] = pc[v]
  BY <1>2 DEF Spin, TypeOK
<1>7. TerminatedGone'
  BY <1>3, <1>4 DEF LossInv, TerminatedGone
<1>8. AimBorn'
  BY <1>4, <1>5, <1>6 DEF LossInv, AimBorn
<1>9. LostOnlyToLower'
  <2> SUFFICES ASSUME NEW v \in Born', v \notin Listed', v \notin detached'
               PROVE  Outlived(v)'
    BY DEF LostOnlyToLower
  <2>1. v \in Born /\ v \notin Listed /\ v \notin detached
    BY <1>3, <1>4
  <2>2. PICK w \in detached : tidx[w] < tidx[v]
    BY <2>1 DEF LossInv, LostOnlyToLower, Outlived
  <2>3. w \in Born
    BY <2>2 DEF LossInv, TerminatedGone
  <2> QED BY <1>4, <1>5, <2>1, <2>2, <2>3 DEF Outlived
<1>10. IsFiniteSet(Born') /\ Cardinality(Born' \ detached') = Cardinality(Born \ detached) + 1
  <2>1. IsFiniteSet(Born) /\ IsFiniteSet(Born \ detached)
    BY FS_Difference DEF LossInv
  <2>2. u \notin detached /\ Born' \ detached' = (Born \ detached) \union {u}
    BY <1>4 DEF LossInv, TerminatedGone
  <2> QED BY <1>4, <2>1, <2>2, FS_AddElement
<1>11. CountAccounted'
  <2>1. Cardinality(Born \ detached) \in Nat
    BY FS_Difference, FS_CardinalityType DEF LossInv
  <2>2. threadCount \in Int /\ missed \in Nat /\ failures \in Nat
    BY <1>2, BoundAssumption DEF TypeOK
  <2>3. threadCount + missed = Cardinality(Born \ detached) + failures
    BY DEF LossInv, CountAccounted
  <2>4. threadCount' + missed' = Cardinality(Born' \ detached') + failures'
    BY <1>3, <1>4, <1>10, <2>1, <2>2, <2>3
  <2> QED BY <2>4 DEF CountAccounted
<1> QED BY <1>7, <1>8, <1>9, <1>10, <1>11 DEF LossInv

\* A thread that was refused is counted among the failures.
LEMMA CreateFailsLoss ==
  ASSUME IInv, LossInv, NEW t \in Thread, SpinFails(t) \/ SpinSticks(t)
  PROVE  LossInv'
<1>0. CreateFails(t)
  BY DEF SpinFails, SpinSticks
<1>1. PICK s \in 0..(maxIndex + 1) : IsSpinSlot(s) /\ StoreInSlot(s, NULL)
  BY <1>0 DEF CreateFails
<1>2. TypeOK
  BY DEF IInv
<1>3. /\ Listed' \subseteq Listed \union {NULL} /\ Listed \subseteq Listed'
      /\ threadCount' = threadCount + 1
  BY <1>1, <1>2, StoreEffect
<1>4. Listed' = Listed
  BY <1>3 DEF Listed
<1>5. /\ UNCHANGED <<tidx, detached, missed, target>> /\ failures' = failures + 1
      /\ \A u \in Thread : pc'[u] = pc[u] \/ (pc[u] = "running" /\ pc'[u] = "stuck")
  BY <1>0, <1>2 DEF CreateFails, SpinFails, SpinSticks, TypeOK
<1>6. Born' = Born
  BY <1>5 DEF Born
<1>7. TerminatedGone' /\ AimBorn'
  BY <1>4, <1>5, <1>6 DEF LossInv, TerminatedGone, AimBorn
<1>8. LostOnlyToLower'
  BY <1>4, <1>5, <1>6 DEF LossInv, LostOnlyToLower, Outlived
<1>9. CountAccounted'
  <2>1. Cardinality(Born \ detached) \in Nat
    BY FS_Difference, FS_CardinalityType DEF LossInv
  <2> QED BY <1>2, <1>3, <1>5, <1>6, <2>1 DEF LossInv, CountAccounted, TypeOK
<1> QED BY <1>6, <1>7, <1>8, <1>9 DEF LossInv

\* The section of __prepareThreadToTerminate: whom the cut drops above the slot
\* had a higher index than the thread that was, or is now, taken out of it.
LEMMA PrepareLoss ==
  ASSUME IInv, LossInv, NEW t \in Thread, Prepare(t)
  PROVE  LossInv'
<1> DEFINE k == target[t].idx
<1>1. TypeOK /\ k \in Nat /\ TakeOut(k)
  BY DEF IInv, AimSound, Prepare
<1>2. /\ \A u \in Thread : pc'[u] = pc[u] \/ (pc[u] \in {"leaving", "killing"} /\ pc'[u] \in {"detached", "striking"})
      /\ UNCHANGED <<tidx, target, failures>>
  BY <1>1 DEF Prepare, TypeOK
<1>3. Born' = Born
  BY <1>2 DEF Born
<1>4. AimBorn'
  BY <1>2, <1>3 DEF LossInv, AimBorn
<1>5. CASE k > maxIndex
  <2>1. UNCHANGED <<indexes, maxIndex, threadCount, detached, missed>>
    BY <1>1, <1>5 DEF TakeOut
  <2>2. Listed' = Listed
    BY <2>1 DEF Listed
  <2>3. TerminatedGone' /\ LostOnlyToLower'
    BY <1>2, <1>3, <2>1, <2>2 DEF LossInv, TerminatedGone, LostOnlyToLower, Outlived
  <2>4. CountAccounted'
    BY <1>2, <1>3, <2>1 DEF LossInv, CountAccounted
  <2> QED BY <1>3, <1>4, <2>3, <2>4 DEF LossInv
<1>6. CASE ~(k > maxIndex)
  <2> DEFINE cleared == [indexes EXCEPT ![k] = NULL]
  <2>0. k \in 0..maxIndex /\ maxIndex \in Nat
    BY <1>1, <1>6 DEF TypeOK
  <2>1. PICK n \in 0..maxIndex :
          /\ cleared[n] = NULL
          /\ \A i \in 0..maxIndex : i > n => cleared[i] # NULL
          /\ threadCount' = threadCount - 1
          /\ maxIndex' = n - 1
          /\ indexes' = [i \in 0..(n - 1) |-> cleared[i]]
          /\ detached' = detached \union ({indexes[k]} \ {NULL})
          /\ missed' = IF indexes[k] = NULL THEN missed + 1 ELSE missed
    BY <1>1, <1>6 DEF TakeOut
  <2>2. /\ \A i \in 0..maxIndex : cleared[i] = IF i = k THEN NULL ELSE indexes[i]
        /\ indexes[k] \in Thread \union {NULL}
    BY <1>1, <2>0 DEF TypeOK
  <2>3. k <= n
    BY <2>0, <2>1, <2>2
  <2>4. \A i \in 0..maxIndex' :
          i \in 0..maxIndex /\ indexes'[i] = IF i = k THEN NULL ELSE indexes[i]
    BY <2>0, <2>1, <2>2
  <2>5. \A i \in 0..maxIndex : i < n /\ i # k => i \in 0..maxIndex' /\ indexes'[i] = indexes[i]
    BY <2>0, <2>1, <2>2
  <2>6. Listed' \subseteq Listed /\ (indexes[k] # NULL => indexes[k] \in Listed)
    BY <2>0, <2>4 DEF Listed
  <2>7. indexes[k] \notin Listed'
    <3> SUFFICES ASSUME NEW i \in 0..maxIndex', indexes'[i] = indexes[k], indexes[k] # NULL
                 PROVE  FALSE
      BY DEF Listed
    <3>1. i \in 0..maxIndex /\ i # k /\ indexes[i] = indexes[k]
      BY <2>4
    <3> QED BY <2>0, <3>1 DEF IInv, RegistrySound
  <2>8. indexes[k] # NULL => indexes[k] \in Born /\ tidx[indexes[k]] = k
    BY <2>0 DEF IInv, RegistrySound, Live
  <2>9. TerminatedGone'
    BY <1>3, <2>1, <2>6, <2>7, <2>8 DEF LossInv, TerminatedGone
  <2>10. \E w \in detached' : tidx[w] <= k
    <3>1. CASE indexes[k] # NULL
      BY <2>1, <2>8, <3>1, <2>0
    <3>2. CASE indexes[k] = NULL
      <4>1. PICK w \in Born : tidx[w] = k
        BY DEF LossInv, AimBorn, Prepare
      <4>2. w \notin Listed
        <5> SUFFICES ASSUME NEW i \in 0..maxIndex, indexes[i] = w, w # NULL
                     PROVE  FALSE
          BY DEF Listed
        <5>1. tidx[w] = i
          BY DEF IInv, RegistrySound
        <5> QED BY <3>2, <4>1, <5>1
      <4>3. CASE w \in detached
        BY <2>0, <2>1, <4>1, <4>3
      <4>4. CASE Outlived(w)
        <5>1. PICK x \in detached : tidx[x] < tidx[w]
          BY <4>4 DEF Outlived
        <5>2. tidx[x] \in Nat
          BY <1>1 DEF TypeOK
        <5> QED BY <2>0, <2>1, <4>1, <5>1, <5>2
      <4> QED BY <4>2, <4>3, <4>4 DEF LossInv, LostOnlyToLower
    <3> QED BY <3>1, <3>2
  <2>11. LostOnlyToLower'
    <3> SUFFICES ASSUME NEW v \in Born, v \notin Listed', v \notin detached'
                 PROVE  \E w \in detached' : tidx[w] < tidx[v]
      BY <1>2, <1>3 DEF LostOnlyToLower, Outlived
    <3>1. v \notin detached
      BY <2>1
    <3>2. CASE v \in Listed
      <4>1. PICK i \in 0..maxIndex : indexes[i] = v /\ v # NULL
        BY <3>2 DEF Listed
      <4>2. tidx[v] = i /\ i \in Nat
        BY <4>1 DEF IInv, RegistrySound
      <4>3. i # k
        BY <2>1, <4>1
      <4>4. ~(i < n)
        BY <2>5, <4>1, <4>3 DEF Listed
      <4>5. k < i
        BY <2>0, <2>3, <4>2, <4>3, <4>4
      <4>6. PICK w \in detached' : tidx[w] <= k
        BY <2>10
      <4>7. tidx[w] \in Nat
        BY <1>1, <2>1, <2>2 DEF TypeOK
      <4> QED BY <2>0, <4>2, <4>5, <4>6, <4>7
    <3>3. CASE v \notin Listed
      BY <2>1, <3>1, <3>3 DEF LossInv, LostOnlyToLower, Outlived
    <3> QED BY <3>2, <3>3
  <2>12. CountAccounted'
    <3>1. threadCount \in Int /\ missed \in Nat /\ failures \in Nat
      BY <1>1, BoundAssumption DEF TypeOK
    <3>2. threadCount + missed = Cardinality(Born \ detached) + failures
      BY DEF LossInv, CountAccounted
    <3>3. IsFiniteSet(Born \ detached) /\ Cardinality(Born \ detached) \in Nat
      BY FS_Difference, FS_CardinalityType DEF LossInv
    <3>4. CASE indexes[k] = NULL
      <4>1. detached' = detached /\ missed' = missed + 1
        BY <2>1, <3>4
      <4>2. Born' \ detached' = Born \ detached
        BY <1>3, <4>1
      <4>3. threadCount' = threadCount - 1 /\ failures' = failures
        BY <1>2, <2>1
      <4>4. threadCount' + missed' = Cardinality(Born' \ detached') + failures'
        <5> DEFINE N == Cardinality(Born \ detached)
        <5>1. N \in Nat /\ threadCount + missed = N + failures
          BY <3>2, <3>3
        <5>2. Cardinality(Born' \ detached') = N
          BY <4>2
        <5> HIDE DEF N
        <5>3. threadCount' + missed' = N + failures'
          BY <3>1, <4>1, <4>3, <5>1
        <5> QED BY <5>2, <5>3
      <4> QED BY <4>4 DEF CountAccounted
    <3>5. CASE indexes[k] # NULL
      <4>1. detached' = detached \union {indexes[k]} /\ missed' = missed
        BY <2>1, <3>5
      <4>2. indexes[k] \in Born \ detached
        BY <2>6, <2>8, <3>5 DEF LossInv, TerminatedGone
      <4>3. Born' \ detached' = (Born \ detached) \ {indexes[k]}
        BY <1>3, <4>1
      <4>4. Cardinality(Born' \ detached') = Cardinality(Born \ detached) - 1
        <5> DEFINE S == Born \ detached
                   x == indexes[k]
        <5>1. IsFiniteSet(S) /\ x \in S /\ Born' \ detached' = S \ {x}
          BY <3>3, <4>2, <4>3
        <5> HIDE DEF S, x
        <5>2. Cardinality(S \ {x}) = Cardinality(S) - 1
          BY <5>1, FS_RemoveElement
        <5> QED BY <5>1, <5>2 DEF S
      <4>5. threadCount' + missed' = Cardinality(Born' \ detached') + failures'
        <5>1. threadCount' = threadCount - 1 /\ failures' = failures
          BY <1>2, <2>1
        <5> QED BY <3>1, <3>2, <3>3, <4>1, <4>4, <5>1
      <4> QED BY <4>5 DEF CountAccounted
    <3> QED BY <3>4, <3>5
  <2> QED BY <1>3, <1>4, <2>9, <2>11, <2>12 DEF LossInv
<1> QED BY <1>5, <1>6

LEMMA StepLoss == IInv /\ LossInv /\ [Next]_vars => LossInv'
<1> SUFFICES ASSUME IInv, LossInv, [Next]_vars PROVE LossInv'
  OBVIOUS
<1>0. TypeOK
  BY DEF IInv
<1>1. CASE UNCHANGED vars
  BY <1>1, QuietLoss DEF vars, Born
<1>2. ASSUME NEW t \in Thread, Leave(t) PROVE LossInv'
  <2>1. PICK i \in 0..maxIndex :
          /\ indexes[i] = t
          /\ target' = [target EXCEPT ![t] = [idx |-> i, tid |-> t]]
    BY <1>2 DEF Leave
  <2>2. tidx[t] = i /\ t \in Born
    BY <2>1, NullAssumption DEF IInv, RegistrySound, Live
  <2>3. /\ target'[t].idx = i /\ pc'[t] = "leaving" /\ pc[t] = "running"
        /\ \A u \in Thread \ {t} : pc'[u] = pc[u] /\ target'[u] = target[u]
    BY <1>0, <1>2, <2>1 DEF Leave, TypeOK
  <2>4. Born' = Born
    BY <2>3 DEF Born
  <2> QED BY <1>2, <2>2, <2>3, <2>4, QuietLoss DEF Leave
<1>3. ASSUME NEW t \in Thread, NEW u \in Born,
             LookUpVictim(t, tidx[u]) \/ LookUpForJoin(t, tidx[u])
      PROVE  LossInv'
  <2>1. /\ target'[t].idx = tidx[u] /\ pc'[t] \in {"killing", "joining"} /\ pc[t] = "running"
        /\ \A v \in Thread \ {t} : pc'[v] = pc[v] /\ target'[v] = target[v]
    BY <1>0, <1>3 DEF LookUpVictim, LookUpForJoin, TypeOK
  <2>2. Born' = Born
    BY <2>1 DEF Born
  <2> QED BY <1>3, <2>1, <2>2, QuietLoss DEF LookUpVictim, LookUpForJoin
<1>4. ASSUME NEW t \in Thread, ReadHighest(t) \/ ResizeTables(t) \/ LookupStrays(t)
      PROVE  LossInv'
  <2>1. /\ target' = target /\ pc[t] # "unborn" /\ pc'[t] \in {"sizing", "running"}
        /\ \A v \in Thread \ {t} : pc'[v] = pc[v]
    BY <1>0, <1>4 DEF ReadHighest, ResizeTables, LookupStrays, TypeOK
  <2>2. Born' = Born
    BY <2>1 DEF Born
  <2> QED BY <1>4, <2>1, <2>2, QuietLoss DEF ReadHighest, ResizeTables, LookupStrays
<1>5. ASSUME NEW t \in Thread, Exit(t) \/ StrikeNobody(t) \/ Join(t) \/ Wake(t)
      PROVE  LossInv'
  <2>1. /\ pc[t] # "unborn" /\ pc'[t] \in {"dead", "running", "blocked"}
        /\ \A v \in Thread \ {t} : pc'[v] = pc[v] /\ target'[v] = target[v]
    BY <1>0, <1>5 DEF Exit, StrikeNobody, Join, Wake, TypeOK
  <2>2. Born' = Born
    BY <2>1 DEF Born
  <2> QED BY <1>5, <2>1, <2>2, QuietLoss DEF Exit, StrikeNobody, Join, Wake
<1>6. ASSUME NEW t \in Thread, NEW v \in Thread, Strike(t, v)
      PROVE  LossInv'
  <2>1. /\ pc[t] # "unborn" /\ pc[v] # "unborn"
        /\ pc'[t] \in {"running", "dead"} /\ pc'[v] = "dead"
        /\ \A u \in Thread \ {t, v} : pc'[u] = pc[u] /\ target'[u] = target[u]
    BY <1>0, <1>6 DEF Strike, TypeOK, Live, Born
  <2>2. Born' = Born
    BY <2>1 DEF Born
  <2> QED BY <1>6, <2>1, <2>2, QuietLoss DEF Strike
<1>7. CASE Next
  <2> PICK t \in Thread :
        \/ \E u \in Thread : Spin(t, u)
        \/ SpinFails(t) \/ SpinSticks(t)
        \/ LookupStrays(t)
        \/ Leave(t)
        \/ \E u \in Born : LookUpVictim(t, tidx[u])
        \/ \E u \in Born : LookUpForJoin(t, tidx[u])
        \/ Progress(t)
    BY <1>7 DEF Next
  <2>1. CASE Progress(t)
    BY <1>4, <1>5, <1>6, <2>1, PrepareLoss DEF Progress
  <2> QED BY <1>2, <1>3, <1>4, <2>1, SpinLoss, CreateFailsLoss
<1> QED BY <1>1, <1>7

LEMMA LossAlways == Spec => [](IInv /\ LossInv)
<1>1. Init => IInv /\ LossInv
  BY InitInv, InitLoss
<1>2. IInv /\ LossInv /\ [Next]_vars => (IInv /\ LossInv)'
  BY StepInv, StepLoss
<1> QED BY <1>1, <1>2, PTL DEF Spec

(* Whatever threads start, stop, kill each other and are refused, in any    *)
(* number and order, the registry loses a running thread only to one that   *)
(* was terminated at a lower index (Threads.c:148-157); the main thread, at *)
(* index 0, is lost to nobody.                                              *)
THEOREM LossesExplained == Spec => []LostOnlyToLower
<1>1. IInv /\ LossInv => LostOnlyToLower
  BY DEF LossInv
<1> QED BY <1>1, LossAlways, PTL

(* What __getThreadCount returns (Threads.c:305-309), for any number of     *)
(* threads: those not terminated, off by the threads refused and by the     *)
(* terminations of an index whose thread was gone.                          *)
THEOREM CountExplained == Spec => []CountAccounted
<1>1. IInv /\ LossInv => CountAccounted
  BY DEF LossInv
<1> QED BY <1>1, LossAlways, PTL

==============================================================================
