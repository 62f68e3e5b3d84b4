--------------------------- MODULE LifecycleProofs ---------------------------
(***************************************************************************)
(* Proofs about Lifecycle, for any number of threads: if programs end      *)
(* their threads before they end, no lock is used that does not exist,     *)
(* threads never wait for each other in a circle, and the exit handler     *)
(* leaves nothing behind.                                                  *)
(***************************************************************************)
EXTENDS Lifecycle, SequenceTheorems, TLAPS

\* Step i of a script s is op on lock l.
On(s, i, op, l) == i \in 1..Len(s) /\ s[i].op = op /\ s[i].lock = l

Has(s, op) == \E i \in 1..Len(s) : s[i].op = op

\* Threads are in one phase of the library at a time: only Main before it is
\* up, only the one that ends the program after that.
Alone ==
  /\ \A t \in Thread : todo[t] # <<>> => pc[t] = "live"
  /\ phase \in {"init", "failed"} =>
       /\ pc[Main] = "live"
       /\ \A t \in Thread \ {Main} : pc[t] # "live"
  /\ phase \in {"exit", "gone", "aborted"} =>
       /\ exiter \in Thread
       /\ \A t \in Thread \ {exiter} : pc[t] # "live"
  /\ \A l \in Lock, t \in Thread : holder[l] = t => pc[t] # "unborn"

\* What the steps of a script can be.
OpsIn(p) ==
  CASE p \in {"init", "failed"} -> {"language", "create", "console", "get", "put"}
    [] p = "up" -> {"get", "put", "kill"}
    [] OTHER -> {"get", "put", "destroy", "closeAll", "close", "killAll",
                 "noConsole", "noLanguage"}

StepsOfPhase ==
  \A t \in Thread : \A i \in 1..Len(todo[t]) :
    /\ todo[t][i].op \in OpsIn(phase)
    /\ todo[t][i].op = "kill" =>
         todo[t][i].who \in Thread /\ pc[todo[t][i].who] # "unborn"

\* A step that releases l follows one that obtains it, with no release between.
GotBefore(s, i, l) ==
  \E j \in 1..(i - 1) : /\ On(s, j, "get", l)
                        /\ \A k \in (j + 1)..(i - 1) : ~On(s, k, "put", l)

\* s releases l somewhere without having obtained it itself.
Borrows(s, l) == \E i \in 1..Len(s) : On(s, i, "put", l) /\ ~GotBefore(s, i, l)

\* It does so at its first release of l only.
BorrowsOnce(s, l) ==
  \A i \in 1..Len(s) : On(s, i, "put", l) /\ ~GotBefore(s, i, l) =>
    \A j \in 1..(i - 1) : ~On(s, j, "put", l)

\* A thread releases what it has, or what it will have by then.
ReleasesOwn ==
  \A t \in Thread, l \in Lock :
    /\ BorrowsOnce(todo[t], l)
    /\ Borrows(todo[t], l) => holder[l] = t /\ depth[l] >= 1

\* OPEN keeps its lock; the others are held within a call.
Kept == "fileIOThreadLock"

\* The order of the locks: what may be obtained while l is held ranks higher.
Rank(l) == IF l = Kept THEN 0 ELSE IF l = "lock" THEN 2 ELSE 1

\* From step i on, s releases l before it obtains a lock of no higher rank.
SoonReleased(s, i, l) ==
  \E k \in i..Len(s) : /\ On(s, k, "put", l)
                       /\ \A j \in i..(k - 1), m \in Lock :
                            On(s, j, "get", m) => Rank(m) > Rank(l)

Ordered(s) ==
  \A i \in 1..Len(s), l \in Lock \ {Kept} :
    On(s, i, "get", l) => SoonReleased(s, i + 1, l)

\* Until the program ends, what a thread holds it releases before it obtains
\* anything of no higher rank.
HeldInOrder ==
  phase \in {"init", "up"} =>
    /\ \A t \in Thread : Ordered(todo[t])
    /\ \A l \in Lock \ {Kept} :
         /\ depth[l] = IF holder[l] = Nobody THEN 0 ELSE 1
         /\ \A t \in Thread : holder[l] = t /\ pc[t] = "live" => SoonReleased(todo[t], 1, l)

\* Step i of s obtains l, or will as one of the files it closes.
Uses(s, i, l) ==
  On(s, i, "get", l) \/ (i \in 1..Len(s) /\ s[i].op = "closeAll" /\ l = Kept)

\* A lock is created before it is obtained, and not obtained after its
\* destruction.
LocksReady ==
  /\ misused = None
  /\ \A l \in Lock : lockState[l] # "ready" => holder[l] = Nobody
  /\ phase = "init" =>
       /\ \A l \in Lock \ {"consoleLock"} :
            lockState[l] = "ready" \/ \E j \in 1..Len(todo[Main]) : On(todo[Main], j, "create", l)
       /\ lockState["consoleLock"] # "destroyed"
       /\ \A l \in Lock, i \in 1..Len(todo[Main]) : On(todo[Main], i, "get", l) =>
            lockState[l] = "ready" \/ \E j \in 1..(i - 1) : On(todo[Main], j, "create", l)
  /\ phase = "up" =>
       /\ \A l \in Lock \ {"consoleLock"} : lockState[l] = "ready"
       /\ lockState["consoleLock"] # "destroyed"
       /\ \A t \in Thread, l \in Lock : \A i \in 1..Len(todo[t]) :
            On(todo[t], i, "get", l) => lockState[l] = "ready"
  /\ phase = "exit" =>
       \A l \in Lock, i \in 1..Len(todo[exiter]) : Uses(todo[exiter], i, l) =>
         /\ lockState[l] = "ready"
         /\ \A j \in 1..(i - 1) : ~On(todo[exiter], j, "destroy", l)

\* The console's lock is destroyed within the driver's own end, which is there
\* once.
ConsoleLast ==
  phase = "exit" =>
    /\ \A i, j \in 1..Len(todo[exiter]) :
         todo[exiter][i].op = "noConsole" /\ todo[exiter][j].op = "noConsole" => i = j
    /\ Has(todo[exiter], "noConsole") =>
         /\ lockState["consoleLock"] # "destroyed"
         /\ \A j \in 1..Len(todo[exiter]), op \in {"get", "put", "destroy"} :
              ~On(todo[exiter], j, op, "consoleLock")

\* OPEN's lock is not released after files that are still to be closed.
ClosesFirst ==
  phase = "exit" =>
    \A i, j \in 1..Len(todo[exiter]) :
      todo[exiter][i].op = "closeAll" /\ On(todo[exiter], j, "put", Kept) => j < i

\* Every lock there is has its destruction to come, and the texts go after them.
DestroysAll ==
  /\ phase = "init" => strings \/ Has(todo[Main], "language")
  /\ phase = "up" => strings
  /\ phase = "exit" =>
       /\ \A l \in Lock : lockState[l] = "ready" =>
            \/ \E i \in 1..Len(todo[exiter]) : On(todo[exiter], i, "destroy", l)
            \/ l = "consoleLock" /\ Has(todo[exiter], "noConsole")
       /\ \A i \in 1..Len(todo[exiter]) : todo[exiter][i].op \in {"destroy", "close", "closeAll", "noConsole"} =>
            /\ strings
            /\ \A j \in 1..(i - 1) : todo[exiter][j].op # "noLanguage"
  /\ phase = "gone" => \A l \in Lock : lockState[l] # "ready"
  /\ phase = "aborted" => strings

IInv ==
  /\ TypeOK /\ Alone /\ StepsOfPhase /\ ReleasesOwn /\ HeldInOrder
  /\ LocksReady /\ ConsoleLast /\ ClosesFirst /\ DestroysAll


------------------------------------------------------------------------------
\* The steps of the scripts.
LEMMA StepsAreSteps ==
  /\ \A l \in Lock :
       /\ Get(l) \in Step /\ Get(l).op = "get" /\ Get(l).lock = l
       /\ Put(l) \in Step /\ Put(l).op = "put" /\ Put(l).lock = l
       /\ Create(l) \in Step /\ Create(l).op = "create" /\ Create(l).lock = l
       /\ Destroy(l) \in Step /\ Destroy(l).op = "destroy" /\ Destroy(l).lock = l
  /\ \A o \in {"language", "console", "noConsole", "noLanguage", "killAll", "close"} :
       [op |-> o] \in Step /\ [op |-> o].op = o
  /\ \A t \in Thread : [op |-> "kill", who |-> t] \in Step
  /\ \A n \in Nat : CloseAll(n) \in Step /\ CloseAll(n).op = "closeAll"
  BY DEF Step, Get, Put, Create, Destroy, CloseAll

\* s is p and then q.
Joins(s, p, q) ==
  /\ s \in Seq(Step) /\ Len(s) = Len(p) + Len(q)
  /\ \A i \in 1..Len(p) : s[i] = p[i]
  /\ \A i \in 1..Len(q) : s[Len(p) + i] = q[i]

LEMMA JoinedIs ==
  ASSUME NEW p \in Seq(Step), NEW q \in Seq(Step)
  PROVE  Joins(p \o q, p, q)
  BY ConcatProperties DEF Joins

LEMMA SectionIs ==
  ASSUME NEW l \in Lock
  PROVE  /\ Section(l) \in Seq(Step) /\ Len(Section(l)) = 2
         /\ Section(l)[1] = Get(l) /\ Section(l)[2] = Put(l)
  BY StepsAreSteps DEF Section

\* Two sections, one after the other.
LEMMA SectionsAre ==
  ASSUME NEW l \in Lock, NEW m \in Lock
  PROVE  LET s == Section(l) \o Section(m)
         IN /\ s \in Seq(Step) /\ Len(s) = 4
            /\ s[1] = Get(l) /\ s[2] = Put(l) /\ s[3] = Get(m) /\ s[4] = Put(m)
  <1> DEFINE a == Section(l)
             b == Section(m)
             s == a \o b
  <1>1. /\ a \in Seq(Step) /\ Len(a) = 2 /\ a[1] = Get(l) /\ a[2] = Put(l)
        /\ b \in Seq(Step) /\ Len(b) = 2 /\ b[1] = Get(m) /\ b[2] = Put(m)
    BY SectionIs
  <1>2. Joins(s, a, b)
    BY <1>1, JoinedIs
  <1> HIDE DEF a, b, s
  <1>3. /\ s \in Seq(Step) /\ Len(s) = 4
        /\ s[1] = a[1] /\ s[2] = a[2] /\ s[3] = b[1] /\ s[4] = b[2]
    BY <1>1, <1>2 DEF Joins
  <1>4. QED
    BY <1>1, <1>3 DEF s, a, b

LEMMA IndexUnderIs ==
  ASSUME NEW l \in Lock
  PROVE  /\ IndexUnder(l) \in Seq(Step) /\ Len(IndexUnder(l)) = 4
         /\ IndexUnder(l)[1] = Get(l) /\ IndexUnder(l)[2] = Get("lock")
         /\ IndexUnder(l)[3] = Put("lock") /\ IndexUnder(l)[4] = Put(l)
  <1> DEFINE a == <<Get(l)>>
             b == Section("lock")
             c == <<Put(l)>>
             d == a \o b
             s == d \o c
  <1>1. /\ a \in Seq(Step) /\ Len(a) = 1 /\ a[1] = Get(l)
        /\ c \in Seq(Step) /\ Len(c) = 1 /\ c[1] = Put(l)
    BY StepsAreSteps
  <1>2. b \in Seq(Step) /\ Len(b) = 2 /\ b[1] = Get("lock") /\ b[2] = Put("lock")
    BY SectionIs DEF Lock
  <1>3. s = IndexUnder(l)
    BY DEF IndexUnder
  <1>4. Joins(d, a, b)
    BY <1>1, <1>2, JoinedIs
  <1>5. Joins(s, d, c)
    BY <1>1, <1>4, JoinedIs DEF Joins
  <1> HIDE DEF a, b, c, d, s
  <1>6. /\ d \in Seq(Step) /\ Len(d) = 3
        /\ d[1] = a[1] /\ d[2] = b[1] /\ d[3] = b[2]
    BY <1>1, <1>2, <1>4 DEF Joins
  <1>7. /\ s \in Seq(Step) /\ Len(s) = 4
        /\ s[1] = d[1] /\ s[2] = d[2] /\ s[3] = d[3] /\ s[4] = c[1]
    BY <1>1, <1>5, <1>6 DEF Joins
  <1>8. QED
    BY <1>1, <1>2, <1>3, <1>6, <1>7

LEMMA InitThreadIs ==
  /\ InitThread \in Seq(Step) /\ Len(InitThread) = 4
  /\ InitThread[1] = Get("basicErrorLock") /\ InitThread[2] = Put("basicErrorLock")
  /\ InitThread[3] = Get("fileSystemLock") /\ InitThread[4] = Put("fileSystemLock")
  BY SectionsAre DEF InitThread, Lock

LEMMA InitScriptIs ==
  /\ InitScript \in Seq(Step) /\ Len(InitScript) = 12
  /\ InitScript[1].op = "language" /\ InitScript[2] = Create("basicErrorLock")
  /\ InitScript[3].op = "console" /\ InitScript[4] = Create("envrLock")
  /\ InitScript[5] = Create("registryLock") /\ InitScript[6] = Create("fileSystemLock")
  /\ InitScript[7] = Create("fileIOThreadLock") /\ InitScript[8] = Create("lock")
  /\ InitScript[9] = Get("basicErrorLock") /\ InitScript[10] = Put("basicErrorLock")
  /\ InitScript[11] = Get("fileSystemLock") /\ InitScript[12] = Put("fileSystemLock")
  <1> DEFINE a == <<[op |-> "language"], Create("basicErrorLock"), [op |-> "console"],
                    Create("envrLock"), Create("registryLock"), Create("fileSystemLock"),
                    Create("fileIOThreadLock"), Create("lock")>>
             b == InitThread
             s == a \o b
  <1>1. a \in Seq(Step) /\ Len(a) = 8
    BY StepsAreSteps DEF Lock
  <1>2. /\ a[1].op = "language" /\ a[2] = Create("basicErrorLock")
        /\ a[3].op = "console" /\ a[4] = Create("envrLock")
        /\ a[5] = Create("registryLock") /\ a[6] = Create("fileSystemLock")
        /\ a[7] = Create("fileIOThreadLock") /\ a[8] = Create("lock")
    OBVIOUS
  <1>3. s = InitScript
    BY DEF InitScript
  <1>4. Joins(s, a, b)
    BY <1>1, InitThreadIs, JoinedIs
  <1>5. b \in Seq(Step) /\ Len(b) = 4
    BY InitThreadIs
  <1> HIDE DEF a, b, s
  <1>6. /\ s \in Seq(Step) /\ Len(s) = 12
        /\ s[1] = a[1] /\ s[2] = a[2] /\ s[3] = a[3] /\ s[4] = a[4]
        /\ s[5] = a[5] /\ s[6] = a[6] /\ s[7] = a[7] /\ s[8] = a[8]
        /\ s[9] = b[1] /\ s[10] = b[2] /\ s[11] = b[3] /\ s[12] = b[4]
    BY <1>1, <1>4, <1>5 DEF Joins
  <1>7. QED
    BY <1>2, <1>3, <1>6, InitThreadIs DEF b

LEMMA DeinitScriptIs ==
  /\ DeinitScript \in Seq(Step) /\ Len(DeinitScript) = 12
  /\ DeinitScript[1] = Destroy("fileSystemLock") /\ DeinitScript[2].op = "closeAll"
  /\ DeinitScript[3] = Destroy("fileIOThreadLock")
  /\ DeinitScript[4] = Destroy("registryLock") /\ DeinitScript[5] = Destroy("envrLock")
  /\ DeinitScript[6] = Get("lock") /\ DeinitScript[7].op = "killAll"
  /\ DeinitScript[8] = Put("lock") /\ DeinitScript[9] = Destroy("lock")
  /\ DeinitScript[10].op = "noConsole" /\ DeinitScript[11] = Destroy("basicErrorLock")
  /\ DeinitScript[12].op = "noLanguage"
  <1> DEFINE n == CloseAll(Handles)
             a == <<Destroy("fileSystemLock"), n, Destroy("fileIOThreadLock"),
                    Destroy("registryLock"), Destroy("envrLock")>>
             b == DeinitThreadsToErrors
             c == <<[op |-> "noLanguage"]>>
             d == a \o b
             s == d \o c
  <1>0. n \in Step /\ n.op = "closeAll"
    BY StepsAreSteps, HandlesAssumption
  <1>4. s = DeinitScript
    BY DEF DeinitScript
  <1> HIDE DEF n
  <1>1. /\ a \in Seq(Step) /\ Len(a) = 5
        /\ b \in Seq(Step) /\ Len(b) = 6
        /\ c \in Seq(Step) /\ Len(c) = 1
    BY <1>0, StepsAreSteps DEF Lock, DeinitThreadsToErrors
  <1>2. /\ a[1] = Destroy("fileSystemLock") /\ a[2].op = "closeAll"
        /\ a[3] = Destroy("fileIOThreadLock")
        /\ a[4] = Destroy("registryLock") /\ a[5] = Destroy("envrLock")
    BY <1>0
  <1>3. /\ b[1] = Get("lock") /\ b[2].op = "killAll" /\ b[3] = Put("lock")
        /\ b[4] = Destroy("lock") /\ b[5].op = "noConsole" /\ b[6] = Destroy("basicErrorLock")
        /\ c[1].op = "noLanguage"
    BY DEF DeinitThreadsToErrors
  <1>5. Joins(d, a, b)
    BY <1>1, JoinedIs
  <1>6. Joins(s, d, c)
    BY <1>1, <1>5, JoinedIs DEF Joins
  <1> HIDE DEF a, b, c, d, s
  <1>7. /\ d \in Seq(Step) /\ Len(d) = 11
        /\ d[1] = a[1] /\ d[2] = a[2] /\ d[3] = a[3] /\ d[4] = a[4] /\ d[5] = a[5]
        /\ d[6] = b[1] /\ d[7] = b[2] /\ d[8] = b[3] /\ d[9] = b[4]
        /\ d[10] = b[5] /\ d[11] = b[6]
    BY <1>1, <1>5 DEF Joins
  <1>8. /\ s \in Seq(Step) /\ Len(s) = 12
        /\ \A i \in 1..11 : s[i] = d[i]
        /\ s[12] = c[1]
    BY <1>1, <1>6, <1>7 DEF Joins
  <1>9. QED
    BY <1>2, <1>3, <1>4, <1>7, <1>8

\* The steps with which a thread ends.
Return(t) ==
  Section("lock") \o PrepareToTerminate \o <<[op |-> "kill", who |-> t]>>

LEMMA ReturnIs ==
  ASSUME NEW t \in Thread
  PROVE  /\ Return(t) \in Seq(Step) /\ Len(Return(t)) = 7
         /\ Return(t)[1] = Get("lock") /\ Return(t)[2] = Put("lock")
         /\ Return(t)[3] = Get("fileSystemLock") /\ Return(t)[4] = Put("fileSystemLock")
         /\ Return(t)[5] = Get("lock") /\ Return(t)[6] = Put("lock")
         /\ Return(t)[7] = [op |-> "kill", who |-> t]
  <1> DEFINE a == Section("lock")
             b == PrepareToTerminate
             c == <<[op |-> "kill", who |-> t]>>
             d == a \o b
             s == d \o c
  <1>1. a \in Seq(Step) /\ Len(a) = 2 /\ a[1] = Get("lock") /\ a[2] = Put("lock")
    BY SectionIs DEF Lock
  <1>2. /\ b \in Seq(Step) /\ Len(b) = 4
        /\ b[1] = Get("fileSystemLock") /\ b[2] = Put("fileSystemLock")
        /\ b[3] = Get("lock") /\ b[4] = Put("lock")
    BY SectionsAre DEF PrepareToTerminate, Lock
  <1>3. c \in Seq(Step) /\ Len(c) = 1 /\ c[1] = [op |-> "kill", who |-> t]
    BY StepsAreSteps
  <1>4. s = Return(t)
    BY DEF Return
  <1>5. Joins(d, a, b)
    BY <1>1, <1>2, JoinedIs
  <1>6. Joins(s, d, c)
    BY <1>3, <1>5, JoinedIs DEF Joins
  <1> HIDE DEF a, b, c, d, s
  <1>7. /\ d \in Seq(Step) /\ Len(d) = 6
        /\ d[1] = a[1] /\ d[2] = a[2] /\ d[3] = b[1] /\ d[4] = b[2]
        /\ d[5] = b[3] /\ d[6] = b[4]
    BY <1>1, <1>2, <1>5 DEF Joins
  <1>8. /\ s \in Seq(Step) /\ Len(s) = 7
        /\ \A i \in 1..6 : s[i] = d[i]
        /\ s[7] = c[1]
    BY <1>3, <1>6, <1>7 DEF Joins
  <1>9. QED
    BY <1>1, <1>2, <1>3, <1>4, <1>7, <1>8
LEMMA TerminateIs ==
  ASSUME NEW u \in Thread
  PROVE  /\ Terminate(u) \in Seq(Step) /\ Len(Terminate(u)) = 9
         /\ Terminate(u)[1] = Get("lock") /\ Terminate(u)[2] = Put("lock")
         /\ \A i \in 1..7 : Terminate(u)[i + 2] = Return(u)[i]
  <1> DEFINE a == Section("lock")
             b == PrepareToTerminate
             c == <<[op |-> "kill", who |-> u]>>
             r == Return(u)
             s == Terminate(u)
  <1>1. a \in Seq(Step) /\ Len(a) = 2 /\ a[1] = Get("lock") /\ a[2] = Put("lock")
    BY SectionIs DEF Lock
  <1>2. b \in Seq(Step)
    BY SectionsAre DEF PrepareToTerminate, Lock
  <1>3. c \in Seq(Step)
    BY StepsAreSteps
  <1>4. r = (a \o b) \o c /\ s = ((a \o a) \o b) \o c
    BY DEF Return, Terminate
  <1>5. r \in Seq(Step) /\ Len(r) = 7
    BY ReturnIs
  <1> HIDE DEF a, b, c, r, s
  <1>6. (a \o a) \o b = a \o (a \o b)
    BY <1>1, <1>2, ConcatAssociative
  <1>7. a \o b \in Seq(Step)
    BY <1>1, <1>2, ConcatProperties
  <1>8. (a \o (a \o b)) \o c = a \o ((a \o b) \o c)
    BY <1>1, <1>3, <1>7, ConcatAssociative
  <1>9. s = a \o r
    BY <1>4, <1>6, <1>8
  <1>10. Joins(s, a, r)
    BY <1>1, <1>5, <1>9, JoinedIs
  <1>11. /\ s \in Seq(Step) /\ Len(s) = 9 /\ s[1] = a[1] /\ s[2] = a[2]
         /\ \A i \in 1..7 : s[2 + i] = r[i]
    BY <1>1, <1>5, <1>10 DEF Joins
  <1>12. QED
    BY <1>1, <1>11 DEF r, s

\* What OPEN does.
LEMMA OpenIs ==
  /\ Open \in Seq(Step) /\ Len(Open) = 3
  /\ Open[1] = Get(Kept) /\ Open[2] = Get(Kept) /\ Open[3] = Put(Kept)
  <1> DEFINE a == <<Get(Kept)>>
             b == Section(Kept)
             s == a \o b
  <1>1. a \in Seq(Step) /\ Len(a) = 1 /\ a[1] = Get(Kept)
    BY StepsAreSteps DEF Lock, Kept
  <1>2. b \in Seq(Step) /\ Len(b) = 2 /\ b[1] = Get(Kept) /\ b[2] = Put(Kept)
    BY SectionIs DEF Lock, Kept
  <1>3. s = Open
    BY DEF Open, Kept
  <1>4. Joins(s, a, b)
    BY <1>1, <1>2, JoinedIs
  <1> HIDE DEF a, b, s
  <1>5. s \in Seq(Step) /\ Len(s) = 3 /\ s[1] = a[1] /\ s[2] = b[1] /\ s[3] = b[2]
    BY <1>1, <1>2, <1>4 DEF Joins
  <1>6. QED
    BY <1>1, <1>2, <1>3, <1>5

------------------------------------------------------------------------------
\* What the scripts keep to.
Paired(s) ==
  \A i \in 1..Len(s), l \in Lock : On(s, i, "put", l) => GotBefore(s, i, l)

OpsOf(s, ops) == \A i \in 1..Len(s) : s[i].op \in ops

LEMMA FlatIsPaired ==
  ASSUME NEW s \in Seq(Step),
         \A i \in 1..Len(s) : s[i].op = "put" =>
           i > 1 /\ s[i - 1].op = "get" /\ s[i - 1].lock = s[i].lock
  PROVE  Paired(s)
  <1> SUFFICES ASSUME NEW i \in 1..Len(s), NEW l \in Lock, On(s, i, "put", l)
               PROVE  GotBefore(s, i, l)
    BY DEF Paired
  <1>1. i - 1 \in 1..(i - 1) /\ On(s, i - 1, "get", l)
    BY DEF On
  <1>2. \A k \in ((i - 1) + 1)..(i - 1) : FALSE
    OBVIOUS
  <1>3. QED
    BY <1>1, <1>2 DEF GotBefore

LEMMA FlatIsOrdered ==
  ASSUME NEW s \in Seq(Step),
         \A i \in 1..Len(s) : s[i].op = "get" =>
           i < Len(s) /\ s[i + 1].op = "put" /\ s[i + 1].lock = s[i].lock
  PROVE  Ordered(s)
  <1> SUFFICES ASSUME NEW i \in 1..Len(s), NEW l \in Lock \ {Kept}, On(s, i, "get", l)
               PROVE  SoonReleased(s, i + 1, l)
    BY DEF Ordered
  <1>1. i + 1 \in (i + 1)..Len(s) /\ On(s, i + 1, "put", l)
    BY DEF On
  <1>2. \A j \in (i + 1)..((i + 1) - 1) : FALSE
    OBVIOUS
  <1>3. QED
    BY <1>1, <1>2 DEF SoonReleased

LEMMA SectionFits ==
  ASSUME NEW l \in Lock
  PROVE  LET s == Section(l)
         IN /\ Paired(s) /\ Ordered(s) /\ OpsOf(s, {"get", "put"})
            /\ \A i \in 1..Len(s) : s[i].lock = l
  <1> DEFINE s == Section(l)
  <1>1. /\ s \in Seq(Step) /\ Len(s) = 2
        /\ s[1].op = "get" /\ s[1].lock = l /\ s[2].op = "put" /\ s[2].lock = l
    BY SectionIs, StepsAreSteps
  <1> HIDE DEF s
  <1>2. \A i \in 1..Len(s) : i = 1 \/ i = 2
    BY <1>1
  <1>3. Paired(s)
    BY <1>1, <1>2, FlatIsPaired
  <1>4. Ordered(s)
    BY <1>1, <1>2, FlatIsOrdered
  <1>5. OpsOf(s, {"get", "put"}) /\ \A i \in 1..Len(s) : s[i].lock = l
    BY <1>1, <1>2 DEF OpsOf
  <1>6. QED
    BY <1>3, <1>4, <1>5 DEF s

LEMMA IndexUnderFits ==
  ASSUME NEW l \in {"basicErrorLock", "fileSystemLock"}
  PROVE  LET s == IndexUnder(l)
         IN /\ Paired(s) /\ Ordered(s) /\ OpsOf(s, {"get", "put"})
            /\ \A i \in 1..Len(s) : s[i].lock \in {l, "lock"}
  <1> DEFINE s == IndexUnder(l)
  <1>1. /\ s \in Seq(Step) /\ Len(s) = 4
        /\ s[1].op = "get" /\ s[1].lock = l /\ s[2].op = "get" /\ s[2].lock = "lock"
        /\ s[3].op = "put" /\ s[3].lock = "lock" /\ s[4].op = "put" /\ s[4].lock = l
    BY IndexUnderIs, StepsAreSteps DEF Lock
  <1> HIDE DEF s
  <1>2. \A i \in 1..Len(s) : i = 1 \/ i = 2 \/ i = 3 \/ i = 4
    BY <1>1
  <1>3. Paired(s)
    <2> SUFFICES ASSUME NEW i \in 1..Len(s), NEW m \in Lock, On(s, i, "put", m)
                 PROVE  GotBefore(s, i, m)
      BY DEF Paired
    <2>1. CASE i = 3
      <3>1. On(s, 2, "get", m) /\ \A k \in (2 + 1)..(3 - 1) : FALSE
        BY <1>1, <2>1 DEF On
      <3>2. QED
        BY <2>1, <3>1 DEF GotBefore
    <2>2. CASE i = 4
      <3>1. On(s, 1, "get", m) /\ m = l
        BY <1>1, <2>2 DEF On
      <3>2. \A k \in (1 + 1)..(4 - 1) : k = 2 \/ k = 3
        OBVIOUS
      <3>3. \A k \in (1 + 1)..(4 - 1) : ~On(s, k, "put", m)
        BY <1>1, <3>1, <3>2 DEF On
      <3>4. QED
        BY <2>2, <3>1, <3>3 DEF GotBefore
    <2>3. QED
      BY <1>1, <1>2, <2>1, <2>2 DEF On
  <1>4. Ordered(s)
    <2> SUFFICES ASSUME NEW i \in 1..Len(s), NEW m \in Lock \ {Kept}, On(s, i, "get", m)
                 PROVE  SoonReleased(s, i + 1, m)
      BY DEF Ordered
    <2>1. CASE i = 1
      <3>1. On(s, 4, "put", m) /\ m = l /\ Rank("lock") > Rank(m)
        BY <1>1, <2>1 DEF On, Rank, Kept
      <3>2. \A j \in (1 + 1)..(4 - 1) : j = 2 \/ j = 3
        OBVIOUS
      <3>3. \A j \in (1 + 1)..(4 - 1), k \in Lock : On(s, j, "get", k) => Rank(k) > Rank(m)
        BY <1>1, <3>1, <3>2 DEF On
      <3>4. QED
        BY <1>1, <2>1, <3>1, <3>3 DEF SoonReleased
    <2>2. CASE i = 2
      <3>1. On(s, 3, "put", m) /\ \A k \in (2 + 1)..(3 - 1) : FALSE
        BY <1>1, <2>2 DEF On
      <3>2. QED
        BY <1>1, <2>2, <3>1 DEF SoonReleased
    <2>3. QED
      BY <1>1, <1>2, <2>1, <2>2 DEF On
  <1>5. OpsOf(s, {"get", "put"}) /\ \A i \in 1..Len(s) : s[i].lock \in {l, "lock"}
    BY <1>1, <1>2 DEF OpsOf
  <1>6. QED
    BY <1>3, <1>4, <1>5 DEF s

LEMMA InitThreadFits ==
  /\ Paired(InitThread) /\ Ordered(InitThread) /\ OpsOf(InitThread, {"get", "put"})
  /\ \A i \in 1..Len(InitThread) : InitThread[i].lock \in {"basicErrorLock", "fileSystemLock"}
  <1> DEFINE s == InitThread
  <1>1. /\ s \in Seq(Step) /\ Len(s) = 4
        /\ s[1].op = "get" /\ s[1].lock = "basicErrorLock"
        /\ s[2].op = "put" /\ s[2].lock = "basicErrorLock"
        /\ s[3].op = "get" /\ s[3].lock = "fileSystemLock"
        /\ s[4].op = "put" /\ s[4].lock = "fileSystemLock"
    BY InitThreadIs, StepsAreSteps DEF Lock
  <1> HIDE DEF s
  <1>2. \A i \in 1..Len(s) : i = 1 \/ i = 2 \/ i = 3 \/ i = 4
    BY <1>1
  <1>3. Paired(s)
    <2>1. \A i \in 1..Len(s) : s[i].op = "put" =>
            i > 1 /\ s[i - 1].op = "get" /\ s[i - 1].lock = s[i].lock
      BY <1>1, <1>2
    <2>2. QED
      BY <1>1, <2>1, FlatIsPaired
  <1>4. Ordered(s)
    <2>1. \A i \in 1..Len(s) : s[i].op = "get" =>
            i < Len(s) /\ s[i + 1].op = "put" /\ s[i + 1].lock = s[i].lock
      BY <1>1, <1>2
    <2>2. QED
      BY <1>1, <2>1, FlatIsOrdered
  <1>5. /\ OpsOf(s, {"get", "put"})
        /\ \A i \in 1..Len(s) : s[i].lock \in {"basicErrorLock", "fileSystemLock"}
    BY <1>1, <1>2 DEF OpsOf
  <1>6. QED
    BY <1>3, <1>4, <1>5 DEF s

LEMMA ReturnFits ==
  ASSUME NEW t \in Thread
  PROVE  LET s == Return(t)
         IN /\ Paired(s) /\ Ordered(s) /\ OpsOf(s, {"get", "put", "kill"})
            /\ \A i \in 1..Len(s) :
                 /\ s[i].op = "get" => s[i].lock \in {"lock", "fileSystemLock"}
                 /\ s[i].op = "kill" => s[i].who = t
  <1> DEFINE s == Return(t)
  <1>1. /\ s \in Seq(Step) /\ Len(s) = 7
        /\ s[1].op = "get" /\ s[1].lock = "lock" /\ s[2].op = "put" /\ s[2].lock = "lock"
        /\ s[3].op = "get" /\ s[3].lock = "fileSystemLock"
        /\ s[4].op = "put" /\ s[4].lock = "fileSystemLock"
        /\ s[5].op = "get" /\ s[5].lock = "lock" /\ s[6].op = "put" /\ s[6].lock = "lock"
        /\ s[7].op = "kill" /\ s[7].who = t
    <2>1. LET k == [op |-> "kill", who |-> t] IN k.op = "kill" /\ k.who = t
      OBVIOUS
    <2>2. s[7].op = "kill" /\ s[7].who = t
      BY <2>1, ReturnIs
    <2>3. /\ s \in Seq(Step) /\ Len(s) = 7
          /\ s[1] = Get("lock") /\ s[2] = Put("lock")
          /\ s[3] = Get("fileSystemLock") /\ s[4] = Put("fileSystemLock")
          /\ s[5] = Get("lock") /\ s[6] = Put("lock")
      BY ReturnIs
    <2> HIDE DEF s
    <2>4. QED
      BY <2>2, <2>3, StepsAreSteps DEF Lock
  <1> HIDE DEF s
  <1>2. \A i \in 1..Len(s) : i = 1 \/ i = 2 \/ i = 3 \/ i = 4 \/ i = 5 \/ i = 6 \/ i = 7
    BY <1>1
  <1>3. Paired(s)
    <2>1. \A i \in 1..Len(s) : s[i].op = "put" =>
            i > 1 /\ s[i - 1].op = "get" /\ s[i - 1].lock = s[i].lock
      BY <1>1, <1>2
    <2>2. QED
      BY <1>1, <2>1, FlatIsPaired
  <1>4. Ordered(s)
    <2>1. \A i \in 1..Len(s) : s[i].op = "get" =>
            i < Len(s) /\ s[i + 1].op = "put" /\ s[i + 1].lock = s[i].lock
      BY <1>1, <1>2
    <2>2. QED
      BY <1>1, <2>1, FlatIsOrdered
  <1>5. /\ OpsOf(s, {"get", "put", "kill"})
        /\ \A i \in 1..Len(s) :
             /\ s[i].op = "get" => s[i].lock \in {"lock", "fileSystemLock"}
             /\ s[i].op = "kill" => s[i].who = t
    BY <1>1, <1>2 DEF OpsOf
  <1>6. QED
    BY <1>3, <1>4, <1>5 DEF s

LEMMA TerminateFits ==
  ASSUME NEW u \in Thread
  PROVE  LET s == Terminate(u)
         IN /\ Paired(s) /\ Ordered(s) /\ OpsOf(s, {"get", "put", "kill"})
            /\ \A i \in 1..Len(s) :
                 /\ s[i].op = "get" => s[i].lock \in {"lock", "fileSystemLock"}
                 /\ s[i].op = "kill" => s[i].who = u
  <1> DEFINE s == Terminate(u)
             k == [op |-> "kill", who |-> u]
  <1>1. k.op = "kill" /\ k.who = u
    OBVIOUS
  <1>2. /\ s \in Seq(Step) /\ Len(s) = 9 /\ s[1] = Get("lock") /\ s[2] = Put("lock")
        /\ \A i \in 1..7 : s[i + 2] = Return(u)[i]
    BY TerminateIs
  <1>3. /\ s[3] = Get("lock") /\ s[4] = Put("lock")
        /\ s[5] = Get("fileSystemLock") /\ s[6] = Put("fileSystemLock")
        /\ s[7] = Get("lock") /\ s[8] = Put("lock") /\ s[9] = k
    <2>1. /\ Return(u)[1] = Get("lock") /\ Return(u)[2] = Put("lock")
          /\ Return(u)[3] = Get("fileSystemLock") /\ Return(u)[4] = Put("fileSystemLock")
          /\ Return(u)[5] = Get("lock") /\ Return(u)[6] = Put("lock")
          /\ Return(u)[7] = k
      BY ReturnIs
    <2> HIDE DEF s, k
    <2>2. /\ s[1 + 2] = Return(u)[1] /\ s[2 + 2] = Return(u)[2] /\ s[3 + 2] = Return(u)[3]
          /\ s[4 + 2] = Return(u)[4] /\ s[5 + 2] = Return(u)[5] /\ s[6 + 2] = Return(u)[6]
          /\ s[7 + 2] = Return(u)[7]
      BY <1>2
    <2>3. QED
      BY <2>1, <2>2
  <1> HIDE DEF s, k
  <1>4. /\ s[1].op = "get" /\ s[1].lock = "lock" /\ s[2].op = "put" /\ s[2].lock = "lock"
        /\ s[3].op = "get" /\ s[3].lock = "lock" /\ s[4].op = "put" /\ s[4].lock = "lock"
        /\ s[5].op = "get" /\ s[5].lock = "fileSystemLock"
        /\ s[6].op = "put" /\ s[6].lock = "fileSystemLock"
        /\ s[7].op = "get" /\ s[7].lock = "lock" /\ s[8].op = "put" /\ s[8].lock = "lock"
        /\ s[9].op = "kill" /\ s[9].who = u
    BY <1>1, <1>2, <1>3, StepsAreSteps DEF Lock
  <1>5. \A i \in 1..Len(s) : \/ i = 1 \/ i = 2 \/ i = 3 \/ i = 4 \/ i = 5 \/ i = 6
                             \/ i = 7 \/ i = 8 \/ i = 9
    BY <1>2
  <1>6. Paired(s)
    <2>1. \A i \in 1..Len(s) : s[i].op = "put" =>
            i > 1 /\ s[i - 1].op = "get" /\ s[i - 1].lock = s[i].lock
      BY <1>4, <1>5
    <2>2. QED
      BY <1>2, <2>1, FlatIsPaired
  <1>7. Ordered(s)
    <2>1. \A i \in 1..Len(s) : s[i].op = "get" =>
            i < Len(s) /\ s[i + 1].op = "put" /\ s[i + 1].lock = s[i].lock
      BY <1>2, <1>4, <1>5
    <2>2. QED
      BY <1>2, <2>1, FlatIsOrdered
  <1>8. /\ OpsOf(s, {"get", "put", "kill"})
        /\ \A i \in 1..Len(s) :
             /\ s[i].op = "get" => s[i].lock \in {"lock", "fileSystemLock"}
             /\ s[i].op = "kill" => s[i].who = u
    BY <1>4, <1>5 DEF OpsOf
  <1>9. QED
    BY <1>6, <1>7, <1>8 DEF s

LEMMA OpenFits ==
  /\ Paired(Open) /\ Ordered(Open) /\ OpsOf(Open, {"get", "put"})
  /\ \A i \in 1..Len(Open) : Open[i].lock = Kept
  <1> DEFINE s == Open
  <1>1. /\ s \in Seq(Step) /\ Len(s) = 3
        /\ s[1].op = "get" /\ s[1].lock = Kept /\ s[2].op = "get" /\ s[2].lock = Kept
        /\ s[3].op = "put" /\ s[3].lock = Kept
    BY OpenIs, StepsAreSteps DEF Lock, Kept
  <1> HIDE DEF s
  <1>2. \A i \in 1..Len(s) : i = 1 \/ i = 2 \/ i = 3
    BY <1>1
  <1>3. Paired(s)
    <2>1. \A i \in 1..Len(s) : s[i].op = "put" =>
            i > 1 /\ s[i - 1].op = "get" /\ s[i - 1].lock = s[i].lock
      BY <1>1, <1>2
    <2>2. QED
      BY <1>1, <2>1, FlatIsPaired
  <1>4. Ordered(s)
    BY <1>1, <1>2 DEF Ordered, On
  <1>5. OpsOf(s, {"get", "put"}) /\ \A i \in 1..Len(s) : s[i].lock = Kept
    BY <1>1, <1>2 DEF OpsOf
  <1>6. QED
    BY <1>3, <1>4, <1>5 DEF s

LEMMA InitScriptFits ==
  /\ Paired(InitScript) /\ Ordered(InitScript)
  /\ OpsOf(InitScript, {"language", "create", "console", "get", "put"})
  /\ Has(InitScript, "language")
  /\ \A l \in Lock \ {"consoleLock"} :
       \E j \in 1..8 : j \in 1..Len(InitScript) /\ On(InitScript, j, "create", l)
  /\ \A i \in 1..Len(InitScript) : InitScript[i].op = "get" =>
       i > 8 /\ InitScript[i].lock \in {"basicErrorLock", "fileSystemLock"}
  <1> DEFINE s == InitScript
  <1>1. /\ s \in Seq(Step) /\ Len(s) = 12 /\ s[1].op = "language"
        /\ s[2].op = "create" /\ s[2].lock = "basicErrorLock" /\ s[3].op = "console"
        /\ s[4].op = "create" /\ s[4].lock = "envrLock"
        /\ s[5].op = "create" /\ s[5].lock = "registryLock"
        /\ s[6].op = "create" /\ s[6].lock = "fileSystemLock"
        /\ s[7].op = "create" /\ s[7].lock = "fileIOThreadLock"
        /\ s[8].op = "create" /\ s[8].lock = "lock"
        /\ s[9].op = "get" /\ s[9].lock = "basicErrorLock"
        /\ s[10].op = "put" /\ s[10].lock = "basicErrorLock"
        /\ s[11].op = "get" /\ s[11].lock = "fileSystemLock"
        /\ s[12].op = "put" /\ s[12].lock = "fileSystemLock"
    BY InitScriptIs, StepsAreSteps DEF Lock
  <1> HIDE DEF s
  <1>2. \A i \in 1..Len(s) : \/ i = 1 \/ i = 2 \/ i = 3 \/ i = 4 \/ i = 5 \/ i = 6
                             \/ i = 7 \/ i = 8 \/ i = 9 \/ i = 10 \/ i = 11 \/ i = 12
    BY <1>1
  <1>3. Paired(s)
    <2>1. \A i \in 1..Len(s) : s[i].op = "put" =>
            i > 1 /\ s[i - 1].op = "get" /\ s[i - 1].lock = s[i].lock
      BY <1>1, <1>2
    <2>2. QED
      BY <1>1, <2>1, FlatIsPaired
  <1>4. Ordered(s)
    <2>1. \A i \in 1..Len(s) : s[i].op = "get" =>
            i < Len(s) /\ s[i + 1].op = "put" /\ s[i + 1].lock = s[i].lock
      BY <1>1, <1>2
    <2>2. QED
      BY <1>1, <2>1, FlatIsOrdered
  <1>5. /\ OpsOf(s, {"language", "create", "console", "get", "put"})
        /\ \A i \in 1..Len(s) : s[i].op = "get" =>
             i > 8 /\ s[i].lock \in {"basicErrorLock", "fileSystemLock"}
    BY <1>1, <1>2 DEF OpsOf
  <1>6. Has(s, "language")
    BY <1>1 DEF Has
  <1>7. \A l \in Lock \ {"consoleLock"} :
          \E j \in 1..8 : j \in 1..Len(s) /\ On(s, j, "create", l)
    <2>1. /\ On(s, 2, "create", "basicErrorLock") /\ On(s, 4, "create", "envrLock")
          /\ On(s, 5, "create", "registryLock") /\ On(s, 6, "create", "fileSystemLock")
          /\ On(s, 7, "create", "fileIOThreadLock") /\ On(s, 8, "create", "lock")
      BY <1>1 DEF On
    <2>2. \A j \in 1..8 : j \in 1..Len(s)
      BY <1>1
    <2>3. QED
      BY <2>1, <2>2 DEF Lock
  <1>8. QED
    BY <1>3, <1>4, <1>5, <1>6, <1>7 DEF s

LEMMA DeinitScriptFits ==
  /\ Paired(DeinitScript)
  /\ OpsOf(DeinitScript, {"destroy", "closeAll", "get", "killAll", "put", "noConsole", "noLanguage"})
  /\ \A i \in 1..Len(DeinitScript) :
       /\ DeinitScript[i].op = "get" => i = 6 /\ DeinitScript[i].lock = "lock"
       /\ DeinitScript[i].op = "closeAll" => i = 2
       /\ DeinitScript[i].op = "noConsole" => i = 10
       /\ DeinitScript[i].op = "noLanguage" => i = 12
       /\ DeinitScript[i].op \in {"get", "put", "destroy"} => DeinitScript[i].lock # "consoleLock"
       /\ DeinitScript[i].op = "destroy" /\ DeinitScript[i].lock = "lock" => i = 9
       /\ DeinitScript[i].op = "destroy" /\ DeinitScript[i].lock = Kept => i = 3
  /\ Len(DeinitScript) = 12
  /\ Has(DeinitScript, "noConsole")
  /\ \A l \in Lock \ {"consoleLock"} :
       \E j \in 1..Len(DeinitScript) : On(DeinitScript, j, "destroy", l)
  <1> DEFINE s == DeinitScript
  <1>1. /\ s \in Seq(Step) /\ Len(s) = 12
        /\ s[1].op = "destroy" /\ s[1].lock = "fileSystemLock" /\ s[2].op = "closeAll"
        /\ s[3].op = "destroy" /\ s[3].lock = "fileIOThreadLock"
        /\ s[4].op = "destroy" /\ s[4].lock = "registryLock"
        /\ s[5].op = "destroy" /\ s[5].lock = "envrLock"
        /\ s[6].op = "get" /\ s[6].lock = "lock" /\ s[7].op = "killAll"
        /\ s[8].op = "put" /\ s[8].lock = "lock" /\ s[9].op = "destroy" /\ s[9].lock = "lock"
        /\ s[10].op = "noConsole" /\ s[11].op = "destroy" /\ s[11].lock = "basicErrorLock"
        /\ s[12].op = "noLanguage"
    BY DeinitScriptIs, StepsAreSteps DEF Lock
  <1> HIDE DEF s
  <1>2. \A i \in 1..Len(s) : \/ i = 1 \/ i = 2 \/ i = 3 \/ i = 4 \/ i = 5 \/ i = 6
                             \/ i = 7 \/ i = 8 \/ i = 9 \/ i = 10 \/ i = 11 \/ i = 12
    BY <1>1
  <1>3. Paired(s)
    <2> SUFFICES ASSUME NEW i \in 1..Len(s), NEW m \in Lock, On(s, i, "put", m)
                 PROVE  GotBefore(s, i, m)
      BY DEF Paired
    <2>1. i = 8 /\ On(s, 6, "get", m)
      BY <1>1, <1>2 DEF On
    <2>2. \A k \in (6 + 1)..(8 - 1) : k = 7
      OBVIOUS
    <2>3. \A k \in (6 + 1)..(8 - 1) : ~On(s, k, "put", m)
      BY <1>1, <2>2 DEF On
    <2>4. QED
      BY <2>1, <2>3 DEF GotBefore
  <1>4. OpsOf(s, {"destroy", "closeAll", "get", "killAll", "put", "noConsole", "noLanguage"})
    BY <1>1, <1>2 DEF OpsOf
  <1>5. \A i \in 1..Len(s) :
          /\ s[i].op = "get" => i = 6 /\ s[i].lock = "lock"
          /\ s[i].op = "closeAll" => i = 2
          /\ s[i].op = "noConsole" => i = 10
          /\ s[i].op = "noLanguage" => i = 12
          /\ s[i].op \in {"get", "put", "destroy"} => s[i].lock # "consoleLock"
          /\ s[i].op = "destroy" /\ s[i].lock = "lock" => i = 9
          /\ s[i].op = "destroy" /\ s[i].lock = Kept => i = 3
    BY <1>1, <1>2 DEF Kept
  <1>6. Has(s, "noConsole")
    BY <1>1 DEF Has
  <1>7. \A l \in Lock \ {"consoleLock"} : \E j \in 1..Len(s) : On(s, j, "destroy", l)
    <2>1. /\ On(s, 1, "destroy", "fileSystemLock") /\ On(s, 3, "destroy", "fileIOThreadLock")
          /\ On(s, 4, "destroy", "registryLock") /\ On(s, 5, "destroy", "envrLock")
          /\ On(s, 9, "destroy", "lock") /\ On(s, 11, "destroy", "basicErrorLock")
      BY <1>1 DEF On
    <2>2. QED
      BY <2>1 DEF Lock, On
  <1>8. QED
    BY <1>1, <1>3, <1>4, <1>5, <1>6, <1>7 DEF s

\* The handler itself releases Threads' lock only.
LEMMA DeinitScriptPuts ==
  \A i \in 1..Len(DeinitScript) : DeinitScript[i].op = "put" => DeinitScript[i].lock = "lock"
  <1> DEFINE s == DeinitScript
  <1>1. /\ s \in Seq(Step) /\ Len(s) = 12
        /\ s[1].op = "destroy" /\ s[2].op = "closeAll" /\ s[3].op = "destroy"
        /\ s[4].op = "destroy" /\ s[5].op = "destroy" /\ s[6].op = "get"
        /\ s[7].op = "killAll" /\ s[8].lock = "lock" /\ s[9].op = "destroy"
        /\ s[10].op = "noConsole" /\ s[11].op = "destroy" /\ s[12].op = "noLanguage"
    BY DeinitScriptIs, StepsAreSteps DEF Lock
  <1> HIDE DEF s
  <1>2. \A i \in 1..Len(s) : \/ i = 1 \/ i = 2 \/ i = 3 \/ i = 4 \/ i = 5 \/ i = 6
                             \/ i = 7 \/ i = 8 \/ i = 9 \/ i = 10 \/ i = 11 \/ i = 12
    BY <1>1
  <1>3. \A i \in 1..Len(s) : s[i].op = "put" => s[i].lock = "lock"
    BY <1>1, <1>2
  <1>4. QED
    BY <1>3 DEF s

------------------------------------------------------------------------------
\* r is s without its first step.
Drops(r, s) ==
  /\ r \in Seq(Step) /\ Len(r) \in Nat /\ Len(s) = Len(r) + 1
  /\ \A i \in 1..Len(r) : r[i] = s[i + 1]

LEMMA TailDrops ==
  ASSUME NEW s \in Seq(Step), s # <<>>
  PROVE  /\ Drops(Tail(s), s)
         /\ Head(s) = s[1] /\ 1 \in 1..Len(s) /\ s[1] \in Step
  BY DEF Drops

\* A step of r is the next one of s.
LEMMA DropsOn ==
  ASSUME NEW r, NEW s \in Seq(Step), Drops(r, s)
  PROVE  /\ \A op, l : \A i \in 1..Len(r) : On(r, i, op, l) <=> On(s, i + 1, op, l)
         /\ \A i \in 1..Len(r) : i + 1 \in 1..Len(s) /\ r[i] = s[i + 1]
         /\ \A i \in 1..Len(s) : i # 1 => i - 1 \in 1..Len(r) /\ s[i] = r[i - 1]
         /\ \A op, l : \A i \in 1..Len(s) : i # 1 => (On(s, i, op, l) <=> On(r, i - 1, op, l))
  <1>1. /\ Len(r) \in Nat /\ Len(s) = Len(r) + 1
        /\ \A i \in 1..Len(r) : r[i] = s[i + 1]
    BY DEF Drops
  <1>2. \A i \in 1..Len(r) : i + 1 \in 1..Len(s) /\ r[i] = s[i + 1]
    BY <1>1
  <1>3. \A i \in 1..Len(s) : i # 1 => i - 1 \in 1..Len(r) /\ s[i] = r[i - 1]
    <2> TAKE i \in 1..Len(s)
    <2> HAVE i # 1
    <2>1. i - 1 \in 1..Len(r) /\ (i - 1) + 1 = i
      BY <1>1
    <2>2. QED
      BY <1>1, <2>1
  <1>4. QED
    BY <1>2, <1>3 DEF On

LEMMA DropsGotBefore ==
  ASSUME NEW r, NEW s \in Seq(Step), Drops(r, s), NEW l \in Lock,
         NEW i \in 1..Len(r), GotBefore(s, i + 1, l)
  PROVE  \/ GotBefore(r, i, l)
         \/ On(s, 1, "get", l) /\ \A k \in 1..(i - 1) : ~On(r, k, "put", l)
  <1>1. PICK j \in 1..((i + 1) - 1) : /\ On(s, j, "get", l)
                                      /\ \A k \in (j + 1)..((i + 1) - 1) : ~On(s, k, "put", l)
    BY DEF GotBefore
  <1>2. /\ \A op : \A k \in 1..Len(r) : On(r, k, op, l) <=> On(s, k + 1, op, l)
        /\ \A op : \A k \in 1..Len(s) : k # 1 => (On(s, k, op, l) <=> On(r, k - 1, op, l))
    BY DropsOn
  <1>3. Len(r) \in Nat /\ Len(s) = Len(r) + 1
    BY DEF Drops
  <1>4. CASE j = 1
    <2>1. \A k \in 1..(i - 1) : k + 1 \in (j + 1)..((i + 1) - 1) /\ k \in 1..Len(r)
      BY <1>3, <1>4
    <2>2. \A k \in 1..(i - 1) : ~On(r, k, "put", l)
      BY <1>1, <1>2, <2>1
    <2>3. QED
      BY <1>1, <1>4, <2>2
  <1>5. CASE j # 1
    <2>1. j - 1 \in 1..(i - 1) /\ j \in 1..Len(s)
      BY <1>3, <1>5
    <2>2. On(r, j - 1, "get", l)
      BY <1>1, <1>2, <1>5, <2>1
    <2>3. \A k \in ((j - 1) + 1)..(i - 1) : k + 1 \in (j + 1)..((i + 1) - 1) /\ k \in 1..Len(r)
      BY <1>3, <1>5
    <2>4. \A k \in ((j - 1) + 1)..(i - 1) : ~On(r, k, "put", l)
      BY <1>1, <1>2, <2>3
    <2>5. QED
      BY <2>1, <2>2, <2>4 DEF GotBefore
  <1>6. QED
    BY <1>4, <1>5

\* What a script borrows, when its first step has been taken: nothing new,
\* except for what that step obtained, and no more what it released.
LEMMA DropsBorrows ==
  ASSUME NEW r, NEW s \in Seq(Step), Drops(r, s), NEW l \in Lock, BorrowsOnce(s, l)
  PROVE  /\ BorrowsOnce(r, l)
         /\ ~On(s, 1, "get", l) /\ Borrows(r, l) => Borrows(s, l)
         /\ On(s, 1, "put", l) => Borrows(s, l) /\ ~Borrows(r, l)
  <1>1. \A i \in 1..Len(r) : On(r, i, "put", l) /\ ~GotBefore(r, i, l) =>
          /\ i + 1 \in 1..Len(s) /\ On(s, i + 1, "put", l)
          /\ \/ ~GotBefore(s, i + 1, l)
             \/ On(s, 1, "get", l) /\ \A k \in 1..(i - 1) : ~On(r, k, "put", l)
    BY DropsOn, DropsGotBefore
  <1>2. /\ Len(r) \in Nat /\ Len(s) = Len(r) + 1
        /\ \A k \in 1..Len(r) : On(r, k, "put", l) <=> On(s, k + 1, "put", l)
    BY DropsOn DEF Drops
  <1>3. BorrowsOnce(r, l)
    <2> SUFFICES ASSUME NEW i \in 1..Len(r), On(r, i, "put", l), ~GotBefore(r, i, l),
                        ~GotBefore(s, i + 1, l), NEW j \in 1..(i - 1)
                 PROVE  ~On(r, j, "put", l)
      BY <1>1 DEF BorrowsOnce
    <2>1. i + 1 \in 1..Len(s) /\ On(s, i + 1, "put", l)
      BY <1>1
    <2>2. \A k \in 1..((i + 1) - 1) : ~On(s, k, "put", l)
      BY <2>1 DEF BorrowsOnce
    <2>3. j + 1 \in 1..((i + 1) - 1) /\ j \in 1..Len(r)
      BY <1>2
    <2>4. QED
      BY <1>2, <2>2, <2>3
  <1>4. ASSUME ~On(s, 1, "get", l), Borrows(r, l)
        PROVE  Borrows(s, l)
    BY <1>1, <1>4 DEF Borrows
  <1>5. ASSUME On(s, 1, "put", l)
        PROVE  Borrows(s, l) /\ ~Borrows(r, l)
    <2>1. ~GotBefore(s, 1, l)
      BY DEF GotBefore
    <2>2. Borrows(s, l)
      BY <1>5, <2>1 DEF Borrows, On
    <2>3. ~On(s, 1, "get", l)
      BY <1>5 DEF On
    <2>4. SUFFICES ASSUME NEW i \in 1..Len(r), On(r, i, "put", l), ~GotBefore(r, i, l)
                   PROVE  FALSE
      BY <2>2 DEF Borrows
    <2>5. i + 1 \in 1..Len(s) /\ On(s, i + 1, "put", l) /\ ~GotBefore(s, i + 1, l)
      BY <1>1, <2>3, <2>4
    <2>6. \A k \in 1..((i + 1) - 1) : ~On(s, k, "put", l)
      BY <2>5 DEF BorrowsOnce
    <2>7. 1 \in 1..((i + 1) - 1)
      OBVIOUS
    <2>8. QED
      BY <1>5, <2>6, <2>7
  <1>6. QED
    BY <1>3, <1>4, <1>5

LEMMA PairedBorrows ==
  ASSUME NEW s, Paired(s), NEW l \in Lock
  PROVE  BorrowsOnce(s, l) /\ ~Borrows(s, l)
  BY DEF Paired, BorrowsOnce, Borrows

LEMMA DropsSoonReleased ==
  ASSUME NEW r, NEW s \in Seq(Step), Drops(r, s), NEW l \in Lock, NEW i \in Nat \ {0},
         SoonReleased(s, i + 1, l)
  PROVE  SoonReleased(r, i, l)
  <1>1. PICK k \in (i + 1)..Len(s) : /\ On(s, k, "put", l)
                                     /\ \A j \in (i + 1)..(k - 1), m \in Lock :
                                          On(s, j, "get", m) => Rank(m) > Rank(l)
    BY DEF SoonReleased
  <1>2. Len(r) \in Nat /\ Len(s) = Len(r) + 1
    BY DEF Drops
  <1>3. k - 1 \in i..Len(r) /\ k \in 1..Len(s) /\ k # 1
    BY <1>2
  <1>4. On(r, k - 1, "put", l)
    BY <1>1, <1>3, DropsOn
  <1>5. ASSUME NEW j \in i..((k - 1) - 1), NEW m \in Lock, On(r, j, "get", m)
        PROVE  Rank(m) > Rank(l)
    <2>1. j + 1 \in (i + 1)..(k - 1) /\ j \in 1..Len(r)
      BY <1>2
    <2>2. On(s, j + 1, "get", m)
      BY <1>5, <2>1, DropsOn
    <2>3. QED
      BY <1>1, <2>1, <2>2
  <1>6. QED
    BY <1>3, <1>4, <1>5 DEF SoonReleased

\* A held lock is still released soon when the first step has been taken,
\* unless that step released it.
LEMMA DropsHeld ==
  ASSUME NEW r, NEW s \in Seq(Step), Drops(r, s), NEW l \in Lock, SoonReleased(s, 1, l)
  PROVE  /\ ~On(s, 1, "put", l) => SoonReleased(r, 1, l)
         /\ \A m \in Lock : On(s, 1, "get", m) => Rank(m) > Rank(l)
  <1>1. PICK k \in 1..Len(s) : /\ On(s, k, "put", l)
                               /\ \A j \in 1..(k - 1), m \in Lock :
                                    On(s, j, "get", m) => Rank(m) > Rank(l)
    BY DEF SoonReleased
  <1>2. CASE k = 1
    BY <1>1, <1>2 DEF On
  <1>3. CASE k # 1
    <2>1. 1 \in 1..(k - 1)
      BY <1>3
    <2>2. \A j \in (1 + 1)..(k - 1) : j \in 1..(k - 1)
      OBVIOUS
    <2>3. k \in (1 + 1)..Len(s)
      BY <1>3
    <2>4. SoonReleased(s, 1 + 1, l)
      BY <1>1, <2>2, <2>3 DEF SoonReleased
    <2>5. SoonReleased(r, 1, l)
      BY <2>4, DropsSoonReleased
    <2>6. QED
      BY <1>1, <2>1, <2>5
  <1>4. QED
    BY <1>2, <1>3

LEMMA DropsOrdered ==
  ASSUME NEW r, NEW s \in Seq(Step), Drops(r, s), Ordered(s)
  PROVE  /\ Ordered(r)
         /\ \A l \in Lock \ {Kept} : On(s, 1, "get", l) => SoonReleased(r, 1, l)
  <1>1. ASSUME NEW i \in 1..Len(r), NEW l \in Lock \ {Kept}, On(r, i, "get", l)
        PROVE  SoonReleased(r, i + 1, l)
    <2>1. i + 1 \in 1..Len(s) /\ On(s, i + 1, "get", l)
      BY <1>1, DropsOn
    <2>2. SoonReleased(s, (i + 1) + 1, l)
      BY <2>1 DEF Ordered
    <2>3. i + 1 \in Nat \ {0}
      OBVIOUS
    <2>4. QED
      BY <2>2, <2>3, DropsSoonReleased
  <1>2. ASSUME NEW l \in Lock \ {Kept}, On(s, 1, "get", l)
        PROVE  SoonReleased(r, 1, l)
    <2>1. SoonReleased(s, 1 + 1, l)
      BY <1>2 DEF Ordered, On
    <2>2. QED
      BY <2>1, DropsSoonReleased
  <1>3. QED
    BY <1>1, <1>2 DEF Ordered

------------------------------------------------------------------------------
\* What a thread that takes the first step of its script is about.
LEMMA Moved ==
  ASSUME IInv, NEW t \in Thread, Next1(t)
  PROVE  /\ todo[t] \in Seq(Step) /\ todo'[t] \in Seq(Step)
         /\ Drops(todo'[t], todo[t])
         /\ Head(todo[t]) = todo[t][1] /\ 1 \in 1..Len(todo[t]) /\ todo[t][1] \in Step
         /\ todo' \in [Thread -> Seq(Step)]
         /\ \A u \in Thread \ {t} : todo'[u] = todo[u]
         /\ pc[t] = "live" /\ misused = None
         /\ phase \in {"init", "up", "exit"} /\ todo[t][1].op \in OpsIn(phase)
         /\ phase = "init" => t = Main
         /\ phase = "exit" => t = exiter
         /\ \A l \in Lock, op \in {"get", "put", "create", "destroy"} :
              todo[t][1].op = op /\ todo[t][1].lock = l => On(todo[t], 1, op, l)
         /\ \A op \in {"get", "put", "create", "destroy"} :
              todo[t][1].op = op => todo[t][1].lock \in Lock
  <1>1. /\ todo \in [Thread -> Seq(Step)] /\ phase \in Phase
        /\ ~Over /\ pc[t] = "live" /\ todo[t] # <<>>
        /\ todo' = [todo EXCEPT ![t] = Tail(@)]
    BY DEF IInv, TypeOK, Next1
  <1>2. /\ todo[t] \in Seq(Step) /\ Drops(Tail(todo[t]), todo[t])
        /\ Head(todo[t]) = todo[t][1] /\ 1 \in 1..Len(todo[t]) /\ todo[t][1] \in Step
    BY <1>1, TailDrops
  <1>3. Tail(todo[t]) \in Seq(Step) /\ todo'[t] = Tail(todo[t])
    BY <1>1, <1>2 DEF Drops
  <1>4. /\ todo' \in [Thread -> Seq(Step)]
        /\ \A u \in Thread \ {t} : todo'[u] = todo[u]
    BY <1>1, <1>3
  <1>5. misused = None /\ phase \in {"init", "up", "exit"}
    BY <1>1 DEF Over, Phase
  <1>6. /\ phase = "init" => t = Main
        /\ phase = "exit" => t = exiter
    BY <1>1 DEF IInv, Alone
  <1>7. todo[t][1].op \in OpsIn(phase)
    BY <1>2 DEF IInv, StepsOfPhase
  <1>8. \A op \in {"get", "put", "create", "destroy"} :
          todo[t][1].op = op => todo[t][1].lock \in Lock
    BY <1>2 DEF Step
  <1>9. QED
    BY <1>1, <1>2, <1>3, <1>4, <1>5, <1>6, <1>7, <1>8 DEF On

\* What any such step leaves true of the scripts.
LEMMA MovedScripts ==
  ASSUME IInv, NEW t \in Thread, Next1(t), phase' = phase, pc' = pc, exiter' = exiter
  PROVE  /\ StepsOfPhase'
         /\ \A u \in Thread : todo'[u] # <<>> => pc'[u] = "live"
         /\ \A l \in Lock : BorrowsOnce(todo'[t], l)
         /\ phase \in {"init", "up"} => \A u \in Thread : Ordered(todo'[u])
  <1>1. \A u \in Thread \ {t} : todo'[u] = todo[u]
    BY Moved
  <1>2. todo[t] \in Seq(Step) /\ Drops(todo'[t], todo[t]) /\ pc[t] = "live"
    BY Moved
  <1>3. StepsOfPhase'
    <2> SUFFICES ASSUME NEW u \in Thread, NEW i \in 1..Len(todo'[u])
                 PROVE  /\ todo'[u][i].op \in OpsIn(phase)
                        /\ todo'[u][i].op = "kill" =>
                             todo'[u][i].who \in Thread /\ pc[todo'[u][i].who] # "unborn"
      BY DEF StepsOfPhase
    <2>1. CASE u # t
      BY <1>1, <2>1 DEF IInv, StepsOfPhase
    <2>2. CASE u = t
      <3>1. i + 1 \in 1..Len(todo[t]) /\ todo'[t][i] = todo[t][i + 1]
        BY <1>2, <2>2, DropsOn
      <3>2. QED
        BY <2>2, <3>1 DEF IInv, StepsOfPhase
    <2>3. QED
      BY <2>1, <2>2
  <1>4. \A u \in Thread : todo'[u] # <<>> => pc'[u] = "live"
    BY <1>1, <1>2 DEF IInv, Alone
  <1>5. \A l \in Lock : BorrowsOnce(todo'[t], l)
    BY <1>2, DropsBorrows DEF IInv, ReleasesOwn
  <1>6. phase \in {"init", "up"} => \A u \in Thread : Ordered(todo'[u])
    BY <1>1, <1>2, DropsOrdered DEF IInv, HeldInOrder
  <1>7. QED
    BY <1>3, <1>4, <1>5, <1>6

\* A step that is about no lock, or creates or destroys one, changes nothing
\* about who holds what.
LEMMA QuietMove ==
  ASSUME IInv, NEW t \in Thread, Next1(t), todo[t][1].op \notin {"get", "put"},
         UNCHANGED <<phase, pc, holder, depth, exiter>>
  PROVE  Alone' /\ StepsOfPhase' /\ ReleasesOwn' /\ HeldInOrder'
  <1>1. /\ StepsOfPhase'
        /\ \A u \in Thread : todo'[u] # <<>> => pc'[u] = "live"
        /\ \A l \in Lock : BorrowsOnce(todo'[t], l)
        /\ phase \in {"init", "up"} => \A u \in Thread : Ordered(todo'[u])
    BY MovedScripts
  <1>2. /\ \A u \in Thread \ {t} : todo'[u] = todo[u]
        /\ todo[t] \in Seq(Step) /\ Drops(todo'[t], todo[t])
    BY Moved
  <1>3. \A l \in Lock : ~On(todo[t], 1, "get", l) /\ ~On(todo[t], 1, "put", l)
    BY DEF On
  <1>4. Alone'
    BY <1>1 DEF IInv, Alone
  <1>5. ReleasesOwn'
    <2>1. \A l \in Lock : Borrows(todo'[t], l) => Borrows(todo[t], l)
      BY <1>2, <1>3, DropsBorrows DEF IInv, ReleasesOwn
    <2>2. QED
      BY <1>1, <1>2, <2>1 DEF IInv, ReleasesOwn
  <1>6. HeldInOrder'
    <2> SUFFICES ASSUME phase \in {"init", "up"}, NEW l \in Lock \ {Kept}
                 PROVE  /\ depth[l] = IF holder[l] = Nobody THEN 0 ELSE 1
                        /\ \A u \in Thread : holder[l] = u /\ pc[u] = "live" =>
                             SoonReleased(todo'[u], 1, l)
      BY <1>1 DEF HeldInOrder
    <2>1. SoonReleased(todo[t], 1, l) => SoonReleased(todo'[t], 1, l)
      BY <1>2, <1>3, DropsHeld
    <2>2. QED
      BY <1>2, <2>1 DEF IInv, HeldInOrder
  <1>7. QED
    BY <1>1, <1>4, <1>5, <1>6

\* Nor does a step that creates and destroys nothing change what there is.
LEMMA QuietRest ==
  ASSUME IInv, NEW t \in Thread, Next1(t),
         \A op \in {"create", "destroy"}, m \in Lock : ~On(todo[t], 1, op, m),
         todo[t][1].op \notin {"language", "noConsole", "noLanguage"},
         UNCHANGED <<phase, lockState, strings, exiter, misused>>,
         \A m \in Lock : lockState[m] # "ready" => holder'[m] = Nobody
  PROVE  LocksReady' /\ ConsoleLast' /\ ClosesFirst' /\ DestroysAll'
  <1> DEFINE s == todo[t]
             r == todo'[t]
  <1>1. /\ s \in Seq(Step) /\ Drops(r, s)
        /\ \A u \in Thread \ {t} : todo'[u] = todo[u]
        /\ misused = None /\ phase \in {"init", "up", "exit"}
        /\ phase = "init" => t = Main
        /\ phase = "exit" => t = exiter
    BY Moved
  <1>2. /\ \A op, l : \A i \in 1..Len(r) : On(r, i, op, l) <=> On(s, i + 1, op, l)
        /\ \A i \in 1..Len(r) : i + 1 \in 1..Len(s) /\ r[i] = s[i + 1]
        /\ \A i \in 1..Len(s) : i # 1 => i - 1 \in 1..Len(r) /\ s[i] = r[i - 1]
        /\ \A op, l : \A i \in 1..Len(s) : i # 1 => (On(s, i, op, l) <=> On(r, i - 1, op, l))
    BY <1>1, DropsOn
  <1>3. Len(r) \in Nat /\ Len(s) = Len(r) + 1
    BY <1>1 DEF Drops
  <1>4. \A op \in {"create", "destroy"}, m \in Lock : ~On(s, 1, op, m)
    OBVIOUS
  <1>5. s[1].op \notin {"language", "noConsole", "noLanguage"}
    OBVIOUS
  <1> HIDE DEF s, r
  \* A creation or destruction to come is still to come.
  <1>6. \A op \in {"create", "destroy"}, l \in Lock :
          (\E j \in 1..Len(s) : On(s, j, op, l)) => \E j \in 1..Len(r) : On(r, j, op, l)
    <2> SUFFICES ASSUME NEW op \in {"create", "destroy"}, NEW l \in Lock,
                        NEW j \in 1..Len(s), On(s, j, op, l)
                 PROVE  \E k \in 1..Len(r) : On(r, k, op, l)
      OBVIOUS
    <2>1. j # 1
      BY <1>4
    <2>2. j - 1 \in 1..Len(r) /\ On(r, j - 1, op, l)
      BY <1>2, <2>1
    <2>3. QED
      BY <2>2
  <1>7. \A op \in {"language", "noConsole"} : Has(s, op) <=> Has(r, op)
    <2>1. ASSUME NEW op \in {"language", "noConsole"}, Has(s, op)
          PROVE  Has(r, op)
      <3>1. PICK j \in 1..Len(s) : s[j].op = op
        BY <2>1 DEF Has
      <3>2. j - 1 \in 1..Len(r) /\ r[j - 1].op = op
        BY <1>2, <1>5, <3>1
      <3>3. QED
        BY <3>2 DEF Has
    <2>2. ASSUME NEW op \in {"language", "noConsole"}, Has(r, op)
          PROVE  Has(s, op)
      BY <1>2, <2>2 DEF Has
    <2>3. QED
      BY <2>1, <2>2
  <1>8. LocksReady'
    <2>1. CASE phase = "init"
      <3>1. ASSUME NEW l \in Lock, NEW i \in 1..Len(r), On(r, i, "get", l),
                   lockState[l] # "ready"
            PROVE  \E j \in 1..(i - 1) : On(r, j, "create", l)
        <4>1. i + 1 \in 1..Len(s) /\ On(s, i + 1, "get", l)
          BY <1>2, <3>1
        <4>2. PICK j \in 1..((i + 1) - 1) : On(s, j, "create", l)
          BY <1>1, <2>1, <3>1, <4>1 DEF IInv, LocksReady, s
        <4>3. j # 1 /\ j \in 1..Len(s)
          BY <1>4, <4>2 DEF On
        <4>4. On(r, j - 1, "create", l) /\ j - 1 \in 1..(i - 1)
          BY <1>2, <4>2, <4>3
        <4>5. QED
          BY <4>4
      <3>2. \A l \in Lock \ {"consoleLock"} :
              lockState[l] = "ready" \/ \E j \in 1..Len(r) : On(r, j, "create", l)
        BY <1>1, <1>6, <2>1 DEF IInv, LocksReady, s
      <3>3. lockState["consoleLock"] # "destroyed"
        BY <2>1 DEF IInv, LocksReady
      <3>4. QED
        BY <1>1, <2>1, <3>1, <3>2, <3>3 DEF LocksReady, r
    <2>2. CASE phase = "up"
      <3>1. \A u \in Thread, l \in Lock : \A i \in 1..Len(todo'[u]) :
              On(todo'[u], i, "get", l) => lockState[l] = "ready"
        BY <1>1, <1>2, <2>2 DEF IInv, LocksReady, r, s
      <3>2. QED
        BY <1>1, <2>2, <3>1 DEF IInv, LocksReady
    <2>3. CASE phase = "exit"
      <3>1. ASSUME NEW l \in Lock, NEW i \in 1..Len(r), Uses(r, i, l)
            PROVE  /\ lockState[l] = "ready"
                   /\ \A j \in 1..(i - 1) : ~On(r, j, "destroy", l)
        <4>1. i + 1 \in 1..Len(s) /\ Uses(s, i + 1, l)
          BY <1>2, <3>1 DEF Uses
        <4>2. /\ lockState[l] = "ready"
              /\ \A j \in 1..((i + 1) - 1) : ~On(s, j, "destroy", l)
          BY <1>1, <2>3, <4>1 DEF IInv, LocksReady, s
        <4>3. \A j \in 1..(i - 1) : j + 1 \in 1..((i + 1) - 1) /\ j \in 1..Len(r)
          BY <1>3
        <4>4. QED
          BY <1>2, <4>2, <4>3
      <3>2. QED
        BY <1>1, <2>3, <3>1 DEF LocksReady, r
    <2>4. QED
      BY <1>1, <2>1, <2>2, <2>3
  <1>9. ConsoleLast'
    <2> SUFFICES ASSUME phase = "exit"
                 PROVE  ConsoleLast'
      BY DEF ConsoleLast
    <2>1. \A i, j \in 1..Len(r) : r[i].op = "noConsole" /\ r[j].op = "noConsole" => i = j
      <3> TAKE i, j \in 1..Len(r)
      <3>1. i + 1 = j + 1 => i = j
        OBVIOUS
      <3>2. /\ i + 1 \in 1..Len(s) /\ s[i + 1] = r[i]
            /\ j + 1 \in 1..Len(s) /\ s[j + 1] = r[j]
        BY <1>2
      <3>3. \A k, n \in 1..Len(s) : s[k].op = "noConsole" /\ s[n].op = "noConsole" => k = n
        BY <1>1 DEF IInv, ConsoleLast, s
      <3>4. QED
        BY <3>1, <3>2, <3>3
    <2>2. Has(r, "noConsole") =>
            /\ lockState["consoleLock"] # "destroyed"
            /\ \A j \in 1..Len(r), op \in {"get", "put", "destroy"} : ~On(r, j, op, "consoleLock")
      BY <1>1, <1>2, <1>7 DEF IInv, ConsoleLast, s
    <2>3. QED
      BY <1>1, <2>1, <2>2 DEF ConsoleLast, r
  <1>10. DestroysAll'
    <2>1. phase = "init" => strings \/ Has(r, "language")
      BY <1>1, <1>7 DEF IInv, DestroysAll, s
    <2>2. ASSUME phase = "exit"
          PROVE  /\ \A l \in Lock : lockState[l] = "ready" =>
                      \/ \E i \in 1..Len(r) : On(r, i, "destroy", l)
                      \/ l = "consoleLock" /\ Has(r, "noConsole")
                 /\ \A i \in 1..Len(r) : r[i].op \in {"destroy", "close", "closeAll", "noConsole"} =>
                      /\ strings
                      /\ \A j \in 1..(i - 1) : r[j].op # "noLanguage"
      <3>1. \A l \in Lock : lockState[l] = "ready" =>
              \/ \E i \in 1..Len(r) : On(r, i, "destroy", l)
              \/ l = "consoleLock" /\ Has(r, "noConsole")
        BY <1>1, <1>6, <1>7, <2>2 DEF IInv, DestroysAll, s
      <3>2. ASSUME NEW i \in 1..Len(r), r[i].op \in {"destroy", "close", "closeAll", "noConsole"}
            PROVE  strings /\ \A j \in 1..(i - 1) : r[j].op # "noLanguage"
        <4>1. i + 1 \in 1..Len(s) /\ s[i + 1].op \in {"destroy", "close", "closeAll", "noConsole"}
          BY <1>2, <3>2
        <4>2. strings /\ \A j \in 1..((i + 1) - 1) : s[j].op # "noLanguage"
          BY <1>1, <2>2, <4>1 DEF IInv, DestroysAll, s
        <4>3. \A j \in 1..(i - 1) : j + 1 \in 1..((i + 1) - 1) /\ j \in 1..Len(r)
          BY <1>3
        <4>4. QED
          BY <1>2, <4>2, <4>3
      <3>3. QED
        BY <3>1, <3>2
    <2>3. QED
      BY <1>1, <2>1, <2>2 DEF IInv, DestroysAll, r
  <1>11. ClosesFirst'
    <2> SUFFICES ASSUME phase = "exit", NEW i \in 1..Len(r), NEW j \in 1..Len(r),
                        r[i].op = "closeAll", On(r, j, "put", Kept)
                 PROVE  j < i
      BY <1>1 DEF ClosesFirst, r
    <2>1. /\ i + 1 \in 1..Len(s) /\ s[i + 1].op = "closeAll"
          /\ j + 1 \in 1..Len(s) /\ On(s, j + 1, "put", Kept)
      BY <1>2
    <2>2. j + 1 < i + 1
      BY <1>1, <2>1 DEF IInv, ClosesFirst, s
    <2>3. QED
      BY <2>2
  <1>12. QED
    BY <1>8, <1>9, <1>10, <1>11

------------------------------------------------------------------------------
\* The lock at the head of a script exists: no misuse.
LEMMA ObtainIsReady ==
  ASSUME IInv, NEW t \in Thread, Next1(t), todo[t][1].op = "get"
  PROVE  lockState[todo[t][1].lock] = "ready"
  <1> DEFINE l == todo[t][1].lock
  <1>1. /\ l \in Lock /\ On(todo[t], 1, "get", l) /\ 1 \in 1..Len(todo[t])
        /\ phase \in {"init", "up", "exit"}
        /\ phase = "init" => t = Main
        /\ phase = "exit" => t = exiter
    BY Moved
  <1>2. \A j \in 1..(1 - 1) : FALSE
    OBVIOUS
  <1>3. QED
    BY <1>1, <1>2 DEF IInv, LocksReady, Uses

LEMMA ObtainKeeps ==
  ASSUME IInv, NEW t \in Thread, Obtain(t)
  PROVE  IInv'
  <1> DEFINE s == todo[t]
             r == todo'[t]
             l == todo[t][1].lock
  <1>1. Next1(t) /\ UNCHANGED <<phase, pc, lockState, strings, exiter>>
    BY DEF Obtain
  <1>2. /\ s \in Seq(Step) /\ Drops(r, s) /\ Head(s) = s[1] /\ 1 \in 1..Len(s)
        /\ todo' \in [Thread -> Seq(Step)]
        /\ \A u \in Thread \ {t} : todo'[u] = todo[u]
        /\ pc[t] = "live" /\ misused = None
        /\ phase \in {"init", "up", "exit"}
        /\ phase = "init" => t = Main
        /\ phase = "exit" => t = exiter
    BY <1>1, Moved
  <1>3. s[1].op = "get" /\ l \in Lock /\ On(s, 1, "get", l)
    BY <1>1, <1>2, Moved DEF Obtain, At
  <1>4. lockState[l] = "ready"
    BY <1>1, <1>3, ObtainIsReady
  <1>5. /\ holder[l] \in {t, Nobody} /\ depth[l] < MaxDepth
        /\ holder' = [holder EXCEPT ![l] = t]
        /\ depth' = [depth EXCEPT ![l] = @ + 1]
        /\ misused' = misused
    BY <1>2, <1>4 DEF Obtain
  <1>6. /\ holder \in [Lock -> Thread \union {Nobody}] /\ depth \in [Lock -> 0..MaxDepth]
        /\ MaxDepth \in Nat /\ Nobody \notin Thread
    BY ThreadAssumption, DepthAssumption DEF IInv, TypeOK
  <1>7. /\ holder'[l] = t /\ depth'[l] = depth[l] + 1
        /\ \A m \in Lock \ {l} : holder'[m] = holder[m] /\ depth'[m] = depth[m]
    BY <1>3, <1>5, <1>6
  <1>8. /\ StepsOfPhase'
        /\ \A u \in Thread : todo'[u] # <<>> => pc'[u] = "live"
        /\ \A m \in Lock : BorrowsOnce(todo'[t], m)
        /\ phase \in {"init", "up"} => \A u \in Thread : Ordered(todo'[u])
    BY <1>1, MovedScripts
  <1> HIDE DEF s, r, l
  <1>9. TypeOK'
    <2>1. depth' \in [Lock -> 0..MaxDepth]
      BY <1>3, <1>5, <1>6
    <2>2. holder' \in [Lock -> Thread \union {Nobody}]
      BY <1>3, <1>5, <1>6
    <2>3. QED
      BY <1>1, <1>2, <1>5, <2>1, <2>2 DEF IInv, TypeOK
  <1>10. Alone'
    <2>1. \A m \in Lock, u \in Thread : holder'[m] = u => pc[u] # "unborn"
      <3> TAKE m \in Lock, u \in Thread
      <3>1. holder[m] = u => pc[u] # "unborn"
        BY DEF IInv, Alone
      <3>2. CASE m = l
        BY <1>2, <1>7, <3>2
      <3>3. CASE m # l
        BY <1>7, <3>1, <3>3
      <3>4. QED
        BY <3>2, <3>3
    <2>2. \A u \in Thread : todo'[u] # <<>> => pc'[u] = "live"
      BY <1>8
    <2>3. Alone
      BY DEF IInv
    <2>4. QED
      BY <1>1, <2>1, <2>2, <2>3 DEF Alone
  <1>11. \A m \in Lock \ {l} : ~On(s, 1, "get", m)
    BY <1>3 DEF On
  <1>12. \A m \in Lock : ~On(s, 1, "put", m)
    BY <1>3 DEF On
  <1>13. ReleasesOwn'
    <2> SUFFICES ASSUME NEW u \in Thread, NEW m \in Lock
                 PROVE  /\ BorrowsOnce(todo'[u], m)
                        /\ Borrows(todo'[u], m) => holder'[m] = u /\ depth'[m] >= 1
      BY DEF ReleasesOwn
    <2>1. BorrowsOnce(todo[u], m) /\ (Borrows(todo[u], m) => holder[m] = u /\ depth[m] >= 1)
      BY DEF IInv, ReleasesOwn
    <2>2. depth[l] + 1 >= 1
      BY <1>3, <1>6
    <2>3. CASE u # t
      <3>1. m = l => ~Borrows(todo[u], m)
        BY <1>5, <1>6, <2>1, <2>3
      <3>2. QED
        BY <1>2, <1>7, <2>1, <2>3, <3>1
    <2>4. CASE u = t
      <3>1. m # l => (Borrows(r, m) => Borrows(s, m))
        BY <1>2, <1>11, <2>1, <2>4, DropsBorrows DEF s
      <3>2. CASE m = l
        BY <1>7, <1>8, <2>2, <2>4, <3>2
      <3>3. CASE m # l
        BY <1>7, <1>8, <2>1, <2>4, <3>1, <3>3 DEF r, s
      <3>4. QED
        BY <3>2, <3>3
    <2>5. QED
      BY <2>3, <2>4
  <1>14. HeldInOrder'
    <2> SUFFICES ASSUME phase \in {"init", "up"}, NEW m \in Lock \ {Kept}
                 PROVE  /\ depth'[m] = IF holder'[m] = Nobody THEN 0 ELSE 1
                        /\ \A u \in Thread : holder'[m] = u /\ pc[u] = "live" =>
                             SoonReleased(todo'[u], 1, m)
      BY <1>1, <1>8 DEF HeldInOrder
    <2>1. /\ depth[m] = IF holder[m] = Nobody THEN 0 ELSE 1
          /\ \A u \in Thread : holder[m] = u /\ pc[u] = "live" => SoonReleased(todo[u], 1, m)
      BY DEF IInv, HeldInOrder
    <2>2. CASE m = l
      <3>1. ~(Rank(m) > Rank(m))
        BY DEF Rank
      <3>2. ~SoonReleased(s, 1, m)
        BY <1>2, <1>3, <2>2, <3>1, DropsHeld
      <3>3. holder[m] = Nobody
        BY <1>2, <1>5, <2>1, <2>2, <3>2 DEF s
      <3>4. Ordered(s)
        BY DEF IInv, HeldInOrder, s
      <3>5. SoonReleased(r, 1, m)
        BY <1>2, <1>3, <2>2, <3>4, DropsOrdered
      <3>6. QED
        BY <1>6, <1>7, <2>1, <2>2, <3>3, <3>5 DEF r
    <2>3. CASE m # l
      <3>1. SoonReleased(s, 1, m) => SoonReleased(r, 1, m)
        BY <1>2, <1>12, DropsHeld
      <3>2. QED
        BY <1>2, <1>7, <2>1, <2>3, <3>1 DEF r, s
    <2>4. QED
      BY <2>2, <2>3
  <1>15. LocksReady' /\ ConsoleLast' /\ ClosesFirst' /\ DestroysAll'
    <2>1. \A op \in {"create", "destroy"}, m \in Lock : ~On(s, 1, op, m)
      BY <1>3 DEF On
    <2>2. s[1].op \notin {"language", "noConsole", "noLanguage"}
      BY <1>3
    <2>3. \A m \in Lock : lockState[m] # "ready" => holder'[m] = Nobody
      BY <1>4, <1>7 DEF IInv, LocksReady
    <2>4. QED
      BY <1>1, <1>2, <1>5, <2>1, <2>2, <2>3, QuietRest DEF s
  <1>16. QED
    BY <1>8, <1>9, <1>10, <1>13, <1>14, <1>15 DEF IInv

LEMMA ReleaseKeeps ==
  ASSUME IInv, NEW t \in Thread, Release(t)
  PROVE  IInv'
  <1> DEFINE s == todo[t]
             r == todo'[t]
             l == todo[t][1].lock
  <1>1. Next1(t) /\ UNCHANGED <<phase, pc, lockState, strings, misused, exiter>>
    BY DEF Release
  <1>2. /\ s \in Seq(Step) /\ Drops(r, s) /\ Head(s) = s[1] /\ 1 \in 1..Len(s)
        /\ todo' \in [Thread -> Seq(Step)]
        /\ \A u \in Thread \ {t} : todo'[u] = todo[u]
        /\ pc[t] = "live"
    BY <1>1, Moved
  <1>3. s[1].op = "put" /\ l \in Lock /\ On(s, 1, "put", l)
    BY <1>1, <1>2, Moved DEF Release, At
  <1>4. BorrowsOnce(s, l)
    BY <1>3 DEF IInv, ReleasesOwn
  <1>5. Borrows(s, l) /\ ~Borrows(r, l)
    BY <1>2, <1>3, <1>4, DropsBorrows
  <1>6. holder[l] = t /\ depth[l] >= 1
    BY <1>3, <1>5 DEF IInv, ReleasesOwn
  <1>7. /\ holder' = [holder EXCEPT ![l] = IF depth[l] = 1 THEN Nobody ELSE @]
        /\ depth' = [depth EXCEPT ![l] = @ - 1]
    BY <1>2 DEF Release
  <1>8. /\ holder \in [Lock -> Thread \union {Nobody}] /\ depth \in [Lock -> 0..MaxDepth]
        /\ MaxDepth \in Nat /\ Nobody \notin Thread
    BY ThreadAssumption, DepthAssumption DEF IInv, TypeOK
  <1>9. /\ holder'[l] = (IF depth[l] = 1 THEN Nobody ELSE t) /\ depth'[l] = depth[l] - 1
        /\ \A m \in Lock \ {l} : holder'[m] = holder[m] /\ depth'[m] = depth[m]
    BY <1>3, <1>6, <1>7, <1>8
  <1>10. /\ StepsOfPhase'
         /\ \A u \in Thread : todo'[u] # <<>> => pc'[u] = "live"
         /\ \A m \in Lock : BorrowsOnce(todo'[t], m)
         /\ phase \in {"init", "up"} => \A u \in Thread : Ordered(todo'[u])
    BY <1>1, MovedScripts
  <1> HIDE DEF s, r, l
  <1>11. TypeOK'
    <2>1. depth[l] - 1 \in 0..MaxDepth
      BY <1>3, <1>6, <1>8
    <2>2. depth' \in [Lock -> 0..MaxDepth]
      BY <1>7, <1>8, <2>1
    <2>3. holder' \in [Lock -> Thread \union {Nobody}]
      BY <1>7, <1>8
    <2>4. QED
      BY <1>1, <1>2, <2>2, <2>3 DEF IInv, TypeOK
  <1>12. Alone'
    <2>1. \A m \in Lock, u \in Thread : holder'[m] = u => pc[u] # "unborn"
      <3> TAKE m \in Lock, u \in Thread
      <3>1. holder[m] = u => pc[u] # "unborn"
        BY DEF IInv, Alone
      <3>2. CASE m = l
        BY <1>2, <1>8, <1>9, <3>2
      <3>3. CASE m # l
        BY <1>9, <3>1, <3>3
      <3>4. QED
        BY <3>2, <3>3
    <2>2. \A u \in Thread : todo'[u] # <<>> => pc'[u] = "live"
      BY <1>10
    <2>3. Alone
      BY DEF IInv
    <2>4. QED
      BY <1>1, <2>1, <2>2, <2>3 DEF Alone
  <1>13. \A m \in Lock : ~On(s, 1, "get", m)
    BY <1>3 DEF On
  <1>14. ReleasesOwn'
    <2> SUFFICES ASSUME NEW u \in Thread, NEW m \in Lock
                 PROVE  /\ BorrowsOnce(todo'[u], m)
                        /\ Borrows(todo'[u], m) => holder'[m] = u /\ depth'[m] >= 1
      BY DEF ReleasesOwn
    <2>1. BorrowsOnce(todo[u], m) /\ (Borrows(todo[u], m) => holder[m] = u /\ depth[m] >= 1)
      BY DEF IInv, ReleasesOwn
    <2>2. CASE u # t
      <3>1. m = l => ~Borrows(todo[u], m)
        BY <1>6, <2>1, <2>2
      <3>2. QED
        BY <1>2, <1>9, <2>1, <2>2, <3>1
    <2>3. CASE u = t
      <3>1. Borrows(r, m) => Borrows(s, m)
        BY <1>2, <1>13, <2>1, <2>3, DropsBorrows DEF s
      <3>2. CASE m = l
        BY <1>5, <1>10, <2>3, <3>2 DEF r
      <3>3. CASE m # l
        BY <1>9, <1>10, <2>1, <2>3, <3>1, <3>3 DEF r, s
      <3>4. QED
        BY <3>2, <3>3
    <2>4. QED
      BY <2>2, <2>3
  <1>15. HeldInOrder'
    <2> SUFFICES ASSUME phase \in {"init", "up"}, NEW m \in Lock \ {Kept}
                 PROVE  /\ depth'[m] = IF holder'[m] = Nobody THEN 0 ELSE 1
                        /\ \A u \in Thread : holder'[m] = u /\ pc[u] = "live" =>
                             SoonReleased(todo'[u], 1, m)
      BY <1>1, <1>10 DEF HeldInOrder
    <2>1. /\ depth[m] = IF holder[m] = Nobody THEN 0 ELSE 1
          /\ \A u \in Thread : holder[m] = u /\ pc[u] = "live" => SoonReleased(todo[u], 1, m)
      BY DEF IInv, HeldInOrder
    <2>2. CASE m = l
      <3>1. depth[l] = 1
        BY <1>6, <1>8, <2>1, <2>2
      <3>2. holder'[l] = Nobody /\ depth'[l] = 0
        BY <1>9, <3>1
      <3>3. QED
        BY <1>8, <2>2, <3>2
    <2>3. CASE m # l
      <3>1. ~On(s, 1, "put", m)
        BY <1>3, <2>3 DEF On, l, s
      <3>2. SoonReleased(s, 1, m) => SoonReleased(r, 1, m)
        BY <1>2, <3>1, DropsHeld
      <3>3. QED
        BY <1>2, <1>9, <2>1, <2>3, <3>2 DEF r, s
    <2>4. QED
      BY <2>2, <2>3
  <1>16. LocksReady' /\ ConsoleLast' /\ ClosesFirst' /\ DestroysAll'
    <2>1. \A op \in {"create", "destroy"}, m \in Lock : ~On(s, 1, op, m)
      BY <1>3 DEF On
    <2>2. s[1].op \notin {"language", "noConsole", "noLanguage"}
      BY <1>3
    <2>3. \A m \in Lock : lockState[m] # "ready" => holder[m] = Nobody
      BY DEF IInv, LocksReady
    <2>4. \A m \in Lock : lockState[m] # "ready" => holder'[m] = Nobody
      BY <1>6, <1>9, <2>3, <1>3, <1>8
    <2>5. QED
      BY <1>1, <2>1, <2>2, <2>4, QuietRest DEF s
  <1>17. QED
    BY <1>10, <1>11, <1>12, <1>14, <1>15, <1>16 DEF IInv

\* The steps of __initBasicLib that are not about who holds a lock.
LEMMA CreateKeeps ==
  ASSUME IInv, NEW t \in Thread, CreateLock(t) \/ InitConsole(t) \/ InitLanguage(t)
  PROVE  IInv'
  <1> DEFINE s == todo[t]
             r == todo'[t]
  <1>1. Next1(t) /\ UNCHANGED <<phase, pc, holder, depth, misused, exiter>>
    BY DEF CreateLock, InitConsole, InitLanguage
  <1>2. /\ s \in Seq(Step) /\ Drops(r, s) /\ Head(s) = s[1] /\ 1 \in 1..Len(s)
        /\ todo' \in [Thread -> Seq(Step)]
        /\ phase \in {"init", "up", "exit"} /\ s[1].op \in OpsIn(phase)
        /\ phase = "init" => t = Main
        /\ misused = None
    BY <1>1, Moved
  <1>3. s[1].op \in {"create", "console", "language"}
    BY <1>1, <1>2 DEF CreateLock, InitConsole, InitLanguage, At
  <1>4. phase = "init" /\ t = Main
    BY <1>2, <1>3 DEF OpsIn
  <1>5. /\ s[1].op = "create" => s[1].lock \in Lock /\ lockState'[s[1].lock] = "ready"
        /\ \A m \in Lock : lockState[m] = "ready" => lockState'[m] = "ready"
        /\ lockState' \in [Lock -> {None, "ready", "destroyed"}]
        /\ lockState'["consoleLock"] # "destroyed"
    <2>1. /\ lockState \in [Lock -> {None, "ready", "destroyed"}]
          /\ lockState["consoleLock"] # "destroyed" /\ "consoleLock" \in Lock
      BY <1>4 DEF IInv, TypeOK, LocksReady, Lock
    <2>2. CASE CreateLock(t)
      <3>1. s[1].lock \in Lock /\ lockState' = [lockState EXCEPT ![s[1].lock] = "ready"]
        BY <1>1, <1>2, <2>2, Moved DEF CreateLock, At
      <3>2. QED
        BY <2>1, <3>1
    <2>3. CASE InitConsole(t)
      <3>1. s[1].op # "create"
        BY <1>2, <2>3 DEF InitConsole, At
      <3>2. lockState' = [lockState EXCEPT !["consoleLock"] = "ready"] \/ lockState' = lockState
        BY <2>3 DEF InitConsole
      <3>3. QED
        BY <2>1, <3>1, <3>2
    <2>4. CASE InitLanguage(t)
      BY <1>2, <2>1, <2>4 DEF InitLanguage, At
    <2>5. QED
      BY <2>2, <2>3, <2>4
  <1>6. /\ strings' \in BOOLEAN
        /\ strings => strings'
        /\ s[1].op = "language" => strings'
    BY <1>2 DEF CreateLock, InitConsole, InitLanguage, At, IInv, TypeOK
  <1>7. TypeOK'
    BY <1>1, <1>2, <1>5, <1>6 DEF IInv, TypeOK
  <1>8. Alone' /\ StepsOfPhase' /\ ReleasesOwn' /\ HeldInOrder'
    BY <1>1, <1>3, QuietMove
  <1>9. /\ \A op, l : \A i \in 1..Len(r) : On(r, i, op, l) <=> On(s, i + 1, op, l)
        /\ \A i \in 1..Len(r) : i + 1 \in 1..Len(s) /\ r[i] = s[i + 1]
        /\ \A i \in 1..Len(s) : i # 1 => i - 1 \in 1..Len(r) /\ s[i] = r[i - 1]
        /\ \A op, l : \A i \in 1..Len(s) : i # 1 => (On(s, i, op, l) <=> On(r, i - 1, op, l))
    BY <1>2, DropsOn
  <1>10. Len(r) \in Nat /\ Len(s) = Len(r) + 1
    BY <1>2 DEF Drops
  <1> HIDE DEF s, r
  <1>11. LocksReady'
    <2>1. \A l \in Lock : lockState'[l] # "ready" => holder[l] = Nobody
      BY <1>5 DEF IInv, LocksReady
    <2>2. ASSUME NEW l \in Lock \ {"consoleLock"}, lockState'[l] # "ready"
          PROVE  \E j \in 1..Len(r) : On(r, j, "create", l)
      <3>1. PICK j \in 1..Len(s) : On(s, j, "create", l)
        BY <1>4, <1>5, <2>2 DEF IInv, LocksReady, s
      <3>2. j # 1
        BY <1>5, <2>2, <3>1 DEF On
      <3>3. QED
        BY <1>9, <3>1, <3>2
    <2>3. ASSUME NEW l \in Lock, NEW i \in 1..Len(r), On(r, i, "get", l), lockState'[l] # "ready"
          PROVE  \E j \in 1..(i - 1) : On(r, j, "create", l)
      <3>1. i + 1 \in 1..Len(s) /\ On(s, i + 1, "get", l)
        BY <1>9, <2>3
      <3>2. PICK j \in 1..((i + 1) - 1) : On(s, j, "create", l)
        BY <1>4, <1>5, <2>3, <3>1 DEF IInv, LocksReady, s
      <3>3. j # 1 /\ j \in 1..Len(s)
        BY <1>5, <2>3, <3>2 DEF On
      <3>4. On(r, j - 1, "create", l) /\ j - 1 \in 1..(i - 1)
        BY <1>9, <3>2, <3>3
      <3>5. QED
        BY <3>4
    <2>4. QED
      BY <1>1, <1>2, <1>4, <1>5, <2>1, <2>2, <2>3 DEF LocksReady, r
  <1>12. ConsoleLast' /\ ClosesFirst'
    BY <1>1, <1>4 DEF ConsoleLast, ClosesFirst
  <1>13. DestroysAll'
    <2>1. ASSUME ~strings'
          PROVE  Has(r, "language")
      <3>1. PICK j \in 1..Len(s) : s[j].op = "language"
        BY <1>4, <1>6, <2>1 DEF IInv, DestroysAll, Has, s
      <3>2. j # 1
        BY <1>6, <2>1, <3>1
      <3>3. QED
        BY <1>9, <3>1, <3>2 DEF Has
    <2>2. QED
      BY <1>1, <1>4, <2>1 DEF DestroysAll, r
  <1>14. QED
    BY <1>7, <1>8, <1>11, <1>12, <1>13 DEF IInv

\* The steps of the exit handler that shorten its script: the end of the texts,
\* the destruction of a lock, the loop over threads of which none is left, and
\* the end of a console without a lock.
LEMMA HandlerStepKeeps ==
  ASSUME IInv, NEW t \in Thread, Next1(t), phase = "exit",
         UNCHANGED <<phase, pc, holder, depth, misused, exiter>>,
         todo[t][1].op \notin {"get", "put"},
         todo[t][1].op = "noConsole" => lockState["consoleLock"] # "ready",
         lockState' \in [Lock -> {None, "ready", "destroyed"}],
         strings' \in BOOLEAN,
         todo[t][1].op # "noLanguage" => strings' = strings,
         todo[t][1].op # "destroy" => lockState' = lockState,
         todo[t][1].op = "destroy" =>
           /\ lockState'[todo[t][1].lock] = "destroyed" /\ holder[todo[t][1].lock] = Nobody
           /\ \A m \in Lock : m # todo[t][1].lock => lockState'[m] = lockState[m]
  PROVE  IInv'
  <1> DEFINE s == todo[t]
             r == todo'[t]
  <1>1. /\ s \in Seq(Step) /\ Drops(r, s) /\ 1 \in 1..Len(s)
        /\ todo' \in [Thread -> Seq(Step)]
        /\ t = exiter /\ misused = None
        /\ s[1].op = "destroy" => s[1].lock \in Lock /\ On(s, 1, "destroy", s[1].lock)
    BY Moved
  <1>2. /\ Alone' /\ StepsOfPhase' /\ ReleasesOwn' /\ HeldInOrder'
    BY QuietMove
  <1>3. TypeOK'
    BY <1>1 DEF IInv, TypeOK
  <1>4. /\ \A op, l : \A i \in 1..Len(r) : On(r, i, op, l) <=> On(s, i + 1, op, l)
        /\ \A i \in 1..Len(r) : i + 1 \in 1..Len(s) /\ r[i] = s[i + 1]
        /\ \A i \in 1..Len(s) : i # 1 => i - 1 \in 1..Len(r) /\ s[i] = r[i - 1]
        /\ \A op, l : \A i \in 1..Len(s) : i # 1 => (On(s, i, op, l) <=> On(r, i - 1, op, l))
    BY <1>1, DropsOn
  <1>5. Len(r) \in Nat /\ Len(s) = Len(r) + 1
    BY <1>1 DEF Drops
  <1>6. /\ s[1].op = "noConsole" => lockState["consoleLock"] # "ready"
        /\ s[1].op # "noLanguage" => strings' = strings
        /\ s[1].op # "destroy" => lockState' = lockState
        /\ s[1].op = "destroy" =>
             /\ lockState'[s[1].lock] = "destroyed" /\ holder[s[1].lock] = Nobody
             /\ \A m \in Lock : m # s[1].lock => lockState'[m] = lockState[m]
    OBVIOUS
  <1> HIDE DEF s, r
  <1>7. LocksReady'
    <2>1. \A l \in Lock : lockState'[l] # "ready" => holder[l] = Nobody
      BY <1>6 DEF IInv, LocksReady
    <2>2. ASSUME NEW l \in Lock, NEW i \in 1..Len(r), Uses(r, i, l)
          PROVE  lockState'[l] = "ready" /\ \A j \in 1..(i - 1) : ~On(r, j, "destroy", l)
      <3>1. i + 1 \in 1..Len(s) /\ Uses(s, i + 1, l)
        BY <1>4, <2>2 DEF Uses
      <3>2. /\ lockState[l] = "ready"
            /\ \A j \in 1..((i + 1) - 1) : ~On(s, j, "destroy", l)
        BY <1>1, <3>1 DEF IInv, LocksReady, s
      <3>3. \A j \in 1..(i - 1) : j + 1 \in 1..((i + 1) - 1) /\ j \in 1..Len(r)
        BY <1>5
      <3>4. \A j \in 1..(i - 1) : ~On(r, j, "destroy", l)
        BY <1>4, <3>2, <3>3
      <3>5. ~On(s, 1, "destroy", l)
        <4>1. 1 \in 1..((i + 1) - 1)
          OBVIOUS
        <4>2. QED
          BY <3>2, <4>1
      <3>6. lockState'[l] = lockState[l]
        BY <1>1, <1>6, <3>5
      <3>7. QED
        BY <3>2, <3>4, <3>6
    <2>3. QED
      BY <1>1, <2>1, <2>2 DEF LocksReady, r
  <1>8. ConsoleLast'
    <2>1. \A i, j \in 1..Len(r) : r[i].op = "noConsole" /\ r[j].op = "noConsole" => i = j
      <3> TAKE i, j \in 1..Len(r)
      <3>1. i + 1 = j + 1 => i = j
        OBVIOUS
      <3>2. /\ i + 1 \in 1..Len(s) /\ s[i + 1] = r[i]
            /\ j + 1 \in 1..Len(s) /\ s[j + 1] = r[j]
        BY <1>4
      <3>3. \A k, n \in 1..Len(s) : s[k].op = "noConsole" /\ s[n].op = "noConsole" => k = n
        BY <1>1 DEF IInv, ConsoleLast, s
      <3>4. QED
        BY <3>1, <3>2, <3>3
    <2>2. ASSUME Has(r, "noConsole")
          PROVE  /\ lockState'["consoleLock"] # "destroyed"
                 /\ \A j \in 1..Len(r), op \in {"get", "put", "destroy"} : ~On(r, j, op, "consoleLock")
      <3>1. Has(s, "noConsole")
        BY <1>4, <2>2 DEF Has
      <3>2. /\ lockState["consoleLock"] # "destroyed"
            /\ \A j \in 1..Len(s), op \in {"get", "put", "destroy"} : ~On(s, j, op, "consoleLock")
        BY <1>1, <3>1 DEF IInv, ConsoleLast, s
      <3>3. lockState'["consoleLock"] = lockState["consoleLock"]
        BY <1>1, <1>6, <3>2 DEF Lock
      <3>4. QED
        BY <1>4, <3>2, <3>3
    <2>3. QED
      BY <1>1, <2>1, <2>2 DEF ConsoleLast, r
  <1>9. DestroysAll'
    <2>1. ASSUME NEW l \in Lock, lockState'[l] = "ready"
          PROVE  \/ \E i \in 1..Len(r) : On(r, i, "destroy", l)
                 \/ l = "consoleLock" /\ Has(r, "noConsole")
      <3>1. lockState[l] = "ready" /\ ~On(s, 1, "destroy", l)
        BY <1>1, <1>6, <2>1 DEF On
      <3>2. CASE \E i \in 1..Len(s) : On(s, i, "destroy", l)
        BY <1>4, <3>1, <3>2
      <3>3. CASE l = "consoleLock" /\ Has(s, "noConsole")
        <4>1. PICK j \in 1..Len(s) : s[j].op = "noConsole"
          BY <3>3 DEF Has
        <4>2. j # 1
          BY <1>6, <3>1, <3>3, <4>1
        <4>3. j - 1 \in 1..Len(r) /\ r[j - 1].op = "noConsole"
          BY <1>4, <4>1, <4>2
        <4>4. QED
          BY <3>3, <4>3 DEF Has
      <3>4. QED
        BY <1>1, <3>1, <3>2, <3>3 DEF IInv, DestroysAll, s
    <2>2. ASSUME NEW i \in 1..Len(r), r[i].op \in {"destroy", "close", "closeAll", "noConsole"}
          PROVE  strings' /\ \A j \in 1..(i - 1) : r[j].op # "noLanguage"
      <3>1. i + 1 \in 1..Len(s) /\ s[i + 1].op \in {"destroy", "close", "closeAll", "noConsole"}
        BY <1>4, <2>2
      <3>2. strings /\ \A j \in 1..((i + 1) - 1) : s[j].op # "noLanguage"
        BY <1>1, <3>1 DEF IInv, DestroysAll, s
      <3>3. \A j \in 1..(i - 1) : j + 1 \in 1..((i + 1) - 1) /\ j \in 1..Len(r)
        BY <1>5
      <3>4. 1 \in 1..((i + 1) - 1)
        OBVIOUS
      <3>5. strings' = strings
        BY <1>6, <3>2, <3>4
      <3>6. QED
        BY <1>4, <3>2, <3>3, <3>5
    <2>3. QED
      BY <1>1, <2>1, <2>2 DEF DestroysAll, r
  <1>10. ClosesFirst'
    <2> SUFFICES ASSUME NEW i \in 1..Len(r), NEW j \in 1..Len(r),
                        r[i].op = "closeAll", On(r, j, "put", Kept)
                 PROVE  j < i
      BY <1>1 DEF ClosesFirst, r
    <2>1. /\ i + 1 \in 1..Len(s) /\ s[i + 1].op = "closeAll"
          /\ j + 1 \in 1..Len(s) /\ On(s, j + 1, "put", Kept)
      BY <1>4
    <2>2. j + 1 < i + 1
      BY <1>1, <2>1 DEF IInv, ClosesFirst, s
    <2>3. QED
      BY <2>2
  <1>11. QED
    BY <1>2, <1>3, <1>7, <1>8, <1>9, <1>10 DEF IInv

LEMMA DeinitLanguageKeeps ==
  ASSUME IInv, NEW t \in Thread, DeinitLanguage(t)
  PROVE  IInv'
  <1>1. /\ Next1(t) /\ strings' = FALSE
        /\ UNCHANGED <<phase, pc, lockState, holder, depth, misused, exiter>>
    BY DEF DeinitLanguage
  <1>2. /\ Head(todo[t]) = todo[t][1] /\ phase \in {"init", "up", "exit"}
        /\ todo[t][1].op \in OpsIn(phase)
    BY <1>1, Moved
  <1>3. todo[t][1].op = "noLanguage"
    BY <1>2 DEF DeinitLanguage, At
  <1>4. phase = "exit"
    BY <1>2, <1>3 DEF OpsIn
  <1>5. lockState' \in [Lock -> {None, "ready", "destroyed"}]
    BY <1>1 DEF IInv, TypeOK
  <1>6. strings' \in BOOLEAN
    BY <1>1
  <1>7. QED
    BY <1>1, <1>3, <1>4, <1>5, <1>6, HandlerStepKeeps

LEMMA KillAllKeeps ==
  ASSUME IInv, NEW t \in Thread, KillAll(t)
  PROVE  IInv'
  <1>1. /\ todo[t] # <<>> /\ Head(todo[t]).op = "killAll" /\ ~Over /\ pc[t] = "live"
        /\ UNCHANGED <<phase, pc, lockState, holder, depth, strings, misused, exiter>>
    BY DEF KillAll, At
  <1>2. todo[t] \in Seq(Step)
    BY DEF IInv, TypeOK
  <1>3. Head(todo[t]) = todo[t][1] /\ 1 \in 1..Len(todo[t])
    BY <1>1, <1>2, TailDrops
  <1>4. phase = "exit"
    <2>1. todo[t][1].op \in OpsIn(phase) /\ todo[t][1].op = "killAll"
      BY <1>1, <1>3 DEF IInv, StepsOfPhase
    <2>2. phase \notin {"init", "failed", "up"}
      BY <2>1 DEF OpsIn
    <2>3. QED
      BY <1>1, <2>2 DEF Over, IInv, TypeOK, Phase
  <1>5. {u \in Thread \ {t} : pc[u] = "live"} = {}
    BY <1>1, <1>4 DEF IInv, Alone
  <1>6. Next1(t)
    BY <1>1, <1>5 DEF KillAll, Next1
  <1>7. lockState' \in [Lock -> {None, "ready", "destroyed"}] /\ strings' \in BOOLEAN
    BY <1>1 DEF IInv, TypeOK
  <1>8. todo[t][1].op = "killAll"
    BY <1>1, <1>3
  <1>9. QED
    BY <1>1, <1>4, <1>6, <1>7, <1>8, HandlerStepKeeps

\* A step of the exit handler that ends it with an error, before the texts went.
LEMMA AbortKeeps ==
  ASSUME IInv, NEW t \in Thread, Next1(t), phase = "exit", phase' = "aborted",
         UNCHANGED <<pc, lockState, holder, strings, misused, exiter>>,
         todo[t][1].op \notin {"get", "put"}, strings,
         depth' \in [Lock -> 0..MaxDepth], \A m \in Lock : depth[m] >= 1 => depth'[m] >= 1
  PROVE  IInv'
  <1>1. /\ todo[t] \in Seq(Step) /\ Drops(todo'[t], todo[t])
        /\ \A u \in Thread \ {t} : todo'[u] = todo[u]
        /\ todo' \in [Thread -> Seq(Step)]
        /\ pc[t] = "live" /\ misused = None /\ t = exiter
    BY Moved
  <1>2. TypeOK'
    BY <1>1 DEF IInv, TypeOK, Phase
  <1>3. \A m \in Lock : ~On(todo[t], 1, "get", m)
    BY DEF On
  <1>4. Alone'
    <2>1. \A u \in Thread : todo'[u] # <<>> => pc[u] = "live"
      BY <1>1 DEF IInv, Alone
    <2>2. QED
      BY <1>1, <2>1 DEF IInv, Alone
  <1>5. StepsOfPhase'
    <2> SUFFICES ASSUME NEW u \in Thread, NEW i \in 1..Len(todo'[u])
                 PROVE  /\ todo'[u][i].op \in OpsIn("aborted")
                        /\ todo'[u][i].op = "kill" =>
                             todo'[u][i].who \in Thread /\ pc[todo'[u][i].who] # "unborn"
      BY DEF StepsOfPhase
    <2>1. OpsIn("aborted") = OpsIn("exit")
      BY DEF OpsIn
    <2>2. CASE u # t
      BY <1>1, <2>1, <2>2 DEF IInv, StepsOfPhase
    <2>3. CASE u = t
      <3>1. i + 1 \in 1..Len(todo[t]) /\ todo'[t][i] = todo[t][i + 1]
        BY <1>1, <2>3, DropsOn
      <3>2. QED
        BY <2>1, <2>3, <3>1 DEF IInv, StepsOfPhase
    <2>4. QED
      BY <2>2, <2>3
  <1>6. ReleasesOwn'
    <2>1. \A m \in Lock : /\ BorrowsOnce(todo'[t], m)
                          /\ Borrows(todo'[t], m) => Borrows(todo[t], m)
      BY <1>1, <1>3, DropsBorrows DEF IInv, ReleasesOwn
    <2>2. QED
      BY <1>1, <2>1 DEF IInv, ReleasesOwn
  <1>7. HeldInOrder' /\ ConsoleLast' /\ ClosesFirst' /\ DestroysAll'
    BY DEF HeldInOrder, ConsoleLast, ClosesFirst, DestroysAll
  <1>8. LocksReady'
    BY DEF IInv, LocksReady
  <1>9. QED
    BY <1>2, <1>4, <1>5, <1>6, <1>7, <1>8 DEF IInv

\* A close() in the exit handler.
LEMMA CloseHandleKeeps ==
  ASSUME IInv, NEW t \in Thread, CloseHandle(t)
  PROVE  IInv'
  <1>1. Next1(t) /\ UNCHANGED <<pc, lockState, holder, strings, misused, exiter>>
    BY DEF CloseHandle
  <1>2. /\ Head(todo[t]) = todo[t][1] /\ phase \in {"init", "up", "exit"}
        /\ todo[t][1].op \in OpsIn(phase)
        /\ phase = "exit" => t = exiter
        /\ todo[t] \in Seq(Step) /\ 1 \in 1..Len(todo[t])
    BY <1>1, Moved
  <1>3. todo[t][1].op = "close"
    BY <1>2 DEF CloseHandle, At
  <1>4. phase = "exit"
    BY <1>2, <1>3 DEF OpsIn
  <1>5. /\ lockState \in [Lock -> {None, "ready", "destroyed"}] /\ strings \in BOOLEAN
        /\ depth \in [Lock -> 0..MaxDepth] /\ MaxDepth \in Nat /\ Kept \in Lock
    BY DepthAssumption DEF IInv, TypeOK, Lock, Kept
  <1>6. CASE UNCHANGED <<phase, depth>>
    BY <1>1, <1>3, <1>4, <1>5, <1>6, HandlerStepKeeps
  <1>7. CASE depth[Kept] > 1 /\ depth' = [depth EXCEPT ![Kept] = @ - 1] /\ phase' = "aborted"
    <2>1. depth'[Kept] = depth[Kept] - 1 /\ \A m \in Lock \ {Kept} : depth'[m] = depth[m]
      BY <1>5, <1>7
    <2>2. depth' \in [Lock -> 0..MaxDepth] /\ \A m \in Lock : depth[m] >= 1 => depth'[m] >= 1
      BY <1>5, <1>7, <2>1
    <2>3. strings
      BY <1>2, <1>4, <1>3 DEF IInv, DestroysAll
    <2>4. todo[t][1].op \notin {"get", "put"}
      BY <1>3
    <2>5. QED
      BY <1>1, <1>4, <1>7, <2>2, <2>3, <2>4, AbortKeeps
  <1>8. QED
    BY <1>6, <1>7 DEF CloseHandle, Kept

LEMMA DestroyKeeps ==
  ASSUME IInv, NEW t \in Thread, DestroyLock(t)
  PROVE  IInv'
  <1> DEFINE l == todo[t][1].lock
  <1>1. Next1(t) /\ UNCHANGED <<pc, holder, depth, strings, misused, exiter>>
    BY DEF DestroyLock
  <1>2. /\ Head(todo[t]) = todo[t][1] /\ phase \in {"init", "up", "exit"}
        /\ todo[t][1].op \in OpsIn(phase) /\ 1 \in 1..Len(todo[t])
        /\ todo' \in [Thread -> Seq(Step)]
        /\ phase = "exit" => t = exiter
    BY <1>1, Moved
  <1>3. todo[t][1].op = "destroy" /\ l \in Lock
    BY <1>1, <1>2, Moved DEF DestroyLock, At
  <1>4. phase = "exit" /\ t = exiter
    BY <1>2, <1>3 DEF OpsIn
  <1>5. lockState \in [Lock -> {None, "ready", "destroyed"}] /\ strings \in BOOLEAN
    BY DEF IInv, TypeOK
  <1> HIDE DEF l
  <1>6. CASE holder[l] = Nobody
    <2>1. lockState' = [lockState EXCEPT ![l] = "destroyed"] /\ phase' = phase
      BY <1>2, <1>6 DEF DestroyLock, l
    <2>2. /\ lockState' \in [Lock -> {None, "ready", "destroyed"}]
          /\ lockState'[l] = "destroyed"
          /\ \A m \in Lock : m # l => lockState'[m] = lockState[m]
      BY <1>3, <1>5, <2>1
    <2>3. /\ lockState'[todo[t][1].lock] = "destroyed" /\ holder[todo[t][1].lock] = Nobody
          /\ \A m \in Lock : m # todo[t][1].lock => lockState'[m] = lockState[m]
      BY <1>6, <2>2 DEF l
    <2>4. strings' \in BOOLEAN /\ strings' = strings
      BY <1>1, <1>5
    <2>5. QED
      BY <1>1, <1>3, <1>4, <2>1, <2>2, <2>3, <2>4, HandlerStepKeeps
  <1>7. CASE holder[l] # Nobody
    <2>1. phase' = "aborted" /\ lockState' = lockState
      BY <1>2, <1>7 DEF DestroyLock, l
    <2>2. strings
      BY <1>2, <1>3, <1>4 DEF IInv, DestroysAll
    <2>3. todo[t][1].op \notin {"get", "put"}
      BY <1>3
    <2>4. depth' \in [Lock -> 0..MaxDepth] /\ \A m \in Lock : depth[m] >= 1 => depth'[m] >= 1
      BY <1>1 DEF IInv, TypeOK
    <2>5. QED
      BY <1>1, <1>4, <2>1, <2>2, <2>3, <2>4, AbortKeeps
  <1>8. QED
    BY <1>6, <1>7

\* A section under the console's lock and its destruction, and then q.
ConsoleEnd(q) == (Section("consoleLock") \o <<Destroy("consoleLock")>>) \o q

\* r is s with these in place of its first step.
EndsConsole(r, s) ==
  /\ r \in Seq(Step) /\ 3 \in 1..Len(r)
  /\ r[1].op = "get" /\ r[1].lock = "consoleLock"
  /\ r[2].op = "put" /\ r[2].lock = "consoleLock"
  /\ r[3].op = "destroy" /\ r[3].lock = "consoleLock"
  /\ \A i \in 1..Len(r) : \/ i = 1 \/ i = 2 \/ i = 3
                          \/ i > 3 /\ i - 2 \in 1..Len(s) /\ r[i] = s[i - 2]
  /\ \A i \in 1..Len(s) : i # 1 => i + 2 \in 1..Len(r) /\ r[i + 2] = s[i]

LEMMA ConsoleEndIs ==
  ASSUME NEW s \in Seq(Step), NEW q, Drops(q, s)
  PROVE  EndsConsole(ConsoleEnd(q), s)
  <1> DEFINE a == Section("consoleLock")
             b == <<Destroy("consoleLock")>>
             p == a \o b
             r == p \o q
             c == "consoleLock"
  <1>1. c \in Lock
    BY DEF Lock
  <1>2. /\ a \in Seq(Step) /\ Len(a) = 2 /\ a[1] = Get(c) /\ a[2] = Put(c)
        /\ b \in Seq(Step) /\ Len(b) = 1 /\ b[1] = Destroy(c)
    BY <1>1, SectionIs, StepsAreSteps
  <1>3. Joins(p, a, b)
    BY <1>2, JoinedIs
  <1>4. q \in Seq(Step) /\ Len(q) \in Nat /\ Len(s) = Len(q) + 1 /\ \A i \in 1..Len(q) : q[i] = s[i + 1]
    BY DEF Drops
  <1>5. Joins(r, p, q)
    BY <1>3, <1>4, JoinedIs DEF Joins
  <1> HIDE DEF a, b, p, r
  <1>6. /\ p \in Seq(Step) /\ Len(p) = 3 /\ p[1] = a[1] /\ p[2] = a[2] /\ p[3] = b[1]
    BY <1>2, <1>3 DEF Joins
  <1>7. /\ r \in Seq(Step) /\ Len(r) = Len(q) + 3
        /\ r[1] = p[1] /\ r[2] = p[2] /\ r[3] = p[3]
        /\ \A i \in 1..Len(q) : r[3 + i] = q[i]
    BY <1>4, <1>5, <1>6 DEF Joins
  <1>8. /\ r[1].op = "get" /\ r[1].lock = c /\ r[2].op = "put" /\ r[2].lock = c
        /\ r[3].op = "destroy" /\ r[3].lock = c
    BY <1>1, <1>2, <1>6, <1>7, StepsAreSteps
  <1>9. \A i \in 1..Len(r) : \/ i = 1 \/ i = 2 \/ i = 3
                             \/ i > 3 /\ i - 2 \in 1..Len(s) /\ r[i] = s[i - 2]
    <2> SUFFICES ASSUME NEW i \in 1..Len(r), i > 3
                 PROVE  i - 2 \in 1..Len(s) /\ r[i] = s[i - 2]
      BY <1>4, <1>7
    <2>1. i - 3 \in 1..Len(q) /\ 3 + (i - 3) = i /\ (i - 3) + 1 = i - 2
      BY <1>4, <1>7
    <2>2. r[i] = q[i - 3] /\ q[i - 3] = s[i - 2]
      BY <1>4, <1>7, <2>1
    <2>3. QED
      BY <1>4, <2>1, <2>2
  <1>10. \A i \in 1..Len(s) : i # 1 => i + 2 \in 1..Len(r) /\ r[i + 2] = s[i]
    <2> SUFFICES ASSUME NEW i \in 1..Len(s), i # 1
                 PROVE  i + 2 \in 1..Len(r) /\ r[i + 2] = s[i]
      OBVIOUS
    <2>1. i - 1 \in 1..Len(q) /\ 3 + (i - 1) = i + 2 /\ (i - 1) + 1 = i
      BY <1>4
    <2>2. r[i + 2] = q[i - 1] /\ q[i - 1] = s[i]
      BY <1>4, <1>7, <2>1
    <2>3. QED
      BY <1>4, <1>7, <2>2
  <1>11. 3 \in 1..Len(r)
    BY <1>4, <1>7
  <1>12. QED
    BY <1>7, <1>8, <1>9, <1>10, <1>11 DEF r, p, a, b, ConsoleEnd, EndsConsole

LEMMA DeinitConsoleKeeps ==
  ASSUME IInv, NEW t \in Thread, DeinitConsole(t)
  PROVE  IInv'
  <1> DEFINE s == todo[t]
             r == todo'[t]
             c == "consoleLock"
  <1>1. /\ s # <<>> /\ Head(s).op = "noConsole" /\ ~Over /\ pc[t] = "live"
        /\ UNCHANGED <<phase, pc, lockState, holder, depth, strings, misused, exiter>>
    BY DEF DeinitConsole, At
  <1>2. todo \in [Thread -> Seq(Step)] /\ s \in Seq(Step)
    BY DEF IInv, TypeOK
  <1>3. Drops(Tail(s), s) /\ Head(s) = s[1] /\ 1 \in 1..Len(s)
    BY <1>1, <1>2, TailDrops
  <1>4. s[1].op = "noConsole"
    BY <1>1, <1>3
  <1>5. phase = "exit" /\ t = exiter /\ misused = None
    <2>1. s[1].op \in OpsIn(phase)
      BY <1>3 DEF IInv, StepsOfPhase
    <2>2. phase \notin {"init", "failed", "up"}
      BY <1>4, <2>1 DEF OpsIn
    <2>3. phase = "exit" /\ misused = None
      BY <1>1, <2>2 DEF Over, IInv, TypeOK, Phase
    <2>4. QED
      BY <1>1, <2>3 DEF IInv, Alone
  <1>6. lockState \in [Lock -> {None, "ready", "destroyed"}] /\ strings \in BOOLEAN /\ c \in Lock
    BY DEF IInv, TypeOK, Lock
  <1>7. CASE lockState[c] = None
    <2>1. <<>> \o Tail(s) = Tail(s)
      BY <1>3, ConcatEmptySeq DEF Drops
    <2>2. Next1(t)
      BY <1>1, <1>7, <2>1 DEF DeinitConsole, Next1
    <2>3. lockState[c] # "ready"
      BY <1>7 DEF None
    <2>4. QED
      BY <1>1, <1>4, <1>5, <1>6, <2>2, <2>3, HandlerStepKeeps
  <1>8. CASE lockState[c] # None
    <2>1. Has(s, "noConsole")
      BY <1>3, <1>4 DEF Has
    <2>2. /\ lockState[c] = "ready"
          /\ \A j \in 1..Len(s), op \in {"get", "put", "destroy"} : ~On(s, j, op, c)
          /\ \A j \in 1..Len(s) : s[j].op = "noConsole" => j = 1
      BY <1>3, <1>4, <1>5, <1>6, <1>8, <2>1 DEF IInv, ConsoleLast
    <2>3. todo' = [todo EXCEPT ![t] = ConsoleEnd(Tail(s))]
      BY <1>2, <1>8 DEF DeinitConsole, ConsoleEnd
    <2>4. r = ConsoleEnd(Tail(s)) /\ EndsConsole(r, s)
      BY <1>2, <1>3, <2>3, ConsoleEndIs
    <2>5. /\ r \in Seq(Step) /\ 3 \in 1..Len(r)
          /\ r[1].op = "get" /\ r[1].lock = c
          /\ r[2].op = "put" /\ r[2].lock = c
          /\ r[3].op = "destroy" /\ r[3].lock = c
          /\ \A i \in 1..Len(r) :
               \/ i = 1 \/ i = 2 \/ i = 3
               \/ i > 3 /\ i - 2 \in 1..Len(s) /\ r[i] = s[i - 2]
          /\ \A i \in 1..Len(s) : i # 1 => i + 2 \in 1..Len(r) /\ r[i + 2] = s[i]
      BY <2>4 DEF EndsConsole
    <2>6. /\ todo' \in [Thread -> Seq(Step)]
          /\ \A u \in Thread \ {t} : todo'[u] = todo[u]
      <3>1. ConsoleEnd(Tail(s)) \in Seq(Step)
        BY <2>4, <2>5
      <3>2. QED
        BY <1>2, <2>3, <3>1
    <2> HIDE DEF s, r, c
    <2>7. \A op : \A l \in Lock, i \in 1..Len(r) : i > 3 =>
            i - 2 \in 1..Len(s) /\ (On(r, i, op, l) <=> On(s, i - 2, op, l))
      BY <2>5 DEF On
    <2>8. \A op : \A l \in Lock, i \in 1..Len(s) : i # 1 =>
            i + 2 \in 1..Len(r) /\ (On(s, i, op, l) <=> On(r, i + 2, op, l))
      BY <2>5 DEF On
    \* Within the new section only the console's lock is touched.
    <2>9. \A op : \A l \in Lock, i \in 1..Len(r) : On(r, i, op, l) =>
            \/ i > 3 /\ l # c /\ (op \in {"get", "put", "destroy"} => On(s, i - 2, op, l))
            \/ i > 3 /\ op \notin {"get", "put", "destroy"}
            \/ i \in {1, 2, 3} /\ l = c
      BY <2>2, <2>5, <2>7 DEF On
    <2>10. TypeOK'
      BY <1>1, <2>6 DEF IInv, TypeOK
    <2>11. Alone'
      BY <1>1, <2>6 DEF IInv, Alone
    <2>12. StepsOfPhase'
      <3> SUFFICES ASSUME NEW u \in Thread, NEW i \in 1..Len(todo'[u])
                   PROVE  /\ todo'[u][i].op \in OpsIn(phase)
                          /\ todo'[u][i].op = "kill" =>
                             todo'[u][i].who \in Thread /\ pc[todo'[u][i].who] # "unborn"
        BY <1>1 DEF StepsOfPhase
      <3>1. CASE u # t
        BY <2>6, <3>1 DEF IInv, StepsOfPhase
      <3>2. CASE u = t /\ i > 3
        <4>1. i - 2 \in 1..Len(s) /\ r[i] = s[i - 2]
          BY <2>5, <3>2 DEF r
        <4>2. QED
          BY <3>2, <4>1 DEF IInv, StepsOfPhase, r, s
      <3>3. CASE u = t /\ ~(i > 3)
        <4>1. r[i].op \in {"get", "put", "destroy"}
          BY <2>5, <3>3 DEF r
        <4>2. QED
          BY <1>5, <3>3, <4>1 DEF OpsIn, r
      <3>4. QED
        BY <3>1, <3>2, <3>3 DEF r
    <2>13. ReleasesOwn'
      <3>1. ASSUME NEW l \in Lock, NEW i \in 1..Len(r), On(r, i, "put", l), ~GotBefore(r, i, l)
            PROVE  i > 3 /\ l # c /\ i - 2 \in 1..Len(s) /\ On(s, i - 2, "put", l) /\ ~GotBefore(s, i - 2, l)
        <4>1. CASE i \in {1, 2, 3}
          <5>1. i = 2 /\ l = c
            BY <2>5, <3>1, <4>1 DEF On
          <5>2. On(r, 1, "get", l) /\ 1 \in 1..(2 - 1)
            BY <2>5, <5>1 DEF On
          <5>3. \A k \in (1 + 1)..(2 - 1) : FALSE
            OBVIOUS
          <5>4. GotBefore(r, 2, l)
            BY <5>2, <5>3 DEF GotBefore
          <5>5. QED
            BY <3>1, <5>1, <5>4
        <4>2. CASE i > 3
          <5>1. l # c /\ i - 2 \in 1..Len(s) /\ On(s, i - 2, "put", l)
            BY <2>7, <2>9, <3>1, <4>2
          <5>2. ASSUME GotBefore(s, i - 2, l)
                PROVE  GotBefore(r, i, l)
            <6>1. PICK j \in 1..((i - 2) - 1) :
                         /\ On(s, j, "get", l)
                         /\ \A k \in (j + 1)..((i - 2) - 1) : ~On(s, k, "put", l)
              BY <5>2 DEF GotBefore
            <6>2. j # 1 /\ j \in 1..Len(s)
              BY <1>4, <6>1 DEF On, s
            <6>3. On(r, j + 2, "get", l) /\ j + 2 \in 1..(i - 1)
              BY <2>8, <6>1, <6>2
            <6>4. ASSUME NEW k \in ((j + 2) + 1)..(i - 1)
                  PROVE  ~On(r, k, "put", l)
              <7>1. k > 3 /\ k - 2 \in (j + 1)..((i - 2) - 1)
                OBVIOUS
              <7>2. k \in 1..Len(r) => (On(r, k, "put", l) <=> On(s, k - 2, "put", l))
                BY <2>7, <7>1
              <7>3. QED
                BY <6>1, <7>1, <7>2 DEF On
            <6>5. QED
              BY <6>3, <6>4 DEF GotBefore
          <5>3. QED
            BY <3>1, <4>2, <5>1, <5>2
        <4>3. QED
          BY <2>9, <3>1, <4>1, <4>2
      <3>2. \A l \in Lock : Borrows(r, l) => Borrows(s, l)
        BY <3>1 DEF Borrows
      <3>3. \A l \in Lock : BorrowsOnce(s, l)
        BY DEF IInv, ReleasesOwn, s
      <3>4. \A l \in Lock : BorrowsOnce(r, l)
        <4> SUFFICES ASSUME NEW l \in Lock, NEW i \in 1..Len(r), On(r, i, "put", l),
                            ~GotBefore(r, i, l), NEW j \in 1..(i - 1), On(r, j, "put", l)
                     PROVE  FALSE
          BY DEF BorrowsOnce
        <4>1. i > 3 /\ l # c /\ i - 2 \in 1..Len(s) /\ On(s, i - 2, "put", l) /\ ~GotBefore(s, i - 2, l)
          BY <3>1
        <4>2. \A k \in 1..((i - 2) - 1) : ~On(s, k, "put", l)
          BY <3>3, <4>1 DEF BorrowsOnce
        <4>3. j \in 1..Len(r)
          BY DEF On
        <4>4. j > 3 /\ On(s, j - 2, "put", l)
          BY <2>9, <4>1, <4>3
        <4>5. j - 2 \in 1..((i - 2) - 1)
          BY <4>4
        <4>6. QED
          BY <4>2, <4>4, <4>5
      <3>5. QED
        BY <1>1, <2>6, <3>2, <3>4 DEF IInv, ReleasesOwn, r, s
    <2>14. HeldInOrder'
      BY <1>1, <1>5 DEF HeldInOrder
    <2>15. LocksReady'
      <3>1. ASSUME NEW l \in Lock, NEW i \in 1..Len(r), Uses(r, i, l)
            PROVE  lockState[l] = "ready" /\ \A j \in 1..(i - 1) : ~On(r, j, "destroy", l)
        <4>1. CASE i \in {1, 2, 3}
          <5>1. i = 1 /\ l = c
            BY <2>5, <3>1, <4>1 DEF Uses, On
          <5>2. \A j \in 1..(1 - 1) : FALSE
            OBVIOUS
          <5>3. QED
            BY <2>2, <5>1, <5>2
        <4>2. CASE i > 3
          <5>1. l # c /\ i - 2 \in 1..Len(s) /\ Uses(s, i - 2, l)
            <6>1. i - 2 \in 1..Len(s) /\ r[i] = s[i - 2]
              BY <2>5, <4>2
            <6>2. CASE On(r, i, "get", l)
              BY <2>7, <2>9, <4>2, <6>1, <6>2 DEF Uses
            <6>3. CASE r[i].op = "closeAll" /\ l = Kept
              BY <6>1, <6>3 DEF Uses, Kept, c
            <6>4. QED
              BY <3>1, <6>2, <6>3 DEF Uses
          <5>2. /\ lockState[l] = "ready"
                /\ \A j \in 1..((i - 2) - 1) : ~On(s, j, "destroy", l)
            BY <1>5, <5>1 DEF IInv, LocksReady, s
          <5>3. ASSUME NEW j \in 1..(i - 1), On(r, j, "destroy", l)
                PROVE  FALSE
            <6>1. j \in 1..Len(r)
              BY <5>3 DEF On
            <6>2. j > 3 /\ On(s, j - 2, "destroy", l)
              BY <2>9, <5>1, <5>3, <6>1
            <6>3. j - 2 \in 1..((i - 2) - 1)
              BY <6>2
            <6>4. QED
              BY <5>2, <6>2, <6>3
          <5>4. QED
            BY <5>2, <5>3
        <4>3. QED
          BY <4>1, <4>2
      <3>2. QED
        BY <1>1, <1>5, <3>1 DEF IInv, LocksReady, r
    <2>16. ConsoleLast'
      <3>1. \A i \in 1..Len(r) : r[i].op # "noConsole"
        <4> TAKE i \in 1..Len(r)
        <4>1. CASE i > 3
          <5>1. i - 2 \in 1..Len(s) /\ r[i] = s[i - 2] /\ i - 2 # 1
            BY <2>5, <4>1
          <5>2. QED
            BY <2>2, <5>1
        <4>2. CASE ~(i > 3)
          BY <2>5, <4>2
        <4>3. QED
          BY <4>1, <4>2
      <3>2. QED
        BY <1>1, <1>5, <3>1 DEF ConsoleLast, Has, r
    <2>17. DestroysAll'
      <3>1. ASSUME NEW l \in Lock, lockState[l] = "ready"
            PROVE  \E i \in 1..Len(r) : On(r, i, "destroy", l)
        <4>1. CASE l = c
          BY <2>5, <4>1 DEF On
        <4>2. CASE l # c
          <5>1. PICK i \in 1..Len(s) : On(s, i, "destroy", l)
            BY <1>5, <3>1, <4>2 DEF IInv, DestroysAll, s, c
          <5>2. i # 1
            BY <1>4, <5>1 DEF On, s
          <5>3. QED
            BY <2>8, <5>1, <5>2
        <4>3. QED
          BY <4>1, <4>2
      <3>2. ASSUME NEW i \in 1..Len(r), r[i].op \in {"destroy", "close", "closeAll", "noConsole"}
            PROVE  strings /\ \A j \in 1..(i - 1) : r[j].op # "noLanguage"
        <4>1. strings
          BY <1>3, <1>4, <1>5 DEF IInv, DestroysAll, s
        <4>2. ASSUME NEW j \in 1..(i - 1), r[j].op = "noLanguage"
              PROVE  FALSE
          <5>1. j \in 1..Len(r) /\ j \notin {1, 2, 3}
            BY <2>5, <4>2
          <5>2. j > 3 /\ i > 3 /\ s[j - 2].op = "noLanguage" /\ r[i] = s[i - 2] /\ i - 2 \in 1..Len(s)
            BY <2>5, <4>2, <5>1
          <5>3. \A k \in 1..((i - 2) - 1) : s[k].op # "noLanguage"
            BY <1>5, <3>2, <5>2 DEF IInv, DestroysAll, s
          <5>4. j - 2 \in 1..((i - 2) - 1)
            BY <5>2
          <5>5. QED
            BY <5>2, <5>3, <5>4
        <4>3. QED
          BY <4>1, <4>2
      <3>3. QED
        BY <1>1, <1>5, <3>1, <3>2 DEF DestroysAll, r
    <2>18. ClosesFirst'
      <3> SUFFICES ASSUME NEW i \in 1..Len(r), NEW j \in 1..Len(r),
                          r[i].op = "closeAll", On(r, j, "put", Kept)
                   PROVE  j < i
        BY <1>1, <1>5 DEF ClosesFirst, r
      <3>1. i > 3 /\ i - 2 \in 1..Len(s) /\ s[i - 2].op = "closeAll"
        BY <2>5
      <3>2. j > 3 /\ On(s, j - 2, "put", Kept) /\ j - 2 \in 1..Len(s)
        BY <2>7, <2>9 DEF Kept, c, Lock
      <3>3. j - 2 < i - 2
        BY <1>5, <3>1, <3>2 DEF IInv, ClosesFirst, s
      <3>4. QED
        BY <3>1, <3>2, <3>3
    <2>19. QED
      BY <2>10, <2>11, <2>12, <2>13, <2>14, <2>15, <2>16, <2>17, <2>18 DEF IInv
  <1>9. QED
    BY <1>7, <1>8

\* A section that closes a file, the rest of the files, and then q.
CloseOne(n, q) ==
  <<Get(Kept), [op |-> "close"], Put(Kept), CloseAll(n)>> \o q

\* r is s with these in place of its first step.
ClosesOne(r, s) ==
  /\ r \in Seq(Step) /\ 4 \in 1..Len(r)
  /\ r[1].op = "get" /\ r[1].lock = Kept
  /\ r[2].op = "close"
  /\ r[3].op = "put" /\ r[3].lock = Kept
  /\ r[4].op = "closeAll"
  /\ \A i \in 1..Len(r) : \/ i \in {1, 2, 3, 4}
                          \/ i > 4 /\ i - 3 \in 1..Len(s) /\ r[i] = s[i - 3]
  /\ \A i \in 1..Len(s) : i # 1 => i + 3 \in 1..Len(r) /\ r[i + 3] = s[i]

LEMMA CloseOneIs ==
  ASSUME NEW s \in Seq(Step), NEW q, Drops(q, s), NEW n \in Nat
  PROVE  ClosesOne(CloseOne(n, q), s)
  <1> DEFINE g == Get(Kept)
             k == [op |-> "close"]
             h == Put(Kept)
             m == CloseAll(n)
             p == <<g, k, h, m>>
             r == p \o q
  <1>1. Kept \in Lock
    BY DEF Lock, Kept
  <1>2. /\ g \in Step /\ g.op = "get" /\ g.lock = Kept
        /\ k \in Step /\ k.op = "close"
        /\ h \in Step /\ h.op = "put" /\ h.lock = Kept
        /\ m \in Step /\ m.op = "closeAll"
    BY <1>1, StepsAreSteps
  <1>3. r = CloseOne(n, q)
    BY DEF CloseOne
  <1> HIDE DEF g, k, h, m
  <1>4. p \in Seq(Step) /\ Len(p) = 4 /\ p[1] = g /\ p[2] = k /\ p[3] = h /\ p[4] = m
    BY <1>2
  <1>5. q \in Seq(Step) /\ Len(q) \in Nat /\ Len(s) = Len(q) + 1 /\ \A i \in 1..Len(q) : q[i] = s[i + 1]
    BY DEF Drops
  <1>6. Joins(r, p, q)
    BY <1>4, <1>5, JoinedIs
  <1> HIDE DEF p, r
  <1>7. /\ r \in Seq(Step) /\ Len(r) = Len(q) + 4
        /\ r[1] = p[1] /\ r[2] = p[2] /\ r[3] = p[3] /\ r[4] = p[4]
        /\ \A i \in 1..Len(q) : r[4 + i] = q[i]
    BY <1>4, <1>5, <1>6 DEF Joins
  <1>8. \A i \in 1..Len(r) : \/ i \in {1, 2, 3, 4}
                             \/ i > 4 /\ i - 3 \in 1..Len(s) /\ r[i] = s[i - 3]
    <2> SUFFICES ASSUME NEW i \in 1..Len(r), i > 4
                 PROVE  i - 3 \in 1..Len(s) /\ r[i] = s[i - 3]
      BY <1>5, <1>7
    <2>1. i - 4 \in 1..Len(q) /\ 4 + (i - 4) = i /\ (i - 4) + 1 = i - 3
      BY <1>5, <1>7
    <2>2. r[i] = q[i - 4] /\ q[i - 4] = s[i - 3]
      BY <1>5, <1>7, <2>1
    <2>3. QED
      BY <1>5, <2>1, <2>2
  <1>9. \A i \in 1..Len(s) : i # 1 => i + 3 \in 1..Len(r) /\ r[i + 3] = s[i]
    <2> SUFFICES ASSUME NEW i \in 1..Len(s), i # 1
                 PROVE  i + 3 \in 1..Len(r) /\ r[i + 3] = s[i]
      OBVIOUS
    <2>1. i - 1 \in 1..Len(q) /\ 4 + (i - 1) = i + 3 /\ (i - 1) + 1 = i
      BY <1>5
    <2>2. r[i + 3] = q[i - 1] /\ q[i - 1] = s[i]
      BY <1>5, <1>7, <2>1
    <2>3. QED
      BY <1>5, <1>7, <2>2
  <1>10. 4 \in 1..Len(r)
    BY <1>5, <1>7
  <1>11. QED
    BY <1>2, <1>3, <1>4, <1>7, <1>8, <1>9, <1>10 DEF ClosesOne

\* A turn of the loop that closes the files.
LEMMA CloseHandlesKeeps ==
  ASSUME IInv, NEW t \in Thread, CloseHandles(t)
  PROVE  IInv'
  <1> DEFINE s == todo[t]
             r == todo'[t]
  <1>1. /\ s # <<>> /\ Head(s).op = "closeAll" /\ ~Over /\ pc[t] = "live"
        /\ UNCHANGED <<phase, pc, lockState, holder, depth, strings, misused, exiter>>
    BY DEF CloseHandles, At
  <1>2. todo \in [Thread -> Seq(Step)] /\ s \in Seq(Step)
    BY DEF IInv, TypeOK
  <1>3. Drops(Tail(s), s) /\ Head(s) = s[1] /\ 1 \in 1..Len(s) /\ s[1] \in Step
    BY <1>1, <1>2, TailDrops
  <1>4. s[1].op = "closeAll"
    BY <1>1, <1>3
  <1>5. phase = "exit" /\ t = exiter /\ misused = None
    <2>1. s[1].op \in OpsIn(phase)
      BY <1>3 DEF IInv, StepsOfPhase
    <2>2. phase \notin {"init", "failed", "up"}
      BY <1>4, <2>1 DEF OpsIn
    <2>3. phase = "exit" /\ misused = None
      BY <1>1, <2>2 DEF Over, IInv, TypeOK, Phase
    <2>4. QED
      BY <1>1, <2>3 DEF IInv, Alone
  <1>6. /\ lockState \in [Lock -> {None, "ready", "destroyed"}] /\ strings \in BOOLEAN
        /\ Kept \in Lock /\ Kept # "consoleLock"
    BY DEF IInv, TypeOK, Lock, Kept
  <1>7. CASE s[1].left = 0
    <2>1. <<>> \o Tail(s) = Tail(s)
      BY <1>3, ConcatEmptySeq DEF Drops
    <2>2. Next1(t)
      BY <1>1, <1>3, <1>7, <2>1 DEF CloseHandles, Next1
    <2>3. QED
      BY <1>1, <1>4, <1>5, <1>6, <2>2, HandlerStepKeeps
  <1>8. CASE s[1].left # 0
    <2> DEFINE n == s[1].left - 1
    <2>1. n \in Nat
      BY <1>3, <1>4, <1>8 DEF Step
    <2>2. todo' = [todo EXCEPT ![t] = CloseOne(n, Tail(s))]
      BY <1>2, <1>3, <1>8 DEF CloseHandles, CloseOne, Kept
    <2> HIDE DEF n
    <2>3. r = CloseOne(n, Tail(s)) /\ ClosesOne(r, s)
      BY <1>2, <1>3, <2>1, <2>2, CloseOneIs
    <2>4. /\ r \in Seq(Step) /\ 4 \in 1..Len(r)
          /\ r[1].op = "get" /\ r[1].lock = Kept
          /\ r[2].op = "close"
          /\ r[3].op = "put" /\ r[3].lock = Kept
          /\ r[4].op = "closeAll"
          /\ \A i \in 1..Len(r) :
               \/ i \in {1, 2, 3, 4}
               \/ i > 4 /\ i - 3 \in 1..Len(s) /\ r[i] = s[i - 3]
          /\ \A i \in 1..Len(s) : i # 1 => i + 3 \in 1..Len(r) /\ r[i + 3] = s[i]
      BY <2>3 DEF ClosesOne
    <2>5. /\ todo' \in [Thread -> Seq(Step)]
          /\ \A u \in Thread \ {t} : todo'[u] = todo[u]
      <3>1. CloseOne(n, Tail(s)) \in Seq(Step)
        BY <2>3, <2>4
      <3>2. QED
        BY <1>2, <2>2, <3>1
    <2>6. /\ lockState[Kept] = "ready"
          /\ \A j \in 1..Len(s) : ~On(s, j, "put", Kept)
          /\ strings
      <3>1. Uses(s, 1, Kept)
        BY <1>3, <1>4 DEF Uses
      <3>2. \A j \in 1..Len(s) : ~(j < 1)
        OBVIOUS
      <3>3. QED
        BY <1>3, <1>4, <1>5, <1>6, <3>1, <3>2 DEF IInv, LocksReady, ClosesFirst, DestroysAll
    <2> HIDE DEF s, r
    <2>7. \A op : \A l \in Lock, i \in 1..Len(r) : i > 4 =>
            i - 3 \in 1..Len(s) /\ (On(r, i, op, l) <=> On(s, i - 3, op, l))
      BY <2>4 DEF On
    <2>8. \A op : \A l \in Lock, i \in 1..Len(s) : i # 1 =>
            i + 3 \in 1..Len(r) /\ (On(s, i, op, l) <=> On(r, i + 3, op, l))
      BY <2>4 DEF On
    \* Within the new section only the lock of the files is touched.
    <2>9. \A op \in {"get", "put", "destroy"} : \A l \in Lock, i \in 1..Len(r) : On(r, i, op, l) =>
            \/ i > 4 /\ On(s, i - 3, op, l)
            \/ i = 1 /\ l = Kept /\ op = "get"
            \/ i = 3 /\ l = Kept /\ op = "put"
      BY <2>4, <2>7 DEF On
    <2>10. TypeOK'
      BY <1>1, <2>5 DEF IInv, TypeOK
    <2>11. Alone'
      BY <1>1, <2>5 DEF IInv, Alone
    <2>12. StepsOfPhase'
      <3> SUFFICES ASSUME NEW u \in Thread, NEW i \in 1..Len(todo'[u])
                   PROVE  /\ todo'[u][i].op \in OpsIn(phase)
                          /\ todo'[u][i].op = "kill" =>
                               todo'[u][i].who \in Thread /\ pc[todo'[u][i].who] # "unborn"
        BY <1>1 DEF StepsOfPhase
      <3>1. CASE u # t
        BY <2>5, <3>1 DEF IInv, StepsOfPhase
      <3>2. CASE u = t /\ i > 4
        <4>1. i - 3 \in 1..Len(s) /\ r[i] = s[i - 3]
          BY <2>4, <3>2 DEF r
        <4>2. QED
          BY <3>2, <4>1 DEF IInv, StepsOfPhase, r, s
      <3>3. CASE u = t /\ ~(i > 4)
        <4>1. r[i].op \in {"get", "put", "close", "closeAll"}
          BY <2>4, <3>3 DEF r
        <4>2. QED
          BY <1>5, <3>3, <4>1 DEF OpsIn, r
      <3>4. QED
        BY <3>1, <3>2, <3>3 DEF r
    <2>13. ReleasesOwn'
      <3>1. ASSUME NEW l \in Lock, NEW i \in 1..Len(r), On(r, i, "put", l), ~GotBefore(r, i, l)
            PROVE  i > 4 /\ l # Kept /\ i - 3 \in 1..Len(s) /\ On(s, i - 3, "put", l) /\ ~GotBefore(s, i - 3, l)
        <4>1. CASE i = 3 /\ l = Kept
          <5>1. On(r, 1, "get", l) /\ 1 \in 1..(3 - 1)
            BY <2>4, <4>1 DEF On
          <5>2. \A k \in (1 + 1)..(3 - 1) : k = 2
            OBVIOUS
          <5>3. \A k \in (1 + 1)..(3 - 1) : ~On(r, k, "put", l)
            BY <2>4, <5>2 DEF On
          <5>4. GotBefore(r, 3, l)
            BY <5>1, <5>3 DEF GotBefore
          <5>5. QED
            BY <3>1, <4>1, <5>4
        <4>2. CASE i > 4 /\ On(s, i - 3, "put", l)
          <5>1. i - 3 \in 1..Len(s) /\ l # Kept
            BY <2>6, <2>7, <4>2
          <5>2. ASSUME GotBefore(s, i - 3, l)
                PROVE  GotBefore(r, i, l)
            <6>1. PICK j \in 1..((i - 3) - 1) :
                         /\ On(s, j, "get", l)
                         /\ \A k \in (j + 1)..((i - 3) - 1) : ~On(s, k, "put", l)
              BY <5>2 DEF GotBefore
            <6>2. j # 1 /\ j \in 1..Len(s)
              BY <1>4, <6>1 DEF On, s
            <6>3. On(r, j + 3, "get", l) /\ j + 3 \in 1..(i - 1)
              BY <2>8, <6>1, <6>2
            <6>4. ASSUME NEW k \in ((j + 3) + 1)..(i - 1)
                  PROVE  ~On(r, k, "put", l)
              <7>1. k > 4 /\ k - 3 \in (j + 1)..((i - 3) - 1)
                OBVIOUS
              <7>2. k \in 1..Len(r) => (On(r, k, "put", l) <=> On(s, k - 3, "put", l))
                BY <2>7, <7>1
              <7>3. QED
                BY <6>1, <7>1, <7>2 DEF On
            <6>5. QED
              BY <6>3, <6>4 DEF GotBefore
          <5>3. QED
            BY <3>1, <4>2, <5>1, <5>2
        <4>3. QED
          BY <2>9, <3>1, <4>1, <4>2
      <3>2. \A l \in Lock : Borrows(r, l) => Borrows(s, l)
        BY <3>1 DEF Borrows
      <3>3. \A l \in Lock : BorrowsOnce(s, l)
        BY DEF IInv, ReleasesOwn, s
      <3>4. \A l \in Lock : BorrowsOnce(r, l)
        <4> SUFFICES ASSUME NEW l \in Lock, NEW i \in 1..Len(r), On(r, i, "put", l),
                            ~GotBefore(r, i, l), NEW j \in 1..(i - 1), On(r, j, "put", l)
                     PROVE  FALSE
          BY DEF BorrowsOnce
        <4>1. i > 4 /\ l # Kept /\ i - 3 \in 1..Len(s) /\ On(s, i - 3, "put", l) /\ ~GotBefore(s, i - 3, l)
          BY <3>1
        <4>2. \A k \in 1..((i - 3) - 1) : ~On(s, k, "put", l)
          BY <3>3, <4>1 DEF BorrowsOnce
        <4>3. j \in 1..Len(r)
          BY DEF On
        <4>4. j > 4 /\ On(s, j - 3, "put", l)
          BY <2>9, <4>1, <4>3
        <4>5. j - 3 \in 1..((i - 3) - 1)
          BY <4>4
        <4>6. QED
          BY <4>2, <4>4, <4>5
      <3>5. QED
        BY <1>1, <2>5, <3>2, <3>4 DEF IInv, ReleasesOwn, r, s
    <2>14. HeldInOrder'
      BY <1>1, <1>5 DEF HeldInOrder
    <2>15. LocksReady'
      <3>1. ASSUME NEW l \in Lock, NEW i \in 1..Len(r), Uses(r, i, l)
            PROVE  lockState[l] = "ready" /\ \A j \in 1..(i - 1) : ~On(r, j, "destroy", l)
        <4>1. CASE i \in {1, 2, 3, 4}
          <5>1. l = Kept
            BY <2>4, <3>1, <4>1 DEF Uses, On
          <5>2. \A j \in 1..(i - 1) : ~On(r, j, "destroy", l)
            BY <2>4, <2>9, <4>1
          <5>3. QED
            BY <2>6, <5>1, <5>2
        <4>2. CASE i > 4
          <5>1. i - 3 \in 1..Len(s) /\ r[i] = s[i - 3]
            BY <2>4, <4>2
          <5>2. Uses(s, i - 3, l)
            BY <2>7, <3>1, <4>2, <5>1 DEF Uses
          <5>3. /\ lockState[l] = "ready"
                /\ \A j \in 1..((i - 3) - 1) : ~On(s, j, "destroy", l)
            BY <1>5, <5>1, <5>2 DEF IInv, LocksReady, s
          <5>4. ASSUME NEW j \in 1..(i - 1), On(r, j, "destroy", l)
                PROVE  FALSE
            <6>1. j \in 1..Len(r)
              BY <5>4 DEF On
            <6>2. j > 4 /\ On(s, j - 3, "destroy", l)
              BY <2>9, <5>4, <6>1
            <6>3. j - 3 \in 1..((i - 3) - 1)
              BY <6>2
            <6>4. QED
              BY <5>3, <6>2, <6>3
          <5>5. QED
            BY <5>3, <5>4
        <4>3. QED
          BY <2>4, <4>1, <4>2
      <3>2. QED
        BY <1>1, <1>5, <3>1 DEF IInv, LocksReady, r
    <2>16. ConsoleLast'
      <3>1. \A i \in 1..Len(r) : r[i].op = "noConsole" =>
              i > 4 /\ i - 3 \in 1..Len(s) /\ s[i - 3].op = "noConsole"
        BY <2>4
      <3>2. \A i, j \in 1..Len(r) : r[i].op = "noConsole" /\ r[j].op = "noConsole" => i = j
        <4> SUFFICES ASSUME NEW i \in 1..Len(r), NEW j \in 1..Len(r),
                            r[i].op = "noConsole", r[j].op = "noConsole"
                     PROVE  i = j
          OBVIOUS
        <4>1. /\ i - 3 \in 1..Len(s) /\ s[i - 3].op = "noConsole"
              /\ j - 3 \in 1..Len(s) /\ s[j - 3].op = "noConsole"
          BY <3>1
        <4>2. i - 3 = j - 3
          BY <1>5, <4>1 DEF IInv, ConsoleLast, s
        <4>3. QED
          BY <4>2
      <3>3. ASSUME Has(r, "noConsole")
            PROVE  /\ lockState["consoleLock"] # "destroyed"
                   /\ \A j \in 1..Len(r), op \in {"get", "put", "destroy"} : ~On(r, j, op, "consoleLock")
        <4>1. Has(s, "noConsole")
          BY <3>1, <3>3 DEF Has
        <4>2. /\ lockState["consoleLock"] # "destroyed"
              /\ \A j \in 1..Len(s), op \in {"get", "put", "destroy"} : ~On(s, j, op, "consoleLock")
          BY <1>5, <4>1 DEF IInv, ConsoleLast, s
        <4>3. "consoleLock" \in Lock
          BY DEF Lock
        <4>4. QED
          BY <1>6, <2>7, <2>9, <4>2, <4>3
      <3>4. QED
        BY <1>1, <1>5, <3>2, <3>3 DEF ConsoleLast, r
    <2>17. ClosesFirst'
      <3> SUFFICES ASSUME NEW i \in 1..Len(r), NEW j \in 1..Len(r),
                          r[i].op = "closeAll", On(r, j, "put", Kept)
                   PROVE  j < i
        BY <1>1, <1>5 DEF ClosesFirst, r
      <3>1. j = 3
        BY <1>6, <2>6, <2>7, <2>9
      <3>2. i \notin {1, 2, 3}
        BY <2>4
      <3>3. QED
        BY <3>1, <3>2
    <2>18. DestroysAll'
      <3>1. ASSUME NEW l \in Lock, lockState[l] = "ready"
            PROVE  \/ \E i \in 1..Len(r) : On(r, i, "destroy", l)
                   \/ l = "consoleLock" /\ Has(r, "noConsole")
        <4>1. CASE \E i \in 1..Len(s) : On(s, i, "destroy", l)
          <5>1. PICK i \in 1..Len(s) : On(s, i, "destroy", l)
            BY <4>1
          <5>2. i # 1
            BY <1>4, <5>1 DEF On, s
          <5>3. QED
            BY <2>8, <5>1, <5>2
        <4>2. CASE l = "consoleLock" /\ Has(s, "noConsole")
          <5>1. PICK i \in 1..Len(s) : s[i].op = "noConsole"
            BY <4>2 DEF Has
          <5>2. i # 1
            BY <1>4, <5>1 DEF s
          <5>3. i + 3 \in 1..Len(r) /\ r[i + 3].op = "noConsole"
            BY <2>4, <5>1, <5>2
          <5>4. QED
            BY <4>2, <5>3 DEF Has
        <4>3. QED
          BY <1>5, <3>1, <4>1, <4>2 DEF IInv, DestroysAll, s
      <3>2. ASSUME NEW i \in 1..Len(r), r[i].op \in {"destroy", "close", "closeAll", "noConsole"},
                   NEW j \in 1..(i - 1), r[j].op = "noLanguage"
            PROVE  FALSE
        <4>1. j \in 1..Len(r) /\ j \notin {1, 2, 3, 4}
          BY <2>4, <3>2
        <4>2. j > 4 /\ i > 4 /\ s[j - 3].op = "noLanguage" /\ r[i] = s[i - 3] /\ i - 3 \in 1..Len(s)
          BY <2>4, <3>2, <4>1
        <4>3. \A k \in 1..((i - 3) - 1) : s[k].op # "noLanguage"
          BY <1>5, <3>2, <4>2 DEF IInv, DestroysAll, s
        <4>4. j - 3 \in 1..((i - 3) - 1)
          BY <4>2
        <4>5. QED
          BY <4>2, <4>3, <4>4
      <3>3. QED
        BY <1>1, <1>5, <2>6, <3>1, <3>2 DEF DestroysAll, r
    <2>19. QED
      BY <2>10, <2>11, <2>12, <2>13, <2>14, <2>15, <2>16, <2>17, <2>18 DEF IInv
  <1>9. QED
    BY <1>7, <1>8

------------------------------------------------------------------------------
LEMMA EmptyReleasesNothing ==
  ASSUME NEW s, s = <<>>, NEW l \in Lock
  PROVE  ~SoonReleased(s, 1, l)
  BY DEF SoonReleased

\* While the library is up, a thread outside it, or a new one, sets out on a
\* call: a script that releases what it obtains, in order.
LEMMA ScriptKeeps ==
  ASSUME IInv, phase = "up", NEW u \in Thread, NEW c \in Seq(Step),
         todo' = [todo EXCEPT ![u] = c], pc' = [pc EXCEPT ![u] = "live"],
         pc[u] = "unborn" \/ (pc[u] = "live" /\ todo[u] = <<>>),
         UNCHANGED <<phase, lockState, holder, depth, strings, exiter, misused>>,
         Paired(c), Ordered(c), OpsOf(c, {"get", "put", "kill"}),
         \A i \in 1..Len(c) : c[i].op = "kill" =>
           c[i].who \in Thread /\ pc[c[i].who] # "unborn",
         \A i \in 1..Len(c) : c[i].op = "get" => lockState[c[i].lock] = "ready"
  PROVE  IInv'
  <1>1. /\ todo \in [Thread -> Seq(Step)] /\ pc \in [Thread -> {"unborn", "live", "dead"}]
    BY DEF IInv, TypeOK
  <1>2. /\ todo'[u] = c /\ pc'[u] = "live"
        /\ \A v \in Thread \ {u} : todo'[v] = todo[v] /\ pc'[v] = pc[v]
        /\ todo' \in [Thread -> Seq(Step)] /\ pc' \in [Thread -> {"unborn", "live", "dead"}]
    BY <1>1
  <1>3. TypeOK'
    BY <1>2 DEF IInv, TypeOK
  <1>4. Alone'
    <2>1. \A l \in Lock, v \in Thread : holder[l] = v => pc'[v] # "unborn"
      BY <1>2 DEF IInv, Alone
    <2>2. \A v \in Thread : todo'[v] # <<>> => pc'[v] = "live"
      BY <1>2 DEF IInv, Alone
    <2>3. QED
      BY <2>1, <2>2 DEF Alone
  <1>5. StepsOfPhase'
    <2> SUFFICES ASSUME NEW v \in Thread, NEW i \in 1..Len(todo'[v])
                 PROVE  /\ todo'[v][i].op \in OpsIn(phase)
                        /\ todo'[v][i].op = "kill" =>
                             todo'[v][i].who \in Thread /\ pc'[todo'[v][i].who] # "unborn"
      BY DEF StepsOfPhase
    <2>0. \A w \in Thread : pc[w] # "unborn" => pc'[w] # "unborn"
      BY <1>2
    <2>1. CASE v # u
      BY <1>2, <2>0, <2>1 DEF IInv, StepsOfPhase
    <2>2. CASE v = u
      BY <1>2, <2>0, <2>2 DEF OpsOf, OpsIn
    <2>3. QED
      BY <2>1, <2>2
  <1>6. ReleasesOwn'
    BY <1>2, PairedBorrows DEF IInv, ReleasesOwn
  <1>7. HeldInOrder'
    <2>1. \A v \in Thread : Ordered(todo'[v])
      BY <1>2 DEF IInv, HeldInOrder
    <2>2. ASSUME NEW l \in Lock \ {Kept}, NEW v \in Thread, holder[l] = v, pc'[v] = "live"
          PROVE  SoonReleased(todo'[v], 1, l)
      <3>1. pc[v] # "unborn"
        BY <2>2 DEF IInv, Alone
      <3>2. pc[v] = "live" /\ SoonReleased(todo[v], 1, l)
        BY <1>2, <2>2, <3>1 DEF IInv, HeldInOrder
      <3>3. v # u
        BY <3>1, <3>2, EmptyReleasesNothing
      <3>4. QED
        BY <1>2, <3>2, <3>3
    <2>3. \A l \in Lock \ {Kept} : depth[l] = IF holder[l] = Nobody THEN 0 ELSE 1
      BY DEF IInv, HeldInOrder
    <2>4. QED
      BY <2>1, <2>2, <2>3 DEF HeldInOrder
  <1>8. LocksReady'
    <2>1. ASSUME NEW v \in Thread, NEW l \in Lock, NEW i \in 1..Len(todo'[v]),
                 On(todo'[v], i, "get", l)
          PROVE  lockState[l] = "ready"
      <3>1. CASE v = u
        BY <1>2, <2>1, <3>1 DEF On
      <3>2. CASE v # u
        BY <1>2, <2>1, <3>2 DEF IInv, LocksReady
      <3>3. QED
        BY <3>1, <3>2
    <2>2. QED
      BY <2>1 DEF IInv, LocksReady
  <1>9. ConsoleLast' /\ ClosesFirst' /\ DestroysAll'
    BY DEF IInv, ConsoleLast, ClosesFirst, DestroysAll
  <1>10. QED
    BY <1>3, <1>4, <1>5, <1>6, <1>7, <1>8, <1>9 DEF IInv

\* A thread that executes the program's own code does so while the library is
\* up.
LEMMA RunsIsUp ==
  ASSUME IInv, NEW t \in Thread, Runs(t)
  PROVE  /\ phase = "up" /\ pc[t] = "live" /\ todo[t] = <<>>
         /\ pc \in [Thread -> {"unborn", "live", "dead"}]
         /\ pc = [pc EXCEPT ![t] = "live"]
         /\ \A l \in Lock \ {"consoleLock"} : lockState[l] = "ready"
         /\ lockState \in [Lock -> {None, "ready", "destroyed"}]
         /\ lockState["consoleLock"] # "destroyed"
  <1>1. phase = "up" /\ pc[t] = "live" /\ todo[t] = <<>>
    BY DEF Runs, IInv, Alone
  <1>2. /\ pc \in [Thread -> {"unborn", "live", "dead"}]
        /\ lockState \in [Lock -> {None, "ready", "destroyed"}]
    BY DEF IInv, TypeOK
  <1>3. pc = [pc EXCEPT ![t] = "live"]
    BY <1>1, <1>2
  <1>4. QED
    BY <1>1, <1>2, <1>3 DEF IInv, LocksReady

\* What a call of the library may be.
LEMMA CallsFit ==
  ASSUME NEW c \in Calls,
         \A l \in Lock \ {"consoleLock"} : lockState[l] = "ready",
         lockState \in [Lock -> {None, "ready", "destroyed"}],
         lockState["consoleLock"] # "destroyed"
  PROVE  /\ c \in Seq(Step) /\ Paired(c) /\ Ordered(c) /\ OpsOf(c, {"get", "put", "kill"})
         /\ \A i \in 1..Len(c) : c[i].op # "kill"
         /\ \A i \in 1..Len(c) : c[i].op = "get" => lockState[c[i].lock] = "ready"
  <1>1. CASE c \in {IndexUnder("basicErrorLock"), IndexUnder("fileSystemLock")}
    <2>1. PICK l \in {"basicErrorLock", "fileSystemLock"} : c = IndexUnder(l)
      BY <1>1
    <2>2. l \in Lock
      BY DEF Lock
    <2>3. /\ Paired(c) /\ Ordered(c) /\ OpsOf(c, {"get", "put"})
          /\ \A i \in 1..Len(c) : c[i].lock \in {l, "lock"}
      BY <2>1, IndexUnderFits
    <2>4. c \in Seq(Step)
      BY <2>1, <2>2, IndexUnderIs
    <2>5. lockState[l] = "ready" /\ lockState["lock"] = "ready"
      BY DEF Lock
    <2>6. QED
      BY <2>3, <2>4, <2>5 DEF OpsOf
  <1>2. ASSUME NEW l \in Lock, c = Section(l), lockState[l] = "ready"
        PROVE  /\ c \in Seq(Step) /\ Paired(c) /\ Ordered(c) /\ OpsOf(c, {"get", "put", "kill"})
               /\ \A i \in 1..Len(c) : c[i].op # "kill"
               /\ \A i \in 1..Len(c) : c[i].op = "get" => lockState[c[i].lock] = "ready"
    <2>1. /\ Paired(c) /\ Ordered(c) /\ OpsOf(c, {"get", "put"})
          /\ \A i \in 1..Len(c) : c[i].lock = l
      BY <1>2, SectionFits
    <2>2. c \in Seq(Step)
      BY <1>2, SectionIs
    <2>3. QED
      BY <1>2, <2>1, <2>2 DEF OpsOf
  <1>3. CASE c = Open
    <2>1. lockState[Kept] = "ready"
      BY DEF Lock, Kept
    <2>2. /\ c \in Seq(Step) /\ Paired(c) /\ Ordered(c) /\ OpsOf(c, {"get", "put"})
          /\ \A i \in 1..Len(c) : c[i].lock = Kept
      BY <1>3, OpenIs, OpenFits
    <2>3. QED
      BY <2>1, <2>2 DEF OpsOf
  <1>4. CASE c \in {Section("registryLock"), Section("envrLock"), Section("fileIOThreadLock")}
    <2>1. PICK l \in {"registryLock", "envrLock", "fileIOThreadLock"} : c = Section(l)
      BY <1>4
    <2>2. l \in Lock /\ lockState[l] = "ready"
      BY DEF Lock
    <2>3. QED
      BY <1>2, <2>1, <2>2
  <1>5. CASE lockState["consoleLock"] # None /\ c = Section("consoleLock")
    <2>1. "consoleLock" \in Lock
      BY DEF Lock
    <2>2. lockState["consoleLock"] = "ready"
      BY <1>5, <2>1
    <2>3. QED
      BY <1>2, <1>5, <2>1, <2>2
  <1>6. QED
    BY <1>1, <1>3, <1>4, <1>5 DEF Calls

LEMMA CallKeeps ==
  ASSUME IInv, NEW t \in Thread, Call(t)
  PROVE  IInv'
  <1>1. Runs(t) /\ UNCHANGED <<phase, pc, lockState, holder, depth, strings, misused, exiter>>
    BY DEF Call
  <1>2. /\ phase = "up" /\ pc[t] = "live" /\ todo[t] = <<>>
        /\ pc = [pc EXCEPT ![t] = "live"]
        /\ \A l \in Lock \ {"consoleLock"} : lockState[l] = "ready"
        /\ lockState \in [Lock -> {None, "ready", "destroyed"}]
        /\ lockState["consoleLock"] # "destroyed"
    BY <1>1, RunsIsUp
  <1>3. PICK c \in Calls : todo' = [todo EXCEPT ![t] = c]
    BY DEF Call
  <1>4. /\ c \in Seq(Step) /\ Paired(c) /\ Ordered(c) /\ OpsOf(c, {"get", "put", "kill"})
        /\ \A i \in 1..Len(c) : c[i].op # "kill"
        /\ \A i \in 1..Len(c) : c[i].op = "get" => lockState[c[i].lock] = "ready"
    BY <1>2, CallsFit
  <1>5. pc' = [pc EXCEPT ![t] = "live"]
    BY <1>1, <1>2
  <1>6. QED
    BY <1>1, <1>2, <1>3, <1>4, <1>5, ScriptKeeps

LEMMA ThreadReturnsKeeps ==
  ASSUME IInv, NEW t \in Thread, ThreadReturns(t)
  PROVE  IInv'
  <1>1. /\ Runs(t) /\ UNCHANGED <<phase, pc, lockState, holder, depth, strings, misused, exiter>>
        /\ todo' = [todo EXCEPT ![t] = Return(t)]
    BY DEF ThreadReturns, Return
  <1>2. /\ phase = "up" /\ pc[t] = "live" /\ todo[t] = <<>>
        /\ pc = [pc EXCEPT ![t] = "live"]
        /\ lockState["lock"] = "ready" /\ lockState["fileSystemLock"] = "ready"
    BY <1>1, RunsIsUp DEF Lock
  <1> DEFINE c == Return(t)
  <1>3. /\ c \in Seq(Step) /\ Paired(c) /\ Ordered(c) /\ OpsOf(c, {"get", "put", "kill"})
        /\ \A i \in 1..Len(c) : c[i].op = "kill" => c[i].who = t
        /\ \A i \in 1..Len(c) : c[i].op = "get" => c[i].lock \in {"lock", "fileSystemLock"}
    BY ReturnFits, ReturnIs
  <1>4. todo' = [todo EXCEPT ![t] = c]
    BY <1>1
  <1> HIDE DEF c
  <1>5. /\ \A i \in 1..Len(c) : c[i].op = "get" => lockState[c[i].lock] = "ready"
        /\ \A i \in 1..Len(c) : c[i].op = "kill" =>
             c[i].who \in Thread /\ pc[c[i].who] # "unborn"
    BY <1>2, <1>3
  <1>6. pc' = [pc EXCEPT ![t] = "live"]
    BY <1>1, <1>2
  <1>7. /\ c \in Seq(Step) /\ Paired(c) /\ Ordered(c) /\ OpsOf(c, {"get", "put", "kill"})
    BY <1>3
  <1>8. QED
    BY <1>1, <1>2, <1>4, <1>5, <1>6, <1>7, ScriptKeeps

LEMMA TerminateOtherKeeps ==
  ASSUME IInv, NEW t \in Thread, TerminateOther(t)
  PROVE  IInv'
  <1>1. Runs(t) /\ UNCHANGED <<phase, pc, lockState, holder, depth, strings, misused, exiter>>
    BY DEF TerminateOther
  <1>2. /\ phase = "up" /\ pc[t] = "live" /\ todo[t] = <<>>
        /\ pc = [pc EXCEPT ![t] = "live"]
        /\ lockState["lock"] = "ready" /\ lockState["fileSystemLock"] = "ready"
    BY <1>1, RunsIsUp DEF Lock
  <1>3. PICK u \in Thread \ {t} : pc[u] = "live" /\ todo' = [todo EXCEPT ![t] = Terminate(u)]
    BY DEF TerminateOther
  <1> DEFINE c == Terminate(u)
  <1>4. /\ c \in Seq(Step) /\ Paired(c) /\ Ordered(c) /\ OpsOf(c, {"get", "put", "kill"})
        /\ \A i \in 1..Len(c) : c[i].op = "kill" => c[i].who = u
        /\ \A i \in 1..Len(c) : c[i].op = "get" => c[i].lock \in {"lock", "fileSystemLock"}
    BY TerminateFits, TerminateIs
  <1>5. todo' = [todo EXCEPT ![t] = c]
    BY <1>3
  <1> HIDE DEF c
  <1>6. /\ \A i \in 1..Len(c) : c[i].op = "get" => lockState[c[i].lock] = "ready"
        /\ \A i \in 1..Len(c) : c[i].op = "kill" =>
             c[i].who \in Thread /\ pc[c[i].who] # "unborn"
    BY <1>2, <1>3, <1>4
  <1>7. pc' = [pc EXCEPT ![t] = "live"]
    BY <1>1, <1>2
  <1>8. /\ c \in Seq(Step) /\ Paired(c) /\ Ordered(c) /\ OpsOf(c, {"get", "put", "kill"})
    BY <1>4
  <1>9. QED
    BY <1>1, <1>2, <1>5, <1>6, <1>7, <1>8, ScriptKeeps

LEMMA SpinKeeps ==
  ASSUME IInv, NEW t \in Thread, NEW u \in Thread, Spin(t, u)
  PROVE  IInv'
  <1>1. Runs(t) /\ UNCHANGED <<phase, lockState, holder, depth, strings, exiter>> /\ pc[u] = "unborn"
    BY DEF Spin
  <1>2. /\ phase = "up"
        /\ lockState["lock"] = "ready" /\ lockState["fileSystemLock"] = "ready"
        /\ lockState["basicErrorLock"] = "ready"
    BY <1>1, RunsIsUp DEF Lock
  <1>3. /\ pc' = [pc EXCEPT ![u] = "live"]
        /\ todo' = [todo EXCEPT ![u] = InitThread]
        /\ UNCHANGED misused
    BY <1>2 DEF Spin
  <1> DEFINE c == InitThread
  <1>4. /\ c \in Seq(Step) /\ Paired(c) /\ Ordered(c) /\ OpsOf(c, {"get", "put"})
        /\ \A i \in 1..Len(c) : c[i].lock \in {"basicErrorLock", "fileSystemLock"}
    BY InitThreadFits, InitThreadIs
  <1>5. todo' = [todo EXCEPT ![u] = c]
    BY <1>3
  <1> HIDE DEF c
  <1>6. /\ OpsOf(c, {"get", "put", "kill"}) /\ \A i \in 1..Len(c) : c[i].op # "kill"
        /\ \A i \in 1..Len(c) : c[i].op = "get" => lockState[c[i].lock] = "ready"
    BY <1>2, <1>4 DEF OpsOf
  <1>7. QED
    BY <1>1, <1>2, <1>3, <1>4, <1>5, <1>6, ScriptKeeps

\* A thread ends itself or another: with nothing left to do, that one is dead.
LEMMA KillKeeps ==
  ASSUME IInv, NEW t \in Thread, Kill(t)
  PROVE  IInv'
  <1> DEFINE u == todo[t][1].who
  <1>1. /\ todo[t] # <<>> /\ Head(todo[t]).op = "kill" /\ ~Over /\ pc[t] = "live"
        /\ UNCHANGED <<phase, lockState, holder, depth, strings, misused, exiter>>
    BY DEF Kill, At
  <1>2. /\ todo \in [Thread -> Seq(Step)] /\ pc \in [Thread -> {"unborn", "live", "dead"}]
        /\ phase \in Phase
    BY DEF IInv, TypeOK
  <1>3. /\ Head(todo[t]) = todo[t][1] /\ 1 \in 1..Len(todo[t])
        /\ todo[t] \in Seq(Step) /\ Drops(Tail(todo[t]), todo[t])
    BY <1>1, <1>2, TailDrops
  <1>4. todo[t][1].op = "kill" /\ u \in Thread /\ todo[t][1].op \in OpsIn(phase)
    BY <1>1, <1>3 DEF IInv, StepsOfPhase
  <1>5. phase = "up"
    BY <1>2, <1>4 DEF OpsIn, Phase
  <1>6. /\ pc' = [pc EXCEPT ![u] = "dead"]
        /\ todo' = [todo EXCEPT ![t] = Tail(@), ![u] = <<>>]
    BY <1>3, <1>4 DEF Kill
  <1>7. /\ \A m \in Lock : ~On(todo[t], 1, "get", m) /\ ~On(todo[t], 1, "put", m)
        /\ Tail(todo[t]) \in Seq(Step)
    BY <1>3, <1>4 DEF On, Drops
  <1> HIDE DEF u
  <1>8. /\ todo'[u] = <<>> /\ pc'[u] = "dead"
        /\ \A v \in Thread \ {u} : pc'[v] = pc[v]
        /\ \A v \in Thread \ {u} : v # t => todo'[v] = todo[v]
        /\ t # u => todo'[t] = Tail(todo[t])
        /\ todo' \in [Thread -> Seq(Step)] /\ pc' \in [Thread -> {"unborn", "live", "dead"}]
    <2> DEFINE q == Tail(todo[t])
    <2>1. todo' = [[todo EXCEPT ![t] = q] EXCEPT ![u] = <<>>]
      BY <1>6
    <2>2. q \in Seq(Step)
      BY <1>7
    <2>3. <<>> \in Seq(Step)
      OBVIOUS
    <2> HIDE DEF q
    <2>4. /\ todo'[u] = <<>> /\ \A v \in Thread \ {u} : v # t => todo'[v] = todo[v]
          /\ t # u => todo'[t] = q
          /\ todo' \in [Thread -> Seq(Step)]
      BY <1>2, <1>4, <2>1, <2>2, <2>3
    <2>5. /\ pc'[u] = "dead" /\ \A v \in Thread \ {u} : pc'[v] = pc[v]
          /\ pc' \in [Thread -> {"unborn", "live", "dead"}]
      BY <1>2, <1>4, <1>6
    <2>6. QED
      BY <2>4, <2>5 DEF q
  <1>9. t # u => Drops(todo'[t], todo[t])
    BY <1>3, <1>8
  <1>10. \A i \in 1..Len(todo'[u]) : FALSE
    BY <1>8
  <1>11. TypeOK'
    BY <1>1, <1>8 DEF IInv, TypeOK
  <1>12. Alone'
    <2>1. \A l \in Lock, v \in Thread : holder[l] = v => pc'[v] # "unborn"
      BY <1>8 DEF IInv, Alone
    <2>2. \A v \in Thread : todo'[v] # <<>> => pc'[v] = "live"
      BY <1>1, <1>8 DEF IInv, Alone
    <2>3. QED
      BY <1>1, <1>5, <2>1, <2>2 DEF Alone
  <1>13. StepsOfPhase'
    <2> SUFFICES ASSUME NEW v \in Thread, NEW i \in 1..Len(todo'[v])
                 PROVE  /\ todo'[v][i].op \in OpsIn(phase)
                        /\ todo'[v][i].op = "kill" =>
                             todo'[v][i].who \in Thread /\ pc'[todo'[v][i].who] # "unborn"
      BY <1>1 DEF StepsOfPhase
    <2>1. \A w \in Thread : pc[w] # "unborn" => pc'[w] # "unborn"
      BY <1>8
    <2>2. v # u
      BY <1>10
    <2>3. CASE v # t
      BY <1>8, <2>1, <2>2, <2>3 DEF IInv, StepsOfPhase
    <2>4. CASE v = t
      <3>1. i + 1 \in 1..Len(todo[t]) /\ todo'[t][i] = todo[t][i + 1]
        BY <1>3, <1>9, <2>2, <2>4, DropsOn
      <3>2. QED
        BY <2>1, <2>4, <3>1 DEF IInv, StepsOfPhase
    <2>5. QED
      BY <2>3, <2>4
  <1>14. ReleasesOwn'
    <2>1. \A l \in Lock : BorrowsOnce(todo'[u], l) /\ ~Borrows(todo'[u], l)
      BY <1>10 DEF BorrowsOnce, Borrows
    <2>2. t # u => \A l \in Lock :
            BorrowsOnce(todo'[t], l) /\ (Borrows(todo'[t], l) => Borrows(todo[t], l))
      BY <1>3, <1>7, <1>9, DropsBorrows DEF IInv, ReleasesOwn
    <2>3. QED
      BY <1>1, <1>8, <2>1, <2>2 DEF IInv, ReleasesOwn
  <1>15. HeldInOrder'
    <2>1. Ordered(todo'[u])
      BY <1>10 DEF Ordered
    <2>2. t # u => Ordered(todo'[t])
      BY <1>3, <1>5, <1>9, DropsOrdered DEF IInv, HeldInOrder
    <2>3. \A l \in Lock : t # u /\ SoonReleased(todo[t], 1, l) => SoonReleased(todo'[t], 1, l)
      BY <1>3, <1>7, <1>9, DropsHeld
    <2>4. ASSUME NEW l \in Lock \ {Kept}, NEW v \in Thread, holder[l] = v, pc'[v] = "live"
          PROVE  SoonReleased(todo'[v], 1, l)
      <3>1. v # u /\ pc[v] = "live"
        BY <1>8, <2>4
      <3>2. SoonReleased(todo[v], 1, l)
        BY <1>5, <2>4, <3>1 DEF IInv, HeldInOrder
      <3>3. QED
        BY <1>8, <2>3, <3>1, <3>2
    <2>5. \A v \in Thread : Ordered(todo'[v])
      BY <1>5, <1>8, <2>1, <2>2 DEF IInv, HeldInOrder
    <2>6. \A l \in Lock \ {Kept} : depth[l] = IF holder[l] = Nobody THEN 0 ELSE 1
      BY <1>5 DEF IInv, HeldInOrder
    <2>7. QED
      BY <1>1, <2>4, <2>5, <2>6 DEF HeldInOrder
  <1>16. LocksReady'
    <2>1. ASSUME NEW v \in Thread, NEW l \in Lock, NEW i \in 1..Len(todo'[v]),
                 On(todo'[v], i, "get", l)
          PROVE  lockState[l] = "ready"
      <3>1. v # u
        BY <1>10, <2>1
      <3>2. CASE v # t
        BY <1>5, <1>8, <2>1, <3>1, <3>2 DEF IInv, LocksReady
      <3>3. CASE v = t
        <4>1. i + 1 \in 1..Len(todo[t]) /\ On(todo[t], i + 1, "get", l)
          BY <1>3, <1>9, <2>1, <3>1, <3>3, DropsOn
        <4>2. QED
          BY <1>5, <4>1 DEF IInv, LocksReady
      <3>4. QED
        BY <3>2, <3>3
    <2>2. QED
      BY <1>1, <1>5, <2>1 DEF IInv, LocksReady
  <1>17. ConsoleLast' /\ ClosesFirst' /\ DestroysAll'
    BY <1>1, <1>5 DEF IInv, ConsoleLast, ClosesFirst, DestroysAll
  <1>18. QED
    BY <1>11, <1>12, <1>13, <1>14, <1>15, <1>16, <1>17 DEF IInv

\* The program ends in t, and no other thread is left.
LEMMA ExitKeeps ==
  ASSUME IInv, ExitsAlone = TRUE, NEW t \in Thread, Exit(t) \/ (t = Main /\ Interrupt)
  PROVE  IInv'
  <1>1. /\ phase = "up" /\ pc[t] = "live" /\ misused = None
        /\ \A u \in Thread \ {t} : pc[u] # "live"
        /\ phase' = "exit" /\ todo' = [todo EXCEPT ![t] = DeinitScript] /\ exiter' = t
        /\ UNCHANGED <<pc, lockState, holder, depth, strings, misused>>
    BY DEF Exit, Runs, Interrupt
  <1> DEFINE s == DeinitScript
  <1>2. /\ s \in Seq(Step) /\ Len(s) = 12 /\ Paired(s)
        /\ OpsOf(s, {"destroy", "closeAll", "get", "killAll", "put", "noConsole", "noLanguage"})
        /\ \A i \in 1..Len(s) :
             /\ s[i].op = "get" => i = 6 /\ s[i].lock = "lock"
             /\ s[i].op = "closeAll" => i = 2
             /\ s[i].op = "noConsole" => i = 10
             /\ s[i].op = "noLanguage" => i = 12
             /\ s[i].op \in {"get", "put", "destroy"} => s[i].lock # "consoleLock"
             /\ s[i].op = "destroy" /\ s[i].lock = "lock" => i = 9
             /\ s[i].op = "destroy" /\ s[i].lock = Kept => i = 3
        /\ Has(s, "noConsole")
        /\ \A l \in Lock \ {"consoleLock"} : \E j \in 1..Len(s) : On(s, j, "destroy", l)
    BY DeinitScriptFits, DeinitScriptIs
  <1>3. todo' = [todo EXCEPT ![t] = s]
    BY <1>1
  <1> HIDE DEF s
  <1>4. todo \in [Thread -> Seq(Step)]
    BY DEF IInv, TypeOK
  <1>5. /\ todo'[t] = s /\ \A v \in Thread \ {t} : todo'[v] = todo[v]
        /\ todo' \in [Thread -> Seq(Step)]
    BY <1>2, <1>3, <1>4
  <1>6. TypeOK'
    BY <1>1, <1>5 DEF IInv, TypeOK, Phase
  <1>7. Alone'
    <2>1. \A v \in Thread : todo'[v] # <<>> => pc[v] = "live"
      BY <1>1, <1>5 DEF IInv, Alone
    <2>2. \A l \in Lock, v \in Thread : holder[l] = v => pc[v] # "unborn"
      BY DEF IInv, Alone
    <2>3. QED
      BY <1>1, <2>1, <2>2 DEF Alone
  <1>8. \A v \in Thread \ {t} : todo'[v] = <<>>
    BY <1>1, <1>5 DEF IInv, Alone
  <1>9. StepsOfPhase'
    <2> SUFFICES ASSUME NEW v \in Thread, NEW i \in 1..Len(todo'[v])
                 PROVE  /\ todo'[v][i].op \in OpsIn("exit")
                        /\ todo'[v][i].op # "kill"
      BY <1>1 DEF StepsOfPhase
    <2>1. v = t
      BY <1>8
    <2>2. QED
      BY <1>2, <1>5, <2>1 DEF OpsOf, OpsIn
  <1>10. ReleasesOwn'
    BY <1>1, <1>2, <1>5, PairedBorrows DEF IInv, ReleasesOwn
  <1>11. HeldInOrder'
    BY <1>1 DEF HeldInOrder
  <1>12. LocksReady'
    <2>1. lockState["lock"] = "ready" /\ lockState[Kept] = "ready"
      BY <1>1 DEF IInv, LocksReady, Lock, Kept
    <2>2. ASSUME NEW l \in Lock, NEW i \in 1..Len(s), Uses(s, i, l)
          PROVE  lockState[l] = "ready" /\ \A j \in 1..(i - 1) : ~On(s, j, "destroy", l)
      <3>1. (i = 6 /\ l = "lock") \/ (i = 2 /\ l = Kept)
        <4>1. CASE On(s, i, "get", l)
          BY <1>2, <4>1 DEF On
        <4>2. CASE s[i].op = "closeAll" /\ l = Kept
          BY <1>2, <4>2
        <4>3. QED
          BY <2>2, <4>1, <4>2 DEF Uses
      <3>2. (\A j \in 1..(6 - 1) : j # 9) /\ (\A j \in 1..(2 - 1) : j # 3)
        OBVIOUS
      <3>3. QED
        BY <1>2, <2>1, <3>1, <3>2 DEF On
    <2>3. QED
      BY <1>1, <1>5, <2>2 DEF IInv, LocksReady
  <1>13. ConsoleLast'
    <2>1. lockState["consoleLock"] # "destroyed"
      BY <1>1 DEF IInv, LocksReady
    <2>2. \A j \in 1..Len(s), op \in {"get", "put", "destroy"} : ~On(s, j, op, "consoleLock")
      BY <1>2 DEF On
    <2>3. \A i, j \in 1..Len(s) : s[i].op = "noConsole" /\ s[j].op = "noConsole" => i = j
      BY <1>2
    <2>4. QED
      BY <1>1, <1>5, <2>1, <2>2, <2>3 DEF ConsoleLast
  <1>14. DestroysAll'
    <2>1. strings
      BY <1>1 DEF IInv, DestroysAll
    <2>2. \A l \in Lock : \/ \E i \in 1..Len(s) : On(s, i, "destroy", l)
                          \/ l = "consoleLock" /\ Has(s, "noConsole")
      BY <1>2
    <2>3. ASSUME NEW i \in 1..Len(s), NEW j \in 1..(i - 1)
          PROVE  s[j].op # "noLanguage"
      <3>1. j \in 1..Len(s) /\ j # 12
        BY <1>2
      <3>2. QED
        BY <1>2, <3>1
    <2>4. QED
      BY <1>1, <1>5, <2>1, <2>2, <2>3 DEF DestroysAll
  <1>15. ClosesFirst'
    <2>1. ASSUME NEW i \in 1..Len(s)
          PROVE  ~On(s, i, "put", Kept)
      <3>1. s[i].op = "put" => s[i].lock = "lock"
        BY DeinitScriptPuts DEF s
      <3>2. QED
        BY <3>1 DEF On, Kept
    <2>2. QED
      BY <1>1, <1>5, <2>1 DEF ClosesFirst
  <1>16. QED
    BY <1>6, <1>7, <1>9, <1>10, <1>11, <1>12, <1>13, <1>14, <1>15 DEF IInv

\* The start fails.
LEMMA InitFailsKeeps ==
  ASSUME IInv, InitFails
  PROVE  IInv'
  <1>1. /\ phase = "init" /\ phase' = "failed"
        /\ UNCHANGED <<pc, todo, lockState, holder, depth, strings, misused, exiter>>
    BY DEF InitFails
  <1>2. TypeOK' /\ Alone' /\ ReleasesOwn'
    BY <1>1 DEF IInv, TypeOK, Alone, ReleasesOwn, Phase
  <1>3. OpsIn(phase') = OpsIn(phase)
    BY <1>1 DEF OpsIn
  <1>4. StepsOfPhase'
    BY <1>1, <1>3 DEF IInv, StepsOfPhase
  <1>5. HeldInOrder' /\ LocksReady' /\ ConsoleLast' /\ ClosesFirst' /\ DestroysAll'
    BY <1>1 DEF IInv, HeldInOrder, LocksReady, ConsoleLast, ClosesFirst, DestroysAll
  <1>6. QED
    BY <1>2, <1>4, <1>5 DEF IInv

\* __initBasicLib is through.
LEMMA InitDoneKeeps ==
  ASSUME IInv, InitDone
  PROVE  IInv'
  <1>1. /\ phase = "init" /\ phase' = "up" /\ todo[Main] = <<>>
        /\ UNCHANGED <<pc, todo, lockState, holder, depth, strings, misused, exiter>>
    BY DEF InitDone
  <1>2. \A t \in Thread : todo[t] = <<>>
    BY <1>1 DEF IInv, Alone
  <1>3. \A t \in Thread : \A i \in 1..Len(todo[t]) : FALSE
    BY <1>2
  <1>4. Main \in Thread
    BY ThreadAssumption
  <1>5. TypeOK' /\ ReleasesOwn'
    BY <1>1 DEF IInv, TypeOK, ReleasesOwn, Phase
  <1>6. Alone' /\ ConsoleLast' /\ ClosesFirst'
    BY <1>1 DEF IInv, Alone, ConsoleLast, ClosesFirst
  <1>7. StepsOfPhase'
    BY <1>1, <1>3 DEF StepsOfPhase
  <1>8. HeldInOrder'
    BY <1>1 DEF IInv, HeldInOrder
  <1>9. LocksReady'
    <2>1. \A l \in Lock \ {"consoleLock"} : lockState[l] = "ready"
      BY <1>1, <1>3, <1>4 DEF IInv, LocksReady
    <2>2. QED
      BY <1>1, <1>3, <2>1 DEF IInv, LocksReady
  <1>10. DestroysAll'
    BY <1>1, <1>3, <1>4 DEF IInv, DestroysAll, Has
  <1>11. QED
    BY <1>5, <1>6, <1>7, <1>8, <1>9, <1>10 DEF IInv

\* __deinitBasicLib is through.
LEMMA GoneKeeps ==
  ASSUME IInv, Gone
  PROVE  IInv'
  <1>1. /\ phase = "exit" /\ phase' = "gone" /\ todo[exiter] = <<>>
        /\ UNCHANGED <<pc, todo, lockState, holder, depth, strings, misused, exiter>>
    BY DEF Gone
  <1>2. \A i \in 1..Len(todo[exiter]) : FALSE
    BY <1>1
  <1>3. TypeOK' /\ Alone' /\ ReleasesOwn'
    BY <1>1 DEF IInv, TypeOK, Alone, ReleasesOwn, Phase
  <1>4. OpsIn(phase') = OpsIn(phase)
    BY <1>1 DEF OpsIn
  <1>5. StepsOfPhase'
    BY <1>1, <1>4 DEF IInv, StepsOfPhase
  <1>6. HeldInOrder' /\ LocksReady' /\ ConsoleLast' /\ ClosesFirst'
    BY <1>1 DEF IInv, HeldInOrder, LocksReady, ConsoleLast, ClosesFirst
  <1>7. DestroysAll'
    BY <1>1, <1>2 DEF IInv, DestroysAll, Has
  <1>8. QED
    BY <1>3, <1>5, <1>6, <1>7 DEF IInv

------------------------------------------------------------------------------
LEMMA InitIInv ==
  ASSUME Init
  PROVE  IInv
  <1> DEFINE s == InitScript
  <1>1. /\ s \in Seq(Step) /\ Len(s) = 12 /\ Paired(s) /\ Ordered(s)
        /\ OpsOf(s, {"language", "create", "console", "get", "put"})
        /\ Has(s, "language")
        /\ \A l \in Lock \ {"consoleLock"} :
             \E j \in 1..8 : j \in 1..Len(s) /\ On(s, j, "create", l)
        /\ \A i \in 1..Len(s) : s[i].op = "get" =>
             i > 8 /\ s[i].lock \in {"basicErrorLock", "fileSystemLock"}
    BY InitScriptFits, InitScriptIs
  <1>2. Main \in Thread /\ Nobody \notin Thread /\ MaxDepth \in Nat
    BY ThreadAssumption, DepthAssumption
  <1>3. todo = [t \in Thread |-> IF t = Main THEN s ELSE <<>>]
    BY DEF Init
  <1>4. /\ phase = "init" /\ pc = [t \in Thread |-> IF t = Main THEN "live" ELSE "unborn"]
        /\ lockState = [l \in Lock |-> None] /\ holder = [l \in Lock |-> Nobody]
        /\ depth = [l \in Lock |-> 0] /\ strings = FALSE /\ exiter = Nobody
        /\ misused = None
    BY DEF Init
  <1> HIDE DEF s
  <1>5. /\ todo[Main] = s /\ pc[Main] = "live"
        /\ \A t \in Thread \ {Main} : todo[t] = <<>> /\ pc[t] = "unborn"
        /\ todo \in [Thread -> Seq(Step)]
    BY <1>1, <1>2, <1>3, <1>4
  <1>6. \A t \in Thread \ {Main} : \A i \in 1..Len(todo[t]) : FALSE
    BY <1>5
  <1>7. TypeOK
    <2>1. depth \in [Lock -> 0..MaxDepth]
      BY <1>2, <1>4
    <2>2. pc \in [Thread -> {"unborn", "live", "dead"}]
      BY <1>4
    <2>3. QED
      BY <1>4, <1>5, <2>1, <2>2 DEF TypeOK, Phase
  <1>8. Alone
    BY <1>2, <1>4, <1>5 DEF Alone
  <1>9. StepsOfPhase
    <2> SUFFICES ASSUME NEW t \in Thread, NEW i \in 1..Len(todo[t])
                 PROVE  todo[t][i].op \in OpsIn(phase) /\ todo[t][i].op # "kill"
      BY DEF StepsOfPhase
    <2>1. t = Main
      BY <1>6
    <2>2. s[i].op \in {"language", "create", "console", "get", "put"}
      BY <1>1, <1>5, <2>1 DEF OpsOf
    <2>3. QED
      BY <1>4, <1>5, <2>1, <2>2 DEF OpsIn
  <1>10. ReleasesOwn
    <2>1. \A l \in Lock, t \in Thread : BorrowsOnce(todo[t], l) /\ ~Borrows(todo[t], l)
      <3> TAKE l \in Lock, t \in Thread
      <3>1. CASE t = Main
        BY <1>1, <1>5, <3>1, PairedBorrows
      <3>2. CASE t # Main
        BY <1>6, <3>2 DEF BorrowsOnce, Borrows
      <3>3. QED
        BY <3>1, <3>2
    <2>2. QED
      BY <2>1 DEF ReleasesOwn
  <1>11. HeldInOrder
    <2>1. \A t \in Thread : Ordered(todo[t])
      BY <1>1, <1>5, <1>6 DEF Ordered
    <2>2. QED
      BY <1>2, <1>4, <2>1 DEF HeldInOrder
  <1>12. LocksReady
    <2>1. \A l \in Lock \ {"consoleLock"} : \E j \in 1..Len(s) : On(s, j, "create", l)
      BY <1>1
    <2>2. ASSUME NEW l \in Lock, NEW i \in 1..Len(s), On(s, i, "get", l)
          PROVE  \E j \in 1..(i - 1) : On(s, j, "create", l)
      <3>1. i > 8 /\ l \in {"basicErrorLock", "fileSystemLock"}
        BY <1>1, <2>2 DEF On
      <3>2. PICK j \in 1..8 : On(s, j, "create", l)
        BY <1>1, <3>1
      <3>3. j \in 1..(i - 1)
        BY <3>1
      <3>4. QED
        BY <3>2, <3>3
    <2>3. lockState["consoleLock"] # "destroyed"
      BY <1>4 DEF Lock, None
    <2>4. QED
      BY <1>4, <1>5, <2>1, <2>2, <2>3 DEF LocksReady
  <1>13. ConsoleLast /\ ClosesFirst /\ DestroysAll
    BY <1>1, <1>4, <1>5 DEF ConsoleLast, ClosesFirst, DestroysAll
  <1>14. QED
    BY <1>7, <1>8, <1>9, <1>10, <1>11, <1>12, <1>13 DEF IInv

LEMMA StepKeeps ==
  ASSUME IInv, ExitsAlone = TRUE, [Next]_vars
  PROVE  IInv'
  <1>1. CASE UNCHANGED vars
    BY <1>1 DEF vars, IInv, TypeOK, Alone, StepsOfPhase, ReleasesOwn, HeldInOrder, LocksReady,
                ConsoleLast, ClosesFirst, DestroysAll
  <1>2. ASSUME NEW t \in Thread, LibraryStep(t)
        PROVE  IInv'
    <2>1. CASE CreateLock(t) \/ InitConsole(t) \/ InitLanguage(t)
      BY <2>1, CreateKeeps
    <2>2. QED
      BY <1>2, <2>1, ObtainKeeps, ReleaseKeeps, KillKeeps, DestroyKeeps, KillAllKeeps,
         CloseHandlesKeeps, CloseHandleKeeps, DeinitConsoleKeeps, DeinitLanguageKeeps
         DEF LibraryStep
  <1>3. ASSUME NEW t \in Thread, Call(t) \/ ThreadReturns(t) \/ TerminateOther(t) \/ Exit(t)
        PROVE  IInv'
    BY <1>3, CallKeeps, ThreadReturnsKeeps, TerminateOtherKeeps, ExitKeeps
  <1>4. ASSUME NEW t \in Thread, NEW u \in Thread, Spin(t, u)
        PROVE  IInv'
    BY <1>4, SpinKeeps
  <1>5. CASE Interrupt
    BY <1>5, ThreadAssumption, ExitKeeps
  <1>6. QED
    BY <1>1, <1>2, <1>3, <1>4, <1>5, InitFailsKeeps, InitDoneKeeps, GoneKeeps DEF Next

LEMMA SpecIInv ==
  ASSUME ExitsAlone = TRUE
  PROVE  Spec => []IInv
  BY InitIInv, StepKeeps, PTL DEF Spec

\* Every variable keeps its type where programs end their threads before they
\* end: no lock is released more often than it was obtained.
THEOREM TypeCorrect ==
  ASSUME ExitsAlone = TRUE
  PROVE  Spec => []TypeOK
  <1>1. IInv => TypeOK
    BY DEF IInv
  <1>2. QED
    BY <1>1, SpecIInv, PTL

\* No call of __obtainThreadLock finds a lock that __initBasicLib has not
\* created yet or the exit handler has destroyed, however many threads there
\* are and wherever SIGINT finds main.
THEOREM LocksExist ==
  ASSUME ExitsAlone = TRUE
  PROVE  Spec => []LocksExistWhenUsed
  <1>1. IInv => LocksExistWhenUsed
    BY DEF IInv, LocksReady, LocksExistWhenUsed
  <1>2. QED
    BY <1>1, SpecIInv, PTL

\* When the exit handler is through, every lock has been destroyed and is held
\* by nobody, and if it was cut short the texts of the errors were still there.
THEOREM ShutdownComplete ==
  ASSUME ExitsAlone = TRUE
  PROVE  Spec => []ShutdownIsComplete
  <1>1. IInv => ShutdownIsComplete
    BY DEF IInv, LocksReady, DestroysAll, ShutdownIsComplete
  <1>2. QED
    BY <1>1, SpecIInv, PTL

\* A thread that waits for a lock, and the thread that holds it.
LEMMA Waiting ==
  ASSUME IInv, NEW t \in Thread, NEW u \in Thread, WaitsFor(t, u)
  PROVE  /\ todo[t] \in Seq(Step) /\ 1 \in 1..Len(todo[t]) /\ pc[t] = "live"
         /\ todo[t][1].op = "get" /\ todo[t][1].lock \in Lock
         /\ On(todo[t], 1, "get", todo[t][1].lock)
         /\ holder[todo[t][1].lock] = u /\ u # t
  <1>1. todo[t] \in Seq(Step) /\ todo[t] # <<>> /\ pc[t] = "live"
    BY DEF IInv, TypeOK, WaitsFor, At
  <1>2. Head(todo[t]) = todo[t][1] /\ 1 \in 1..Len(todo[t]) /\ todo[t][1] \in Step
    BY <1>1, TailDrops
  <1>3. todo[t][1].op = "get" /\ holder[todo[t][1].lock] = u /\ u # t
    BY <1>2 DEF WaitsFor, At
  <1>4. todo[t][1].lock \in Lock
    BY <1>2, <1>3 DEF Step
  <1>5. QED
    BY <1>1, <1>2, <1>3, <1>4 DEF On

\* Before the program ends: the lock that the holder of a lock waits for ranks
\* higher than that one.
LEMMA WaitsUpwards ==
  ASSUME IInv, phase \in {"init", "up"},
         NEW t \in Thread, NEW u \in Thread, NEW v \in Thread, WaitsFor(t, u), WaitsFor(u, v)
  PROVE  Rank(todo[u][1].lock) > Rank(todo[t][1].lock)
  <1> DEFINE l == todo[t][1].lock
             m == todo[u][1].lock
  <1>1. l \in Lock /\ holder[l] = u
    BY Waiting
  <1>2. /\ todo[u] \in Seq(Step) /\ todo[u] # <<>> /\ pc[u] = "live" /\ m \in Lock
        /\ On(todo[u], 1, "get", m) /\ holder[m] = v /\ v # u
    BY Waiting
  <1> HIDE DEF l, m
  <1>3. CASE l # Kept
    <2>1. SoonReleased(todo[u], 1, l)
      BY <1>1, <1>2, <1>3 DEF IInv, HeldInOrder
    <2>2. Rank(m) > Rank(l)
      BY <1>1, <1>2, <2>1, TailDrops, DropsHeld
    <2>3. QED
      BY <2>2 DEF l, m
  <1>4. CASE l = Kept
    <2>1. m # Kept
      BY <1>1, <1>2, <1>4
    <2>2. Rank(m) > Rank(l)
      BY <1>4, <2>1 DEF Rank
    <2>3. QED
      BY <2>2 DEF l, m
  <1>5. QED
    BY <1>3, <1>4

\* Threads never wait for each other in a circle: a lock is only waited for
\* while locks of lower rank are held, whatever the number of threads and of
\* the calls of the library they are in.
THEOREM NoCircle ==
  ASSUME ExitsAlone = TRUE
  PROVE  Spec => []NoCircularWait
  <1>1. ASSUME IInv
        PROVE  NoCircularWait
    <2> SUFFICES ASSUME NEW S \in SUBSET Thread, S # {},
                        \A t \in S : \E u \in S : WaitsFor(t, u)
                 PROVE  FALSE
      BY DEF NoCircularWait
    <2>1. \A t \in S, u \in S : WaitsFor(t, u) => u # t /\ pc[t] = "live"
      BY DEF WaitsFor
    <2>2. PICK a \in S : TRUE
      OBVIOUS
    <2>3. PICK b \in S : WaitsFor(a, b)
      OBVIOUS
    <2>4. PICK c \in S : WaitsFor(b, c)
      OBVIOUS
    <2>5. PICK d \in S : WaitsFor(c, d)
      OBVIOUS
    <2>6. PICK e \in S : WaitsFor(d, e)
      OBVIOUS
    <2>7. /\ a \in Thread /\ b \in Thread /\ c \in Thread /\ d \in Thread /\ e \in Thread
          /\ a # b /\ pc[a] = "live" /\ pc[b] = "live"
      BY <2>1, <2>3, <2>4
    <2>8. phase \in {"init", "up"}
      <3>1. phase \notin {"exit", "gone", "aborted"} /\ phase # "failed"
        BY <1>1, <2>7 DEF IInv, Alone
      <3>2. QED
        BY <1>1, <3>1 DEF IInv, TypeOK, Phase
    <2>9. /\ Rank(todo[b][1].lock) > Rank(todo[a][1].lock)
          /\ Rank(todo[c][1].lock) > Rank(todo[b][1].lock)
          /\ Rank(todo[d][1].lock) > Rank(todo[c][1].lock)
      BY <1>1, <2>3, <2>4, <2>5, <2>6, <2>7, <2>8, WaitsUpwards
    <2>10. \A l : Rank(l) \in {0, 1, 2}
      BY DEF Rank
    <2>11. /\ Rank(todo[a][1].lock) \in {0, 1, 2} /\ Rank(todo[b][1].lock) \in {0, 1, 2}
           /\ Rank(todo[c][1].lock) \in {0, 1, 2} /\ Rank(todo[d][1].lock) \in {0, 1, 2}
      BY <2>10
    <2>12. QED
      BY <2>9, <2>11
  <1>2. QED
    BY <1>1, SpecIInv, PTL

=============================================================================
