--------------------------- MODULE FileSystemProofs ---------------------------
(***************************************************************************)
(* The file system statements for any threads, names and files: FILECOPY   *)
(* closes what it opened, a transfer no other statement met is exact, KILL *)
(* hides no error and DIR$ omits no entry.                                 *)
(*                                                                         *)
(* A step of a thread begins a statement, goes on with one, or is one of   *)
(* DIR$; each kind has a lemma for what it leaves of the others' state,    *)
(* and a lemma for each action says of which kind it is.                   *)
(***************************************************************************)
EXTENDS FileSystem, SequenceTheorems, TLAPS

\* A statement that opens, moves or removes is in progress; a call of DIR$ is
\* none.
Acts(t) == pc[t] \notin {"idle", "dirNext"}

\* FILECOPY has nothing open before it opens it and after it closes it.
OpenInside(t) ==
  /\ pc[t] \notin {"copyOut", "copyStat", "copyRead", "copyWrite"} => in[t] = NoInode
  /\ pc[t] \notin {"copyStat", "copyRead", "copyWrite"} => out[t] = NoInode
  /\ pc[t] \in {"copyOut", "copyStat", "copyRead", "copyWrite"} => in[t] \in Inode \union {Dir}
  /\ pc[t] \in {"copyStat", "copyRead", "copyWrite"} => out[t] \in Inode

\* Two names never denote one file.
OneName ==
  \A n, m \in Name : entry[n] = entry[m] /\ entry[n] \in Inode => n = m

\* What a statement goes by is among the names it works on.
WorksOnNames(t) ==
  /\ Acts(t) /\ pc[t] # "killNext" => {src[t], dst[t]} \subseteq names[t]
  /\ pc[t] = "killNext" => left[t] \subseteq names[t]

\* No other statement works on the names of one that is alone, or writes to a
\* file they denote.
ApartFrom(t, u) ==
  /\ names[t] \intersect names[u] = {}
  /\ \A n \in names[t] : entry[n] \in Inode => entry[n] # out[u]

Apart ==
  \A t, u \in Thread : t # u /\ alone[t] /\ Acts(t) /\ Acts(u) => ApartFrom(t, u)

\* A transfer that is alone: the source is what it was, and what was read of it
\* and not yet written is in the buffer.
SourceKept(t) ==
  entry[src[t]] \in Inode /\ data[entry[src[t]]] = was[t]

Begun(t) ==
  /\ in[t] = entry[src[t]] /\ out[t] = entry[dst[t]] /\ out[t] \in Inode
  /\ pc[t] # "copyStat" => size[t] = Len(was[t])
  /\ br[t] <= Len(was[t])
  /\ Len(data[out[t]]) = offset[t] /\ offset[t] <= br[t]
  /\ \A k \in 1..offset[t] : data[out[t]][k] = was[t][k]

Buffered(t) ==
  /\ offset[t] + Len(buf[t]) = br[t]
  /\ \A k \in 1..Len(buf[t]) : buf[t][k] = was[t][offset[t] + k]

TransferSound(t) ==
  ~ShortWrites /\ alone[t] /\ src[t] # dst[t] /\ was[t] # <<>> =>
    /\ Acts(t) /\ pc[t] \notin {"killNext", "killStat"} => SourceKept(t)
    /\ pc[t] = "copyOut" => in[t] = entry[src[t]]
    /\ pc[t] \in {"copyStat", "copyRead", "copyWrite"} => Begun(t)
    /\ pc[t] \in {"copyStat", "copyRead"} => offset[t] = br[t]
    /\ pc[t] = "copyWrite" => Buffered(t)

\* A KILL that is alone and has seen no error has removed what it has looked at.
KillSound(t) ==
  pc[t] = "killNext" /\ alone[t] /\ err[t] = 0 =>
    \A n \in names[t] \ left[t] : entry[n] \notin Inode

\* No statement works on the names of a query that is alone, which has listed
\* what it should of the entries it has seen.
QueriesApart ==
  \A t, u \in Thread :
    query[t].alone /\ Acts(u) => names[u] \intersect query[t].names = {}

Lists(q, n) ==
  entry[n] # Absent /\ (q.root /\ q.attributes = "vbDirectory" => entry[n] = Dir)

Faithful(q) ==
  q.alone =>
    /\ q.left \subseteq q.names
    /\ \A n \in q.left : entry[n] # Absent
    /\ q.listed = {n \in q.names \ q.left : Lists(q, n)}

QuerySound(t) == Faithful(query[t])

Query == [open : BOOLEAN, names : SUBSET Name, root : BOOLEAN,
          left : SUBSET Name, attributes : Attributes,
          listed : SUBSET Name, alone : BOOLEAN]

Types == TypeOK /\ was \in [Thread -> Seq(Nat)]
Own(t) == OpenInside(t) /\ WorksOnNames(t) /\ TransferSound(t) /\ KillSound(t) /\ QuerySound(t)
IInv ==
  Types /\ OneName /\ Apart /\ QueriesApart /\ \A t \in Thread : Own(t)

------------------------------------------------------------------------------
SameQuery(q, r) ==
  /\ q.open = r.open /\ q.names = r.names /\ q.root = r.root
  /\ q.left = r.left /\ q.attributes = r.attributes /\ q.listed = r.listed

\* A step of t leaves the state of u as it is, but it may be alone no more.
Spares(u) ==
  /\ pc'[u] = pc[u] /\ src'[u] = src[u] /\ dst'[u] = dst[u] /\ names'[u] = names[u]
  /\ in'[u] = in[u] /\ out'[u] = out[u] /\ size'[u] = size[u] /\ br'[u] = br[u]
  /\ buf'[u] = buf[u] /\ offset'[u] = offset[u]
  /\ left'[u] = left[u] /\ err'[u] = err[u] /\ was'[u] = was[u]
  /\ alone'[u] => alone[u]
  /\ SameQuery(query'[u], query[u]) /\ (query'[u].alone => query[u].alone)

SparesOthers(t) == \A u \in Thread \ {t} : Spares(u)

\* t begins a statement on the names ns, or does all of it.
Starting(t, ns) ==
  /\ pc[t] = "idle" /\ SparesOthers(t) /\ Meets(t, ns)
  /\ names' = [names EXCEPT ![t] = ns]
  /\ data' = data /\ in' = in /\ out' = out
  /\ \A n \in Name :
       entry'[n] = entry[n] \/ (n \in ns /\ entry'[n] \notin Inode /\ pc'[t] = "idle")
  /\ pc'[t] \in {"idle", "copyIn", "nameSrc", "killStat", "killNext"}
  /\ pc'[t] \in {"copyIn", "nameSrc", "killStat"} => {src'[t], dst'[t]} \subseteq ns
  /\ pc'[t] \in {"copyIn", "nameSrc"} => was'[t] = Held(src'[t]) /\ src'[t] \in Name
  /\ pc'[t] = "killNext" => left'[t] = {n \in ns : entry[n] # Absent}

\* t goes on with a statement.
Acting(t) ==
  /\ Acts(t) /\ SparesOthers(t) /\ UNCHANGED <<src, dst, names, was, alone, query>>
  /\ pc'[t] # "dirNext"
  /\ \A n \in Name \ names[t] : entry'[n] = entry[n]
  /\ \A n \in names[t] :
       entry'[n] \notin Inode \/ entry'[n] \in Free \/ \E m \in names[t] : entry'[n] = entry[m]
  /\ out'[t] \in {out[t], NoInode} \/ \E n \in names[t] : out'[t] = entry'[n]
  /\ \A i \in Inode : data'[i] = data[i] \/ i = out[t] \/ i = out'[t]

\* t calls DIR$ or goes on with it.
Asking(t) ==
  /\ ~Acts(t) /\ ~Acts(t)' /\ SparesOthers(t)
  /\ UNCHANGED <<files, src, dst, names, in, out, left, was, alone>>
  /\ \A u \in Thread \ {t} : query'[u] = query[u]

\* What a statement that starts on ns does to those that are alone.
LEMMA MeetsEffect ==
  ASSUME TypeOK, NEW t \in Thread, NEW ns, Meets(t, ns)
  PROVE  /\ alone' \in [Thread -> BOOLEAN]
         /\ query' \in [Thread -> [open : BOOLEAN, names : SUBSET Name, root : BOOLEAN,
                                   left : SUBSET Name, attributes : Attributes,
                                   listed : SUBSET Name, alone : BOOLEAN]]
         /\ \A u \in Thread \ {t} :
              alone'[u] <=> alone[u] /\ NamesOf(u) \intersect ns = {}
         /\ alone'[t] <=> \A v \in Thread \ {t} : NamesOf(v) \intersect ns = {}
         /\ \A u \in Thread :
              /\ SameQuery(query'[u], query[u])
              /\ query'[u].alone <=> query[u].alone /\ query[u].names \intersect ns = {}
<1>1. alone' = [u \in Thread |->
         IF u = t THEN \A v \in Thread \ {t} : NamesOf(v) \intersect ns = {}
         ELSE alone[u] /\ NamesOf(u) \intersect ns = {}]
  BY DEF Meets
<1>2. query' = [u \in Thread |->
         [query[u] EXCEPT !.alone = @ /\ query[u].names \intersect ns = {}]]
  BY DEF Meets
<1>3. alone \in [Thread -> BOOLEAN]
  BY DEF TypeOK
<1>4. alone' \in [Thread -> BOOLEAN]
  BY <1>1, <1>3
<1>5. /\ \A u \in Thread \ {t} :
           alone'[u] <=> alone[u] /\ NamesOf(u) \intersect ns = {}
      /\ alone'[t] <=> \A v \in Thread \ {t} : NamesOf(v) \intersect ns = {}
  BY <1>1, <1>3
<1> DEFINE T == [open : BOOLEAN, names : SUBSET Name, root : BOOLEAN,
                 left : SUBSET Name, attributes : Attributes,
                 listed : SUBSET Name, alone : BOOLEAN]
<1>6. ASSUME NEW u \in Thread
      PROVE  /\ query'[u] \in T
             /\ SameQuery(query'[u], query[u])
             /\ query'[u].alone <=> query[u].alone /\ query[u].names \intersect ns = {}
  <2>1. query[u] \in T
    BY DEF TypeOK
  <2>2. query'[u] = [query[u] EXCEPT !.alone = query[u].alone /\ query[u].names \intersect ns = {}]
    BY <1>2
  <2>3. (query[u].alone /\ query[u].names \intersect ns = {}) \in BOOLEAN
    BY <2>1
  <2> DEFINE b == query[u].alone /\ query[u].names \intersect ns = {}
  <2>4. b \in BOOLEAN /\ query'[u] = [query[u] EXCEPT !.alone = b]
    BY <2>2, <2>3
  <2> HIDE DEF b
  <2>5. query'[u] \in T /\ SameQuery(query'[u], query[u]) /\ query'[u].alone = b
    BY <2>1, <2>4 DEF SameQuery
  <2> QED BY <2>5 DEF b
<1>7. query' \in [Thread -> T]
  BY <1>2, <1>6
<1> QED BY <1>4, <1>5, <1>6, <1>7

------------------------------------------------------------------------------
\* What a step of another thread leaves of u's part of the invariant.
LEMMA SparedSound ==
  ASSUME IInv, NEW u \in Thread, Spares(u),
         alone'[u] /\ Acts(u) => \A n \in names[u] :
           /\ entry'[n] = entry[n]
           /\ entry[n] \in Inode => data'[entry[n]] = data[entry[n]],
         query'[u].alone => \A n \in query[u].names : entry'[n] = entry[n]
  PROVE  Own(u)'
<1>1. Own(u) /\ TypeOK
  BY DEF IInv, Types
<1>2. Acts(u)' = Acts(u)
  BY DEF Spares, Acts
<1>3. OpenInside(u)' /\ WorksOnNames(u)'
  BY <1>1, <1>2 DEF Own, OpenInside, WorksOnNames, Spares
<1>4. TransferSound(u)'
  <2> SUFFICES ASSUME ~ShortWrites, alone'[u], src[u] # dst[u], was[u] # <<>>,
                      Acts(u), pc[u] \notin {"killNext", "killStat"}
               PROVE  /\ SourceKept(u)'
                      /\ pc[u] = "copyOut" => in[u] = entry'[src[u]]
                      /\ pc[u] \in {"copyStat", "copyRead", "copyWrite"} => Begun(u)'
                      /\ pc[u] \in {"copyStat", "copyRead"} => offset[u] = br[u]
                      /\ pc[u] = "copyWrite" => Buffered(u)'
    BY <1>2 DEF TransferSound, Spares, Acts
  <2>1. /\ SourceKept(u)
        /\ pc[u] = "copyOut" => in[u] = entry[src[u]]
        /\ pc[u] \in {"copyStat", "copyRead", "copyWrite"} => Begun(u)
        /\ pc[u] \in {"copyStat", "copyRead"} => offset[u] = br[u]
        /\ pc[u] = "copyWrite" => Buffered(u)
    BY <1>1 DEF Own, TransferSound, Spares
  <2>2. src[u] \in names[u] /\ dst[u] \in names[u]
    BY <1>1 DEF Own, WorksOnNames
  <2>3. /\ entry'[src[u]] = entry[src[u]] /\ entry'[dst[u]] = entry[dst[u]]
        /\ entry[src[u]] \in Inode => data'[entry[src[u]]] = data[entry[src[u]]]
        /\ entry[dst[u]] \in Inode => data'[entry[dst[u]]] = data[entry[dst[u]]]
    BY <2>2
  <2>4. SourceKept(u)'
    BY <2>1, <2>3 DEF SourceKept, Spares
  <2>5. ASSUME pc[u] \in {"copyStat", "copyRead", "copyWrite"} PROVE Begun(u)'
    BY <2>1, <2>3, <2>5 DEF Begun, Spares
  <2>6. ASSUME pc[u] = "copyWrite" PROVE Buffered(u)'
    BY <2>1, <2>6 DEF Buffered, Spares
  <2> QED BY <2>1, <2>3, <2>4, <2>5, <2>6
<1>5. KillSound(u)'
  <2> SUFFICES ASSUME pc[u] = "killNext", alone'[u], err[u] = 0,
                      NEW n \in names[u] \ left[u]
               PROVE  entry'[n] \notin Inode
    BY DEF KillSound, Spares
  <2>1. entry[n] \notin Inode
    BY <1>1 DEF Own, KillSound, Spares
  <2>2. entry'[n] = entry[n]
    BY DEF Acts
  <2> QED BY <2>1, <2>2
<1>6. QuerySound(u)'
  <2> SUFFICES ASSUME query'[u].alone PROVE QuerySound(u)'
    BY DEF QuerySound, Faithful
  <2>1. /\ query[u].left \subseteq query[u].names
        /\ \A n \in query[u].left : entry[n] # Absent
        /\ query[u].listed = {n \in query[u].names \ query[u].left : Lists(query[u], n)}
    BY <1>1 DEF Own, QuerySound, Faithful, Spares
  <2>2. \A n \in query[u].names : entry'[n] = entry[n]
    OBVIOUS
  <2>3. /\ query'[u].left = query[u].left /\ query'[u].names = query[u].names
        /\ query'[u].root = query[u].root /\ query'[u].listed = query[u].listed
        /\ query'[u].attributes = query[u].attributes
    BY DEF Spares, SameQuery
  <2>4. \A n \in query[u].names : Lists(query[u], n)' <=> Lists(query[u], n)
    BY <2>2, <2>3 DEF Lists
  <2>5. {n \in query'[u].names \ query'[u].left : Lists(query[u], n)'}
          = {n \in query[u].names \ query[u].left : Lists(query[u], n)}
    BY <2>3, <2>4
  <2>6. \A n \in query'[u].left : entry'[n] # Absent
    BY <2>1, <2>2, <2>3
  <2> QED BY <2>1, <2>3, <2>5, <2>6 DEF QuerySound, Faithful
<1> QED BY <1>3, <1>4, <1>5, <1>6 DEF Own

LEMMA StartKeeps ==
  ASSUME IInv, Types', NEW t \in Thread, NEW ns \in SUBSET Name, Starting(t, ns)
  PROVE  IInv'
<1>1. TypeOK /\ Own(t) /\ pc[t] = "idle" /\ in[t] = NoInode /\ out[t] = NoInode
  BY DEF IInv, Types, Own, OpenInside, Starting
<1>2. /\ \A u \in Thread \ {t} :
           alone'[u] => alone[u] /\ (Acts(u) => names[u] \intersect ns = {})
      /\ \A u \in Thread \ {t} :
           alone'[u] /\ Acts(u) => names[u] \intersect ns = {}
      /\ alone'[t] => \A u \in Thread \ {t} :
           Acts(u) => /\ names[u] \intersect ns = {}
                      /\ \A n \in ns : entry[n] # out[u]
  BY <1>1, MeetsEffect DEF Starting, NamesOf, Busy, Acts
<1>3. \A u \in Thread :
        /\ SameQuery(query'[u], query[u])
        /\ query'[u].alone => query[u].alone /\ query[u].names \intersect ns = {}
  BY <1>1, MeetsEffect DEF Starting
<1>4. \A n \in Name : entry'[n] = entry[n]
                      \/ (n \in ns /\ entry'[n] \notin Inode /\ pc'[t] = "idle")
  BY DEF Starting
<1>5. /\ \A u \in Thread \ {t} : pc'[u] = pc[u] /\ names'[u] = names[u]
      /\ names'[t] = ns /\ data' = data /\ in' = in /\ out' = out
      /\ \A u \in Thread : names[u] \subseteq Name /\ query[u].names \subseteq Name
  BY <1>1 DEF Starting, SparesOthers, Spares, TypeOK
<1>6. OneName'
  BY <1>4 DEF IInv, OneName
<1>7. Apart'
  <2> SUFFICES ASSUME NEW v \in Thread, NEW u \in Thread, v # u, alone'[v],
                      Acts(v)', Acts(u)'
               PROVE  ApartFrom(v, u)'
    BY DEF Apart
  <2>1. CASE v = t
    <3>1. Acts(u) /\ \A n \in Name : entry'[n] = entry[n]
      BY <1>4, <1>5, <2>1 DEF Acts
    <3>2. ns \intersect names[u] = {} /\ \A n \in ns : entry[n] # out[u]
      BY <1>2, <2>1, <3>1
    <3> QED BY <1>5, <2>1, <3>1, <3>2 DEF ApartFrom
  <2>2. CASE u = t
    <3>1. Acts(v) /\ \A n \in Name : entry'[n] = entry[n]
      BY <1>4, <1>5, <2>2 DEF Acts
    <3>2. names[v] \intersect ns = {}
      BY <1>2, <2>2, <3>1
    <3> QED BY <1>1, <1>5, <2>2, <3>1, <3>2, DenotationAssumption DEF ApartFrom
  <2>3. CASE v # t /\ u # t
    <3>1. Acts(v) /\ Acts(u) /\ alone[v] /\ ApartFrom(v, u)
      BY <1>2, <1>5, <2>3 DEF Acts, IInv, Apart
    <3> QED BY <1>4, <1>5, <2>3, <3>1 DEF ApartFrom
  <2> QED BY <2>1, <2>2, <2>3
<1>8. QueriesApart'
  <2> SUFFICES ASSUME NEW v \in Thread, NEW u \in Thread, query'[v].alone, Acts(u)'
               PROVE  names'[u] \intersect query'[v].names = {}
    BY DEF QueriesApart
  <2>1. query'[v].names = query[v].names /\ query[v].alone
        /\ query[v].names \intersect ns = {}
    BY <1>3 DEF SameQuery
  <2>2. CASE u = t
    BY <1>5, <2>1, <2>2
  <2>3. CASE u # t
    <3>1. Acts(u)
      BY <1>5, <2>3 DEF Acts
    <3> QED BY <1>5, <2>1, <2>3, <3>1 DEF IInv, QueriesApart
  <2> QED BY <2>2, <2>3
<1>9. ASSUME NEW u \in Thread \ {t} PROVE Own(u)'
  <2>1. alone'[u] /\ Acts(u) => \A n \in names[u] :
           /\ entry'[n] = entry[n]
           /\ entry[n] \in Inode => data'[entry[n]] = data[entry[n]]
    BY <1>2, <1>4, <1>5
  <2>2. query'[u].alone => \A n \in query[u].names : entry'[n] = entry[n]
    BY <1>3, <1>4, <1>5
  <2> QED BY <1>9, <2>1, <2>2, SparedSound DEF Starting, SparesOthers
<1>10. Own(t)'
  <2>1. OpenInside(t)'
    BY <1>1, <1>5 DEF OpenInside, Starting
  <2>2. WorksOnNames(t)'
    BY <1>5 DEF WorksOnNames, Starting, Acts
  <2>3. TransferSound(t)'
    <3> SUFFICES ASSUME pc'[t] \in {"copyIn", "nameSrc"}, was'[t] # <<>>
                 PROVE  SourceKept(t)'
      BY DEF TransferSound, Acts, Starting
    <3>1. src'[t] \in Name /\ was'[t] = Held(src'[t])
      BY DEF Starting
    <3>2. entry'[src'[t]] = entry[src'[t]] /\ data' = data
      BY <1>4, <1>5, <3>1
    <3> QED BY <3>1, <3>2 DEF SourceKept, Held
  <2>4. KillSound(t)'
    <3> SUFFICES ASSUME pc'[t] = "killNext", NEW n \in ns \ left'[t]
                 PROVE  entry'[n] \notin Inode
      BY <1>5 DEF KillSound
    <3>1. entry[n] = Absent /\ entry'[n] = entry[n]
      BY <1>4 DEF Starting
    <3> QED BY <3>1, DenotationAssumption
  <2>5. QuerySound(t)'
    <3> SUFFICES ASSUME query'[t].alone PROVE QuerySound(t)'
      BY DEF QuerySound, Faithful
    <3>1. /\ query[t].left \subseteq query[t].names
          /\ \A n \in query[t].left : entry[n] # Absent
          /\ query[t].listed = {n \in query[t].names \ query[t].left : Lists(query[t], n)}
      BY <1>1, <1>3 DEF Own, QuerySound, Faithful
    <3>2. \A n \in query[t].names : entry'[n] = entry[n]
      BY <1>3, <1>4, <1>5
    <3>3. /\ query'[t].left = query[t].left /\ query'[t].names = query[t].names
          /\ query'[t].root = query[t].root /\ query'[t].listed = query[t].listed
          /\ query'[t].attributes = query[t].attributes
      BY <1>3 DEF SameQuery
    <3>4. \A n \in query[t].names : Lists(query[t], n)' <=> Lists(query[t], n)
      BY <3>2, <3>3 DEF Lists
    <3>5. {n \in query'[t].names \ query'[t].left : Lists(query[t], n)'}
            = {n \in query[t].names \ query[t].left : Lists(query[t], n)}
      BY <3>3, <3>4
    <3>6. \A n \in query'[t].left : entry'[n] # Absent
      BY <3>1, <3>2, <3>3
    <3> QED BY <3>1, <3>3, <3>5, <3>6 DEF QuerySound, Faithful
  <2> QED BY <2>1, <2>2, <2>3, <2>4, <2>5 DEF Own
<1> QED BY <1>6, <1>7, <1>8, <1>9, <1>10 DEF IInv

LEMMA ActKeeps ==
  ASSUME IInv, Types', NEW t \in Thread, Acting(t), OneName', OpenInside(t)',
         WorksOnNames(t)', TransferSound(t)', KillSound(t)'
  PROVE  IInv'
<1>1. TypeOK /\ Own(t) /\ Acts(t)
  BY DEF IInv, Types, Acting
<1>2. /\ \A u \in Thread \ {t} : pc'[u] = pc[u] /\ out'[u] = out[u]
      /\ names' = names /\ alone' = alone /\ query' = query
      /\ \A u \in Thread : names[u] \subseteq Name /\ query[u].names \subseteq Name
      /\ \A u \in Thread : out[u] \in Inode \union {NoInode}
      /\ \A u \in Thread : Acts(u)' => Acts(u)
  BY <1>1 DEF Acting, SparesOthers, Spares, TypeOK, Acts
<1>3. \A u \in Thread \ {t} : alone[u] /\ Acts(u) =>
        /\ ApartFrom(u, t)
        /\ \A n \in names[u] : entry'[n] = entry[n]
  BY <1>1, <1>2 DEF IInv, Apart, ApartFrom, Acting
<1>4. \A u \in Thread \ {t} : alone[u] /\ Acts(u) =>
        \A n \in names[u] : entry[n] \in Inode => entry[n] # out[t] /\ entry[n] # out'[t]
  <2> SUFFICES ASSUME NEW u \in Thread \ {t}, alone[u], Acts(u), NEW n \in names[u],
                      entry[n] \in Inode, entry[n] = out'[t]
               PROVE  FALSE
    BY <1>3 DEF ApartFrom
  <2>1. out'[t] # out[t] /\ out'[t] # NoInode
    BY <1>3, DenotationAssumption DEF ApartFrom
  <2>2. PICK m \in names[t] : out'[t] = entry'[m]
    BY <2>1 DEF Acting
  <2>3. entry'[n] = entry'[m] /\ entry'[n] \in Inode /\ n \in Name /\ m \in Name
    BY <1>2, <1>3, <2>2
  <2>4. n = m
    BY <2>3 DEF OneName
  <2> QED BY <1>3, <2>2, <2>4 DEF ApartFrom
<1>5. Apart'
  <2> SUFFICES ASSUME NEW v \in Thread, NEW u \in Thread, v # u, alone[v], Acts(v), Acts(u)
               PROVE  ApartFrom(v, u)'
    BY <1>2 DEF Apart
  <2>1. ApartFrom(v, u)
    BY DEF IInv, Apart
  <2>2. CASE v = t
    <3>1. \A n \in names[t] : entry'[n] \in Inode => entry'[n] # out[u]
      <4> SUFFICES ASSUME NEW n \in names[t], entry'[n] \in Inode, entry'[n] = out[u]
                   PROVE  FALSE
        OBVIOUS
      <4>1. CASE entry'[n] \in Free
        BY <4>1 DEF Free
      <4>2. CASE \E m \in names[t] : entry'[n] = entry[m]
        BY <2>1, <2>2, <4>2 DEF ApartFrom
      <4> QED BY <4>1, <4>2 DEF Acting
    <3> QED BY <1>2, <2>1, <2>2, <3>1 DEF ApartFrom
  <2>3. CASE u = t
    BY <1>2, <1>3, <1>4, <2>1, <2>3 DEF ApartFrom
  <2>4. CASE v # t /\ u # t
    BY <1>2, <1>3, <2>1, <2>4 DEF ApartFrom
  <2> QED BY <2>2, <2>3, <2>4
<1>6. QueriesApart'
  BY <1>2 DEF IInv, QueriesApart
<1>7. \A u \in Thread : query[u].alone => \A n \in query[u].names : entry'[n] = entry[n]
  <2> SUFFICES ASSUME NEW u \in Thread, query[u].alone, NEW n \in query[u].names
               PROVE  entry'[n] = entry[n]
    OBVIOUS
  <2>1. n \in Name \ names[t]
    BY <1>1, <1>2 DEF IInv, QueriesApart
  <2> QED BY <2>1 DEF Acting
<1>8. ASSUME NEW u \in Thread \ {t} PROVE Own(u)'
  <2>1. alone'[u] /\ Acts(u) => \A n \in names[u] :
           /\ entry'[n] = entry[n]
           /\ entry[n] \in Inode => data'[entry[n]] = data[entry[n]]
    BY <1>2, <1>3, <1>4 DEF Acting
  <2>2. query'[u].alone => \A n \in query[u].names : entry'[n] = entry[n]
    BY <1>2, <1>7
  <2> QED BY <1>8, <2>1, <2>2, SparedSound DEF Acting, SparesOthers
<1>9. QuerySound(t)'
  <2> SUFFICES ASSUME query[t].alone PROVE QuerySound(t)'
    BY <1>2 DEF QuerySound, Faithful
  <2>1. QuerySound(t) /\ \A n \in query[t].names : entry'[n] = entry[n]
    BY <1>1, <1>7 DEF Own
  <2>2. \A n \in query[t].names : Lists(query[t], n)' <=> Lists(query[t], n)
    BY <1>2, <2>1 DEF Lists
  <2>3. {n \in query[t].names \ query[t].left : Lists(query[t], n)'}
          = {n \in query[t].names \ query[t].left : Lists(query[t], n)}
    BY <2>2
  <2> QED BY <1>2, <2>1, <2>3 DEF QuerySound, Faithful
<1> QED BY <1>5, <1>6, <1>8, <1>9 DEF IInv, Own

LEMMA AskKeeps ==
  ASSUME IInv, Types', NEW t \in Thread, Asking(t), QuerySound(t)',
         \A u \in Thread : query'[t].alone /\ Acts(u) =>
           names[u] \intersect query'[t].names = {}
  PROVE  IInv'
<1>1. TypeOK /\ Own(t)
  BY DEF IInv, Types
<1>2. UNCHANGED <<files, src, dst, names, in, out, left, was, alone>>
      /\ ~Acts(t) /\ ~Acts(t)'
  BY DEF Asking
<1>3. \A u \in Thread : Acts(u)' => Acts(u) /\ u # t
  BY <1>2 DEF Asking, SparesOthers, Spares, Acts
<1>4. OneName'
  BY <1>2 DEF IInv, OneName, files
<1>5. Apart'
  <2> SUFFICES ASSUME NEW v \in Thread, NEW u \in Thread, v # u, alone'[v], Acts(v), Acts(u)
               PROVE  ApartFrom(v, u)'
    BY <1>3 DEF Apart
  <2>1. ApartFrom(v, u)
    BY <1>2 DEF IInv, Apart
  <2> QED BY <1>2, <2>1 DEF ApartFrom, files
<1>6. QueriesApart'
  <2> SUFFICES ASSUME NEW v \in Thread, NEW u \in Thread, query'[v].alone, Acts(u)
               PROVE  names[u] \intersect query'[v].names = {}
    BY <1>2, <1>3 DEF QueriesApart
  <2>1. CASE v = t
    BY <2>1
  <2>2. CASE v # t
    BY <2>2 DEF Asking, IInv, QueriesApart
  <2> QED BY <2>1, <2>2
<1>7. ASSUME NEW u \in Thread \ {t} PROVE Own(u)'
  <2>1. alone'[u] /\ Acts(u) => \A n \in names[u] :
           /\ entry'[n] = entry[n]
           /\ entry[n] \in Inode => data'[entry[n]] = data[entry[n]]
    BY <1>2 DEF files
  <2>2. query'[u].alone => \A n \in query[u].names : entry'[n] = entry[n]
    BY <1>2 DEF files
  <2> QED BY <1>7, <2>1, <2>2, SparedSound DEF Asking, SparesOthers
<1>8. OpenInside(t)' /\ WorksOnNames(t)' /\ TransferSound(t)' /\ KillSound(t)'
  <2>1. pc'[t] \in {"idle", "dirNext"} /\ in'[t] = NoInode /\ out'[t] = NoInode
    BY <1>1, <1>2 DEF Acts, Own, OpenInside
  <2> QED BY <2>1 DEF OpenInside, WorksOnNames, TransferSound, KillSound, Acts
<1> QED BY <1>4, <1>5, <1>6, <1>7, <1>8 DEF IInv, Own

------------------------------------------------------------------------------
LEMMA InitInv == Init => IInv
<1> SUFFICES ASSUME Init PROVE IInv
  OBVIOUS
<1> DEFINE first == CHOOSE n \in Name : TRUE
<1>1. first \in Name
  BY DenotationAssumption
<1> HIDE DEF first
<1>2. src = [t \in Thread |-> first] /\ dst = [t \in Thread |-> first]
  BY DEF Init, first
<1>3. \A t \in Thread :
        /\ pc[t] = "idle" /\ in[t] = NoInode /\ out[t] = NoInode
        /\ query[t] = NoQuery /\ names[t] = {}
  BY DEF Init
<1>4. NoQuery \in [open : BOOLEAN, names : SUBSET Name, root : BOOLEAN,
                   left : SUBSET Name, attributes : Attributes,
                   listed : SUBSET Name, alone : BOOLEAN]
  BY DEF NoQuery, Attributes
<1>5. Types
  <2>1. /\ entry \in [Name -> Inode \union {Absent, Dir}]
        /\ data \in [Inode -> Seq(Nat)]
    BY DenotationAssumption DEF Init
  <2>2. pc \in [Thread -> PC] /\ names \in [Thread -> SUBSET Name]
        /\ left \in [Thread -> SUBSET Name]
    BY DEF Init, PC
  <2>3. src \in [Thread -> Name] /\ dst \in [Thread -> Name]
    BY <1>1, <1>2
  <2>4. /\ in \in [Thread -> Inode \union {Dir, NoInode}]
        /\ out \in [Thread -> Inode \union {NoInode}]
    BY DEF Init
  <2>5. /\ size \in [Thread -> Nat] /\ br \in [Thread -> Nat]
        /\ written \in [Thread -> Nat] /\ offset \in [Thread -> Nat]
    BY DEF Init
  <2>6. buf \in [Thread -> Seq(Nat)] /\ was \in [Thread -> Seq(Nat)]
    <3>1. <<>> \in Seq(Nat)
      OBVIOUS
    <3> QED BY <3>1 DEF Init
  <2>7. err \in [Thread -> Errors]
    BY DEF Init, Errors
  <2>8. begun \in 0..MaxStatements /\ fault \in BOOLEAN /\ alone \in [Thread -> BOOLEAN]
    <3>1. begun = 0 /\ fault = FALSE /\ alone = [t \in Thread |-> TRUE]
      BY DEF Init
    <3>2. 0 \in 0..MaxStatements
      BY SizeAssumption
    <3>3. alone \in [Thread -> BOOLEAN]
      BY <3>1
    <3> QED BY <3>1, <3>2, <3>3
  <2>9. query = [t \in Thread |-> NoQuery]
    BY DEF Init
  <2> QED BY <1>4, <2>1, <2>2, <2>3, <2>4, <2>5, <2>6, <2>7, <2>8, <2>9 DEF Types, TypeOK
<1>6. OneName
  BY DenotationAssumption DEF Init, OneName
<1>7. Apart /\ QueriesApart
  BY <1>3 DEF Apart, QueriesApart, Acts
<1>8. ASSUME NEW t \in Thread PROVE Own(t)
  <2>1. QuerySound(t)
    BY <1>3 DEF QuerySound, Faithful, NoQuery
  <2> QED BY <1>3, <2>1 DEF Own, OpenInside, WorksOnNames, TransferSound, KillSound, Acts
<1> QED BY <1>5, <1>6, <1>7, <1>8 DEF IInv

\* A statement on s and d begins, or is done at once.
LEMMA StartCase ==
  ASSUME IInv, NEW t \in Thread, NEW s \in Name, NEW d \in Name, Starts(t, s, d),
         NEW p \in {"idle", "copyIn", "nameSrc", "killStat"}, Goes(t, p),
         NEW e \in Errors, err' = [err EXCEPT ![t] = e],
         entry' \in [Name -> Inode \union {Absent, Dir}], data' = data,
         \A n \in Name :
           entry'[n] = entry[n] \/ (n \in {s, d} /\ entry'[n] \notin Inode /\ p = "idle")
  PROVE  IInv'
<1>1. TypeOK /\ was \in [Thread -> Seq(Nat)]
  BY DEF IInv, Types
<1>2. /\ pc[t] = "idle" /\ pc' = [pc EXCEPT ![t] = p] /\ pc'[t] = p
      /\ names' = [names EXCEPT ![t] = {s, d}] /\ Meets(t, {s, d})
      /\ UNCHANGED copying /\ UNCHANGED <<left, fault>>
      /\ src' = [src EXCEPT ![t] = s] /\ dst' = [dst EXCEPT ![t] = d]
      /\ was' = [was EXCEPT ![t] = Held(s)] /\ was'[t] = Held(s)
      /\ src'[t] = s /\ dst'[t] = d
      /\ begun < MaxStatements /\ begun' = begun + 1
  BY <1>1 DEF Starts, StartsOn, Enters, Busy, Goes, TypeOK
<1>3. Held(s) \in Seq(Nat)
  <2>1. <<>> \in Seq(Nat)
    OBVIOUS
  <2> QED BY <1>1, <2>1 DEF Held, TypeOK
<1>4. /\ alone' \in [Thread -> BOOLEAN]
      /\ query' \in [Thread -> [open : BOOLEAN, names : SUBSET Name, root : BOOLEAN,
                                left : SUBSET Name, attributes : Attributes,
                                listed : SUBSET Name, alone : BOOLEAN]]
      /\ \A u \in Thread \ {t} : alone'[u] => alone[u]
      /\ \A u \in Thread :
           SameQuery(query'[u], query[u]) /\ (query'[u].alone => query[u].alone)
  BY <1>1, <1>2, MeetsEffect
<1>5. Types'
  <2>1. begun' \in 0..MaxStatements
    BY <1>1, <1>2, SizeAssumption DEF TypeOK
  <2>2. pc' \in [Thread -> PC]
    BY <1>1, <1>2 DEF TypeOK, PC
  <2>3. /\ src' \in [Thread -> Name] /\ dst' \in [Thread -> Name]
        /\ names' \in [Thread -> SUBSET Name] /\ err' \in [Thread -> Errors]
    BY <1>1, <1>2 DEF TypeOK
  <2>4. was' \in [Thread -> Seq(Nat)]
    BY <1>1, <1>2, <1>3
  <2> QED BY <1>1, <1>2, <1>4, <2>1, <2>2, <2>3, <2>4 DEF Types, TypeOK, copying
<1>6. SparesOthers(t)
  BY <1>1, <1>2, <1>4 DEF SparesOthers, Spares, TypeOK, copying
<1>7. Starting(t, {s, d})
  BY <1>2, <1>6 DEF Starting, copying
<1>8. {s, d} \in SUBSET Name
  OBVIOUS
<1> QED BY <1>5, <1>7, <1>8, StartKeeps

LEMMA FileCopyStep ==
  ASSUME IInv, NEW t \in Thread, NEW s \in Name, NEW d \in Name, FileCopy(t, s, d)
  PROVE  IInv'
<1>1. Starts(t, s, d) /\ Goes(t, "copyIn") /\ UNCHANGED <<entry, data, err>>
  BY DEF FileCopy, files
<1>2. /\ err[t] \in Errors /\ err' = [err EXCEPT ![t] = err[t]]
      /\ entry' \in [Name -> Inode \union {Absent, Dir}]
  BY <1>1 DEF IInv, Types, TypeOK
<1> QED BY <1>1, <1>2, StartCase

LEMMA RenameStep ==
  ASSUME IInv, NEW t \in Thread, NEW s \in Name, NEW d \in Name, Rename(t, s, d)
  PROVE  IInv'
<1>1. Starts(t, s, d) /\ UNCHANGED <<entry, data>>
  BY DEF Rename, files
<1>2. \E p \in {"idle", "nameSrc"}, e \in Errors : Goes(t, p) /\ err' = [err EXCEPT ![t] = e]
  <2>1. err[t] \in Errors /\ (err' = err => err' = [err EXCEPT ![t] = err[t]])
    BY DEF IInv, Types, TypeOK
  <2>2. CASE Goes(t, "nameSrc") /\ UNCHANGED err
    BY <2>1, <2>2
  <2>3. ASSUME NEW e \in Errors, Ends(t, e)
        PROVE  \E p \in {"idle", "nameSrc"} : Goes(t, p) /\ err' = [err EXCEPT ![t] = e]
    BY <2>3 DEF Ends, Throws
  <2> QED BY <2>2, <2>3 DEF Rename, Refused, Errors
<1>3. entry' \in [Name -> Inode \union {Absent, Dir}]
  BY <1>1 DEF IInv, Types, TypeOK
<1> QED BY <1>1, <1>2, <1>3, StartCase

LEMMA KillSingleStep ==
  ASSUME IInv, NEW t \in Thread, NEW s \in Name, KillSingle(t, s)
  PROVE  IInv'
<1>1. Starts(t, s, s) /\ UNCHANGED <<entry, data>>
  BY DEF KillSingle, files
<1>2. \E p \in {"idle", "killStat"}, e \in Errors : Goes(t, p) /\ err' = [err EXCEPT ![t] = e]
  <2>1. err[t] \in Errors /\ (err' = err => err' = [err EXCEPT ![t] = err[t]])
    BY DEF IInv, Types, TypeOK
  <2>2. CASE Goes(t, "killStat") /\ UNCHANGED err
    BY <2>1, <2>2
  <2>3. ASSUME NEW e \in Errors, Ends(t, e)
        PROVE  \E p \in {"idle", "killStat"} : Goes(t, p) /\ err' = [err EXCEPT ![t] = e]
    BY <2>3 DEF Ends, Throws
  <2> QED BY <2>2, <2>3 DEF KillSingle, Refused, Errors
<1>3. entry' \in [Name -> Inode \union {Absent, Dir}]
  BY <1>1 DEF IInv, Types, TypeOK
<1> QED BY <1>1, <1>2, <1>3, StartCase

LEMMA DirectoryStep ==
  ASSUME IInv, NEW t \in Thread, NEW n \in Name, MakeDir(t, n) \/ RemoveDir(t, n)
  PROVE  IInv'
<1>1. Starts(t, n, n) /\ data' = data
  BY DEF MakeDir, RemoveDir
<1>2. PICK e \in Errors : Ends(t, e)
  BY DEF MakeDir, RemoveDir, Refused, Errors
<1>3. Goes(t, "idle") /\ err' = [err EXCEPT ![t] = e]
  BY <1>2 DEF Ends, Throws
<1>4. /\ entry' \in [Name -> Inode \union {Absent, Dir}]
      /\ \A m \in Name : entry'[m] = entry[m] \/ (m = n /\ entry'[m] \notin Inode)
  BY DenotationAssumption DEF MakeDir, RemoveDir, IInv, Types, TypeOK
<1> QED BY <1>1, <1>3, <1>4, StartCase

LEMMA KillWildcardsStep ==
  ASSUME IInv, NEW t \in Thread, NEW ns \in SUBSET Name, KillWildcards(t, ns)
  PROVE  IInv'
<1>1. TypeOK /\ was \in [Thread -> Seq(Nat)]
  BY DEF IInv, Types
<1>2. PICK p \in {"idle", "killNext"}, e \in Errors :
        /\ Goes(t, p) /\ Throws(t, e)
        /\ p = "killNext" => left' = [left EXCEPT ![t] = {n \in ns : entry[n] # Absent}]
        /\ p = "idle" => left' = left
  BY DEF KillWildcards, Refused, Ends, Errors
<1>3. /\ pc[t] = "idle" /\ pc' = [pc EXCEPT ![t] = p] /\ pc'[t] = p
      /\ err' = [err EXCEPT ![t] = e]
      /\ names' = [names EXCEPT ![t] = ns] /\ Meets(t, ns)
      /\ UNCHANGED copying /\ UNCHANGED <<fault, src, dst, was, entry, data>>
      /\ begun < MaxStatements /\ begun' = begun + 1
  BY <1>1, <1>2 DEF KillWildcards, StartsOn, Enters, Busy, Goes, Throws, TypeOK, files
<1>4. left' \in [Thread -> SUBSET Name] /\ \A u \in Thread \ {t} : left'[u] = left[u]
  BY <1>1, <1>2 DEF TypeOK
<1>5. p = "killNext" => left'[t] = {n \in ns : entry[n] # Absent}
  BY <1>1, <1>2 DEF TypeOK
<1>6. /\ alone' \in [Thread -> BOOLEAN]
      /\ query' \in [Thread -> [open : BOOLEAN, names : SUBSET Name, root : BOOLEAN,
                                left : SUBSET Name, attributes : Attributes,
                                listed : SUBSET Name, alone : BOOLEAN]]
      /\ \A u \in Thread \ {t} : alone'[u] => alone[u]
      /\ \A u \in Thread :
           SameQuery(query'[u], query[u]) /\ (query'[u].alone => query[u].alone)
  BY <1>1, <1>3, MeetsEffect
<1>7. Types'
  <2>1. begun' \in 0..MaxStatements
    BY <1>1, <1>3, SizeAssumption DEF TypeOK
  <2>2. pc' \in [Thread -> PC]
    BY <1>1, <1>3 DEF TypeOK, PC
  <2>3. names' \in [Thread -> SUBSET Name] /\ err' \in [Thread -> Errors]
    BY <1>1, <1>3 DEF TypeOK
  <2> QED BY <1>1, <1>3, <1>4, <1>6, <2>1, <2>2, <2>3 DEF Types, TypeOK, copying
<1>8. SparesOthers(t)
  BY <1>1, <1>3, <1>4, <1>6 DEF SparesOthers, Spares, TypeOK, copying
<1>9. Starting(t, ns)
  BY <1>3, <1>5, <1>8 DEF Starting, copying
<1> QED BY <1>7, <1>9, StartKeeps

------------------------------------------------------------------------------
\* A statement that has ended has nothing left to keep.
LEMMA EndedSound ==
  ASSUME NEW t \in Thread, pc'[t] = "idle", in'[t] = NoInode, out'[t] = NoInode
  PROVE  OpenInside(t)' /\ WorksOnNames(t)' /\ TransferSound(t)' /\ KillSound(t)'
BY DEF OpenInside, WorksOnNames, TransferSound, KillSound, Acts

\* One that goes on still works on its names.
LEMMA GoesOnNames ==
  ASSUME IInv, NEW t \in Thread, Acts(t), pc[t] # "killNext", pc'[t] # "killNext",
         UNCHANGED <<src, dst, names>>
  PROVE  WorksOnNames(t)' /\ KillSound(t)'
BY DEF IInv, Own, WorksOnNames, KillSound

\* A step that changes neither names nor data.
LEMMA QuietAct ==
  ASSUME IInv, Types', NEW t \in Thread, Acts(t), SparesOthers(t), pc'[t] # "dirNext",
         UNCHANGED <<src, dst, names, was, alone, query, entry, data>>,
         out'[t] \in {out[t], NoInode}, OpenInside(t)', WorksOnNames(t)',
         TransferSound(t)', KillSound(t)'
  PROVE  IInv'
<1>1. OneName'
  BY DEF IInv, OneName
<1>2. \A n \in names[t] : \E m \in names[t] : entry'[n] = entry[m]
  OBVIOUS
<1>3. Acting(t)
  BY <1>2 DEF Acting
<1> QED BY <1>1, <1>3, ActKeeps

LEMMA OpenInStep ==
  ASSUME IInv, NEW t \in Thread, OpenIn(t)
  PROVE  IInv'
<1>1. TypeOK /\ was \in [Thread -> Seq(Nat)] /\ Own(t)
  BY DEF IInv, Types
<1>2. /\ pc[t] = "copyIn" /\ Acts(t) /\ in[t] = NoInode /\ out[t] = NoInode
      /\ UNCHANGED <<src, dst, names, was, alone, query, entry, data, begun, fault,
                     out, size, br, buf, written, offset, left>>
  BY <1>1 DEF OpenIn, Continues, files, Acts, Own, OpenInside
<1>3. PICK p \in {"idle", "copyOut"}, e \in Errors, i \in Inode \union {Dir, NoInode} :
        /\ pc' = [pc EXCEPT ![t] = p] /\ err' = [err EXCEPT ![t] = e]
        /\ in' = [in EXCEPT ![t] = i]
        /\ p = "idle" => i = NoInode
        /\ p = "copyOut" => i = entry[src[t]] /\ entry[src[t]] # Absent
  <2>1. /\ entry[src[t]] \in Inode \union {Absent, Dir} /\ err[t] \in Errors
        /\ err' = err => err' = [err EXCEPT ![t] = err[t]]
        /\ in' = in => in' = [in EXCEPT ![t] = NoInode]
    BY <1>1, <1>2 DEF TypeOK
  <2>2. ASSUME NEW e \in Errors, Ends(t, e), UNCHANGED in
        PROVE  /\ pc' = [pc EXCEPT ![t] = "idle"] /\ err' = [err EXCEPT ![t] = e]
               /\ in' = [in EXCEPT ![t] = NoInode]
    BY <2>1, <2>2 DEF Ends, Goes, Throws
  <2>3. CASE /\ entry[src[t]] # Absent /\ in' = [in EXCEPT ![t] = entry[src[t]]]
             /\ Goes(t, "copyOut") /\ UNCHANGED err
    BY <2>1, <2>3 DEF Goes
  <2>4. CASE \E e \in Errors : Ends(t, e) /\ UNCHANGED in
    BY <2>2, <2>4
  <2> QED BY <2>3, <2>4 DEF OpenIn, Refused, Errors
<1>4. /\ pc'[t] = p /\ in'[t] = i
      /\ \A u \in Thread \ {t} : pc'[u] = pc[u] /\ in'[u] = in[u] /\ err'[u] = err[u]
      /\ pc' \in [Thread -> PC] /\ err' \in [Thread -> Errors]
      /\ in' \in [Thread -> Inode \union {Dir, NoInode}]
  BY <1>1, <1>3 DEF TypeOK, PC
<1>5. Types'
  BY <1>1, <1>2, <1>4 DEF Types, TypeOK
<1>6. SparesOthers(t)
  BY <1>2, <1>4 DEF SparesOthers, Spares, SameQuery
<1>7. CASE p = "idle"
  BY <1>2, <1>3, <1>4, <1>5, <1>6, <1>7, EndedSound, QuietAct
<1>8. CASE p = "copyOut"
  <2>1. OpenInside(t)'
    BY <1>1, <1>2, <1>3, <1>4, <1>8 DEF OpenInside, TypeOK
  <2>2. TransferSound(t)'
    BY <1>1, <1>2, <1>3, <1>4, <1>8 DEF TransferSound, SourceKept, Own, Acts
  <2> QED BY <1>2, <1>4, <1>5, <1>6, <1>8, <2>1, <2>2, GoesOnNames, QuietAct
<1> QED BY <1>7, <1>8

LEMMA NameSrcStep ==
  ASSUME IInv, NEW t \in Thread, NameSrc(t)
  PROVE  IInv'
<1>1. TypeOK /\ was \in [Thread -> Seq(Nat)] /\ Own(t)
  BY DEF IInv, Types
<1>2. /\ pc[t] = "nameSrc" /\ Acts(t) /\ in[t] = NoInode /\ out[t] = NoInode
      /\ UNCHANGED <<src, dst, names, was, alone, query, entry, data, begun, fault,
                     in, out, size, br, buf, written, offset, left>>
  BY <1>1 DEF NameSrc, Continues, files, copying, Acts, Own, OpenInside
<1>3. PICK p \in {"idle", "nameMove"}, e \in Errors :
        pc' = [pc EXCEPT ![t] = p] /\ err' = [err EXCEPT ![t] = e]
  <2>1. err[t] \in Errors /\ (err' = err => err' = [err EXCEPT ![t] = err[t]])
    BY <1>1 DEF TypeOK
  <2>2. CASE Goes(t, "nameMove") /\ UNCHANGED err
    BY <2>1, <2>2 DEF Goes
  <2>3. ASSUME NEW e \in Errors, Ends(t, e)
        PROVE  pc' = [pc EXCEPT ![t] = "idle"] /\ err' = [err EXCEPT ![t] = e]
    BY <2>3 DEF Ends, Goes, Throws
  <2>4. ERR_FILE_NOT_FOUND \in Errors /\ ERR_PERMISSION_DENIED \in Errors
    BY DEF Errors
  <2> QED BY <2>2, <2>3, <2>4 DEF NameSrc, Refused
<1>4. /\ pc'[t] = p
      /\ \A u \in Thread \ {t} : pc'[u] = pc[u] /\ err'[u] = err[u]
      /\ pc' \in [Thread -> PC] /\ err' \in [Thread -> Errors]
  BY <1>1, <1>3 DEF TypeOK, PC
<1>5. Types'
  BY <1>1, <1>2, <1>4 DEF Types, TypeOK
<1>6. SparesOthers(t)
  BY <1>2, <1>4 DEF SparesOthers, Spares, SameQuery
<1>7. CASE p = "idle"
  BY <1>2, <1>3, <1>4, <1>5, <1>6, <1>7, EndedSound, QuietAct
<1>8. CASE p = "nameMove"
  <2>1. OpenInside(t)'
    BY <1>2, <1>4, <1>8 DEF OpenInside
  <2>2. TransferSound(t)'
    BY <1>1, <1>2, <1>4, <1>8 DEF TransferSound, SourceKept, Own, Acts
  <2> QED BY <1>2, <1>4, <1>5, <1>6, <1>8, <2>1, <2>2, GoesOnNames, QuietAct
<1> QED BY <1>7, <1>8

LEMMA OpenOutStep ==
  ASSUME IInv, NEW t \in Thread, OpenOut(t)
  PROVE  IInv'
<1>1. TypeOK /\ was \in [Thread -> Seq(Nat)] /\ Own(t)
  BY DEF IInv, Types
<1>2. /\ pc[t] = "copyOut" /\ Acts(t) /\ in[t] \in Inode \union {Dir} /\ out[t] = NoInode
      /\ src[t] \in names[t] /\ dst[t] \in names[t] /\ names[t] \subseteq Name
      /\ UNCHANGED <<src, dst, names, was, alone, query, begun, fault, size, buf, written, left>>
  BY <1>1 DEF OpenOut, Continues, Acts, Own, OpenInside, WorksOnNames, TypeOK
<1>3. ASSUME NEW e \in Errors, Ends(t, e), in' = [in EXCEPT ![t] = NoInode],
             UNCHANGED <<files, out, br, offset>>
      PROVE  IInv'
  <2>1. /\ pc' = [pc EXCEPT ![t] = "idle"] /\ err' = [err EXCEPT ![t] = e]
        /\ in' = [in EXCEPT ![t] = NoInode] /\ out' = out
        /\ UNCHANGED <<entry, data, br, offset>>
    BY <1>3 DEF Ends, Goes, Throws, files
  <2>2. /\ pc'[t] = "idle" /\ in'[t] = NoInode /\ out'[t] = NoInode
        /\ \A u \in Thread \ {t} : pc'[u] = pc[u] /\ err'[u] = err[u] /\ in'[u] = in[u]
        /\ pc' \in [Thread -> PC] /\ err' \in [Thread -> Errors]
        /\ in' \in [Thread -> Inode \union {Dir, NoInode}]
    BY <1>1, <1>2, <2>1 DEF TypeOK, PC
  <2>3. Types'
    BY <1>1, <1>2, <2>1, <2>2 DEF Types, TypeOK
  <2>4. SparesOthers(t)
    BY <1>2, <2>1, <2>2 DEF SparesOthers, Spares, SameQuery
  <2> QED BY <1>2, <2>1, <2>2, <2>3, <2>4, EndedSound, QuietAct
<1>4. ASSUME NEW i \in IF entry[dst[t]] = Absent THEN Free ELSE {entry[dst[t]]} \ {Dir},
             entry' = [entry EXCEPT ![dst[t]] = i],
             data' = [data EXCEPT ![i] = <<>>],
             out' = [out EXCEPT ![t] = i],
             br' = [br EXCEPT ![t] = 0], offset' = [offset EXCEPT ![t] = 0],
             Goes(t, "copyStat"), UNCHANGED <<in, err>>
      PROVE  IInv'
  <2>1. i \in Inode /\ (i \in Free \/ i = entry[dst[t]])
    BY <1>1, <1>2 DEF Free, TypeOK
  <2>2. <<>> \in Seq(Nat) /\ Len(<<>>) = 0
    OBVIOUS
  <2>3. data' \in [Inode -> Seq(Nat)] /\ data'[i] = <<>>
        /\ \A j \in Inode : j # i => data'[j] = data[j]
    BY <1>1, <1>4, <2>1, <2>2 DEF TypeOK
  <2>6. /\ pc'[t] = "copyStat" /\ out'[t] = i /\ br'[t] = 0 /\ offset'[t] = 0
        /\ \A u \in Thread \ {t} :
             /\ pc'[u] = pc[u] /\ out'[u] = out[u]
             /\ br'[u] = br[u] /\ offset'[u] = offset[u]
        /\ pc' \in [Thread -> PC] /\ out' \in [Thread -> Inode \union {NoInode}]
        /\ br' \in [Thread -> Nat] /\ offset' \in [Thread -> Nat]
    BY <1>1, <1>4, <2>1 DEF Goes, TypeOK, PC
  <2>7. /\ entry' \in [Name -> Inode \union {Absent, Dir}] /\ entry'[dst[t]] = i
        /\ \A n \in Name \ {dst[t]} : entry'[n] = entry[n]
    BY <1>1, <1>2, <1>4, <2>1 DEF TypeOK
  <2>8. Types'
    BY <1>1, <1>2, <1>4, <2>3, <2>6, <2>7 DEF Types, TypeOK
  <2>9. SparesOthers(t)
    BY <1>2, <1>4, <2>6 DEF SparesOthers, Spares, SameQuery
  <2>10. \A n \in Name : n # dst[t] => entry[n] # i
    BY <1>2, <2>1 DEF Free, IInv, OneName
  <2>11. OneName'
    BY <2>7, <2>10 DEF IInv, OneName
  <2>12. Acting(t)
    <3>1. \A n \in names[t] :
            entry'[n] \in Free \/ \E m \in names[t] : entry'[n] = entry[m]
      BY <1>2, <2>1, <2>7
    <3>2. \E n \in names[t] : out'[t] = entry'[n]
      BY <1>2, <2>6, <2>7
    <3>3. \A n \in Name \ names[t] : entry'[n] = entry[n]
      BY <1>2, <2>7
    <3> QED BY <1>2, <2>3, <2>6, <2>9, <3>1, <3>2, <3>3 DEF Acting
  <2>13. OpenInside(t)'
    BY <1>2, <1>4, <2>1, <2>6 DEF OpenInside
  <2>14. TransferSound(t)'
    <3> SUFFICES ASSUME ~ShortWrites, alone[t], src[t] # dst[t], was[t] # <<>>
                 PROVE  SourceKept(t)' /\ Begun(t)'
      BY <1>2, <2>6 DEF TransferSound
    <3>1. SourceKept(t) /\ in[t] = entry[src[t]]
      BY <1>1, <1>2 DEF Own, TransferSound
    <3>2. entry'[src[t]] = entry[src[t]] /\ entry[src[t]] # i
      BY <1>2, <2>7, <2>10
    <3>3. SourceKept(t)'
      BY <1>2, <2>3, <3>1, <3>2 DEF SourceKept
    <3>4. Len(was[t]) \in Nat
      BY <1>1, LenProperties
    <3>5. Begun(t)'
      BY <1>2, <1>4, <2>1, <2>2, <2>3, <2>6, <2>7, <3>1, <3>2, <3>4 DEF Begun
    <3> QED BY <3>3, <3>5
  <2> QED BY <1>2, <2>6, <2>8, <2>11, <2>12, <2>13, <2>14, GoesOnNames, ActKeeps
<1> QED BY <1>3, <1>4 DEF OpenOut, Refused, Errors, Ends, Goes, Throws

LEMMA StatStep ==
  ASSUME IInv, NEW t \in Thread, Stat(t)
  PROVE  IInv'
<1>1. TypeOK /\ was \in [Thread -> Seq(Nat)] /\ Own(t)
  BY DEF IInv, Types
<1>2. /\ pc[t] = "copyStat" /\ Acts(t) /\ in[t] \in Inode \union {Dir} /\ out[t] \in Inode
      /\ UNCHANGED <<src, dst, names, was, alone, query, entry, data, begun, fault,
                     in, out, br, buf, written, offset, left, err>>
  BY <1>1 DEF Stat, Continues, files, Acts, Own, OpenInside
<1> DEFINE k == IF in[t] = Dir THEN 1 ELSE Len(data[in[t]])
<1>3. k \in Nat
  BY <1>1, <1>2, LenProperties DEF TypeOK
<1>4. size' = [size EXCEPT ![t] = k] /\ pc' = [pc EXCEPT ![t] = "copyRead"]
  BY DEF Stat, Goes
<1>5. in[t] # Dir => k = Len(data[in[t]])
  OBVIOUS
<1> HIDE DEF k
<1>6. /\ pc'[t] = "copyRead" /\ size'[t] = k
      /\ \A u \in Thread \ {t} : pc'[u] = pc[u] /\ size'[u] = size[u]
      /\ pc' \in [Thread -> PC] /\ size' \in [Thread -> Nat]
  BY <1>1, <1>3, <1>4 DEF TypeOK, PC
<1>7. Types'
  BY <1>1, <1>2, <1>6 DEF Types, TypeOK
<1>8. SparesOthers(t)
  BY <1>2, <1>6 DEF SparesOthers, Spares, SameQuery
<1>9. OpenInside(t)'
  BY <1>2, <1>6 DEF OpenInside
<1>10. TransferSound(t)'
  <2> SUFFICES ASSUME ~ShortWrites, alone[t], src[t] # dst[t], was[t] # <<>>
               PROVE  SourceKept(t)' /\ Begun(t)' /\ offset[t] = br[t]
    BY <1>2, <1>6 DEF TransferSound
  <2>1. SourceKept(t) /\ Begun(t) /\ offset[t] = br[t]
    BY <1>1, <1>2 DEF Own, TransferSound
  <2>2. in[t] # Dir /\ k = Len(was[t])
    BY <1>5, <2>1, DenotationAssumption DEF SourceKept, Begun
  <2>3. SourceKept(t)'
    BY <1>2, <2>1 DEF SourceKept
  <2>4. Begun(t)'
    BY <1>2, <1>6, <2>1, <2>2 DEF Begun
  <2> QED BY <2>1, <2>3, <2>4
<1> QED BY <1>2, <1>6, <1>7, <1>8, <1>9, <1>10, GoesOnNames, QuietAct

\* What the two files and the name move of one that ends with both closed.
LEMMA CloseStep ==
  ASSUME IInv, NEW t \in Thread, pc[t] \in {"copyRead", "copyWrite"}, Acts(t),
         NEW e \in Errors, CloseBoth(t, e),
         UNCHANGED <<src, dst, names, was, alone, query, begun, fault, entry, size, left>>,
         data' \in [Inode -> Seq(Nat)], \A i \in Inode \ {out[t]} : data'[i] = data[i],
         /\ br' \in [Thread -> Nat] /\ buf' \in [Thread -> Seq(Nat)]
         /\ written' \in [Thread -> Nat] /\ offset' \in [Thread -> Nat],
         \A u \in Thread \ {t} : br'[u] = br[u] /\ buf'[u] = buf[u] /\ offset'[u] = offset[u]
  PROVE  IInv'
<1>1. TypeOK /\ was \in [Thread -> Seq(Nat)]
  BY DEF IInv, Types
<1>2. /\ pc' = [pc EXCEPT ![t] = "idle"] /\ err' = [err EXCEPT ![t] = e]
      /\ in' = [in EXCEPT ![t] = NoInode] /\ out' = [out EXCEPT ![t] = NoInode]
  BY DEF CloseBoth, Ends, Goes, Throws
<1>3. /\ pc'[t] = "idle" /\ in'[t] = NoInode /\ out'[t] = NoInode
      /\ \A u \in Thread \ {t} :
           pc'[u] = pc[u] /\ err'[u] = err[u] /\ in'[u] = in[u] /\ out'[u] = out[u]
      /\ pc' \in [Thread -> PC] /\ err' \in [Thread -> Errors]
      /\ in' \in [Thread -> Inode \union {Dir, NoInode}]
      /\ out' \in [Thread -> Inode \union {NoInode}]
  BY <1>1, <1>2 DEF TypeOK, PC
<1>4. Types'
  BY <1>1, <1>3 DEF Types, TypeOK
<1>5. SparesOthers(t)
  BY <1>3 DEF SparesOthers, Spares, SameQuery
<1>6. OneName'
  BY DEF IInv, OneName
<1>7. Acting(t)
  <2>1. \A n \in names[t] : \E m \in names[t] : entry'[n] = entry[m]
    OBVIOUS
  <2> QED BY <1>3, <1>5, <2>1 DEF Acting
<1> QED BY <1>3, <1>4, <1>6, <1>7, EndedSound, ActKeeps

\* The part of a sequence of k elements that begins after the first a.
LEMMA Segment ==
  ASSUME NEW s \in Seq(Nat), NEW a \in Nat, NEW k \in Nat, k # 0 => a + k <= Len(s)
  PROVE  /\ SubSeq(s, a + 1, a + k) \in Seq(Nat)
         /\ Len(SubSeq(s, a + 1, a + k)) = k
         /\ \A j \in 1..k : SubSeq(s, a + 1, a + k)[j] = s[a + j]
<1> DEFINE m == a + 1
           n == a + k
<1>1. m \in Int /\ n \in Int /\ n - m + 1 = k /\ (m <= n <=> k # 0)
  OBVIOUS
<1>2. \A j \in m..n : s[j] \in Nat
  BY LenProperties
<1>3. \A j \in 1..k : m + j - 1 = a + j
  OBVIOUS
<1> HIDE DEF m, n
<1>4. /\ SubSeq(s, m, n) \in Seq(Nat)
      /\ Len(SubSeq(s, m, n)) = IF m <= n THEN n - m + 1 ELSE 0
      /\ \A j \in 1..(n - m + 1) : SubSeq(s, m, n)[j] = s[m + j - 1]
  BY <1>1, <1>2, SubSeqProperties
<1>5. Len(SubSeq(s, m, n)) = k
  BY <1>1, <1>4
<1>6. \A j \in 1..k : SubSeq(s, m, n)[j] = s[a + j]
  BY <1>1, <1>3, <1>4
<1> QED BY <1>4, <1>5, <1>6 DEF m, n

LEMMA ReadStep ==
  ASSUME IInv, NEW t \in Thread, Read(t)
  PROVE  IInv'
<1>1. TypeOK /\ was \in [Thread -> Seq(Nat)] /\ Own(t)
  BY DEF IInv, Types
<1>2. /\ pc[t] = "copyRead" /\ Acts(t) /\ in[t] \in Inode \union {Dir} /\ out[t] \in Inode
      /\ UNCHANGED <<src, dst, names, was, alone, query, begun, fault, left,
                     entry, data, size, offset>>
  BY <1>1 DEF Read, Continues, files, Acts, Own, OpenInside
<1>3. CASE /\ CloseBoth(t, ERR_PATH_FILE_ACCESS_ERROR)
           /\ UNCHANGED <<buf, br, written>>
  <2>1. ERR_PATH_FILE_ACCESS_ERROR \in Errors
    BY DEF Errors
  <2>2. /\ data' \in [Inode -> Seq(Nat)] /\ \A i \in Inode \ {out[t]} : data'[i] = data[i]
        /\ br' \in [Thread -> Nat] /\ buf' \in [Thread -> Seq(Nat)]
        /\ written' \in [Thread -> Nat] /\ offset' \in [Thread -> Nat]
        /\ \A u \in Thread \ {t} :
             br'[u] = br[u] /\ buf'[u] = buf[u] /\ offset'[u] = offset[u]
    BY <1>1, <1>2, <1>3 DEF TypeOK
  <2> QED BY <1>2, <1>3, <2>1, <2>2, CloseStep
<1> DEFINE rest == Len(data[in[t]]) - br[t]
           most == IF rest < BufferSize THEN rest ELSE BufferSize
<1>4. ASSUME in[t] # Dir, NEW k \in IF most <= 0 THEN {0} ELSE 1..most,
             buf' = [buf EXCEPT ![t] = SubSeq(data[in[t]], br[t] + 1, br[t] + k)],
             br' = [br EXCEPT ![t] = @ + k], written' = [written EXCEPT ![t] = 0],
             Goes(t, "copyWrite"), UNCHANGED <<in, out, err>>
      PROVE  IInv'
  <2> DEFINE source == data[in[t]]
             part == SubSeq(source, br[t] + 1, br[t] + k)
  <2>1. source \in Seq(Nat) /\ br[t] \in Nat /\ Len(source) \in Nat
        /\ \A j \in 1..Len(source) : source[j] \in Nat
    <3>1. source \in Seq(Nat) /\ br[t] \in Nat
      BY <1>1, <1>2, <1>4 DEF TypeOK
    <3> QED BY <3>1, LenProperties
  <2>2. k \in Nat /\ (k # 0 => br[t] + k <= Len(source))
    BY <2>1, <1>4, SizeAssumption
  <2> HIDE DEF source
  <2>4. /\ part \in Seq(Nat) /\ Len(part) = k
        /\ \A j \in 1..k : part[j] = source[br[t] + j]
    BY <2>1, <2>2, Segment
  <2>5. buf' = [buf EXCEPT ![t] = part]
    BY <1>4 DEF source
  <2> HIDE DEF part
  <2>6. /\ pc'[t] = "copyWrite" /\ buf'[t] = part /\ br'[t] = br[t] + k
        /\ \A u \in Thread \ {t} :
             pc'[u] = pc[u] /\ buf'[u] = buf[u] /\ br'[u] = br[u]
        /\ pc' \in [Thread -> PC] /\ buf' \in [Thread -> Seq(Nat)]
        /\ br' \in [Thread -> Nat] /\ written' \in [Thread -> Nat]
    <3>1. pc' = [pc EXCEPT ![t] = "copyWrite"] /\ br' = [br EXCEPT ![t] = br[t] + k]
          /\ written' = [written EXCEPT ![t] = 0]
      BY <1>4 DEF Goes
    <3>2. br[t] + k \in Nat /\ part \in Seq(Nat)
      BY <2>1, <2>2, <2>4
    <3>3. /\ pc \in [Thread -> PC] /\ buf \in [Thread -> Seq(Nat)]
          /\ br \in [Thread -> Nat] /\ written \in [Thread -> Nat]
      BY <1>1 DEF TypeOK
    <3>4. pc'[t] = "copyWrite" /\ \A u \in Thread \ {t} : pc'[u] = pc[u]
      BY <3>1, <3>3
    <3>5. pc' \in [Thread -> PC]
      BY <3>1, <3>3 DEF PC
    <3>6. buf'[t] = part /\ \A u \in Thread \ {t} : buf'[u] = buf[u]
      BY <2>5, <3>3
    <3>7. buf' \in [Thread -> Seq(Nat)]
      BY <2>5, <3>2, <3>3
    <3>8. /\ br'[t] = br[t] + k /\ \A u \in Thread \ {t} : br'[u] = br[u]
          /\ br' \in [Thread -> Nat] /\ written' \in [Thread -> Nat]
      BY <3>1, <3>2, <3>3
    <3> QED BY <3>4, <3>5, <3>6, <3>7, <3>8
  <2>7. Types'
    BY <1>1, <1>2, <1>4, <2>6 DEF Types, TypeOK
  <2>8. SparesOthers(t)
    BY <1>2, <1>4, <2>6 DEF SparesOthers, Spares, SameQuery
  <2>9. OpenInside(t)'
    BY <1>2, <1>4, <2>6 DEF OpenInside
  <2>10. TransferSound(t)'
    <3> SUFFICES ASSUME ~ShortWrites, alone[t], src[t] # dst[t], was[t] # <<>>
                 PROVE  SourceKept(t)' /\ Begun(t)' /\ Buffered(t)'
      BY <1>2, <2>6 DEF TransferSound
    <3>1. SourceKept(t) /\ Begun(t) /\ offset[t] = br[t]
      BY <1>1, <1>2 DEF Own, TransferSound
    <3>2. source = was[t]
      BY <3>1 DEF SourceKept, Begun, source
    <3>3. SourceKept(t)'
      BY <1>2, <3>1 DEF SourceKept
    <3>4. br'[t] <= Len(was[t]) /\ offset[t] <= br'[t]
      BY <2>1, <2>2, <2>6, <3>1, <3>2 DEF Begun
    <3>5. Begun(t)'
      BY <1>2, <1>4, <3>1, <3>4 DEF Begun
    <3>6. Buffered(t)'
      BY <1>2, <2>4, <2>6, <3>1, <3>2 DEF Buffered
    <3> QED BY <3>3, <3>5, <3>6
  <2> QED BY <1>2, <1>4, <2>6, <2>7, <2>8, <2>9, <2>10, GoesOnNames, QuietAct
<1> QED BY <1>3, <1>4 DEF Read

\* What a file holds after a write that begins at its end, or further on.
LEMMA WrittenAtEffect ==
  ASSUME NEW old \in Seq(Nat), NEW at \in Nat, NEW text \in Seq(Nat)
  PROVE  /\ WrittenAt(old, at, text) \in Seq(Nat)
         /\ Len(old) = at => /\ Len(WrittenAt(old, at, text)) = at + Len(text)
                             /\ \A k \in 1..at : WrittenAt(old, at, text)[k] = old[k]
                             /\ \A k \in 1..Len(text) :
                                  WrittenAt(old, at, text)[at + k] = text[k]
<1> DEFINE n == IF Len(old) > at + Len(text) THEN Len(old) ELSE at + Len(text)
           e(k) == IF k \in (at + 1)..(at + Len(text)) THEN text[k - at]
                   ELSE IF k <= Len(old) THEN old[k] ELSE 0
<1>1. /\ Len(old) \in Nat /\ \A k \in 1..Len(old) : old[k] \in Nat
      /\ Len(text) \in Nat /\ \A k \in 1..Len(text) : text[k] \in Nat
  BY LenProperties
<1>2. n \in Nat
  BY <1>1
<1>3. \A k \in 1..n : e(k) \in Nat
  <2> SUFFICES ASSUME NEW k \in 1..n PROVE e(k) \in Nat
    OBVIOUS
  <2>1. CASE k \in (at + 1)..(at + Len(text))
    <3>1. k - at \in 1..Len(text)
      BY <1>1, <2>1
    <3> QED BY <1>1, <2>1, <3>1
  <2>2. CASE k \notin (at + 1)..(at + Len(text))
    BY <1>1, <2>2
  <2> QED BY <2>1, <2>2
<1>4. WrittenAt(old, at, text) = [k \in 1..n |-> e(k)]
  BY DEF WrittenAt
<1>5. [k \in 1..n |-> e(k)] \in Seq(Nat)
  <2> HIDE DEF n, e
  <2> QED BY <1>2, <1>3, IsASeq
<1>6. ASSUME Len(old) = at
      PROVE  /\ Len(WrittenAt(old, at, text)) = at + Len(text)
             /\ \A k \in 1..at : WrittenAt(old, at, text)[k] = old[k]
             /\ \A k \in 1..Len(text) : WrittenAt(old, at, text)[at + k] = text[k]
  <2>1. n = at + Len(text)
    BY <1>1, <1>6
  <2>2. Len([k \in 1..n |-> e(k)]) = n
    <3> HIDE DEF n, e
    <3> QED BY <1>2
  <2>3. \A k \in 1..at : k \in 1..n /\ e(k) = old[k]
    BY <1>1, <1>6, <2>1
  <2>4. \A k \in 1..Len(text) : at + k \in 1..n /\ e(at + k) = text[k]
    <3> SUFFICES ASSUME NEW k \in 1..Len(text)
                 PROVE  at + k \in 1..n /\ e(at + k) = text[k]
      OBVIOUS
    <3>1. at + k \in (at + 1)..(at + Len(text)) /\ (at + k) - at = k
      BY <1>1
    <3>2. at + k \in 1..n
      BY <1>1, <2>1
    <3> QED BY <3>1, <3>2
  <2> HIDE DEF n, e
  <2> QED BY <1>4, <2>1, <2>2, <2>3, <2>4
<1> QED BY <1>4, <1>5, <1>6

\* write() takes k bytes: only the file written changes, and a transfer that is
\* alone has by it put all that was read there.
Puts(t, k) ==
  /\ k \in IF ShortWrites /\ buf[t] # <<>> THEN 1..Len(buf[t]) ELSE {Len(buf[t])}
  /\ data' = [data EXCEPT ![out[t]] = WrittenAt(@, offset[t], SubSeq(buf[t], 1, k))]

HasPut(t, k) ==
  /\ k \in Nat /\ (~ShortWrites => k = Len(buf[t]))
  /\ data' \in [Inode -> Seq(Nat)]
  /\ \A i \in Inode \ {out[t]} : data'[i] = data[i]
  /\ ~ShortWrites /\ alone[t] /\ src[t] # dst[t] /\ was[t] # <<>> =>
       /\ offset[t] + k = br[t] /\ entry[src[t]] # out[t]
       /\ Len(data'[out[t]]) = br[t]
       /\ \A j \in 1..br[t] : data'[out[t]][j] = was[t][j]

LEMMA WriteEffect ==
  ASSUME IInv, NEW t \in Thread, pc[t] = "copyWrite", NEW k, Puts(t, k)
  PROVE  HasPut(t, k)
<1>1. TypeOK /\ was \in [Thread -> Seq(Nat)] /\ Own(t)
  BY DEF IInv, Types
<1>2. /\ data \in [Inode -> Seq(Nat)] /\ out[t] \in Inode
      /\ data[out[t]] \in Seq(Nat) /\ buf[t] \in Seq(Nat) /\ Len(buf[t]) \in Nat
      /\ offset[t] \in Nat /\ br[t] \in Nat /\ src[t] \in Name /\ dst[t] \in Name
  BY <1>1, LenProperties DEF TypeOK, Own, OpenInside
<1> DEFINE text == SubSeq(buf[t], 1, k)
           new == WrittenAt(data[out[t]], offset[t], text)
<1>3. k \in Nat /\ k <= Len(buf[t]) /\ (~ShortWrites => k = Len(buf[t]))
  BY <1>2 DEF Puts
<1>4. /\ text \in Seq(Nat) /\ Len(text) = k
      /\ \A j \in 1..k : text[j] = buf[t][j]
  <2>1. /\ SubSeq(buf[t], 0 + 1, 0 + k) \in Seq(Nat)
        /\ Len(SubSeq(buf[t], 0 + 1, 0 + k)) = k
        /\ \A j \in 1..k : SubSeq(buf[t], 0 + 1, 0 + k)[j] = buf[t][0 + j]
    BY <1>2, <1>3, Segment
  <2>2. 0 + 1 = 1 /\ 0 + k = k /\ \A j \in 1..k : 0 + j = j
    BY <1>3
  <2> QED BY <2>1, <2>2
<1>5. data' = [data EXCEPT ![out[t]] = new]
  BY DEF Puts
<1> HIDE DEF text
<1>6. /\ new \in Seq(Nat)
      /\ Len(data[out[t]]) = offset[t] =>
           /\ Len(new) = offset[t] + k
           /\ \A j \in 1..offset[t] : new[j] = data[out[t]][j]
           /\ \A j \in 1..k : new[offset[t] + j] = text[j]
  <2>1. data[out[t]] \in Seq(Nat) /\ offset[t] \in Nat /\ text \in Seq(Nat)
    BY <1>2, <1>4
  <2>2. /\ new \in Seq(Nat)
        /\ Len(data[out[t]]) = offset[t] =>
             /\ Len(new) = offset[t] + Len(text)
             /\ \A j \in 1..offset[t] : new[j] = data[out[t]][j]
             /\ \A j \in 1..Len(text) : new[offset[t] + j] = text[j]
    BY <2>1, WrittenAtEffect
  <2> QED BY <1>4, <2>2
<1> HIDE DEF new
<1>7. /\ data' \in [Inode -> Seq(Nat)] /\ data'[out[t]] = new
      /\ \A i \in Inode \ {out[t]} : data'[i] = data[i]
  BY <1>2, <1>5, <1>6
<1>8. ASSUME ~ShortWrites, alone[t], src[t] # dst[t], was[t] # <<>>
      PROVE  /\ offset[t] + k = br[t] /\ entry[src[t]] # out[t]
             /\ Len(new) = br[t] /\ \A j \in 1..br[t] : new[j] = was[t][j]
  <2>1. SourceKept(t) /\ Begun(t) /\ Buffered(t)
    BY <1>1, <1>8 DEF Own, TransferSound, Acts
  <2>2. k = Len(buf[t]) /\ offset[t] + k = br[t]
    BY <1>3, <1>8, <2>1 DEF Buffered
  <2>3. entry[src[t]] # out[t]
    BY <1>2, <1>8, <2>1 DEF Begun, SourceKept, IInv, OneName
  <2>4. Len(data[out[t]]) = offset[t] /\ \A j \in 1..offset[t] : data[out[t]][j] = was[t][j]
    BY <2>1 DEF Begun
  <2>5. \A j \in 1..k : text[j] = was[t][offset[t] + j]
    BY <1>4, <2>1, <2>2 DEF Buffered
  <2>6. ASSUME NEW j \in 1..br[t] PROVE new[j] = was[t][j]
    <3>1. CASE j \in 1..offset[t]
      BY <1>6, <2>4, <3>1
    <3>2. CASE j \notin 1..offset[t]
      <4>1. PICK m \in 1..k : offset[t] + m = j
        <5>1. j - offset[t] \in 1..k /\ offset[t] + (j - offset[t]) = j
          BY <1>2, <1>3, <2>2, <3>2
        <5> QED BY <5>1
      <4>2. new[j] = text[m]
        BY <1>6, <2>4, <4>1
      <4> QED BY <2>5, <4>1, <4>2
    <3> QED BY <3>1, <3>2
  <2> QED BY <1>6, <2>2, <2>3, <2>4, <2>6
<1> QED BY <1>3, <1>7, <1>8 DEF HasPut

LEMMA WriteStep ==
  ASSUME IInv, NEW t \in Thread, Write(t)
  PROVE  IInv'
<1>1. TypeOK /\ was \in [Thread -> Seq(Nat)] /\ Own(t)
  BY DEF IInv, Types
<1>2. /\ pc[t] = "copyWrite" /\ Acts(t) /\ in[t] \in Inode \union {Dir} /\ out[t] \in Inode
      /\ UNCHANGED <<src, dst, names, was, alone, query, begun, fault, left,
                     entry, size, br, buf>>
  BY <1>1 DEF Write, Continues, Acts, Own, OpenInside
<1>3. /\ data \in [Inode -> Seq(Nat)] /\ offset \in [Thread -> Nat] /\ br \in [Thread -> Nat]
      /\ buf \in [Thread -> Seq(Nat)] /\ written \in [Thread -> Nat] /\ pc \in [Thread -> PC]
      /\ Len(buf[t]) \in Nat
  BY <1>1, <1>2, LenProperties DEF TypeOK
<1>4. CASE CloseBoth(t, ERR_PERMISSION_DENIED) /\ UNCHANGED <<data, offset, written>>
  <2>1. ERR_PERMISSION_DENIED \in Errors
    BY DEF Errors
  <2>2. /\ data' \in [Inode -> Seq(Nat)] /\ \A i \in Inode \ {out[t]} : data'[i] = data[i]
        /\ br' \in [Thread -> Nat] /\ buf' \in [Thread -> Seq(Nat)]
        /\ written' \in [Thread -> Nat] /\ offset' \in [Thread -> Nat]
        /\ \A u \in Thread \ {t} :
             br'[u] = br[u] /\ buf'[u] = buf[u] /\ offset'[u] = offset[u]
    BY <1>2, <1>3, <1>4
  <2> QED BY <1>2, <1>4, <2>1, <2>2, CloseStep
<1>5. ASSUME NEW k, Puts(t, k),
             offset' = [offset EXCEPT ![t] = @ + k],
             written' = [written EXCEPT ![t] = @ + k],
             \/ /\ written'[t] < Len(buf[t])
                /\ UNCHANGED <<pc, in, out, err>>
             \/ /\ written'[t] >= Len(buf[t])
                /\ Goes(t, "copyRead")
                /\ UNCHANGED <<in, out, err>>
             \/ CloseBoth(t, 0)
      PROVE  IInv'
  <2>1. /\ k \in Nat /\ (~ShortWrites => k = Len(buf[t]))
        /\ data' \in [Inode -> Seq(Nat)]
        /\ \A i \in Inode \ {out[t]} : data'[i] = data[i]
        /\ ~ShortWrites /\ alone[t] /\ src[t] # dst[t] /\ was[t] # <<>> =>
             /\ offset[t] + k = br[t] /\ entry[src[t]] # out[t]
             /\ Len(data'[out[t]]) = br[t]
             /\ \A j \in 1..br[t] : data'[out[t]][j] = was[t][j]
    BY <1>2, <1>5, WriteEffect DEF HasPut
  <2>2. /\ offset' \in [Thread -> Nat] /\ offset'[t] = offset[t] + k
        /\ \A u \in Thread \ {t} : offset'[u] = offset[u]
        /\ written' \in [Thread -> Nat] /\ written'[t] = written[t] + k
    BY <1>3, <1>5, <2>1
  <2>3. CASE CloseBoth(t, 0)
    <3>1. 0 \in Errors
      BY DEF Errors
    <3>2. /\ br' \in [Thread -> Nat] /\ buf' \in [Thread -> Seq(Nat)]
          /\ \A u \in Thread \ {t} :
               br'[u] = br[u] /\ buf'[u] = buf[u] /\ offset'[u] = offset[u]
      BY <1>2, <1>3, <2>2
    <3> QED BY <1>2, <2>1, <2>2, <2>3, <3>1, <3>2, CloseStep
  <2>4. ASSUME NEW p \in {"copyWrite", "copyRead"}, pc' = [pc EXCEPT ![t] = p],
               UNCHANGED <<in, out, err>>, p = "copyWrite" => written'[t] < Len(buf[t])
        PROVE  IInv'
    <3>1. pc'[t] = p /\ (\A u \in Thread \ {t} : pc'[u] = pc[u]) /\ pc' \in [Thread -> PC]
      BY <1>3, <2>4 DEF PC
    <3>2. Types'
      BY <1>1, <1>2, <2>1, <2>2, <2>4, <3>1 DEF Types, TypeOK
    <3>3. SparesOthers(t)
      BY <1>2, <2>2, <2>4, <3>1 DEF SparesOthers, Spares, SameQuery
    <3>4. OneName'
      BY <1>2 DEF IInv, OneName
    <3>5. Acting(t)
      <4>1. \A n \in names[t] : \E m \in names[t] : entry'[n] = entry[m]
        BY <1>2
      <4> QED BY <1>2, <2>1, <2>4, <3>1, <3>3, <4>1 DEF Acting
    <3>6. OpenInside(t)'
      BY <1>2, <2>4, <3>1 DEF OpenInside
    <3>7. TransferSound(t)'
      <4> SUFFICES ASSUME ~ShortWrites, alone[t], src[t] # dst[t], was[t] # <<>>
                   PROVE  /\ SourceKept(t)' /\ Begun(t)' /\ offset'[t] = br[t]
                          /\ p = "copyRead"
        BY <1>2, <3>1 DEF TransferSound
      <4>1. SourceKept(t) /\ Begun(t)
        BY <1>1, <1>2 DEF Own, TransferSound
      <4>2. p = "copyRead"
        <5>1. written'[t] >= Len(buf[t]) /\ written'[t] \in Nat
          BY <1>3, <2>1, <2>2
        <5> QED BY <1>3, <2>4, <5>1
      <4>3. SourceKept(t)'
        BY <1>2, <2>1, <4>1 DEF SourceKept
      <4>4. br[t] \in Nat /\ offset'[t] = br[t] /\ offset'[t] <= br[t]
        BY <1>3, <2>1, <2>2
      <4>5. Begun(t)'
        BY <1>2, <2>1, <2>4, <4>1, <4>4 DEF Begun
      <4> QED BY <4>2, <4>3, <4>4, <4>5
    <3>8. WorksOnNames(t)' /\ KillSound(t)'
      BY <1>2, <3>1, GoesOnNames
    <3> QED BY <3>2, <3>4, <3>5, <3>6, <3>7, <3>8, ActKeeps
  <2>5. CASE written'[t] < Len(buf[t]) /\ UNCHANGED <<pc, in, out, err>>
    <3>1. pc' = [pc EXCEPT ![t] = "copyWrite"]
      BY <1>2, <1>3, <2>5
    <3> QED BY <2>4, <2>5, <3>1
  <2>6. CASE Goes(t, "copyRead") /\ UNCHANGED <<in, out, err>>
    BY <2>4, <2>6 DEF Goes
  <2> QED BY <1>5, <2>3, <2>5, <2>6
<1> QED BY <1>4, <1>5 DEF Write, Puts

MovesTo(t) == Moved(src[t], dst[t]) /\ src[t] # dst[t]

LEMMA NameMoveStep ==
  ASSUME IInv, NEW t \in Thread, NameMove(t)
  PROVE  IInv'
<1>1. TypeOK /\ was \in [Thread -> Seq(Nat)] /\ Own(t)
  BY DEF IInv, Types
<1>2. /\ pc[t] = "nameMove" /\ Acts(t) /\ in[t] = NoInode /\ out[t] = NoInode
      /\ src[t] \in names[t] /\ dst[t] \in names[t] /\ names[t] \subseteq Name
      /\ UNCHANGED <<src, dst, names, was, alone, query, begun, fault, left,
                     data, in, out, size, br, buf, written, offset>>
  BY <1>1 DEF NameMove, Continues, copying, Acts, Own, OpenInside, WorksOnNames, TypeOK
<1>3. PICK p \in {"idle", "copyIn"}, e \in Errors :
        /\ pc' = [pc EXCEPT ![t] = p] /\ err' = [err EXCEPT ![t] = e]
        /\ p = "copyIn" => entry' = entry
        /\ entry' = entry \/ MovesTo(t)
  <2>1. err[t] \in Errors /\ (err' = err => err' = [err EXCEPT ![t] = err[t]])
    BY <1>1 DEF TypeOK
  <2>2. CASE Goes(t, "copyIn") /\ UNCHANGED <<entry, err>>
    <3>1. /\ pc' = [pc EXCEPT ![t] = "copyIn"] /\ err' = [err EXCEPT ![t] = err[t]]
          /\ entry' = entry
      BY <2>1, <2>2 DEF Goes
    <3> QED BY <2>1, <3>1
  <2>3. ASSUME NEW e \in Errors, Ends(t, e),
               entry' = entry \/ MovesTo(t)
        PROVE  /\ pc' = [pc EXCEPT ![t] = "idle"] /\ err' = [err EXCEPT ![t] = e]
               /\ entry' = entry \/ MovesTo(t)
    BY <2>3 DEF Ends, Goes, Throws
  <2>4. CASE \E e \in Errors : Ends(t, e) /\ (entry' = entry \/ MovesTo(t))
    BY <2>3, <2>4
  <2>5. \/ Goes(t, "copyIn") /\ UNCHANGED <<entry, err>>
        \/ \E e \in {0, ERR_FILE_NOT_FOUND, ERR_PERMISSION_DENIED, ERR_PATH_FILE_ACCESS_ERROR,
                   ERR_RENAME_ACROSS_DISKS} :
             Ends(t, e) /\ (entry' = entry \/ MovesTo(t))
    BY DEF NameMove, Refused, MovesTo
  <2>6. {0, ERR_FILE_NOT_FOUND, ERR_PERMISSION_DENIED, ERR_PATH_FILE_ACCESS_ERROR,
         ERR_RENAME_ACROSS_DISKS} \subseteq Errors
    BY DEF Errors
  <2> QED BY <2>2, <2>4, <2>5, <2>6
<1>4. /\ pc'[t] = p
      /\ \A u \in Thread \ {t} : pc'[u] = pc[u] /\ err'[u] = err[u]
      /\ pc' \in [Thread -> PC] /\ err' \in [Thread -> Errors]
  BY <1>1, <1>3 DEF TypeOK, PC
<1>5. /\ entry' \in [Name -> Inode \union {Absent, Dir}]
      /\ \A n \in Name \ {src[t], dst[t]} : entry'[n] = entry[n]
      /\ \/ \A n \in Name : entry'[n] = entry[n]
         \/ entry'[dst[t]] = entry[src[t]] /\ entry'[src[t]] = Absent /\ src[t] # dst[t]
  BY <1>1, <1>2, <1>3 DEF TypeOK, MovesTo, Moved
<1>6. Types'
  BY <1>1, <1>2, <1>4, <1>5 DEF Types, TypeOK
<1>7. SparesOthers(t)
  BY <1>2, <1>4 DEF SparesOthers, Spares, SameQuery
<1>8. OneName'
  BY <1>2, <1>5, DenotationAssumption DEF IInv, OneName
<1>9. Acting(t)
  <2>1. \A n \in names[t] : entry'[n] \notin Inode \/ \E m \in names[t] : entry'[n] = entry[m]
    BY <1>2, <1>5, DenotationAssumption
  <2>2. \A n \in Name \ names[t] : entry'[n] = entry[n]
    BY <1>2, <1>5
  <2> QED BY <1>2, <1>4, <1>7, <2>1, <2>2 DEF Acting
<1>10. CASE p = "idle"
  BY <1>2, <1>4, <1>6, <1>8, <1>9, <1>10, EndedSound, ActKeeps
<1>11. CASE p = "copyIn"
  <2>1. OpenInside(t)'
    BY <1>2, <1>4, <1>11 DEF OpenInside
  <2>2. TransferSound(t)'
    BY <1>1, <1>2, <1>3, <1>4, <1>11 DEF TransferSound, SourceKept, Own, Acts
  <2> QED BY <1>2, <1>4, <1>6, <1>8, <1>9, <1>11, <2>1, <2>2, GoesOnNames, ActKeeps
<1> QED BY <1>10, <1>11

\* The names of n go.
LEMMA UnlinkKeeps ==
  ASSUME IInv, NEW t \in Thread, Acts(t), NEW n \in names[t],
         Unlink(n) \/ UNCHANGED entry, n \in Name
  PROVE  /\ entry' \in [Name -> Inode \union {Absent, Dir}] /\ OneName'
         /\ \A m \in Name \ {n} : entry'[m] = entry[m]
         /\ \A m \in names[t] :
              entry'[m] \notin Inode \/ \E o \in names[t] : entry'[m] = entry[o]
         /\ Unlink(n) => entry'[n] = Absent
<1>1. /\ entry \in [Name -> Inode \union {Absent, Dir}] /\ OneName
      /\ names[t] \subseteq Name
  BY DEF IInv, Types, TypeOK
<1>2. CASE UNCHANGED entry
  BY <1>1, <1>2, DenotationAssumption DEF OneName, Unlink
<1>3. CASE Unlink(n)
  <2>1. /\ entry' \in [Name -> Inode \union {Absent, Dir}] /\ entry'[n] = Absent
        /\ \A m \in Name \ {n} : entry'[m] = entry[m]
    BY <1>1, <1>3 DEF Unlink
  <2>2. OneName'
    BY <1>1, <2>1, DenotationAssumption DEF OneName
  <2>3. \A m \in names[t] :
          entry'[m] \notin Inode \/ \E o \in names[t] : entry'[m] = entry[o]
    BY <1>1, <2>1, DenotationAssumption
  <2> QED BY <2>1, <2>2, <2>3
<1> QED BY <1>2, <1>3

LEMMA KillUnlinkStep ==
  ASSUME IInv, NEW t \in Thread, KillUnlink(t)
  PROVE  IInv'
<1>1. TypeOK /\ was \in [Thread -> Seq(Nat)] /\ Own(t)
  BY DEF IInv, Types
<1>2. /\ pc[t] = "killStat" /\ Acts(t) /\ in[t] = NoInode /\ out[t] = NoInode
      /\ src[t] \in names[t] /\ src[t] \in Name /\ names[t] \subseteq Name
      /\ UNCHANGED <<src, dst, names, was, alone, query, begun, fault, left,
                     data, in, out, size, br, buf, written, offset>>
  BY <1>1 DEF KillUnlink, Continues, copying, Acts, Own, OpenInside, WorksOnNames, TypeOK
<1>3. PICK e \in Errors :
        /\ pc' = [pc EXCEPT ![t] = "idle"] /\ err' = [err EXCEPT ![t] = e]
  BY DEF KillUnlink, Ends, Goes, Throws, UnlinkError, Errors
<1>4. /\ pc'[t] = "idle"
      /\ \A u \in Thread \ {t} : pc'[u] = pc[u] /\ err'[u] = err[u]
      /\ pc' \in [Thread -> PC] /\ err' \in [Thread -> Errors]
  BY <1>1, <1>3 DEF TypeOK, PC
<1>5. /\ entry' \in [Name -> Inode \union {Absent, Dir}] /\ OneName'
      /\ \A m \in Name \ {src[t]} : entry'[m] = entry[m]
      /\ \A m \in names[t] :
           entry'[m] \notin Inode \/ \E o \in names[t] : entry'[m] = entry[o]
  BY <1>2, UnlinkKeeps DEF KillUnlink
<1>6. Types'
  BY <1>1, <1>2, <1>4, <1>5 DEF Types, TypeOK
<1>7. SparesOthers(t)
  BY <1>2, <1>4 DEF SparesOthers, Spares, SameQuery
<1>8. Acting(t)
  BY <1>2, <1>4, <1>5, <1>7 DEF Acting
<1> QED BY <1>2, <1>4, <1>5, <1>6, <1>8, EndedSound, ActKeeps

LEMMA KillNextStep ==
  ASSUME IInv, NEW t \in Thread, KillNext(t)
  PROVE  IInv'
<1>1. TypeOK /\ was \in [Thread -> Seq(Nat)] /\ Own(t)
  BY DEF IInv, Types
<1>2. /\ pc[t] = "killNext" /\ Acts(t) /\ in[t] = NoInode /\ out[t] = NoInode
      /\ left[t] \subseteq names[t] /\ names[t] \subseteq Name
      /\ UNCHANGED <<src, dst, names, was, alone, query, begun, fault, pc,
                     data, in, out, size, br, buf, written, offset>>
  BY <1>1 DEF KillNext, Continues, copying, Acts, Own, OpenInside, WorksOnNames, TypeOK
<1>3. PICK n \in left[t] :
        /\ left' = [left EXCEPT ![t] = @ \ {n}]
        /\ \/ entry[n] = Dir /\ UNCHANGED <<entry, err>>
           \/ Unlink(n) /\ UNCHANGED err
           \/ Throws(t, UnlinkError(n)) /\ UNCHANGED entry
  BY DEF KillNext
<1>4. n \in names[t] /\ n \in Name
  BY <1>2
<1>5. /\ entry' \in [Name -> Inode \union {Absent, Dir}] /\ OneName'
      /\ \A m \in Name \ {n} : entry'[m] = entry[m]
      /\ \A m \in names[t] :
           entry'[m] \notin Inode \/ \E o \in names[t] : entry'[m] = entry[o]
      /\ Unlink(n) => entry'[n] = Absent
  BY <1>2, <1>3, <1>4, UnlinkKeeps
<1>6. UnlinkError(n) \in Errors \ {0}
  BY DEF UnlinkError, Errors, ERR_FILE_NOT_FOUND, ERR_PERMISSION_DENIED
<1>7. /\ err' \in [Thread -> Errors] /\ \A u \in Thread \ {t} : err'[u] = err[u]
      /\ err'[t] = 0 => err[t] = 0 /\ ((entry[n] = Dir /\ entry' = entry) \/ Unlink(n))
  <2>1. CASE Throws(t, UnlinkError(n))
    <3>1. err' = [err EXCEPT ![t] = UnlinkError(n)] /\ err \in [Thread -> Errors]
      BY <1>1, <2>1 DEF Throws, TypeOK
    <3> QED BY <1>6, <3>1
  <2>2. CASE err' = err /\ ((entry[n] = Dir /\ entry' = entry) \/ Unlink(n))
    BY <1>1, <2>2 DEF TypeOK
  <2> QED BY <1>3, <2>1, <2>2
<1>8. /\ left' \in [Thread -> SUBSET Name] /\ \A u \in Thread \ {t} : left'[u] = left[u]
      /\ left'[t] = left[t] \ {n}
  BY <1>1, <1>3 DEF TypeOK
<1>9. Types'
  BY <1>1, <1>2, <1>5, <1>7, <1>8 DEF Types, TypeOK
<1>10. SparesOthers(t)
  BY <1>2, <1>7, <1>8 DEF SparesOthers, Spares, SameQuery
<1>11. Acting(t)
  <2>1. \A m \in Name \ names[t] : entry'[m] = entry[m]
    BY <1>4, <1>5
  <2> QED BY <1>2, <1>5, <1>10, <2>1 DEF Acting
<1>12. OpenInside(t)' /\ WorksOnNames(t)' /\ TransferSound(t)'
  BY <1>2, <1>8 DEF OpenInside, WorksOnNames, TransferSound, Acts
<1>13. KillSound(t)'
  <2> SUFFICES ASSUME alone[t], err'[t] = 0, NEW m \in names[t] \ left'[t]
               PROVE  entry'[m] \notin Inode
    BY <1>2 DEF KillSound
  <2>1. \A o \in names[t] \ left[t] : entry[o] \notin Inode
    BY <1>1, <1>2, <1>7 DEF Own, KillSound
  <2>2. CASE m = n
    BY <1>5, <1>7, <2>2, DenotationAssumption
  <2>3. CASE m # n
    BY <1>2, <1>5, <1>8, <2>1, <2>3
  <2> QED BY <2>2, <2>3
<1> QED BY <1>5, <1>9, <1>11, <1>12, <1>13, ActKeeps

LEMMA KillEndStep ==
  ASSUME IInv, NEW t \in Thread, KillEnd(t)
  PROVE  IInv'
<1>1. TypeOK /\ was \in [Thread -> Seq(Nat)] /\ Own(t)
  BY DEF IInv, Types
<1>2. /\ pc[t] = "killNext" /\ Acts(t) /\ in[t] = NoInode /\ out[t] = NoInode
      /\ UNCHANGED <<src, dst, names, was, alone, query, begun, entry, err, left,
                     data, in, out, size, br, buf, written, offset>>
  BY <1>1 DEF KillEnd, Continues, copying, files, Acts, Own, OpenInside
<1>3. PICK p \in {"idle", "killNext"} :
        pc' = [pc EXCEPT ![t] = p] /\ (p = "idle" => fault' = fault) /\ fault' \in BOOLEAN
  <2>1. pc' = pc => pc' = [pc EXCEPT ![t] = "killNext"]
    BY <1>1, <1>2 DEF TypeOK
  <2>2. fault \in BOOLEAN
    BY <1>1 DEF TypeOK
  <2> QED BY <2>1, <2>2 DEF KillEnd, Goes
<1>4. /\ pc'[t] = p /\ \A u \in Thread \ {t} : pc'[u] = pc[u]
      /\ pc' \in [Thread -> PC]
  BY <1>1, <1>3 DEF TypeOK, PC
<1>5. Types'
  BY <1>1, <1>2, <1>3, <1>4 DEF Types, TypeOK
<1>6. SparesOthers(t)
  BY <1>2, <1>4 DEF SparesOthers, Spares, SameQuery
<1>7. CASE p = "idle"
  BY <1>2, <1>4, <1>5, <1>6, <1>7, EndedSound, QuietAct
<1>8. CASE p = "killNext"
  <2>1. OpenInside(t)' /\ WorksOnNames(t)' /\ TransferSound(t)' /\ KillSound(t)'
    BY <1>1, <1>2, <1>4, <1>8
       DEF Own, OpenInside, WorksOnNames, TransferSound, KillSound, Acts
  <2> QED BY <1>2, <1>4, <1>5, <1>6, <1>8, <2>1, QuietAct
<1> QED BY <1>7, <1>8

------------------------------------------------------------------------------
\* DIR$ makes q of its query.
LEMMA AskCase ==
  ASSUME IInv, NEW t \in Thread, pc[t] \in {"idle", "dirNext"},
         NEW p \in {"idle", "dirNext"}, pc' = [pc EXCEPT ![t] = p],
         NEW q \in Query, query' = [query EXCEPT ![t] = q],
         begun' \in 0..MaxStatements, fault' \in BOOLEAN,
         UNCHANGED <<entry, data, src, dst, names, in, out, size, br, buf, written,
                     offset, left, err, was, alone>>,
         Faithful(q), \A u \in Thread : q.alone /\ Acts(u) => names[u] \intersect q.names = {}
  PROVE  IInv'
<1>1. TypeOK /\ was \in [Thread -> Seq(Nat)] /\ query \in [Thread -> Query]
  BY DEF IInv, Types, TypeOK, Query
<1>2. /\ pc'[t] = p /\ (\A u \in Thread \ {t} : pc'[u] = pc[u]) /\ pc' \in [Thread -> PC]
      /\ query'[t] = q /\ (\A u \in Thread \ {t} : query'[u] = query[u])
      /\ query' \in [Thread -> Query]
  BY <1>1 DEF TypeOK, PC
<1>3. Types'
  BY <1>1, <1>2 DEF Types, TypeOK, Query
<1>4. SparesOthers(t)
  BY <1>2 DEF SparesOthers, Spares, SameQuery
<1>5. Asking(t)
  BY <1>2, <1>4 DEF Asking, Acts, files
<1>6. QuerySound(t)'
  <2>1. \A n \in Name : Lists(q, n)' <=> Lists(q, n)
    BY DEF Lists
  <2>2. {n \in q.names \ q.left : Lists(q, n)'} = {n \in q.names \ q.left : Lists(q, n)}
    BY <2>1 DEF Query
  <2>3. Faithful(q)'
    BY <2>2 DEF Faithful
  <2> QED BY <1>2, <2>3 DEF QuerySound, Faithful, Lists
<1> QED BY <1>2, <1>3, <1>5, <1>6, AskKeeps

LEMMA NoQueryFaithful ==
  NoQuery \in Query /\ Faithful(NoQuery) /\ NoQuery.names = {}
BY DEF NoQuery, Query, Attributes, Faithful

LEMMA DirFirstStep ==
  ASSUME IInv, NEW t \in Thread, NEW ns \in SUBSET Name, NEW isRoot \in BOOLEAN,
         NEW attrs \in Attributes, DirFirst(t, ns, isRoot, attrs)
  PROVE  IInv'
<1>1. TypeOK
  BY DEF IInv, Types
<1>2. /\ pc[t] = "idle" /\ fault' = fault /\ fault \in BOOLEAN /\ begun' \in 0..MaxStatements
      /\ UNCHANGED <<entry, data, src, dst, names, in, out, size, br, buf, written,
                     offset, left, err, was, alone>>
  BY <1>1, SizeAssumption DEF DirFirst, Enters, Busy, files, copying, TypeOK
<1> DEFINE apart == \A u \in Thread : NamesOf(u) \intersect ns = {}
           there == {n \in ns : entry[n] # Absent}
           q == [open |-> TRUE, names |-> ns, root |-> isRoot, attributes |-> attrs,
                 left |-> there, listed |-> {}, alone |-> apart]
<1>3. CASE query' = [query EXCEPT ![t] = q] /\ Goes(t, "dirNext")
  <2>1. there \in SUBSET Name /\ apart \in BOOLEAN
    OBVIOUS
  <2>2. apart => \A u \in Thread : Acts(u) => names[u] \intersect ns = {}
    BY DEF NamesOf, Busy, Acts
  <2>3. there \subseteq ns /\ \A n \in there : entry[n] # Absent
    OBVIOUS
  <2>4. \A n \in ns \ there : entry[n] = Absent
    OBVIOUS
  <2> HIDE DEF apart, there
  <2>5. q \in Query
    BY <2>1 DEF Query
  <2>6. /\ q.names = ns /\ q.left = there /\ q.listed = {} /\ q.alone = apart
    OBVIOUS
  <2> HIDE DEF q
  <2>7. Faithful(q)
    <3>1. {n \in ns \ there : Lists(q, n)} = {}
      BY <2>4 DEF Lists
    <3> QED BY <2>3, <2>6, <3>1 DEF Faithful
  <2> QED BY <1>2, <1>3, <2>2, <2>5, <2>6, <2>7, AskCase DEF Goes
<1>4. CASE query' = [query EXCEPT ![t] = NoQuery] /\ UNCHANGED pc
  <2>1. pc' = [pc EXCEPT ![t] = "idle"]
    BY <1>1, <1>2, <1>4 DEF TypeOK
  <2> QED BY <1>2, <1>4, <2>1, NoQueryFaithful, AskCase
<1> QED BY <1>3, <1>4 DEF DirFirst

LEMMA DirAgainStep ==
  ASSUME IInv, NEW t \in Thread, DirAgain(t) \/ CleanUp(t)
  PROVE  IInv'
<1>1. TypeOK /\ QuerySound(t) /\ query \in [Thread -> Query] /\ query[t] \in Query
  BY DEF IInv, Types, Own, TypeOK, Query
<1>2. /\ pc[t] = "idle" /\ fault' = fault /\ fault \in BOOLEAN /\ begun' \in 0..MaxStatements
      /\ UNCHANGED <<entry, data, src, dst, names, in, out, size, br, buf, written,
                     offset, left, err, was, alone>>
  BY <1>1, SizeAssumption DEF DirAgain, CleanUp, Enters, Busy, files, copying, TypeOK
<1>3. CASE DirAgain(t)
  <2>1. query' = [query EXCEPT ![t] = query[t]] /\ pc' = [pc EXCEPT ![t] = "dirNext"]
    BY <1>1, <1>3 DEF DirAgain, Goes
  <2>2. \A u \in Thread : query[t].alone /\ Acts(u) => names[u] \intersect query[t].names = {}
    BY DEF IInv, QueriesApart
  <2> QED BY <1>1, <1>2, <2>1, <2>2, AskCase DEF QuerySound
<1>4. CASE CleanUp(t)
  <2>1. query' = [query EXCEPT ![t] = NoQuery] /\ pc' = [pc EXCEPT ![t] = "idle"]
    BY <1>1, <1>2, <1>4 DEF CleanUp, TypeOK
  <2> QED BY <1>2, <2>1, NoQueryFaithful, AskCase
<1> QED BY <1>3, <1>4

LEMMA DirNextStep ==
  ASSUME IInv, NEW t \in Thread, DirNext(t)
  PROVE  IInv'
<1>1. TypeOK /\ QuerySound(t) /\ query \in [Thread -> Query] /\ query[t] \in Query
  BY DEF IInv, Types, Own, TypeOK, Query
<1>2. /\ pc[t] = "dirNext" /\ fault' = fault /\ fault \in BOOLEAN /\ begun' \in 0..MaxStatements
      /\ UNCHANGED <<entry, data, src, dst, names, in, out, size, br, buf, written,
                     offset, left, err, was, alone>>
  BY <1>1 DEF DirNext, Continues, files, copying, TypeOK
<1>3. PICK n \in query[t].left : DirStep(t, n)
  BY DEF DirNext
<1> DEFINE l == query[t].left \ {n}
           s == query[t].listed \union (IF Qualifies(query[t], n) THEN {n} ELSE {})
           q == [query[t] EXCEPT !.left = l, !.listed = s]
<1>4. query' = [query EXCEPT ![t] = q]
  BY <1>3 DEF DirStep
<1>5. n \in Name /\ l \in SUBSET Name /\ s \in SUBSET Name
  BY <1>1 DEF Query
<1>6. q.alone => s = {m \in query[t].names \ l : Lists(query[t], m)} /\ l \subseteq query[t].names
  <2> SUFFICES ASSUME query[t].alone
               PROVE  /\ s = {m \in query[t].names \ l : Lists(query[t], m)}
                      /\ l \subseteq query[t].names
    BY <1>1 DEF Query
  <2>1. /\ query[t].left \subseteq query[t].names
        /\ entry[n] # Absent
        /\ query[t].listed = {m \in query[t].names \ query[t].left : Lists(query[t], m)}
    BY <1>1 DEF QuerySound, Faithful
  <2>2. Qualifies(query[t], n) <=> Lists(query[t], n)
    BY <1>1, <2>1 DEF Qualifies, Fits, Lists, Query
  <2> QED BY <2>1, <2>2
<1>7. q.alone => \A m \in l : entry[m] # Absent
  BY <1>1 DEF Query, QuerySound, Faithful
<1>8. \A u \in Thread : query[t].alone /\ Acts(u) => names[u] \intersect query[t].names = {}
  BY DEF IInv, QueriesApart
<1> HIDE DEF l, s
<1>9. /\ q \in Query /\ q.left = l /\ q.listed = s /\ q.names = query[t].names
      /\ q.root = query[t].root /\ q.attributes = query[t].attributes
      /\ q.alone = query[t].alone
  BY <1>1, <1>5 DEF Query
<1> HIDE DEF q
<1>10. Faithful(q)
  <2>1. \A m \in query[t].names : Lists(q, m) <=> Lists(query[t], m)
    BY <1>9 DEF Lists
  <2>2. {m \in query[t].names \ l : Lists(q, m)}
          = {m \in query[t].names \ l : Lists(query[t], m)}
    BY <2>1
  <2> QED BY <1>6, <1>7, <1>9, <2>2 DEF Faithful
<1>11. pc' = [pc EXCEPT ![t] = "idle"] \/ pc' = [pc EXCEPT ![t] = "dirNext"]
  BY <1>1, <1>2, <1>3 DEF DirStep, Goes, TypeOK
<1> QED BY <1>2, <1>4, <1>8, <1>9, <1>10, <1>11, AskCase

LEMMA DirEndStep ==
  ASSUME IInv, NEW t \in Thread, DirEnd(t)
  PROVE  IInv'
<1>1. TypeOK /\ QuerySound(t) /\ query \in [Thread -> Query] /\ query[t] \in Query
  BY DEF IInv, Types, Own, TypeOK, Query
<1>2. /\ pc[t] = "dirNext" /\ fault \in BOOLEAN /\ begun' \in 0..MaxStatements
      /\ UNCHANGED <<entry, data, src, dst, names, in, out, size, br, buf, written,
                     offset, left, err, was, alone>>
  BY <1>1 DEF DirEnd, Continues, files, copying, TypeOK
<1>3. \A u \in Thread : query[t].alone /\ Acts(u) => names[u] \intersect query[t].names = {}
  BY DEF IInv, QueriesApart
<1>4. CASE /\ query' = [query EXCEPT ![t].open = FALSE]
           /\ Goes(t, "idle") /\ UNCHANGED fault
  <2> DEFINE q == [query[t] EXCEPT !.open = FALSE]
  <2>1. query' = [query EXCEPT ![t] = q]
    BY <1>4
  <2>2. /\ q \in Query /\ q.left = query[t].left /\ q.listed = query[t].listed
        /\ q.names = query[t].names /\ q.root = query[t].root
        /\ q.attributes = query[t].attributes /\ q.alone = query[t].alone
    BY <1>1 DEF Query
  <2> HIDE DEF q
  <2>3. Faithful(q)
    <3>1. \A m \in query[t].names : Lists(q, m) <=> Lists(query[t], m)
      BY <2>2 DEF Lists
    <3>2. {m \in query[t].names \ query[t].left : Lists(q, m)}
            = {m \in query[t].names \ query[t].left : Lists(query[t], m)}
      BY <3>1
    <3> QED BY <1>1, <2>2, <3>2 DEF QuerySound, Faithful
  <2> QED BY <1>2, <1>3, <1>4, <2>1, <2>2, <2>3, AskCase DEF Goes
<1>5. CASE fault' = TRUE /\ UNCHANGED <<query, pc>>
  <2>1. query' = [query EXCEPT ![t] = query[t]] /\ pc' = [pc EXCEPT ![t] = "dirNext"]
    BY <1>1, <1>2, <1>5 DEF TypeOK
  <2> QED BY <1>1, <1>2, <1>3, <1>5, <2>1, AskCase DEF QuerySound
<1> QED BY <1>4, <1>5 DEF DirEnd

LEMMA StutterStep == IInv /\ UNCHANGED vars => IInv'
<1> SUFFICES ASSUME IInv, UNCHANGED vars PROVE IInv'
  OBVIOUS
<1>1. Types'
  BY DEF IInv, Types, TypeOK, vars
<1>2. OneName' /\ Apart' /\ QueriesApart'
  BY DEF IInv, OneName, Apart, ApartFrom, QueriesApart, Acts, vars
<1>3. ASSUME NEW t \in Thread PROVE Own(t)'
  <2>1. Own(t) /\ Spares(t)
    BY DEF IInv, Spares, SameQuery, vars
  <2> QED BY <2>1, SparedSound DEF vars
<1> QED BY <1>1, <1>2, <1>3 DEF IInv

LEMMA StepInv == IInv /\ [Next]_vars => IInv'
<1> SUFFICES ASSUME IInv, Next PROVE IInv'
  BY StutterStep
<1>1. PICK t \in Thread : Proceeds(t) \/ Begins(t)
  BY DEF Next
<1>2. CASE Proceeds(t)
  BY <1>2, OpenInStep, OpenOutStep, StatStep, ReadStep, WriteStep, NameSrcStep, NameMoveStep,
     KillUnlinkStep, KillNextStep, KillEndStep, DirNextStep, DirEndStep DEF Proceeds, Copy
<1>3. CASE Begins(t)
  <2>1. Directories \subseteq SUBSET Name
    BY DEF Directories
  <2> QED BY <1>3, <2>1, FileCopyStep, RenameStep, KillSingleStep, DirectoryStep,
             KillWildcardsStep, DirFirstStep, DirAgainStep DEF Begins
<1> QED BY <1>1, <1>2, <1>3

LEMMA Invariance == Spec => []IInv
BY InitInv, StepInv, PTL DEF Spec


------------------------------------------------------------------------------
\* A step of t leaves the place of every other thread.
LEMMA OneMoves ==
  ASSUME TypeOK, NEW t \in Thread, Proceeds(t) \/ Begins(t), NEW u \in Thread, pc'[u] # pc[u]
  PROVE  u = t
<1>1. ASSUME NEW p, Goes(t, p) PROVE u = t
  BY <1>1 DEF Goes, TypeOK
<1>2. ASSUME NEW e, Ends(t, e) PROVE u = t
  BY <1>1, <1>2 DEF Ends
<1>3. CASE Copy(t)
  BY <1>1, <1>2, <1>3 DEF Copy, OpenIn, OpenOut, Stat, Read, Write, CloseBoth, Refused
<1>4. CASE NameSrc(t) \/ NameMove(t)
  BY <1>1, <1>2, <1>4 DEF NameSrc, NameMove, Refused
<1>5. CASE KillUnlink(t) \/ KillNext(t) \/ KillEnd(t)
  BY <1>1, <1>2, <1>5 DEF KillUnlink, KillNext, KillEnd
<1>6. CASE DirNext(t) \/ DirEnd(t)
  BY <1>1, <1>6 DEF DirNext, DirStep, DirEnd
<1>7. CASE \E s, d \in Name : FileCopy(t, s, d) \/ Rename(t, s, d)
  BY <1>1, <1>2, <1>7 DEF FileCopy, Rename, Refused
<1>8. CASE \E n \in Name : KillSingle(t, n) \/ MakeDir(t, n) \/ RemoveDir(t, n)
  BY <1>1, <1>2, <1>8 DEF KillSingle, MakeDir, RemoveDir, Refused
<1>9. CASE \E ns \in Directories : KillWildcards(t, ns)
  BY <1>1, <1>2, <1>9 DEF KillWildcards, Refused
<1>10. CASE \E ns \in Directories, isRoot \in BOOLEAN, attrs \in Attributes :
              DirFirst(t, ns, isRoot, attrs)
  BY <1>1, <1>10 DEF DirFirst
<1>11. CASE DirAgain(t) \/ CleanUp(t)
  BY <1>1, <1>11 DEF DirAgain, CleanUp
<1> QED BY <1>3, <1>4, <1>5, <1>6, <1>7, <1>8, <1>9, <1>10, <1>11 DEF Proceeds, Begins

\* A thread in a statement begins no other.
LEMMA BeginsIdle ==
  ASSUME NEW t \in Thread, Begins(t)
  PROVE  pc[t] = "idle"
BY DEF Begins, FileCopy, Rename, KillSingle, MakeDir, RemoveDir, KillWildcards,
       DirFirst, DirAgain, CleanUp, Starts, StartsOn, Enters, Busy

\* Who leaves a place inside a statement does so by a step of that statement.
LEMMA MovesItself ==
  ASSUME TypeOK, [Next]_vars, NEW t \in Thread, pc[t] # "idle", pc'[t] # pc[t]
  PROVE  Proceeds(t)
<1>1. Next
  BY DEF vars
<1>2. PICK u \in Thread : Proceeds(u) \/ Begins(u)
  BY <1>1 DEF Next
<1>3. t = u
  BY <1>2, OneMoves
<1> QED BY <1>2, <1>3, BeginsIdle

LEMMA WriteIsExact ==
  ASSUME IInv, ShortWrites = FALSE, NEW t \in Thread, Write(t), pc'[t] = "idle",
         err'[t] = 0, alone[t], src[t] # dst[t], was[t] # <<>>
  PROVE  entry'[dst[t]] \in Inode /\ data'[entry'[dst[t]]] = was[t]
<1>1. TypeOK /\ was \in [Thread -> Seq(Nat)] /\ Own(t) /\ pc[t] = "copyWrite" /\ entry' = entry
  BY DEF IInv, Types, Write, Continues
<1>2. Begun(t)
  BY <1>1 DEF Own, TransferSound
<1>3. ~CloseBoth(t, ERR_PERMISSION_DENIED)
  BY <1>1 DEF CloseBoth, Ends, Throws, TypeOK, ERR_PERMISSION_DENIED
<1>4. ~Goes(t, "copyRead")
  BY <1>1 DEF Goes, TypeOK
<1>5. PICK k : Puts(t, k) /\ ~CopyGoesOn(t)
  BY <1>1, <1>3, <1>4 DEF Write, Puts
<1>6. /\ data' \in [Inode -> Seq(Nat)] /\ Len(data'[out[t]]) = br[t]
      /\ \A j \in 1..br[t] : data'[out[t]][j] = was[t][j]
  BY <1>1, <1>5, WriteEffect DEF HasPut
<1>7. br[t] = Len(was[t])
  <2>1. br[t] \in Nat /\ Len(was[t]) \in Nat
    BY <1>1, LenProperties DEF TypeOK
  <2>2. pc[t] # "copyStat"
    BY <1>1
  <2> QED BY <1>2, <1>5, <2>1, <2>2 DEF Begun, CopyGoesOn
<1>8. data'[out[t]] \in Seq(Nat) /\ was[t] \in Seq(Nat)
  BY <1>1, <1>2, <1>6 DEF Begun
<1>9. data'[out[t]] = was[t]
  BY <1>6, <1>7, <1>8, SeqEqual
<1> QED BY <1>1, <1>2, <1>9 DEF Begun

LEMMA MoveIsExact ==
  ASSUME IInv, ShortWrites = FALSE, NEW t \in Thread, NameMove(t), pc'[t] = "idle",
         err'[t] = 0, alone[t], src[t] # dst[t], was[t] # <<>>
  PROVE  entry'[dst[t]] \in Inode /\ data'[entry'[dst[t]]] = was[t]
<1>1. TypeOK /\ Own(t) /\ pc[t] = "nameMove" /\ data' = data
  BY DEF IInv, Types, NameMove, Continues
<1>2. SourceKept(t)
  BY <1>1 DEF Own, TransferSound, Acts
<1>3. ~Goes(t, "copyIn")
  BY <1>1 DEF Goes, TypeOK
<1>4. ASSUME NEW e, Ends(t, e) PROVE e = 0
  BY <1>1, <1>4 DEF Ends, Throws, TypeOK
<1>5. Moved(src[t], dst[t])
  BY <1>3, <1>4 DEF NameMove, Refused, ERR_FILE_NOT_FOUND, ERR_PATH_FILE_ACCESS_ERROR,
     ERR_RENAME_ACROSS_DISKS, ERR_PERMISSION_DENIED
<1>6. entry'[dst[t]] = entry[src[t]]
  BY <1>1, <1>5 DEF Moved, TypeOK
<1> QED BY <1>1, <1>2, <1>6 DEF SourceKept

LEMMA EndSound ==
  ASSUME IInv, NEW t \in Thread, KillEnd(t), pc'[t] = "idle", err'[t] = 0, alone[t]
  PROVE  \A n \in names[t] : entry'[n] \notin Inode
<1>1. Own(t) /\ pc[t] = "killNext" /\ left[t] = {} /\ entry' = entry /\ err' = err
  BY DEF IInv, KillEnd, Continues, files
<1> QED BY <1>1 DEF Own, KillSound

\* A step of u keeps the query of t open, except where u is t: then DIR$ closes
\* it at the end of the directory, or is not in the midst of it.
LEMMA OnlyEndCloses ==
  ASSUME TypeOK, [Next]_vars, NEW t \in Thread, pc[t] = "dirNext",
         query[t].open, ~query'[t].open
  PROVE  DirEnd(t)
<1>1. PICK u \in Thread : Proceeds(u) \/ Begins(u)
  BY DEF Next, vars
<1>2. ASSUME NEW ns, Meets(u, ns) PROVE FALSE
  BY <1>2, MeetsEffect DEF SameQuery
<1>3. ASSUME NEW ns, StartsOn(u, ns) PROVE FALSE
  BY <1>2, <1>3 DEF StartsOn
<1>4. ASSUME NEW s, NEW d, Starts(u, s, d) PROVE FALSE
  BY <1>3, <1>4 DEF Starts
<1>5. query \in [Thread -> Query] /\ query' # query
  BY DEF TypeOK, Query
<1>6. ASSUME NEW q, query' = [query EXCEPT ![u] = q] PROVE u = t
  BY <1>5, <1>6
<1>7. ~Copy(u)
  BY <1>5 DEF Copy, OpenIn, OpenOut, Stat, Read, Write, Continues
<1>8. ~NameSrc(u) /\ ~NameMove(u) /\ ~KillUnlink(u) /\ ~KillNext(u) /\ ~KillEnd(u)
  BY <1>5 DEF NameSrc, NameMove, KillUnlink, KillNext, KillEnd
<1>9. ~DirNext(u)
  <2> SUFFICES ASSUME NEW n \in query[u].left, DirStep(u, n) PROVE FALSE
    BY DEF DirNext
  <2>1. query'[t].open = query[t].open
    BY <1>5 DEF DirStep, Query
  <2> QED BY <2>1
<1>10. ASSUME DirEnd(u) PROVE DirEnd(t)
  BY <1>5, <1>6, <1>10 DEF DirEnd
<1>11. ~Begins(u)
  <2>1. ASSUME Begins(u) PROVE u # t
    BY <2>1, BeginsIdle
  <2>2. ASSUME NEW ns, NEW isRoot, NEW attrs, DirFirst(u, ns, isRoot, attrs), u # t
        PROVE  FALSE
    BY <1>6, <2>2 DEF DirFirst
  <2>3. ASSUME DirAgain(u) \/ CleanUp(u), u # t PROVE FALSE
    BY <1>5, <1>6, <2>3 DEF DirAgain, CleanUp
  <2> QED BY <1>3, <1>4, <2>1, <2>2, <2>3
          DEF Begins, FileCopy, Rename, KillSingle, MakeDir, RemoveDir, KillWildcards
<1> QED BY <1>1, <1>7, <1>8, <1>9, <1>10, <1>11 DEF Proceeds

------------------------------------------------------------------------------
(* FILECOPY, NAME, KILL, MKDIR, RMDIR and DIR$ of any number of threads     *)
(* keep their types (FileSystemFunctions.c).                                *)
THEOREM TypeCorrect == Spec => []TypeOK
<1>1. IInv => TypeOK
  BY DEF IInv, Types
<1> QED BY <1>1, Invariance, PTL

(* FILECOPY, however it ends, closes both files (FileSystemFunctions.c:698). *)
THEOREM NothingOpen == Spec => []NothingLeftOpen
<1>1. IInv => NothingLeftOpen
  BY DEF IInv, Own, OpenInside, NothingLeftOpen, Busy
<1> QED BY <1>1, Invariance, PTL

(* A FILECOPY or NAME that met no other statement and ends without an error *)
(* has put all the source held into the target, for every size and every    *)
(* way read() cuts the file (FileSystemFunctions.c:550, :669), where        *)
(* write() takes what it is given.                                          *)
THEOREM TransferExact == ASSUME ShortWrites = FALSE PROVE Spec => TransferIsExact
<1>1. ASSUME IInv, [Next]_vars, NEW t \in Thread,
             pc[t] \in {"copyWrite", "nameMove"}, pc'[t] = "idle", err'[t] = 0,
             alone[t], src[t] # dst[t], was[t] # <<>>
      PROVE  entry'[dst[t]] \in Inode /\ data'[entry'[dst[t]]] = was[t]
  <2>1. Proceeds(t)
    BY <1>1, MovesItself DEF IInv, Types
  <2>2. Write(t) \/ NameMove(t)
    BY <1>1, <2>1 DEF Proceeds, Copy, OpenIn, OpenOut, Stat, Read, NameSrc, KillUnlink, KillNext,
       KillEnd, DirNext, DirEnd, Continues
  <2> QED BY <1>1, <2>2, WriteIsExact, MoveIsExact
<1> DEFINE Exact == \A t \in Thread :
       /\ pc[t] \in {"copyWrite", "nameMove"} /\ pc'[t] = "idle" /\ err'[t] = 0
       /\ alone[t] /\ src[t] # dst[t] /\ was[t] # <<>>
       => entry'[dst[t]] \in Inode /\ data'[entry'[dst[t]]] = was[t]
<1>2. IInv /\ [Next]_vars => Exact
  BY <1>1
<1> QED BY <1>2, Invariance, PTL DEF Spec, TransferIsExact, Exact

(* KILL with a wildcard that met no other statement and throws nothing has  *)
(* removed every file that matched (FileSystemFunctions.c:160).             *)
THEOREM KillComplete == Spec => KillIsComplete
<1>1. ASSUME IInv, [Next]_vars, NEW t \in Thread,
             pc[t] = "killNext", pc'[t] = "idle", err'[t] = 0, alone[t]
      PROVE  \A n \in names[t] : entry'[n] \notin Inode
  <2>1. Proceeds(t) /\ TypeOK
    BY <1>1, MovesItself DEF IInv, Types
  <2>2. KillEnd(t) \/ KillNext(t)
    BY <1>1, <2>1 DEF Proceeds, Copy, OpenIn, OpenOut, Stat, Read, Write, NameSrc, NameMove,
       KillUnlink, DirNext, DirEnd, Continues
  <2>3. ~KillNext(t)
    BY <1>1 DEF KillNext
  <2> QED BY <1>1, <2>2, <2>3, EndSound
<1> DEFINE Complete == \A t \in Thread :
       pc[t] = "killNext" /\ pc'[t] = "idle" /\ err'[t] = 0 /\ alone[t]
       => \A n \in names[t] : entry'[n] \notin Inode
<1>2. IInv /\ [Next]_vars => Complete
  BY <1>1
<1> QED BY <1>2, Invariance, PTL DEF Spec, KillIsComplete, Complete

(* When DIR$ returns "", a query no statement disturbed has returned, over  *)
(* any number of calls, each entry that matches its pattern and has its     *)
(* attributes (FileSystemFunctions.c:375-379), and no name that is not      *)
(* there.  What else it returns, the entries that do not match, is no part  *)
(* of it.                                                                   *)
THEOREM DirComplete == Spec => DirOmitsNothing
<1>1. ASSUME IInv, [Next]_vars, NEW t \in Thread, ListEnds(t)
      PROVE  /\ {n \in Entries(query[t]) : Fits(query[t], n)} \subseteq query[t].listed
             /\ query[t].listed \subseteq Entries(query[t])
  <2>1. DirEnd(t)
    BY <1>1, OnlyEndCloses DEF IInv, Types, ListEnds
  <2>2. query[t].left = {} /\ query[t].alone /\ Faithful(query[t])
    BY <1>1, <2>1 DEF DirEnd, IInv, Own, QuerySound, ListEnds
  <2>3. query[t].listed = {n \in query[t].names : Lists(query[t], n)}
    BY <2>2 DEF Faithful
  <2> QED BY <2>3 DEF Lists, Entries, Fits
<1> DEFINE Whole == \A t \in Thread : ListEnds(t) =>
             /\ {n \in Entries(query[t]) : Fits(query[t], n)} \subseteq query[t].listed
             /\ query[t].listed \subseteq Entries(query[t])
<1>2. IInv /\ [Next]_vars => Whole
  BY <1>1
<1> QED BY <1>2, Invariance, PTL DEF Spec, DirOmitsNothing, Whole

=============================================================================
