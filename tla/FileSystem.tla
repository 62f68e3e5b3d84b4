----------------------------- MODULE FileSystem -----------------------------
(***************************************************************************)
(* The file system statements of BASIC: FILECOPY, NAME, KILL, MKDIR, RMDIR  *)
(* and DIR$ (BASIClib/FileSystemFunctions.c).                              *)
(*                                                                         *)
(* The directories of the system are external: entry maps a name to what   *)
(* it denotes, a directory or an inode, and data holds the bytes of an     *)
(* inode.  Each system call is a step; what a statement decides after one  *)
(* call it uses at the next, and the statements of several threads         *)
(* interleave in between.  Nothing of this module is under a lock but the  *)
(* table of DIR$ queries, of which a thread uses only its own element.     *)
(*                                                                         *)
(* read() and write() that fail with EINTR are repeated at once and are    *)
(* not steps of their own.                                                 *)
(***************************************************************************)
EXTENDS Integers, Sequences

CONSTANTS
  Thread, Name, Inode,
  Disk(_),        \* the file system a name is on, which is also its directory
  First,          \* First[n]: what the names denote at the start
  Text,           \* Text[i]: the bytes of the inodes at the start
  Absent, Dir,    \* what a name that is no file denotes
  NoInode,
  BufferSize,     \* bytes FILECOPY reads at a time
  MaxStatements,  \* bound on the statements and DIR$ calls of a behaviour
  ShortWrites,    \* whether write() may accept a part of the buffer
  EndIsError      \* whether readdir_r() reports the end of a directory as one

ASSUME DenotationAssumption ==
  /\ Absent \notin Inode /\ Dir \notin Inode /\ Absent # Dir
  /\ NoInode \notin Inode /\ Name # {}
  /\ First \in [Name -> Inode \union {Absent, Dir}]
  /\ \A n, m \in Name : First[n] = First[m] /\ First[n] \in Inode => n = m
  /\ Text \in [Inode -> Seq(Nat)]
ASSUME SizeAssumption == BufferSize \in Nat \ {0} /\ MaxStatements \in Nat
ASSUME SystemAssumption == ShortWrites \in BOOLEAN /\ EndIsError \in BOOLEAN

ERR_FILE_NOT_FOUND == 53
ERR_FILE_ALREADY_EXISTS == 58
ERR_PERMISSION_DENIED == 70
ERR_RENAME_ACROSS_DISKS == 74
ERR_PATH_FILE_ACCESS_ERROR == 75
ERR_PATH_NOT_FOUND == 76
Errors == {0, ERR_FILE_NOT_FOUND, ERR_FILE_ALREADY_EXISTS,
           ERR_PERMISSION_DENIED, ERR_RENAME_ACROSS_DISKS,
           ERR_PATH_FILE_ACCESS_ERROR, ERR_PATH_NOT_FOUND}

VARIABLES
  entry,      \* entry[n]: a directory, an inode, or Absent
  data,       \* data[i]: the bytes of inode i
  pc,         \* where each thread is
  src, dst,   \* the names t's statement was given
  names,      \* the names it works on: those two, or those KILL's pattern matches
  in, out,    \* the inodes FILECOPY has open
  size,       \* statInfo.st_size
  br,         \* bytes FILECOPY has read
  buf,        \* what it read last
  written,    \* bytesWritten of doWrite
  offset,     \* the file offset of out
  left,       \* left[t]: entries the directory stream of KILL has not yielded
  err,        \* the error t's last statement threw, 0 for none
  query,      \* query[t]: the DIR$ query of t, an element of threadDirInfo
  begun,      \* statements begun so far
  fault,      \* whether a NULL entry was used: the process is gone
  was,        \* history: what src held when t's statement began
  alone       \* history: no other statement ran on its names meanwhile

vars == <<entry, data, pc, src, dst, names, in, out, size, br, buf, written, offset,
          left, err, query, begun, fault, was, alone>>

files == <<entry, data>>
copying == <<in, out, size, br, buf, written, offset>>

Attributes == {"vbNormal", "vbDirectory"}
NoQuery == [open |-> FALSE, names |-> {}, root |-> FALSE, left |-> {},
            attributes |-> "vbNormal", listed |-> {}, alone |-> TRUE]

PC == {"idle", "copyIn", "copyOut", "copyStat", "copyRead", "copyWrite", "nameSrc",
       "nameMove", "killStat", "killNext", "dirNext"}

TypeOK ==
  /\ entry \in [Name -> Inode \union {Absent, Dir}]
  /\ data \in [Inode -> Seq(Nat)]
  /\ pc \in [Thread -> PC]
  /\ src \in [Thread -> Name] /\ dst \in [Thread -> Name]
  /\ names \in [Thread -> SUBSET Name]
  /\ in \in [Thread -> Inode \union {Dir, NoInode}]
  /\ out \in [Thread -> Inode \union {NoInode}]
  /\ size \in [Thread -> Nat] /\ br \in [Thread -> Nat]
  /\ buf \in [Thread -> Seq(Nat)]
  /\ written \in [Thread -> Nat] /\ offset \in [Thread -> Nat]
  /\ left \in [Thread -> SUBSET Name]
  /\ err \in [Thread -> Errors]
  /\ query \in [Thread -> [open : BOOLEAN, names : SUBSET Name, root : BOOLEAN,
                           left : SUBSET Name, attributes : Attributes,
                           listed : SUBSET Name, alone : BOOLEAN]]
  /\ begun \in 0..MaxStatements
  /\ fault \in BOOLEAN
  /\ alone \in [Thread -> BOOLEAN]

------------------------------------------------------------------------------
Init ==
  /\ entry = First
  /\ data = Text
  /\ pc = [t \in Thread |-> "idle"]
  /\ src = [t \in Thread |-> CHOOSE n \in Name : TRUE]
  /\ dst = src
  /\ in = [t \in Thread |-> NoInode] /\ out = in
  /\ size = [t \in Thread |-> 0] /\ br = size /\ written = size /\ offset = size
  /\ buf = [t \in Thread |-> <<>>]
  /\ names = [t \in Thread |-> {}] /\ left = names
  /\ err = [t \in Thread |-> 0]
  /\ query = [t \in Thread |-> NoQuery]
  /\ begun = 0
  /\ fault = FALSE
  /\ was = [t \in Thread |-> <<>>]
  /\ alone = [t \in Thread |-> TRUE]

Busy(t) == pc[t] # "idle"
Held(n) == IF entry[n] \in Inode THEN data[entry[n]] ELSE <<>>

\* The names a statement in progress works on, and those by which the file it
\* writes may meanwhile be known.
NamesOf(t) ==
  IF Busy(t) THEN names[t] \union {n \in Name : entry[n] = out[t]} ELSE {}

\* The history part of a statement of t that starts on the names ns: it and
\* the statements and queries it meets are not alone.
Meets(t, ns) ==
  /\ alone' = [u \in Thread |->
       IF u = t THEN \A v \in Thread \ {t} : NamesOf(v) \intersect ns = {}
       ELSE alone[u] /\ NamesOf(u) \intersect ns = {}]
  /\ query' = [u \in Thread |->
       [query[u] EXCEPT !.alone = @ /\ query[u].names \intersect ns = {}]]

Throws(t, e) == err' = [err EXCEPT ![t] = e]
Goes(t, p) == pc' = [pc EXCEPT ![t] = p]
Ends(t, e) == Goes(t, "idle") /\ Throws(t, e)

\* t leaves the code of its program for the library.
Enters(t) ==
  /\ ~fault /\ ~Busy(t)
  /\ begun < MaxStatements
  /\ begun' = begun + 1

\* t starts a statement on the names ns.
StartsOn(t, ns) ==
  /\ Enters(t)
  /\ names' = [names EXCEPT ![t] = ns]
  /\ Meets(t, ns)
  /\ UNCHANGED <<copying, fault>>

\* t starts a statement on s and d.
Starts(t, s, d) ==
  /\ StartsOn(t, {s, d})
  /\ src' = [src EXCEPT ![t] = s]
  /\ dst' = [dst EXCEPT ![t] = d]
  /\ was' = [was EXCEPT ![t] = Held(s)]
  /\ UNCHANGED left

\* t takes a step of the statement it is in.
Continues(t, p) ==
  /\ ~fault /\ pc[t] = p
  /\ UNCHANGED <<src, dst, names, was, alone, begun>>

\* Inodes no name denotes and no thread has open.
Free == {i \in Inode : /\ \A n \in Name : entry[n] # i
                       /\ \A t \in Thread : in[t] # i /\ out[t] # i}

\* Any system call may be refused.
Refused(t) == Ends(t, ERR_PERMISSION_DENIED)

------------------------------------------------------------------------------
\* FILECOPY s TO d.
FileCopy(t, s, d) ==
  /\ Starts(t, s, d)
  /\ Goes(t, "copyIn")
  /\ UNCHANGED <<files, err>>

\* open() of the source; a directory opens as well.
OpenIn(t) ==
  /\ Continues(t, "copyIn")
  /\ \/ entry[src[t]] = Absent /\ Ends(t, ERR_FILE_NOT_FOUND) /\ UNCHANGED in
     \/ Refused(t) /\ UNCHANGED in
     \/ /\ entry[src[t]] # Absent
        /\ in' = [in EXCEPT ![t] = entry[src[t]]]
        /\ Goes(t, "copyOut")
        /\ UNCHANGED err
  /\ UNCHANGED <<files, out, size, br, buf, written, offset, left, query, fault>>

\* open() of the target, which creates or empties it.  If it fails the source is
\* closed.
OpenOut(t) ==
  /\ Continues(t, "copyOut")
  /\ \/ /\ entry[dst[t]] = Dir
        /\ Ends(t, ERR_PATH_FILE_ACCESS_ERROR)
        /\ in' = [in EXCEPT ![t] = NoInode]
        /\ UNCHANGED <<files, out, br, offset>>
     \/ /\ Refused(t)
        /\ in' = [in EXCEPT ![t] = NoInode]
        /\ UNCHANGED <<files, out, br, offset>>
     \/ \E i \in IF entry[dst[t]] = Absent THEN Free ELSE {entry[dst[t]]} \ {Dir} :
          /\ entry' = [entry EXCEPT ![dst[t]] = i]
          /\ data' = [data EXCEPT ![i] = <<>>]
          /\ out' = [out EXCEPT ![t] = i]
          /\ br' = [br EXCEPT ![t] = 0]
          /\ offset' = [offset EXCEPT ![t] = 0]
          /\ Goes(t, "copyStat")
          /\ UNCHANGED <<in, err>>
  /\ UNCHANGED <<size, buf, written, left, query, fault>>

\* fstat() of the source, whose size the loop goes by.
Stat(t) ==
  /\ Continues(t, "copyStat")
  /\ size' = [size EXCEPT ![t] = IF in[t] = Dir THEN 1 ELSE Len(data[in[t]])]
  /\ Goes(t, "copyRead")
  /\ UNCHANGED <<files, in, out, br, buf, written, offset, left, err, query, fault>>

\* A mutant of CloseBoth: only the target is closed.
CloseBothOut(t, e) ==
  /\ Ends(t, e)
  /\ out' = [out EXCEPT ![t] = NoInode]
  /\ UNCHANGED in

\* The files are closed and the error, if any, is thrown.
CloseBoth(t, e) ==
  /\ Ends(t, e)
  /\ in' = [in EXCEPT ![t] = NoInode]
  /\ out' = [out EXCEPT ![t] = NoInode]

\* doRead() of at most BufferSize bytes; none at the end of the file.
Read(t) ==
  /\ Continues(t, "copyRead")
  /\ \/ /\ in[t] # Dir
        /\ LET rest == Len(data[in[t]]) - br[t]
               most == IF rest < BufferSize THEN rest ELSE BufferSize
           IN \E k \in IF most <= 0 THEN {0} ELSE 1..most :
                /\ buf' = [buf EXCEPT ![t] =
                             SubSeq(data[in[t]], br[t] + 1, br[t] + k)]
                /\ br' = [br EXCEPT ![t] = @ + k]
        /\ written' = [written EXCEPT ![t] = 0]
        /\ Goes(t, "copyWrite")
        /\ UNCHANGED <<in, out, err>>
     \/ /\ CloseBoth(t, ERR_PATH_FILE_ACCESS_ERROR)
        /\ UNCHANGED <<buf, br, written>>
  /\ UNCHANGED <<files, size, offset, left, query, fault>>

\* What a file holds after text is written at an offset; a gap reads as zero.
WrittenAt(old, at, text) ==
  [k \in 1..(IF Len(old) > at + Len(text) THEN Len(old) ELSE at + Len(text)) |->
     IF k \in (at + 1)..(at + Len(text)) THEN text[k - at]
     ELSE IF k <= Len(old) THEN old[k] ELSE 0]

\* Mutants of CopyGoesOn: the loop reads until it has asked for st_size bytes,
\* and until the source is at its end.
CopyGoesOnShort(t) == br[t] + BufferSize < size[t]
CopyGoesOnToSize(t) == br[t] <= size[t]

\* The condition of the loop of _vbpSS_filecopy.
CopyGoesOn(t) == br[t] < size[t]

\* One write() of doWrite(), always of the whole buffer; doWrite() ends when as
\* many bytes are written as the buffer holds.
Write(t) ==
  /\ Continues(t, "copyWrite")
  /\ \/ \E k \in IF ShortWrites /\ buf[t] # <<>> THEN 1..Len(buf[t])
                 ELSE {Len(buf[t])} :
          /\ data' = [data EXCEPT ![out[t]] =
                        WrittenAt(@, offset[t], SubSeq(buf[t], 1, k))]
          /\ offset' = [offset EXCEPT ![t] = @ + k]
          /\ written' = [written EXCEPT ![t] = @ + k]
          /\ \/ /\ written'[t] < Len(buf[t])
                /\ UNCHANGED <<pc, in, out, err>>
             \/ /\ written'[t] >= Len(buf[t]) /\ CopyGoesOn(t)
                /\ Goes(t, "copyRead")
                /\ UNCHANGED <<in, out, err>>
             \/ /\ written'[t] >= Len(buf[t]) /\ ~CopyGoesOn(t)
                /\ CloseBoth(t, 0)
     \/ /\ buf[t] # <<>>
        /\ CloseBoth(t, ERR_PERMISSION_DENIED)
        /\ UNCHANGED <<data, offset, written>>
  /\ UNCHANGED <<entry, size, br, buf, left, query, fault>>

Copy(t) == OpenIn(t) \/ OpenOut(t) \/ Stat(t) \/ Read(t) \/ Write(t)

------------------------------------------------------------------------------
\* NAME s AS d: stat() of the target, which must not exist.
Rename(t, s, d) ==
  /\ Starts(t, s, d)
  /\ \/ /\ entry[d] # Absent
        /\ Ends(t, ERR_FILE_ALREADY_EXISTS)
     \/ /\ entry[d] = Absent
        /\ Goes(t, "nameSrc")
        /\ UNCHANGED err
     \/ Refused(t)
  /\ UNCHANGED files

\* stat() of the source, which must.
NameSrc(t) ==
  /\ Continues(t, "nameSrc")
  /\ \/ /\ entry[src[t]] = Absent
        /\ Ends(t, ERR_FILE_NOT_FOUND)
     \/ /\ entry[src[t]] # Absent
        /\ Goes(t, "nameMove")
        /\ UNCHANGED err
     \/ Refused(t)
  /\ UNCHANGED <<files, copying, left, query, fault>>

\* What rename() does when it succeeds: a target that has come to exist is
\* replaced.
Moved(s, d) == entry' = [entry EXCEPT ![d] = entry[s], ![s] = Absent]

\* A directory and a file do not replace each other.
Replaceable(s, d) == entry[d] = Absent \/ (entry[d] = Dir <=> entry[s] = Dir)

\* rename(); across disks a file is copied, and the source stays.
NameMove(t) ==
  /\ Continues(t, "nameMove")
  /\ LET s == src[t]
         d == dst[t]
     IN \/ /\ entry[s] = Absent
           /\ Ends(t, ERR_FILE_NOT_FOUND)
           /\ UNCHANGED entry
        \/ /\ entry[s] # Absent /\ Disk(s) = Disk(d)
           /\ IF Replaceable(s, d)
              THEN /\ IF s = d THEN UNCHANGED entry ELSE Moved(s, d)
                   /\ Ends(t, 0)
              ELSE Ends(t, ERR_PATH_FILE_ACCESS_ERROR) /\ UNCHANGED entry
        \/ /\ entry[s] = Dir /\ Disk(s) # Disk(d)
           /\ Ends(t, ERR_RENAME_ACROSS_DISKS)
           /\ UNCHANGED entry
        \/ /\ entry[s] \in Inode /\ Disk(s) # Disk(d)
           /\ Goes(t, "copyIn")
           /\ UNCHANGED <<entry, err>>
        \/ Refused(t) /\ UNCHANGED entry
  /\ UNCHANGED <<data, copying, left, query, fault>>

------------------------------------------------------------------------------
\* KILL s without a wildcard: stat(), and a directory is not a file.
KillSingle(t, s) ==
  /\ Starts(t, s, s)
  /\ \/ entry[s] \in {Absent, Dir} /\ Ends(t, ERR_FILE_NOT_FOUND)
     \/ entry[s] \in Inode /\ Goes(t, "killStat") /\ UNCHANGED err
     \/ Refused(t)
  /\ UNCHANGED files

\* unlink(): the name may have gone, or denote a directory by now.
Unlink(n) ==
  /\ entry[n] \in Inode
  /\ entry' = [entry EXCEPT ![n] = Absent]

UnlinkError(n) == IF entry[n] = Absent THEN ERR_FILE_NOT_FOUND
                  ELSE ERR_PERMISSION_DENIED

KillUnlink(t) ==
  /\ Continues(t, "killStat")
  /\ \/ Unlink(src[t]) /\ Ends(t, 0)
     \/ UNCHANGED entry /\ Ends(t, UnlinkError(src[t]))
  /\ UNCHANGED <<data, copying, left, query, fault>>

\* KILL with a wildcard that matches the names ns of a directory: opendir().
\* What is there when the stream is opened is what it yields.
KillWildcards(t, ns) ==
  /\ StartsOn(t, ns)
  /\ \/ /\ left' = [left EXCEPT ![t] = {n \in ns : entry[n] # Absent}]
        /\ Goes(t, "killNext")
        /\ Throws(t, 0)
     \/ Refused(t) /\ UNCHANGED left
  /\ UNCHANGED <<files, src, dst, was>>

\* A mutant of KillNext: the first file that cannot be unlinked ends the loop
\* and is not reported.
KillNextGivesUp(t) ==
  /\ Continues(t, "killNext")
  /\ \E n \in left[t] :
       \/ /\ entry[n] = Dir \/ Unlink(n)
          /\ left' = [left EXCEPT ![t] = @ \ {n}]
          /\ UNCHANGED pc
       \/ /\ left' = [left EXCEPT ![t] = {}]
          /\ Goes(t, "idle")
          /\ UNCHANGED entry
  /\ UNCHANGED <<data, err, copying, query, fault>>

\* killWildcards(): one entry; an unlink() that fails is reported at the end.
KillNext(t) ==
  /\ Continues(t, "killNext")
  /\ \E n \in left[t] :
       /\ left' = [left EXCEPT ![t] = @ \ {n}]
       /\ \/ entry[n] = Dir /\ UNCHANGED <<entry, err>>
          \/ Unlink(n) /\ UNCHANGED err
          \/ /\ entry[n] # Dir
             /\ Throws(t, UnlinkError(n))
             /\ UNCHANGED entry
  /\ UNCHANGED <<pc, data, copying, query, fault>>

\* The end of the directory: readdir_r() leaves no entry to look at.
KillEnd(t) ==
  /\ Continues(t, "killNext")
  /\ left[t] = {}
  /\ IF EndIsError THEN Goes(t, "idle") /\ UNCHANGED fault
     ELSE fault' = TRUE /\ UNCHANGED pc
  /\ UNCHANGED <<files, err, copying, left, query>>

\* MKDIR n and RMDIR n, one system call each.
MakeDir(t, n) ==
  /\ Starts(t, n, n)
  /\ \/ entry[n] = Absent /\ entry' = [entry EXCEPT ![n] = Dir] /\ Ends(t, 0)
     \/ entry[n] # Absent /\ UNCHANGED entry /\ Ends(t, ERR_FILE_ALREADY_EXISTS)
     \/ UNCHANGED entry /\ Refused(t)
  /\ UNCHANGED data

RemoveDir(t, n) ==
  /\ Starts(t, n, n)
  /\ \/ entry[n] = Dir /\ entry' = [entry EXCEPT ![n] = Absent] /\ Ends(t, 0)
     \/ entry[n] = Absent /\ UNCHANGED entry /\ Ends(t, ERR_PATH_NOT_FOUND)
     \/ entry[n] \in Inode /\ UNCHANGED entry /\ Ends(t, ERR_PATH_FILE_ACCESS_ERROR)
     \/ UNCHANGED entry /\ Refused(t)
  /\ UNCHANGED data

------------------------------------------------------------------------------
\* DIR$(pattern, attributes): the query t has is dropped and a directory, the
\* names ns, is opened.  What becomes the pattern is the directory's path,
\* which no name in it matches unless it is the root, where all do.
DirFirst(t, ns, isRoot, attrs) ==
  /\ Enters(t)
  /\ \/ /\ query' = [query EXCEPT ![t] =
             [open |-> TRUE, names |-> ns, root |-> isRoot, attributes |-> attrs,
              left |-> {n \in ns : entry[n] # Absent}, listed |-> {},
              alone |-> \A u \in Thread : NamesOf(u) \intersect ns = {}]]
        /\ Goes(t, "dirNext")
     \/ /\ query' = [query EXCEPT ![t] = NoQuery]
        /\ UNCHANGED pc
  /\ UNCHANGED <<files, src, dst, names, copying, left, err, fault, was, alone>>

\* DIR$ without arguments goes on with the query, if there is one.
DirAgain(t) ==
  /\ Enters(t)
  /\ query[t].open
  /\ Goes(t, "dirNext")
  /\ UNCHANGED <<files, src, dst, names, copying, left, err, query, fault, was, alone>>

\* The name matches the pattern of the query and has its attributes.
Fits(q, n) ==
  /\ q.root
  /\ q.attributes = "vbDirectory" => entry[n] = Dir

\* checkDirAttrs(): the test of the pattern has no else, so that a name it does
\* not match qualifies as well.
Qualifies(q, n) == Fits(q, n) \/ ~q.root

DirStepSkips(t, n) ==
  /\ \E m \in query[t].left :
       query' = [query EXCEPT ![t].left = @ \ {n, m}, ![t].listed = @ \union {n}]
  /\ Goes(t, "idle")

\* _vbS_dir(): the next entry; it is returned if it qualifies.
DirStep(t, n) ==
  /\ query' = [query EXCEPT ![t].left = @ \ {n},
                            ![t].listed = @ \union
                                (IF Qualifies(query[t], n) THEN {n} ELSE {})]
  /\ IF Qualifies(query[t], n) THEN Goes(t, "idle") ELSE UNCHANGED pc

DirNext(t) ==
  /\ Continues(t, "dirNext")
  /\ \E n \in query[t].left : DirStep(t, n)
  /\ UNCHANGED <<files, copying, left, err, fault>>

\* The end of the directory: the stream is closed and DIR$ returns "".
DirEnd(t) ==
  /\ Continues(t, "dirNext")
  /\ query[t].left = {}
  /\ IF EndIsError
     THEN /\ query' = [query EXCEPT ![t].open = FALSE]
          /\ Goes(t, "idle")
          /\ UNCHANGED fault
     ELSE fault' = TRUE /\ UNCHANGED <<query, pc>>
  /\ UNCHANGED <<files, copying, left, err>>

\* cleanupDir() when a thread ends.
CleanUp(t) ==
  /\ Enters(t)
  /\ query' = [query EXCEPT ![t] = NoQuery]
  /\ UNCHANGED <<files, pc, src, dst, names, copying, left, err, fault, was, alone>>

------------------------------------------------------------------------------
Directories == {{n \in Name : Disk(n) = d} : d \in {Disk(n) : n \in Name}}

Proceeds(t) ==
  \/ Copy(t) \/ NameSrc(t) \/ NameMove(t)
  \/ KillUnlink(t) \/ KillNext(t) \/ KillEnd(t) \/ DirNext(t) \/ DirEnd(t)

Begins(t) ==
  \/ \E s, d \in Name : FileCopy(t, s, d) \/ Rename(t, s, d)
  \/ \E n \in Name : KillSingle(t, n) \/ MakeDir(t, n) \/ RemoveDir(t, n)
  \/ \E ns \in Directories :
       \/ KillWildcards(t, ns)
       \/ \E isRoot \in BOOLEAN, attrs \in Attributes : DirFirst(t, ns, isRoot, attrs)
  \/ DirAgain(t) \/ CleanUp(t)

Next == \E t \in Thread : Proceeds(t) \/ Begins(t)

\* A statement that has begun goes on.
Spec == Init /\ [][Next]_vars /\ \A t \in Thread : WF_vars(Proceeds(t))

------------------------------------------------------------------------------
(* A FILECOPY, or a NAME of a file, that ends without an error and met no   *)
(* other statement on its names has put all that the source held, and       *)
(* nothing else, into the target (FileSystemFunctions.c:550, :669), however *)
(* read() cuts the file into pieces.  NAME from a name to itself fails      *)
(* before that; a FILECOPY to itself empties the file and is left out.      *)
TransferIsExact ==
  [][\A t \in Thread :
       /\ pc[t] \in {"copyWrite", "nameMove"} /\ pc'[t] = "idle" /\ err'[t] = 0
       /\ alone[t] /\ src[t] # dst[t] /\ was[t] # <<>>
       => entry'[dst[t]] \in Inode /\ data'[entry'[dst[t]]] = was[t]]_vars

(* A statement closes what it opened on every way out                       *)
(* (FileSystemFunctions.c:698-733): FILECOPY leaves no descriptor behind.   *)
NothingLeftOpen ==
  \A t \in Thread : ~Busy(t) => in[t] = NoInode /\ out[t] = NoInode

(* NAME renames only onto a name that does not exist                        *)
(* (FileSystemFunctions.c:553): no file loses its last name by it.          *)
NameOverwritesNothing ==
  [][\A t \in Thread :
       pc[t] = "nameMove" /\ pc'[t] = "idle" /\ err'[t] = 0 /\ entry' # entry
       => entry[dst[t]] = Absent]_vars

(* KILL with a wildcard that throws nothing and met no other statement has  *)
(* removed every file that matches (FileSystemFunctions.c:160): one         *)
(* unlink() that fails does not hide behind those that follow.              *)
KillIsComplete ==
  [][\A t \in Thread :
       pc[t] = "killNext" /\ pc'[t] = "idle" /\ err'[t] = 0 /\ alone[t]
       => \A n \in names[t] : entry'[n] \notin Inode]_vars

\* The query of t comes to the end of the directory, and no statement worked on
\* the directory meanwhile.
ListEnds(t) ==
  query[t].open /\ ~query'[t].open /\ pc[t] = "dirNext" /\ query[t].alone

Entries(q) == {n \in q.names : entry[n] # Absent}

(* When DIR$ returns "", a query nothing disturbed has returned, across all *)
(* its calls, each entry that matches its pattern and has its attributes    *)
(* (FileSystemFunctions.c:375-379), and no name that is not there.          *)
DirOmitsNothing ==
  [][\A t \in Thread : ListEnds(t) =>
       /\ {n \in Entries(query[t]) : Fits(query[t], n)} \subseteq query[t].listed
       /\ query[t].listed \subseteq Entries(query[t])]_vars

(* DIR$ returns no entry that does not match the pattern                    *)
(* (FileSystemFunctions.c:376: "If the file does not match, we call ourself *)
(* again").                                                                 *)
DirListsOnlyMatches ==
  [][\A t \in Thread : ListEnds(t) =>
       query[t].listed \subseteq {n \in Entries(query[t]) : Fits(query[t], n)}]_vars

(* A FILECOPY or NAME that met no other statement ends                      *)
(* (FileSystemFunctions.c:713-726): its loop trusts the size read once.     *)
CopyEnds ==
  \A t \in Thread : pc[t] \in {"copyIn", "nameSrc"} ~> ~Busy(t) \/ ~alone[t] \/ fault

=============================================================================
