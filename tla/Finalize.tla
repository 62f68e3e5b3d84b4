------------------------------ MODULE Finalize ------------------------------
(***************************************************************************)
(* Finalizers and disappearing links of the collector (libgc/finalize.c,   *)
(* built with threads and without JAVA_FINALIZATION, where finalizers      *)
(* without an order are not safe, gc.h:128-133, and left out).             *)
(*                                                                         *)
(* The mark phase is one step, which does what Marking promises.  After it *)
(* the world runs again (alloc.c:472) while GC_finalize() goes through its *)
(* tables (alloc.c:514): the collector holds the allocation lock, so that  *)
(* meanwhile the program can copy pointers, and finalizers that were taken *)
(* from the queue run, but nothing is allocated, registered, taken from    *)
(* the queue, or made from a disguised pointer (gc.h:594).  The loops over *)
(* the tables are one step each where they touch only what the lock keeps  *)
(* or what the program cannot get at; the one that marks is not, and takes *)
(* its entries, which are in the order of their addresses, in any order.   *)
(***************************************************************************)
EXTENDS Naturals, FiniteSets

CONSTANTS
  Object,       \* the objects of the heap
  Static,       \* areas that are scanned: static data, stacks
  Weak,         \* areas that are not, for disguised pointers
  Field,        \* the words of an object or an area
  HiddenField,  \* those the collector does not look at, in an object or area
  NULL,
  Data,         \* the objects used as client data
  MaxCalls,     \* how many finalizers run at a time
  MaxOverflows  \* how often the mark stack overflows in GC_MARK_FO

ASSUME FinalizeAssumption ==
  /\ Object \intersect (Static \union Weak) = {}
  /\ Static \intersect Weak = {}
  /\ HiddenField \subseteq Field
  /\ NULL \notin Object /\ Data \subseteq Object
  /\ MaxOverflows \in Nat /\ MaxCalls \in Nat

Word == (Object \union Static \union Weak) \X Field
Hidden == {w \in Word : w[1] \in Weak \/ w[2] \in HiddenField}
Visible == Word \ Hidden

\* A finalizer, by its mark procedure and its client data; None is no function.
Proc == {"normal", "ignoreSelf"}
Finalizer == [proc : Proc, data : Object \union {NULL}]
None == [proc |-> "none", data |-> NULL]

\* A finalizer that is to run, for an object.
Call == [obj : Object, data : Object \union {NULL}]

VARIABLES
  mem,        \* what the words hold
  used,       \* the objects that were allocated and not reclaimed
  links,      \* dl_head: the object of each registered link
  finalizers, \* fo_head: the finalizer of each object
  queue,      \* GC_finalize_now
  taken,      \* calls taken from the queue and not yet made
  running,    \* calls that have not returned
  marked,     \* the mark bits, during a collection
  passed,     \* the objects whose finalizers the second loop has passed
  phase,      \* "idle", or where in GC_finalize() the collection is
  overflows   \* overflows so far

vars == <<mem, used, links, finalizers, queue, taken, running, marked,
          passed, phase, overflows>>

TypeOK ==
  /\ mem \in [Word -> Object \union {NULL}]
  /\ used \subseteq Object
  /\ links \in [Word -> Object \union {NULL}]
  /\ finalizers \in [Object -> Finalizer \union {None}]
  /\ queue \subseteq Call /\ taken \subseteq Call /\ running \subseteq Call
  /\ marked \subseteq Object /\ passed \subseteq Object
  /\ phase \in {"idle", "links", "mark", "dangling"}
  /\ overflows \in 0..MaxOverflows

Init ==
  /\ mem = [w \in Word |-> NULL]
  /\ used = {}
  /\ links = [w \in Word |-> NULL]
  /\ finalizers = [o \in Object |-> None]
  /\ queue = {} /\ taken = {} /\ running = {}
  /\ marked = {} /\ passed = {}
  /\ phase = "idle"
  /\ overflows = 0

------------------------------------------------------------------------------
\* What the visible words of places P hold.
Targets(P) == {mem[w] : w \in {v \in Visible : v[1] \in P}} \ {NULL}

\* The objects one gets to from those of S.
ReachFrom(S) ==
  {o \in Object : \A T \in SUBSET Object :
     S \subseteq T /\ Targets(T) \subseteq T => o \in T}

\* The arguments of calls C.
Arguments(C) == ({c.obj : c \in C} \union {c.data : c \in C}) \ {NULL}

Registered == {o \in Object : finalizers[o] # None}
Pending == queue \union taken

\* What the program can get at, with its variables and in running finalizers.
Accessible == ReachFrom(Targets(Static) \union Arguments(running))

\* Where the collector starts: what the program has, the queue, and the client
\* data in the tables.  The objects of the tables are hidden.
MarkRoots ==
  Targets(Static) \union Arguments(running \union Pending)
    \union ({finalizers[o].data : o \in Object} \ {NULL})

\* The program can use word w.
AtHand(w) == w[1] \in Static \union Weak \union Accessible

------------------------------------------------------------------------------
\* The program.

\* GC_malloc(), which runs finalizers first: see Take.
Allocate(w, o) ==
  /\ phase = "idle"
  /\ w \in Visible /\ AtHand(w)
  /\ o \notin used
  /\ used' = used \union {o}
  /\ mem' = [v \in Word |-> IF v = w THEN o ELSE IF v[1] = o THEN NULL ELSE mem[v]]
  /\ UNCHANGED <<links, finalizers, queue, taken, running, marked, passed,
                 phase, overflows>>

Assign(w, p) ==
  /\ w \in Visible /\ AtHand(w)
  /\ p \in Accessible \union {NULL}
  /\ mem' = [mem EXCEPT ![w] = p]
  /\ UNCHANGED <<used, links, finalizers, queue, taken, running, marked,
                 passed, phase, overflows>>

\* GC_register_disappearing_link() of a field of o, and
\* GC_general_register_disappearing_link() of a word that holds o in disguise.
RegisterLink(l, o) ==
  /\ phase = "idle"
  /\ AtHand(l)
  /\ o \in Accessible
  /\ l \in Visible => l[1] = o
  /\ mem' = IF l \in Hidden THEN [mem EXCEPT ![l] = o] ELSE mem
  /\ links' = [links EXCEPT ![l] = o]
  /\ UNCHANGED <<used, finalizers, queue, taken, running, marked, passed,
                 phase, overflows>>

\* The program gives a disguised pointer up before it unregisters the link.
UnregisterLink(l) ==
  /\ phase = "idle"
  /\ AtHand(l)
  /\ links[l] # NULL
  /\ mem' = IF l \in Hidden THEN [mem EXCEPT ![l] = NULL] ELSE mem
  /\ links' = [links EXCEPT ![l] = NULL]
  /\ UNCHANGED <<used, finalizers, queue, taken, running, marked, passed,
                 phase, overflows>>

\* The program makes a pointer of a disguised one, in GC_call_with_alloc_lock().
Reveal(l, w) ==
  /\ phase = "idle"
  /\ l \in Hidden /\ AtHand(l)
  /\ mem[l] # NULL
  /\ w \in Visible /\ AtHand(w)
  /\ mem' = [mem EXCEPT ![w] = mem[l]]
  /\ UNCHANGED <<used, links, finalizers, queue, taken, running, marked,
                 passed, phase, overflows>>

\* GC_register_finalizer_inner(): the finalizer replaces an earlier one; none
\* removes it.  When there is no memory for a new one, nothing is registered.
RegisterFinalizer(o, f) ==
  /\ phase = "idle"
  /\ o \in Accessible
  /\ f.data \in (Data \intersect Accessible) \union {NULL}
  /\ finalizers' = [finalizers EXCEPT ![o] = f]
  /\ UNCHANGED <<mem, used, links, queue, taken, running, marked, passed,
                 phase, overflows>>

------------------------------------------------------------------------------
\* GC_invoke_finalizers(), of as many threads and as deeply nested as may be.

\* The locked part.
Take(c) ==
  /\ phase = "idle"
  /\ c \in queue
  /\ Cardinality(taken \union running) < MaxCalls
  /\ queue' = queue \ {c}
  /\ taken' = taken \union {c}
  /\ UNCHANGED <<mem, used, links, finalizers, running, marked, passed,
                 phase, overflows>>

Begin(c) ==
  /\ c \in taken
  /\ taken' = taken \ {c}
  /\ running' = running \union {c}
  /\ UNCHANGED <<mem, used, links, finalizers, queue, marked, passed, phase,
                 overflows>>

Return(c) ==
  /\ c \in running
  /\ running' = running \ {c}
  /\ UNCHANGED <<mem, used, links, finalizers, queue, taken, marked, passed,
                 phase, overflows>>

------------------------------------------------------------------------------
\* A collection: GC_stopped_mark() and GC_finish_collection().

Mark ==
  /\ phase = "idle"
  /\ marked' = ReachFrom(MarkRoots)
  /\ phase' = "links"
  /\ UNCHANGED <<mem, used, links, finalizers, queue, taken, running, passed,
                 overflows>>

\* A mutant of ClearLinks: the entries go, the pointers stay.
ClearLinkEntries ==
  LET gone == {l \in Word : links[l] \notin marked \union {NULL}} IN
  /\ phase = "links"
  /\ links' = [l \in Word |-> IF l \in gone THEN NULL ELSE links[l]]
  /\ phase' = "mark"
  /\ UNCHANGED <<mem, used, finalizers, queue, taken, running, marked, passed,
                 overflows>>

\* Make disappearing links disappear.
ClearLinks ==
  LET gone == {l \in Word : links[l] \notin marked \union {NULL}} IN
  /\ phase = "links"
  /\ mem' = [w \in Word |-> IF w \in gone THEN NULL ELSE mem[w]]
  /\ links' = [l \in Word |-> IF l \in gone THEN NULL ELSE links[l]]
  /\ phase' = "mark"
  /\ UNCHANGED <<used, finalizers, queue, taken, running, marked, passed,
                 overflows>>

\* A mutant of Below: what the object itself points to, but nothing further.
BelowOneStep(o, proc) ==
  IF proc = "normal" THEN Targets({o})
  ELSE Targets({o}) \ {o}

\* A mutant of Below: the object too.
BelowAndSelf(o, proc) == ReachFrom({o})

\* What the mark procedures have the collector mark.
Below(o, proc) ==
  IF proc = "normal" THEN ReachFrom(Targets({o}))
  ELSE ReachFrom(Targets({o}) \ {o})

\* Mark from finalizable objects that are not marked, but not themselves.
MarkFrom(o) ==
  /\ phase = "mark"
  /\ o \in Registered \ (marked \union passed)
  /\ marked' = marked \union Below(o, finalizers[o].proc)
  /\ passed' = passed \union {o}
  /\ UNCHANGED <<mem, used, links, finalizers, queue, taken, running, phase,
                 overflows>>

\* GC_MARK_FO after an overflow: the object is marked too, before the rest is
\* searched for.
MarkFromOverflows(o) ==
  /\ phase = "mark"
  /\ o \in Registered \ (marked \union passed)
  /\ overflows < MaxOverflows
  /\ overflows' = overflows + 1
  /\ marked' = marked \union ReachFrom({o})
  /\ passed' = passed \union {o}
  /\ UNCHANGED <<mem, used, links, finalizers, queue, taken, running, phase>>

\* What is enqueued for finalization: what is still not marked.
Unmarked ==
  {[obj |-> o, data |-> finalizers[o].data] : o \in Registered \ marked}

\* A mutant of Enqueue: the loop before it has not come to its end.
EnqueueEarly ==
  /\ phase = "mark"
  /\ queue' = queue \union Unmarked
  /\ finalizers' = [o \in Object |-> IF o \in marked THEN finalizers[o] ELSE None]
  /\ marked' = marked \union (Registered \ marked)
  /\ passed' = {}
  /\ phase' = "dangling"
  /\ UNCHANGED <<mem, used, links, taken, running, overflows>>

\* Enqueue it; the objects are marked, so that they stay.
Enqueue ==
  /\ phase = "mark"
  /\ Registered \subseteq marked \union passed
  /\ queue' = queue \union Unmarked
  /\ finalizers' = [o \in Object |-> IF o \in marked THEN finalizers[o] ELSE None]
  /\ marked' = marked \union {c.obj : c \in Unmarked}
  /\ passed' = {}
  /\ phase' = "dangling"
  /\ UNCHANGED <<mem, used, links, taken, running, overflows>>

\* A link in an object about to be reclaimed.
IsDangling(l) == links[l] # NULL /\ l[1] \in Object \ marked

\* Remove dangling links; GC_start_reclaim() has what is not marked used again.
Reclaim ==
  /\ phase = "dangling"
  /\ links' = [l \in Word |-> IF IsDangling(l) THEN NULL ELSE links[l]]
  /\ used' = used \intersect marked
  /\ mem' = [w \in Word |-> IF w[1] \in Object \ marked THEN NULL ELSE mem[w]]
  /\ marked' = {}
  /\ phase' = "idle"
  /\ UNCHANGED <<finalizers, queue, taken, running, passed, overflows>>

------------------------------------------------------------------------------
\* What the collector does once a collection has begun.
Collecting ==
  \/ ClearLinks
  \/ \E o \in Object : MarkFrom(o) \/ MarkFromOverflows(o)
  \/ Enqueue
  \/ Reclaim

Program ==
  \/ \E w \in Visible, o \in Object : Allocate(w, o)
  \/ \E w \in Visible, p \in Object \union {NULL} : Assign(w, p)
  \/ \E l \in Word, o \in Object : RegisterLink(l, o)
  \/ \E l \in Word : UnregisterLink(l)
  \/ \E l \in Hidden, w \in Visible : Reveal(l, w)
  \/ \E o \in Object, f \in Finalizer \union {None} : RegisterFinalizer(o, f)

Invoke ==
  \/ \E c \in queue : Take(c)
  \/ \E c \in taken : Begin(c)
  \/ \E c \in running : Return(c)

Next == Program \/ Invoke \/ Mark \/ Collecting

\* A collection holds the allocation lock and waits for nothing.
Spec == Init /\ [][Next]_vars /\ WF_vars(Collecting)

------------------------------------------------------------------------------
(* Nothing the program can get at, and nothing a finalizer that is to run   *)
(* will find at its object or its client data, has been reclaimed           *)
(* (gc.h:460, 490-492; finalize.c:517-583).                                 *)
NothingNeededReclaimed == ReachFrom(MarkRoots) \subseteq used

(* A disguised pointer is NULL or that of an object that was not reclaimed, *)
(* and no registered link is in a reclaimed object, whose memory the        *)
(* collector would write (gc.h:549-562, finalize.c:494-596).                *)
LinksAreSafe ==
  /\ \A l \in Hidden : l[1] \in Static \union Weak \union used =>
       mem[l] \in used \union {NULL}
  /\ \A l \in Word : links[l] # NULL => l[1] \in Static \union Weak \union used

(* An object whose finalizer is to run is inaccessible to the program, as   *)
(* it was when it was enqueued (gc.h:478-482), is not registered again, and *)
(* no other object that has a finalizer, to come or pending, leads to it:   *)
(* of objects that point to each other, only the first is finalized         *)
(* (gc.h:461-465).                                                          *)
FinalizedInOrder ==
  \A c \in Pending :
    /\ c.obj \notin Accessible \union Registered
    /\ c.obj \notin ReachFrom((Registered \union Arguments(Pending)) \ {c.obj})
    /\ \A d \in Pending : d.obj = c.obj => d = c

\* Nothing but its finalizer keeps o.
Lost(o) ==
  /\ o \in Registered
  /\ finalizers[o].proc = "normal"
  /\ o \notin ReachFrom(MarkRoots \union (Registered \ {o}) \union Targets({o}))

(* If collections go on and the queue is emptied again and again, a lost    *)
(* object that is on no cycle is finalized, unless the program gets at it   *)
(* again through a disguised pointer: GC_finalize() ends, and neither an    *)
(* overflow of the mark stack nor the finalizers of others put it off for   *)
(* ever (gc.h:460-472).                                                     *)
LostIsFinalized ==
  []<>(phase = "links") /\ []<>(Pending = {}) =>
    \A o \in Object : Lost(o) ~> o \in Accessible \/ \E c \in running : c.obj = o

=============================================================================
