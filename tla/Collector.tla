----------------------------- MODULE Collector -----------------------------
(***************************************************************************)
(* The memory manager (BASIClib/MemoryManager.c) on the garbage collector: *)
(* allocation from free lists, the sweep that fills them when they run out *)
(* (libgc/reclaim.c), new blocks, the choice between collecting and        *)
(* expanding the heap (alloc.c), and explicit deallocation (malloc.c).     *)
(*                                                                         *)
(* The mark phase is one step, which does what Marking promises and Marker *)
(* does; which block a new one is made of is HeapBlocks' subject.  The     *)
(* objects are of one size, with one word, which links the free lists when *)
(* they are free; some blocks hold objects without pointers.  The          *)
(* allocation lock is held from the first step of a call to the last.      *)
(***************************************************************************)
EXTENDS Naturals, FiniteSets

CONSTANTS
  Blocks,      \* how many blocks the heap may have
  Objects,     \* and how many objects in all
  BlockOf,     \* the block an object is in
  Roots,       \* how many words of the program's static data and stack there are
  Numbers,     \* the numbers it computes that look like pointers
  MaxRetries   \* GC_max_retries, 1 by __initMemoryManager()

ASSUME CollectorAssumption ==
  /\ {Blocks, Objects, Roots} \subseteq Nat \ {0} /\ MaxRetries \in Nat
  /\ BlockOf \in [1..Objects -> 1..Blocks]
  /\ Numbers \subseteq 1..Objects

Block == 1..Blocks
Object == 1..Objects
InBlock(b) == {o \in Object : BlockOf[o] = b}
Kind == {"normal", "ptrfree"}

\* The last root is a word that is not a pointer and may look like one.
Root == (Objects + 1)..(Objects + Roots + 1)
Noise == Objects + Roots + 1
Pointers == Root \ {Noise}

VARIABLES
  kind,       \* of each block: not in the heap, free, or that of its objects
  word,       \* the word of every object and root
  head,       \* ok_freelist
  marks,      \* the mark bits
  unswept,    \* the blocks on the reclaim lists
  used,       \* the objects the program was given and nobody has reclaimed
  allocd,     \* whether anything was allocated since the last collection
  failCount,  \* GC_fail_count
  dontGc,     \* GC_dont_gc
  pc,         \* "program", "sweep", "block" or "collectOrExpand"
  req         \* the call: the kind, the word that gets the pointer

collectorVars == <<kind, word, head, marks, unswept, used, allocd, failCount, dontGc, pc, req>>
heap == <<kind, word, head, marks, unswept, used, allocd>>

NoRequest == [kind |-> "normal", into |-> 0]

CollectorTypeOK ==
  /\ kind \in [Block -> {"absent", "free"} \union Kind]
  /\ word \in [Object \union Root -> {0} \union Object]
  /\ head \in [Kind -> {0} \union Object]
  /\ marks \subseteq Object /\ used \subseteq Object
  /\ unswept \subseteq {b \in Block : kind[b] \in Kind}
  /\ allocd \in BOOLEAN /\ dontGc \in BOOLEAN
  /\ failCount \in 0..(MaxRetries + 1)
  /\ pc \in {"program", "sweep", "block", "collectOrExpand"}
  /\ req \in [kind : Kind, into : {0} \union Object \union Pointers]

CollectorInit ==
  /\ kind = [b \in Block |-> IF b = 1 THEN "free" ELSE "absent"]
  /\ word = [a \in Object \union Root |-> 0]
  /\ head = [k \in Kind |-> 0]
  /\ marks = {} /\ unswept = {} /\ used = {}
  /\ allocd = FALSE /\ failCount = 0 /\ dontGc = FALSE
  /\ pc = "program" /\ req = NoRequest

------------------------------------------------------------------------------
KindOf(o) == kind[BlockOf[o]]

InUse == {o \in Object : KindOf(o) \in Kind}

\* What a search from the words of S leads to.
ReachableFrom(S) ==
  LET Targets(T) == {word[a] : a \in T} \intersect InUse
      reached[i \in 0..Cardinality(Object)] ==
        IF i = 0 THEN Targets(S)
        ELSE LET r == reached[i - 1]
             IN r \union Targets({o \in r : KindOf(o) = "normal"})
  IN reached[Cardinality(Object)]

\* What the program can get at.
Live == ReachableFrom(Pointers)

\* The free list of kind k.
OnList(k) ==
  LET on[i \in 0..Cardinality(Object)] ==
        IF i = 0 THEN {head[k]} \ {0}
        ELSE LET l == on[i - 1] IN l \union ({word[o] : o \in l} \ {0})
  IN on[Cardinality(Object)]

Free == UNION {OnList(k) : k \in Kind}

\* The objects of S, from the lowest to the highest, are put at the front of a list.
Linked(words, S, first) ==
  [a \in DOMAIN words |->
     IF a \notin S THEN words[a]
     ELSE IF \E o \in S : o < a THEN CHOOSE o \in S : o < a /\ \A p \in S : p < a => p <= o
     ELSE first]

Front(S, first) ==
  IF S = {} THEN first ELSE CHOOSE o \in S : \A p \in S : p <= o

------------------------------------------------------------------------------
\* The program copies a pointer from one place it can get at to another, forgets
\* one, or computes a number.
Places == Pointers \union {o \in Live : KindOf(o) = "normal"}

Copy(a, b) ==
  /\ pc = "program"
  /\ word' = [word EXCEPT ![a] = word[b]]
  /\ UNCHANGED <<kind, head, marks, unswept, used, allocd, failCount, dontGc, pc, req>>

Forget(a) ==
  /\ pc = "program"
  /\ word' = [word EXCEPT ![a] = 0]
  /\ UNCHANGED <<kind, head, marks, unswept, used, allocd, failCount, dontGc, pc, req>>

Compute(v) ==
  /\ pc = "program"
  /\ word' = [word EXCEPT ![Noise] = v]
  /\ UNCHANGED <<kind, head, marks, unswept, used, allocd, failCount, dontGc, pc, req>>

\* __memEnableGarbageCollector().
Enable(b) ==
  /\ pc = "program"
  /\ dontGc' = ~b
  /\ UNCHANGED <<heap, failCount, pc, req>>

\* __memFree(), GC_free(), of an object to which the program has no other pointer.
MemFree(a) ==
  LET o == word[a]
      k == KindOf(o)
  IN /\ pc = "program"
     /\ o # 0
     /\ \A b \in Places \ {a} : word[b] # o
     /\ word' = [word EXCEPT ![a] = 0, ![o] = head[k]]
     /\ head' = [head EXCEPT ![k] = o]
     /\ used' = used \ {o}
     /\ UNCHANGED <<kind, marks, unswept, allocd, failCount, dontGc, pc, req>>

------------------------------------------------------------------------------
\* The blocks of objects without a mark.
Emptied(m) == {b \in Block : kind[b] \in Kind /\ InBlock(b) \intersect m = {}}

\* GC_start_reclaim() empties the lists, gives the blocks without a mark back and
\* leaves the others to be swept later.  What is in a free block is of no matter.
StartReclaim(empty) ==
  /\ head' = [k \in Kind |-> 0]
  /\ kind' = [b \in Block |-> IF b \in empty THEN "free" ELSE kind[b]]
  /\ unswept' = {b \in Block : kind[b] \in Kind} \ empty
  /\ used' = {o \in used : BlockOf[o] \notin empty}
  /\ word' = [a \in DOMAIN word |-> IF a \in Object /\ BlockOf[a] \in empty THEN 0 ELSE word[a]]

\* A mutant of Survivors: what the objects point at is not followed.
SurvivorsOfRoots == ({word[a] : a \in Root} \intersect InUse) \ Free

\* What is marked in the end: the marks on the free lists are cleared.
Survivors == ReachableFrom(Root) \ Free

\* GC_gcollect_inner(): all is marked that may be reached, and GC_finish_collection()
\* clears the marks on the free lists, makes ready to sweep and counts anew.
Collect ==
  \E m \in {Survivors} :
    /\ marks' = m
    /\ \E empty \in {Emptied(m)} : StartReclaim(empty)
    /\ allocd' = FALSE

\* GC_should_collect(): not when nothing was allocated since the last collection.
MayBeTime == allocd

\* __memDoFullCollect() and __memDoPartialCollect().
MemCollect ==
  /\ pc = "program"
  /\ ~dontGc
  /\ Collect
  /\ UNCHANGED <<failCount, dontGc, pc, req>>

\* The first object of the list is the program's.  Its link is cleared, unless
\* GC_malloc_atomic() finds it on the list at once.
Takes(k, a, clears) ==
  LET o == head[k]
  IN /\ o # 0
     /\ head' = [head EXCEPT ![k] = word[o]]
     /\ word' = [word EXCEPT ![a] = o, ![o] = IF clears THEN 0 ELSE @]
     /\ used' = used \union {o}
     /\ allocd' = TRUE
     /\ UNCHANGED <<kind, marks, unswept, failCount, dontGc>>

\* __memAlloc(), __memAllocNoPtrs(): the pointer to the new object goes to word a.
MemAlloc(k, a) ==
  /\ pc = "program"
  /\ IF head[k] # 0 THEN Takes(k, a, k = "normal") /\ UNCHANGED <<pc, req>>
     ELSE pc' = "sweep" /\ req' = [kind |-> k, into |-> a] /\ UNCHANGED <<heap, failCount, dontGc>>

Returns == pc' = "program" /\ req' = NoRequest

\* GC_allocobj() has found an object.
Found ==
  /\ pc # "program"
  /\ Takes(req.kind, req.into, TRUE)
  /\ Returns

\* GC_continue_reclaim(): one block after the other until there is an object;
\* one that is nearly full is passed over, which any may be here.
Swept(b) == InBlock(b) \ marks

SweepBlock(b) ==
  /\ pc = "sweep" /\ head[req.kind] = 0
  /\ b \in unswept /\ kind[b] = req.kind
  /\ unswept' = unswept \ {b}
  /\ \/ /\ head' = [head EXCEPT ![req.kind] = Front(Swept(b), @)]
        /\ word' = Linked(word, Swept(b), head[req.kind])
        /\ used' = used \ Swept(b)
     \/ UNCHANGED <<head, word, used>>
  /\ UNCHANGED <<kind, marks, allocd, failCount, dontGc, pc, req>>

NoneToSweep ==
  /\ pc = "sweep" /\ head[req.kind] = 0
  /\ \A b \in unswept : kind[b] # req.kind
  /\ pc' = "block"
  /\ UNCHANGED <<heap, failCount, dontGc, req>>

\* GC_new_hblk(): a free block becomes one of req.kind, and all of it free objects.
NewBlock(b) ==
  /\ pc = "block"
  /\ kind[b] = "free"
  /\ kind' = [kind EXCEPT ![b] = req.kind]
  /\ marks' = marks \ InBlock(b)
  /\ head' = [head EXCEPT ![req.kind] = Front(InBlock(b), @)]
  /\ word' = Linked(word, InBlock(b), head[req.kind])
  /\ failCount' = 0
  /\ pc' = "sweep"
  /\ UNCHANGED <<unswept, used, allocd, dontGc, req>>

\* There is none, or none that GC_allochblk() would not rather collect for.
NoBlock ==
  /\ pc = "block"
  /\ MayBeTime \/ \A b \in Block : kind[b] # "free"
  /\ pc' = "collectOrExpand"
  /\ UNCHANGED <<heap, failCount, dontGc, req>>

\* GC_collect_or_expand().
CollectFirst ==
  /\ pc = "collectOrExpand"
  /\ ~dontGc /\ MayBeTime
  /\ Collect
  /\ pc' = "sweep"
  /\ UNCHANGED <<failCount, dontGc, req>>

\* GC_expand_hp_inner() has got memory.
Expand(b) ==
  /\ pc = "collectOrExpand"
  /\ kind[b] = "absent"
  /\ kind' = [kind EXCEPT ![b] = "free"]
  /\ pc' = "sweep"
  /\ UNCHANGED <<word, head, marks, unswept, used, allocd, failCount, dontGc, req>>

\* A mutant of LastResort: the failure is not counted.
LastResortUncounted ==
  /\ pc = "collectOrExpand"
  /\ failCount < MaxRetries
  /\ Collect
  /\ pc' = "sweep"
  /\ UNCHANGED <<failCount, dontGc, req>>

\* It has not: a last collection is made,
LastResort ==
  /\ pc = "collectOrExpand"
  /\ failCount < MaxRetries
  /\ failCount' = failCount + 1
  /\ Collect
  /\ pc' = "sweep"
  /\ UNCHANGED <<dontGc, req>>

\* or the call fails, and the memory manager throws ERR_OUT_OF_MEMORY.  The count
\* goes on in the code, and is capped here.
OutOfMemory ==
  /\ pc = "collectOrExpand"
  /\ failCount >= MaxRetries
  /\ failCount' = MaxRetries + 1
  /\ Returns
  /\ UNCHANGED <<heap, dontGc>>

Allocating ==
  \/ Found \/ NoneToSweep \/ NoBlock \/ CollectFirst \/ LastResort \/ OutOfMemory
  \/ \E b \in Block : SweepBlock(b) \/ NewBlock(b) \/ Expand(b)

CollectorNext ==
  \/ \E a, b \in Places : Copy(a, b)
  \/ \E a \in Places : Forget(a)
  \/ \E v \in {0} \union Numbers : Compute(v)
  \/ \E b \in BOOLEAN : Enable(b)
  \/ \E a \in Places : MemFree(a)
  \/ \E k \in Kind, a \in Places : MemAlloc(k, a)
  \/ MemCollect
  \/ Allocating

\* A call runs to its end.
CollectorSpec == CollectorInit /\ [][CollectorNext]_collectorVars /\ WF_collectorVars(Allocating)

------------------------------------------------------------------------------
(* No object the program can get at is taken back, given out again or on a  *)
(* free list (alloc.c:473, reclaim.c:574): the sweep that is put off goes   *)
(* by marks made before the program went on.                                *)
LiveIsUsed == Live \subseteq used /\ used \intersect Free = {}

(* In a block that awaits its sweep, whatever the program can get at and    *)
(* what it has freed itself meanwhile is marked, so that the sweep leaves   *)
(* it alone: GC_free() need not clear the mark (malloc.c:418).              *)
SweepIsSafe == \A b \in unswept : InBlock(b) \intersect (Live \union Free) \subseteq marks

(* The free lists end, share nothing, and are of objects of their kind      *)
(* (reclaim.c:220, new_hblk.c:160).                                         *)
FreeListsSound ==
  \A k \in Kind :
    /\ \A o \in OnList(k) : KindOf(o) = k /\ word[o] # head[k]
    /\ \A o, p \in OnList(k) : word[o] = word[p] /\ word[o] # 0 => o = p

(* The four together: what the program has is as it left it.                *)
HeapIsSound == CollectorTypeOK /\ LiveIsUsed /\ SweepIsSafe /\ FreeListsSound

(* A call of the allocator ends, with an object or without (alloc.c:870).   *)
AllocEnds == pc # "program" ~> pc = "program"

(* "The garbage collector will NOT run if disabled, even if specifically    *)
(* requested to do so!" (MemoryManager.c:226): no block is given back, and  *)
(* none joins those that await their sweep.                                 *)
DisabledNeverRuns ==
  [][dontGc => /\ unswept' \subseteq unswept
               /\ \A b \in Block : kind[b] \in Kind => kind'[b] = kind[b]]_collectorVars

=============================================================================
