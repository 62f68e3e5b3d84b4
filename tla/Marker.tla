------------------------------- MODULE Marker -------------------------------
(***************************************************************************)
(* The mark phase of the garbage collector (libgc/mark.c, with the order   *)
(* of the roots from mark_rts.c): the calls of GC_mark_some() that         *)
(* GC_stopped_mark() makes with the world stopped, cut into steps of one   *)
(* word.  A mark stack of limited size holds what is still to be scanned;  *)
(* when it overflows, entries are dropped, the state becomes MS_INVALID    *)
(* and the heap is searched for marked objects.                            *)
(*                                                                         *)
(* This is the collection GC_try_to_collect_inner() makes: not incremental *)
(* (MS_PUSH_RESCUERS is not entered) and without uncollectable objects.    *)
(* Objects are numbered by their addresses and the areas of the roots      *)
(* after them; the pointers among the words are those to objects, for a    *)
(* word that points elsewhere is passed over (or black-listed:             *)
(* HeapBlocks).                                                            *)
(***************************************************************************)
EXTENDS Integers, Sequences

CONSTANTS
  Objects, Blocks, RootAreas,   \* how many
  BlockOf,       \* the block of an object
  Words,         \* the words of an area that are scanned, by its descriptor
  Eager,         \* the areas of the roots that are scanned at once
  Direct,        \* the blocks whose marked objects are scanned at once
  StackSize, MaxStack,   \* the entries of the mark stack, now and at most
  Dropped,       \* INITIAL_MARK_STACK_SIZE / 8
  SplitWords     \* SPLIT_RANGE_WORDS

Object == 1..Objects
Root == (Objects + 1)..(Objects + RootAreas)
Area == Object \union Root

ASSUME AreaAssumption ==
  /\ Objects \in Nat \ {0} /\ RootAreas \in Nat \ {0} /\ Blocks \in Nat \ {0}
  /\ BlockOf \in [Object -> 1..Blocks]
  /\ \A o, p \in Object : o <= p => BlockOf[o] <= BlockOf[p]
  /\ Words \in [Area -> Nat]
  /\ Eager \subseteq Root /\ Direct \subseteq 1..Blocks
ASSUME StackAssumption ==
  /\ StackSize \in Nat /\ MaxStack \in Nat /\ StackSize <= MaxStack
  /\ Dropped \in 1..StackSize
  /\ SplitWords \in Nat /\ SplitWords > 1

VARIABLES
  contents,    \* the words of every area
  marked,      \* the mark bits
  state,       \* GC_mark_state
  scan,        \* scan_ptr: the block to look at next; 0 is NULL
  stack,       \* the mark stack, its top last
  size,        \* GC_mark_stack_size
  tooSmall,    \* GC_mark_stack_too_small
  objectsMarked,   \* GC_objects_are_marked
  roots,       \* GC_push_roots(): the area to push next, or 0
  at,          \* GC_push_marked(): the object to look at next, or 0
  cur          \* the words being scanned: current_p and limit

markVars == <<contents, marked, state, scan, stack, size, tooSmall, objectsMarked, roots, at, cur>>

Pointer == 0..Objects
Entry == [area : Area, from : Nat, to : Nat]
Whole(a) == [area |-> a, from |-> 1, to |-> Words[a]]
Nothing == [area |-> 1, from |-> 1, to |-> 0]

\* What the areas may hold, by area and number of the word.
Word == UNION {{<<a, i>> : i \in 1..Words[a]} : a \in Area}
Memory == [Word -> Pointer]

Scanning == cur.from <= cur.to

\* Between two calls of GC_mark_some().
Idle == ~Scanning /\ roots = 0 /\ at = 0

MarkTypeOK ==
  /\ contents \in Memory
  /\ marked \subseteq Object
  /\ state \in {"none", "pushUncollectable", "rootsPushed", "invalid", "partiallyInvalid",
                "aborted"}
  /\ scan \in 0..(Blocks + 1)
  /\ stack \in Seq(Entry)
  /\ size \in StackSize..MaxStack
  /\ Len(stack) <= size
  /\ tooSmall \in BOOLEAN /\ objectsMarked \in BOOLEAN
  /\ roots \in {0} \union ((Objects + 1)..(Objects + RootAreas + 1))
  /\ at \in {0} \union Object
  /\ cur \in Entry

\* GC_clear_marks(), GC_invalidate_mark_state() and GC_initiate_gc() have been
\* called; the stack may have grown in earlier collections.
MarkInit ==
  /\ contents \in Memory
  /\ marked = {}
  /\ state = "invalid"
  /\ scan = 0
  /\ stack = <<>>
  /\ size = StackSize
  /\ tooSmall = FALSE
  /\ objectsMarked = FALSE
  /\ roots = 0 /\ at = 0 /\ cur = Nothing

------------------------------------------------------------------------------
HasRoom == Len(stack) < size

\* PUSH_OBJ(): an object without pointers is not pushed; when the stack is full,
\* GC_signal_mark_stack_overflow() drops entries and invalidates the state.
PushObj(o) ==
  IF Words[o] = 0 THEN UNCHANGED <<stack, state, tooSmall>>
  ELSE IF HasRoom
  THEN stack' = Append(stack, Whole(o)) /\ UNCHANGED <<state, tooSmall>>
  ELSE /\ stack' = Append(SubSeq(stack, 1, size - Dropped), Whole(o))
       /\ state' = "invalid" /\ tooSmall' = TRUE

\* PUSH_CONTENTS(), GC_PUSH_ONE_STACK(): an object that is not marked is marked
\* and pushed.
PushContents(v) ==
  IF v \in Object \ marked
  THEN marked' = marked \union {v} /\ PushObj(v)
  ELSE UNCHANGED <<marked, stack, state, tooSmall>>

\* alloc_mark_stack() of twice the size, which may silently fail.
Grows ==
  /\ size' \in {size} \union ({2 * size} \intersect (StackSize..MaxStack))
  /\ tooSmall' = FALSE

GrowsIfTooSmall == IF tooSmall THEN Grows ELSE UNCHANGED <<size, tooSmall>>

------------------------------------------------------------------------------
\* One word of what is being scanned.
ScanWord ==
  /\ Scanning
  /\ PushContents(contents[<<cur.area, cur.from>>])
  /\ cur' = [cur EXCEPT !.from = @ + 1]
  /\ UNCHANGED <<contents, scan, size, objectsMarked, roots, at>>

\* MS_INVALID and nothing is marked: everything is marked from the roots.
BeginFull ==
  /\ Idle
  /\ state = "invalid" /\ ~objectsMarked
  /\ state' = "pushUncollectable"
  /\ UNCHANGED <<contents, marked, scan, stack, size, tooSmall, objectsMarked, roots, at, cur>>

\* MS_PUSH_UNCOLLECTABLE: there is no such block, and the roots are next.
BeginRoots ==
  /\ Idle
  /\ state = "pushUncollectable"
  /\ roots' = Objects + 1
  /\ UNCHANGED <<contents, marked, state, scan, stack, size, tooSmall, objectsMarked, at, cur>>

\* A mutant of RootAt: the stack before the static data.
RootAtBackwards(r) == 2 * Objects + RootAreas + 1 - r

RootAt(r) == r

\* GC_push_roots() pushes the next area, GC_push_all(), or scans it at once,
\* GC_push_one() and GC_push_all_eager().  Without room for it the program aborts.
PushRoot ==
  LET area == RootAt(roots)
  IN /\ ~Scanning /\ roots \in Root /\ state # "aborted"
     /\ roots' = roots + 1
     /\ IF area \in Eager
        THEN cur' = Whole(area) /\ UNCHANGED <<stack, state>>
        ELSE /\ UNCHANGED cur
             /\ IF Words[area] = 0 THEN UNCHANGED <<stack, state>>
                ELSE IF HasRoom
                THEN stack' = Append(stack, Whole(area)) /\ UNCHANGED state
                ELSE state' = "aborted" /\ UNCHANGED stack
     /\ UNCHANGED <<contents, marked, scan, size, tooSmall, objectsMarked, at>>

\* A mutant of EndRoots: an overflow meanwhile is overlooked.
EndRootsAnyway ==
  /\ ~Scanning /\ roots = Objects + RootAreas + 1 /\ state # "aborted"
  /\ roots' = 0
  /\ objectsMarked' = TRUE
  /\ state' = "rootsPushed"
  /\ UNCHANGED <<contents, marked, scan, stack, size, tooSmall, at, cur>>

\* All are pushed.  The state stays invalid if the stack overflowed meanwhile.
EndRoots ==
  /\ ~Scanning /\ roots = Objects + RootAreas + 1 /\ state # "aborted"
  /\ roots' = 0
  /\ objectsMarked' = TRUE
  /\ state' = IF state = "invalid" THEN "invalid" ELSE "rootsPushed"
  /\ UNCHANGED <<contents, marked, scan, stack, size, tooSmall, at, cur>>

Marks == state \in {"rootsPushed", "invalid", "partiallyInvalid"}

\* GC_mark_from_mark_stack() takes the entry on top; of a large one it leaves
\* the rest on the stack.
TakeTop ==
  LET top == stack[Len(stack)]
      rest == top.from + SplitWords - 1
  IN /\ Idle /\ Marks /\ stack # <<>>
     /\ state = "rootsPushed" \/ objectsMarked
     /\ objectsMarked' = TRUE
     /\ IF top.to - top.from + 1 >= SplitWords
        THEN /\ stack' = [stack EXCEPT ![Len(stack)].from = rest]
             /\ cur' = [top EXCEPT !.to = rest - 1]
        ELSE /\ stack' = SubSeq(stack, 1, Len(stack) - 1)
             /\ cur' = top
     /\ UNCHANGED <<contents, marked, state, scan, size, tooSmall, roots, at>>

IsFirst(o, h) == BlockOf[o] = h /\ \A p \in Object : BlockOf[p] = h => o <= p

\* GC_push_next_marked(): the objects of the next block, if it has any with pointers.
ScanBlock(h) ==
  /\ h <= Blocks
  /\ scan' = h + 1
  /\ \/ \E o \in Object : IsFirst(o, h) /\ at' = o
     \/ (\A o \in Object : BlockOf[o] # h) /\ at' = 0
  /\ UNCHANGED roots

\* There is none, and if nothing was lost meanwhile the roots follow.
ScanEnds(h, valid) ==
  /\ h > Blocks
  /\ scan' = 0
  /\ roots' = IF valid THEN Objects + 1 ELSE 0
  /\ UNCHANGED at

\* MS_INVALID or MS_PARTIALLY_INVALID with nothing on the stack: the search for
\* marked objects begins, with a larger stack if that can be had,
BeginScan ==
  /\ Idle /\ objectsMarked /\ stack = <<>>
  /\ state = "invalid" /\ scan = 0
  /\ GrowsIfTooSmall
  /\ state' = "partiallyInvalid"
  /\ ScanBlock(1)
  /\ UNCHANGED <<contents, marked, stack, objectsMarked, cur>>

\* or goes on.
ContinueScan ==
  /\ Idle /\ objectsMarked /\ stack = <<>>
  /\ state \in {"invalid", "partiallyInvalid"} /\ scan # 0
  /\ ScanBlock(scan) \/ ScanEnds(scan, state = "partiallyInvalid")
  /\ UNCHANGED <<contents, marked, state, stack, size, tooSmall, objectsMarked, cur>>

\* GC_push_marked() looks at the next object of the block.  The marked ones of 1,
\* 2 or 4 words are scanned at once, others are pushed.
PushMarked ==
  /\ ~Scanning /\ at # 0
  /\ at' = IF at < Objects /\ BlockOf[at + 1] = BlockOf[at] THEN at + 1 ELSE 0
  /\ IF at \notin marked THEN UNCHANGED <<cur, stack, state, tooSmall>>
     ELSE IF BlockOf[at] \in Direct
     THEN cur' = Whole(at) /\ UNCHANGED <<stack, state, tooSmall>>
     ELSE PushObj(at) /\ UNCHANGED cur
  /\ UNCHANGED <<contents, marked, scan, size, objectsMarked, roots>>

\* MS_ROOTS_PUSHED with nothing on the stack: the mark phase is over.
Finish ==
  /\ Idle
  /\ state = "rootsPushed" /\ stack = <<>>
  /\ state' = "none"
  /\ GrowsIfTooSmall
  /\ UNCHANGED <<contents, marked, scan, stack, objectsMarked, roots, at, cur>>

MarkNext ==
  \/ ScanWord \/ BeginFull \/ BeginRoots \/ PushRoot \/ EndRoots \/ TakeTop
  \/ BeginScan \/ ContinueScan \/ PushMarked \/ Finish

\* GC_stopped_mark() calls GC_mark_some() until it says that the phase is over.
MarkSpec == MarkInit /\ [][MarkNext]_markVars /\ WF_markVars(MarkNext)

------------------------------------------------------------------------------
\* The words from i on of area a are still to be scanned.
Covers(e, a, i) == e.area = a /\ e.from <= i /\ i <= e.to
Grey(a, i) == Covers(cur, a, i) \/ \E k \in 1..Len(stack) : Covers(stack[k], a, i)

\* The search for marked objects has yet to come to o.
Pending(o) ==
  /\ state = "partiallyInvalid" /\ roots = 0
  /\ \/ at # 0 /\ BlockOf[o] = BlockOf[at] /\ o >= at
     \/ scan # 0 /\ BlockOf[o] >= scan

Valid == state \in {"pushUncollectable", "partiallyInvalid", "rootsPushed"}

Lost(a, i) == contents[<<a, i>>] \in Object \ marked /\ ~Grey(a, i)

(* While the state is valid, no marked object is forgotten that points to   *)
(* one that is not marked: it is on the stack, being scanned, or the search *)
(* of the heap will come to it (mark.c:326); the same holds of the roots    *)
(* that have been pushed.  A full stack forgets some, and remembers that it *)
(* did.                                                                     *)
NothingIsForgotten ==
  Valid =>
    /\ \A o \in marked : Pending(o) \/ \A i \in 1..Words[o] : ~Lost(o, i)
    /\ \A a \in Root : a < roots \/ state = "rootsPushed" => \A i \in 1..Words[a] : ~Lost(a, i)

Promise == INSTANCE Marking WITH over <- state = "none"

(* The mark phase marks reachable objects only, and all of them by the time *)
(* it is over, however often the stack overflowed.                          *)
MarksReachable == Promise!Spec

(* It is over at last, also when the stack never grows, for every overflow  *)
(* has marked something; and the roots that are pushed and not scanned at   *)
(* once fit on the stack: GC_push_roots() pushes them early, since          *)
(* GC_push_all() aborts when there is no room (mark_rts.c:481).             *)
MarkingEnds == <>(state = "none")

=============================================================================
