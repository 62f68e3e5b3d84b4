----------------------------- MODULE HeapBlocks -----------------------------
(***************************************************************************)
(* The heap blocks of the garbage collector behind MemoryManager.c         *)
(* (libgc/allchblk.c, with what it uses of headers.c, blacklst.c and       *)
(* alloc.c): free blocks kept on doubly linked lists by their size, split  *)
(* when a part of one is allocated and coalesced when they are freed.      *)
(*                                                                         *)
(* Addresses and sizes count blocks of HBLKSIZE; address 0 is NULL.  The   *)
(* allocation lock is held throughout a call, so only the search of        *)
(* GC_allochblk is cut into steps, one for each block it looks at.  Blocks *)
(* are never unmapped (USE_MUNMAP is not defined), the collector is not    *)
(* incremental, and there is one black list, that of the stack             *)
(* (ALL_INTERIOR_POINTERS is defined, libgc/Makefile:20).                  *)
(***************************************************************************)
EXTENDS Integers, FiniteSets

CONSTANTS
  Last,            \* the addresses are 1..Last
  MaxNeeded,       \* the largest number of blocks that is asked for
  Unique, Compression, Huge,   \* 32, 8 and 256 in the code
  BlackLimit,      \* BL_LIMIT
  Suspect,         \* where false pointers may point
  HeadersFail      \* whether a header or forwarding counts may not be had

ASSUME HeapAssumption == Last \in Nat \ {0} /\ MaxNeeded \in 1..Last
ASSUME ListAssumption ==
  /\ Unique \in Nat \ {0} /\ Compression \in Nat \ {0} /\ Huge \in Nat /\ Huge > Unique
ASSUME BlackAssumption ==
  BlackLimit \in Nat /\ Suspect \subseteq 1..Last /\ HeadersFail \in BOOLEAN

Addr == 1..Last
Fls == (Huge - Unique) \div Compression + Unique     \* N_HBLK_FLS

VARIABLES
  hdr,        \* the header of an address: none, a free or a used block, or a count
  sz,         \* hb_sz of a block
  fl,         \* the free lists: GC_hblkfreelist, hb_next and hb_prev
  large,      \* GC_large_free_bytes
  oldBl,      \* GC_old_stack_bl
  newBl,      \* GC_incomplete_stack_bl, which the next collection completes
  count,      \* how many blocks were found black-listed, modulo 4
  pc,         \* "program" or "search"
  req,        \* the call: blocks needed, whether it avoids black-listed ones,
              \* IGNORE_OFF_PAGE, whether it would rather collect than split
  n, hbp      \* the list and the block looked at

heapVars == <<hdr, sz, fl, large, oldBl, newBl, count, pc, req, n,
          hbp>>
heap == <<hdr, sz, fl, large>>
blackLists == <<oldBl, newBl>>

Requests == [needed : 1..MaxNeeded, avoids : BOOLEAN, ignoreOffPage : BOOLEAN,
             saves : BOOLEAN]

NoRequest == [needed |-> 1, avoids |-> FALSE, ignoreOffPage |-> FALSE, saves |-> FALSE]

HeapTypeOK ==
  /\ hdr \in [Addr -> {"none", "free", "used", "inside"}]
  /\ sz \in [Addr -> 0..Last]
  /\ fl \in [head : [0..Fls -> 0..Last], next : [Addr -> 0..Last], prev : [Addr -> 0..Last]]
  /\ large \in 0..Last
  /\ oldBl \subseteq Suspect /\ newBl \subseteq Suspect
  /\ count \in 0..3
  /\ pc \in {"program", "search"}
  /\ req \in Requests
  /\ n \in 0..(Fls + 1)
  /\ hbp \in 0..Last

HeapInit ==
  /\ hdr = [a \in Addr |-> "none"]
  /\ sz = [a \in Addr |-> 0]
  /\ fl = [head |-> [i \in 0..Fls |-> 0], next |-> [a \in Addr |-> 0],
           prev |-> [a \in Addr |-> 0]]
  /\ large = 0
  /\ oldBl = {} /\ newBl = {}
  /\ count = 0
  /\ pc = "program"
  /\ req = NoRequest
  /\ n = 0 /\ hbp = 0

------------------------------------------------------------------------------
\* GC_hblk_fl_from_blocks().
FlFromBlocks(k) ==
  IF k <= Unique THEN k
  ELSE IF k >= Huge THEN Fls ELSE (k - Unique) \div Compression + Unique

\* GC_remove_from_fl() from list i.  The block keeps its own pointers.
Removed(lists, b, i) ==
  LET before == lists.prev[b]
      after == lists.next[b]
  IN [head |-> IF before = 0 THEN [lists.head EXCEPT ![i] = after] ELSE lists.head,
      next |-> IF before = 0 THEN lists.next ELSE [lists.next EXCEPT ![before] = after],
      prev |-> IF after = 0 THEN lists.prev ELSE [lists.prev EXCEPT ![after] = before]]

\* The pointers of blocks bs, which are no longer on a list, are not used again.
Forgotten(lists, bs) ==
  [lists EXCEPT !.next = [a \in Addr |-> IF a \in bs THEN 0 ELSE @[a]],
                !.prev = [a \in Addr |-> IF a \in bs THEN 0 ELSE @[a]]]

\* GC_add_to_fl() of a block of size k.
Added(lists, b, k) ==
  LET i == FlFromBlocks(k)
      second == lists.head[i]
  IN [head |-> [lists.head EXCEPT ![i] = b],
      next |-> [lists.next EXCEPT ![b] = second],
      prev |-> [a \in Addr |-> IF a = b THEN 0 ELSE IF a = second THEN b ELSE lists.prev[a]]]

\* n takes the place of b on list i, and b is added to the list of its size: the
\* lists of GC_split_block().
Replaced(lists, b, r, i, k) ==
  LET before == lists.prev[b]
      after == lists.next[b]
  IN Added([head |-> IF before = 0 THEN [lists.head EXCEPT ![i] = r] ELSE lists.head,
            next |-> [a \in Addr |-> IF a = r THEN after ELSE IF a = before THEN r
                                     ELSE lists.next[a]],
            prev |-> [a \in Addr |-> IF a = r THEN before ELSE IF a = after THEN r
                                     ELSE lists.prev[a]]], b, k)

Least(S) == IF S = {} THEN 0 ELSE CHOOSE a \in S : \A b \in S : a <= b
Greatest(S) == IF S = {} THEN 0 ELSE CHOOSE a \in S : \A b \in S : a >= b

\* A mutant of IsBlackListed: only the first block is looked up.
IsBlackListedFirst(h, len) == IF h \in oldBl \union newBl THEN h + 1 ELSE 0

\* GC_is_black_listed(): where to look next, or 0.
IsBlackListed(h, len) ==
  LET hit == Least({a \in h..(h + len - 1) : a \in oldBl \union newBl})
  IN IF hit = 0 THEN 0 ELSE hit + 1

\* Where a search of the black lists from b ends: at a place that is not listed,
\* or past the last place a block of the needed size has.
Passed(b, avail, needed, len) ==
  Least({a \in b..(b + avail - needed + 1) :
           a > b + avail - needed \/ IsBlackListed(a, len) = 0})

\* GC_remove_counts() of a block of size k at h.
Uncounted(headers, h, k) ==
  [a \in Addr |-> IF a \in (h + 1)..(h + k - 1) THEN "none" ELSE headers[a]]

\* GC_free_block_ending_at(): the block whose header, found through forwarding
\* counts or by GC_prev_block(), is the last before h.
FreeBlockEndingAt(headers, sizes, h) ==
  LET p == Greatest({a \in 1..(h - 1) : headers[a] \in {"free", "used"}})
  IN IF p # 0 /\ headers[p] = "free" /\ p + sizes[p] = h THEN p ELSE 0

\* GC_freehblk() of a block of size k at h, whose header is there: the heap that
\* results, coalesced with what follows and what precedes.
FreedInto(headers, lists, h, k) ==
  LET next == h + k
      joins == next <= Last /\ headers[next] = "free"
      l1 == IF joins THEN Removed(lists, next, FlFromBlocks(sz[next])) ELSE lists
      k1 == IF joins THEN k + sz[next] ELSE k
      h1 == [a \in Addr |-> IF a = h THEN "free" ELSE IF joins /\ a = next THEN "none"
                            ELSE Uncounted(headers, h, k)[a]]
      prev == FreeBlockEndingAt(headers, sz, h)
      l2 == IF prev # 0 THEN Removed(l1, prev, FlFromBlocks(sz[prev])) ELSE l1
      k2 == IF prev # 0 THEN k1 + sz[prev] ELSE k1
      b == IF prev # 0 THEN prev ELSE h
  IN /\ hdr' = IF prev # 0 THEN [h1 EXCEPT ![h] = "none"] ELSE h1
     /\ sz' = [a \in Addr |-> IF a = b THEN k2 ELSE IF a \in b..(b + k2 - 1) THEN 0 ELSE sz[a]]
     /\ fl' = Added(Forgotten(l2, b..(b + k2 - 1)), b, k2)
     /\ large' = large + k

------------------------------------------------------------------------------
InHeap == {a \in Addr : \E b \in Addr : hdr[b] \in {"free", "used"}
                                        /\ a \in b..(b + sz[b] - 1)}

\* GC_add_to_heap(): a section no part of which is in the heap yet; without a
\* header it is not added.
AddToHeap(p, k) ==
  /\ pc = "program"
  /\ p..(p + k - 1) \subseteq Addr \ InHeap
  /\ FreedInto([hdr EXCEPT ![p] = "used"], fl, p, k)
  /\ UNCHANGED <<blackLists, count, pc, req, n, hbp>>

\* GC_freehblk() of an allocated block.
FreeHblk(h) ==
  /\ pc = "program"
  /\ hdr[h] = "used"
  /\ FreedInto(hdr, fl, h, sz[h])
  /\ UNCHANGED <<blackLists, count, pc, req, n, hbp>>

\* While the collector marks, a false pointer to p is noted, if nothing is
\* there or it was noted by the last collection.
AddToBlackList(p) ==
  /\ pc = "program"
  /\ hdr[p] = "none" \/ p \in oldBl
  /\ newBl' = newBl \union {p}
  /\ UNCHANGED <<heap, oldBl, count, pc, req, n, hbp>>

\* GC_promote_black_lists(), at the start of a collection.
PromoteBlackLists ==
  /\ pc = "program"
  /\ oldBl' = newBl
  /\ newBl' = {}
  /\ UNCHANGED <<heap, count, pc, req, n, hbp>>

\* GC_allochblk(): the search begins on the list of the size that is needed.
AllocHblk(r) ==
  /\ pc = "program"
  /\ pc' = "search"
  /\ req' = r
  /\ n' = FlFromBlocks(r.needed)
  /\ hbp' = fl.head[n']
  /\ UNCHANGED <<heap, blackLists, count>>

\* The call is over, and what its variables hold no longer used.
Returns == pc' = "program" /\ req' = NoRequest /\ n' = 0 /\ hbp' = 0

Searching == pc = "search" /\ hbp # 0

\* At the end of a list comes the next one; after the last there is no block.
NextList ==
  /\ pc = "search" /\ hbp = 0
  /\ IF n < Fls
     THEN n' = n + 1 /\ hbp' = fl.head[n'] /\ UNCHANGED <<pc, req>>
     ELSE Returns
  /\ UNCHANGED <<heap, blackLists, count>>

Avail == sz[hbp]

\* The next block on the list fits better and is not black-listed.
NextIsBetter ==
  LET b == fl.next[hbp]
  IN /\ b # 0
     /\ sz[b] < Avail /\ sz[b] >= req.needed
     /\ IsBlackListed(b, req.needed) = 0

Suits == /\ Avail >= req.needed
         /\ ~(Avail # req.needed /\ req.saves)
         /\ ~NextIsBetter

PassOver ==
  /\ Searching /\ ~Suits
  /\ hbp' = fl.next[hbp]
  /\ UNCHANGED <<heap, blackLists, count, pc, req, n>>

\* The block at h, of size k and on list n, is allocated, its first part if it
\* is larger: GC_get_first_part() and what follows it, with the headers and the
\* lists as they then are.
Takes(headers, lists, h, k) ==
  LET rest == h + req.needed
      l1 == Removed(lists, h, n)
  IN /\ fl' = Forgotten(IF k = req.needed THEN l1 ELSE Added(l1, rest, k - req.needed), {h})
     /\ hdr' = [a \in Addr |-> IF a = h THEN "used"
                               ELSE IF a \in (h + 1)..(rest - 1) THEN "inside"
                               ELSE IF a = rest /\ k # req.needed THEN "free"
                               ELSE headers[a]]
     /\ large' = large - req.needed
     /\ Returns

\* The same, when the header of the rest or the counts cannot be had: the block
\* is off its list, its map still that of a free block, and the search goes on.
TakesFails(headers, lists, h, k) ==
  /\ HeadersFail
  /\ \/ /\ k # req.needed
        /\ fl' = Removed(lists, h, n)
        /\ hdr' = headers
        /\ UNCHANGED sz
     \/ /\ fl' = IF k = req.needed THEN Removed(lists, h, n)
                 ELSE Added(Removed(lists, h, n), h + req.needed, k - req.needed)
        /\ hdr' = IF k = req.needed THEN headers
                  ELSE [headers EXCEPT ![h + req.needed] = "free"]
        /\ sz' = IF k = req.needed THEN sz
                 ELSE [sz EXCEPT ![h] = k, ![h + req.needed] = k - req.needed]
  /\ hbp' = 0
  /\ UNCHANGED <<large, pc, req, n>>

\* Where the black lists let the block begin.
Start ==
  IF req.avoids
  THEN Passed(hbp, Avail, req.needed, IF req.ignoreOffPage THEN 1 ELSE req.needed)
  ELSE hbp

\* The block begins where hbp does, or should not but there is no header for
\* the place where it should.
TakeWhole ==
  /\ Searching /\ Suits
  /\ Start = hbp \/ (HeadersFail /\ Avail - (Start - hbp) >= req.needed)
  /\ \/ /\ Takes(hdr, fl, hbp, Avail)
        /\ sz' = [a \in Addr |-> IF a = hbp THEN req.needed
                                 ELSE IF a = hbp + req.needed /\ Avail # req.needed
                                 THEN Avail - req.needed ELSE sz[a]]
     \/ TakesFails(hdr, fl, hbp, Avail)
  /\ UNCHANGED <<blackLists, count>>

\* A mutant of SplitLists: what is left of hbp stays where hbp was.
SplitListsInPlace(s) ==
  LET i == FlFromBlocks(s - hbp)
  IN Added(fl, s, Avail - (s - hbp))

\* The lists after hbp is split at s.
SplitLists(s) == Replaced(fl, hbp, s, n, s - hbp)

\* It begins further on: hbp is split there first.
TakeSplit ==
  LET s == Start
      k == Avail - (s - hbp)
  IN /\ Searching /\ Suits
     /\ s # hbp /\ k >= req.needed
     /\ Takes([hdr EXCEPT ![s] = "free"], SplitLists(s), s, k)
     /\ sz' = [a \in Addr |-> IF a = hbp THEN s - hbp
                              ELSE IF a = s THEN req.needed
                              ELSE IF a = s + req.needed /\ k # req.needed
                              THEN k - req.needed ELSE sz[a]]
     /\ UNCHANGED <<blackLists, count>>

\* No place is free of black-listed blocks.
AllBlack == Searching /\ Suits /\ Avail - (Start - hbp) < req.needed

\* A large block is allocated where it is all the same.
Punts == req.needed > BlackLimit /\ Avail - req.needed > BlackLimit

TakeBlack ==
  /\ AllBlack /\ Punts
  /\ Takes(hdr, fl, hbp, Avail)
  /\ sz' = [a \in Addr |-> IF a = hbp THEN req.needed
                           ELSE IF a = hbp + req.needed /\ Avail # req.needed
                           THEN Avail - req.needed ELSE sz[a]]
  /\ UNCHANGED <<blackLists, count>>

\* A block no part of which can hold one block: every fourth is dropped, as
\* blocks for small objects without pointers, and the search goes on at the
\* block before it.
Hopeless == req.needed = 1

DropBlack ==
  LET before == fl.prev[hbp]
      lists == Removed(fl, hbp, n)
  IN /\ AllBlack /\ ~Punts /\ Hopeless
     /\ count = 3
     /\ count' = 0
     /\ large' = large - Avail
     /\ fl' = Forgotten(lists, {hbp})
     /\ hdr' = [a \in Addr |-> IF a \in hbp..(hbp + Avail - 1) THEN "used" ELSE hdr[a]]
     /\ sz' = [a \in Addr |-> IF a \in hbp..(hbp + Avail - 1) THEN 1 ELSE sz[a]]
     /\ hbp' = IF before = 0 THEN lists.head[n] ELSE lists.next[before]
     /\ UNCHANGED <<blackLists, pc, req, n>>

\* A mutant of PassBlack: the search starts the list again.
PassBlackAgain ==
  /\ AllBlack /\ ~Punts
  /\ ~(Hopeless /\ count = 3)
  /\ count' = IF Hopeless THEN (count + 1) % 3 ELSE count
  /\ hbp' = fl.head[n]
  /\ UNCHANGED <<heap, blackLists, pc, req, n>>

PassBlack ==
  /\ AllBlack /\ ~Punts
  /\ ~(Hopeless /\ count = 3)
  /\ count' = IF Hopeless THEN count + 1 ELSE count
  /\ hbp' = fl.next[hbp]
  /\ UNCHANGED <<heap, blackLists, pc, req, n>>

Search == NextList \/ PassOver \/ TakeWhole \/ TakeSplit \/ TakeBlack \/ DropBlack \/ PassBlack

HeapNext ==
  \/ \E p \in Addr, k \in 1..Last : AddToHeap(p, k)
  \/ \E h \in Addr : FreeHblk(h)
  \/ \E p \in Suspect : AddToBlackList(p)
  \/ PromoteBlackLists
  \/ \E r \in Requests : AllocHblk(r)
  \/ Search

HeapSpec == HeapInit /\ [][HeapNext]_heapVars /\ WF_heapVars(Search)

------------------------------------------------------------------------------
\* GC_next_used_block(), looking from h on, steps over free blocks.
NextUsedBlock(h) ==
  LET used[j \in 1..(Last + 1)] ==
        IF j = Last + 1 THEN 0
        ELSE IF hdr[j] \in {"none", "inside"} THEN used[j + 1]
        ELSE IF hdr[j] = "used" THEN j
        ELSE used[j + sz[j]]
  IN used[h]
------------------------------------------------------------------------------
Blocks == {b \in Addr : hdr[b] \in {"free", "used"}}
FreeBlocks == {b \in Addr : hdr[b] = "free"}
Extent(b) == b..(b + sz[b] - 1)

(* The blocks lie side by side: no address is in two, those inside a used   *)
(* block have forwarding counts and those inside a free one have nothing    *)
(* (allchblk.c:658, headers.c:219).                                         *)
BlocksAreDisjoint ==
  /\ \A b \in Blocks : sz[b] > 0 /\ Extent(b) \subseteq Addr
  /\ \A b, c \in Blocks : b # c => Extent(b) \intersect Extent(c) = {}
  /\ \A b \in Blocks : \A a \in Extent(b) \ {b} :
       hdr[a] = IF hdr[b] = "used" THEN "inside" ELSE "none"
  /\ \A a \in Addr : hdr[a] = "inside" => a \in InHeap

(* The free blocks are those on the free lists, each on the list of its     *)
(* size, and the lists are linked both ways (allchblk.c:218-304).           *)
ListsHoldFree ==
  LET Follows(a, b) == fl.next[a] = b
      first == {fl.head[i] : i \in 0..Fls} \ {0}
  IN /\ first \subseteq FreeBlocks
     /\ \A i \in 0..Fls : fl.head[i] # 0 =>
          fl.prev[fl.head[i]] = 0 /\ FlFromBlocks(sz[fl.head[i]]) = i
     /\ \A b \in FreeBlocks :
          /\ fl.prev[b] = 0 => fl.head[FlFromBlocks(sz[b])] = b
          /\ fl.prev[b] # 0 => fl.prev[b] \in FreeBlocks /\ fl.next[fl.prev[b]] = b
          /\ fl.next[b] # 0 => /\ fl.next[b] \in FreeBlocks /\ fl.prev[fl.next[b]] = b
                               /\ FlFromBlocks(sz[fl.next[b]]) = FlFromBlocks(sz[b])

(* Between calls no free block lies next to another (allchblk.c:27).        *)
FreeIsCoalesced ==
  pc = "program" => \A b \in FreeBlocks : b + sz[b] \notin FreeBlocks

(* Not having a header "leaks memory under very rare conditions"            *)
(* (allchblk.c:659) and does no more: a list begins with a free block and   *)
(* leads only to free blocks.                                               *)
OnlyLeaks ==
  LET listed[k \in 0..Last] ==
        IF k = 0 THEN {fl.head[i] : i \in 0..Fls} \ {0}
        ELSE listed[k - 1] \union ({fl.next[b] : b \in listed[k - 1]} \ {0})
  IN listed[Last] \subseteq FreeBlocks

(* The count of free bytes is that of the free blocks (allchblk.c:98):      *)
(* what is allocated, split off, dropped and freed is accounted for.        *)
LargeIsExact ==
  large = Cardinality(UNION {Extent(b) : b \in FreeBlocks})

(* GC_next_used_block(), which steps over whole free blocks (headers.c:291), *)
(* finds the first used block from any place: reclaiming misses none.       *)
WalkFindsUsed ==
  \A h \in Addr : NextUsedBlock(h) = Least({b \in Addr : hdr[b] = "used" /\ b >= h})

(* The blocks of the heap tile it, which the walks over it rely on, and the *)
(* free lists and the count of free bytes are those of the free blocks.     *)
BlocksTileHeap ==
  /\ HeapTypeOK /\ BlocksAreDisjoint /\ FreeIsCoalesced /\ WalkFindsUsed
  /\ ListsHoldFree /\ LargeIsExact

(* A block is allocated where all of it was free, and one for objects with  *)
(* pointers is not where false pointers point, unless both it and what is   *)
(* left of the free block are so large that the search gives up             *)
(* (allchblk.c:535-575).                                                    *)
AllocIsSound ==
  [][pc = "search" /\ pc' = "program" =>
       \A h \in Addr : hdr'[h] = "used" /\ hdr[h] # "used" =>
         /\ sz'[h] = req.needed
         /\ \E b \in FreeBlocks :
              /\ h..(h + req.needed - 1) \subseteq Extent(b)
              /\ \/ ~req.avoids
                 \/ req.needed > BlackLimit /\ sz[b] - req.needed > BlackLimit
                 \/ (IF req.ignoreOffPage THEN {h} ELSE h..(h + req.needed - 1))
                      \intersect (oldBl \union newBl) = {}]_heapVars

(* A call of the allocator ends (allchblk.c:481), also when it drops blocks *)
(* and starts its list again.                                               *)
SearchEnds == pc = "search" ~> pc = "program"

=============================================================================
