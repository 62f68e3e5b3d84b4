------------------------- MODULE ReclamationProofs -------------------------
(***************************************************************************)
(* Theorems about what the collector does with what it reclaims: about     *)
(* HeapBlocks, for a heap and free lists of any size, and about Finalize,  *)
(* for any objects, areas, words and client data.                          *)
(*                                                                         *)
(* The heap is described by two functions, the headers H and the sizes S,  *)
(* so that the lemmas speak of the heaps between the steps of one call as  *)
(* well as of those before and after it.  Geometry says that its blocks    *)
(* lie side by side; one lemma says what each of five changes does to      *)
(* that: to free a block where it is, to use it, to merge it with the      *)
(* next, to split it, and to drop it as blocks of one.  Freeing and        *)
(* allocating are sequences of these.  Linked says that the lists hold     *)
(* the free blocks, and Ordered, by a rank, that no list is a circle,      *)
(* without which unlinking a block would not leave the others linked.      *)
(*                                                                         *)
(* As for finalizers, Live is what the collection at hand will leave in    *)
(* the heap.  It is closed under pointers, and so are the marks while the  *)
(* collector goes through its tables (LiveClosed, MarksClosed): the        *)
(* program, which runs meanwhile, has nothing but marked objects to store. *)
(* The objects whose finalizers are to run stand alone: nothing live but   *)
(* themselves points to them, and no link leads to them (PendingAlone).    *)
(***************************************************************************)
EXTENDS Finalize, HeapBlocks, FiniteSetTheorems, WellFoundedInduction, NaturalsInduction, TLAPS

\* The heap with headers H and sizes S: where its blocks begin, and which are free.
Headers == [Addr -> {"none", "free", "used", "inside"}]
Sizes == [Addr -> 0..Last]
Begins(H, a) == H[a] \in {"free", "used"}
Free(H) == {a \in Addr : H[a] = "free"}

\* Blocks end before the next begins and before the end of the heap, and what is
\* inside them is marked as such.
Geometry(H, S) ==
  /\ \A b \in Addr : Begins(H, b) => S[b] >= 1 /\ b + S[b] <= Last + 1
  /\ \A b, c \in Addr : Begins(H, b) /\ Begins(H, c) /\ b < c => b + S[b] <= c
  /\ \A b, a \in Addr : Begins(H, b) /\ b < a /\ a < b + S[b] =>
       H[a] = IF H[b] = "used" THEN "inside" ELSE "none"
  /\ \A a \in Addr : H[a] = "inside" =>
       \E b \in Addr : Begins(H, b) /\ b < a /\ a < b + S[b]

Coalesced(H, S) == \A b \in Free(H) : b + S[b] \notin Free(H)

\* The addresses in free blocks.
Cells(H, S) == {a \in Addr : \E b \in Free(H) : b <= a /\ a < b + S[b]}

------------------------------------------------------------------------------
LEMMA AddrIs == Last \in Nat /\ Last > 0 /\ \A a : a \in Addr <=> a \in Int /\ 1 <= a /\ a <= Last
BY HeapAssumption DEF Addr

\* The sizes of what is no block do not matter.
LEMMA SameGeometry ==
  ASSUME NEW H \in Headers, NEW S \in Sizes, NEW R \in Sizes, Geometry(H, S),
         \A a \in Addr : Begins(H, a) => R[a] = S[a]
  PROVE  Geometry(H, R) /\ Cells(H, R) = Cells(H, S)
<1>1. Geometry(H, R)
  BY AddrIs DEF Geometry, Sizes
<1>2. \A b \in Free(H) : R[b] = S[b]
  BY DEF Free, Begins
<1> QED BY <1>1, <1>2 DEF Cells

\* A used block becomes free where it is.
FreedHere(H, S, h) ==
  [a \in Addr |-> IF a = h THEN "free" ELSE IF h < a /\ a < h + S[h] THEN "none" ELSE H[a]]

LEMMA FreedHereIs ==
  ASSUME NEW H \in Headers, NEW S \in Sizes, Geometry(H, S), NEW h \in Addr, H[h] = "used"
  PROVE  LET G == FreedHere(H, S, h)
         IN /\ G \in Headers /\ Geometry(G, S)
            /\ Free(G) = Free(H) \union {h}
            /\ h..(h + S[h] - 1) \subseteq Addr /\ Cells(H, S) \intersect h..(h + S[h] - 1) = {}
            /\ Cells(G, S) = Cells(H, S) \union h..(h + S[h] - 1)
<1> DEFINE G == FreedHere(H, S, h)
<1>0. /\ \A a \in Addr : a \in Int /\ S[a] \in Int
      /\ S[h] >= 1 /\ h + S[h] <= Last + 1 /\ Begins(H, h)
  BY AddrIs DEF Sizes, Geometry, Begins
<1>1. G \in Headers
  BY DEF FreedHere, Headers
<1>2. \A a \in Addr : G[a] = IF a = h THEN "free"
                             ELSE IF h < a /\ a < h + S[h] THEN "none" ELSE H[a]
  BY DEF FreedHere
<1> HIDE DEF G
<1>3. \A a \in Addr : h < a /\ a < h + S[h] => H[a] = "inside"
  BY <1>0 DEF Geometry
<1>4. \A a \in Addr : Begins(G, a) <=> Begins(H, a)
  BY <1>0, <1>2, <1>3 DEF Begins
<1>5. Geometry(G, S)
  <2>1. \A b \in Addr : Begins(G, b) => S[b] >= 1 /\ b + S[b] <= Last + 1
    BY <1>4 DEF Geometry
  <2>2. \A b, c \in Addr : Begins(G, b) /\ Begins(G, c) /\ b < c => b + S[b] <= c
    BY <1>4 DEF Geometry
  <2>3. ASSUME NEW b \in Addr, NEW a \in Addr, Begins(G, b), b < a, a < b + S[b]
        PROVE  G[a] = IF G[b] = "used" THEN "inside" ELSE "none"
    <3>1. H[a] = IF H[b] = "used" THEN "inside" ELSE "none"
      BY <1>4, <2>3 DEF Geometry
    <3>2. CASE b = h
      BY <1>0, <1>2, <2>3, <3>2
    <3>3. CASE b # h
      <4>1. b + S[b] <= h \/ h + S[h] <= b
        BY <1>0, <1>4, <2>3, <3>3 DEF Geometry
      <4> QED BY <1>0, <1>2, <2>3, <3>1, <3>3, <4>1
    <3> QED BY <3>2, <3>3
  <2>4. ASSUME NEW a \in Addr, G[a] = "inside"
        PROVE  \E b \in Addr : Begins(G, b) /\ b < a /\ a < b + S[b]
    <3>1. H[a] = "inside"
      BY <1>2, <2>4
    <3> QED BY <1>4, <3>1 DEF Geometry
  <2> QED BY <2>1, <2>2, <2>3, <2>4 DEF Geometry
<1>6. Free(G) = Free(H) \union {h}
  BY <1>2, <1>3 DEF Free
<1>7. h..(h + S[h] - 1) \subseteq Addr
  BY <1>0, AddrIs
<1>8. \A b \in Free(H) : b # h /\ Begins(H, b)
  BY DEF Free, Begins
<1>9. Cells(H, S) \intersect h..(h + S[h] - 1) = {}
  BY <1>0, <1>8 DEF Cells, Geometry, Free
<1>10. Cells(G, S) = Cells(H, S) \union h..(h + S[h] - 1)
  <2>1. \A a \in Addr : a \in h..(h + S[h] - 1) <=> h <= a /\ a < h + S[h]
    BY <1>0
  <2> QED BY <1>6, <1>7, <2>1 DEF Cells
<1> QED BY <1>1, <1>5, <1>6, <1>7, <1>9, <1>10 DEF G

\* A free block becomes used where it is.
UsedHere(H, S, h) ==
  [a \in Addr |-> IF a = h THEN "used" ELSE IF h < a /\ a < h + S[h] THEN "inside" ELSE H[a]]

LEMMA UsedHereIs ==
  ASSUME NEW H \in Headers, NEW S \in Sizes, Geometry(H, S), NEW h \in Addr, H[h] = "free"
  PROVE  LET G == UsedHere(H, S, h)
         IN /\ G \in Headers /\ Geometry(G, S)
            /\ Free(G) = Free(H) \ {h}
            /\ h..(h + S[h] - 1) \subseteq Cells(H, S)
            /\ Cells(G, S) = Cells(H, S) \ h..(h + S[h] - 1)
<1> DEFINE G == UsedHere(H, S, h)
<1>0. /\ \A a \in Addr : a \in Int /\ S[a] \in Int
      /\ S[h] >= 1 /\ h + S[h] <= Last + 1 /\ Begins(H, h)
  BY AddrIs DEF Sizes, Geometry, Begins
<1>1. G \in Headers
  BY DEF UsedHere, Headers
<1>2. \A a \in Addr : G[a] = IF a = h THEN "used"
                             ELSE IF h < a /\ a < h + S[h] THEN "inside" ELSE H[a]
  BY DEF UsedHere
<1> HIDE DEF G
<1>3. \A a \in Addr : h < a /\ a < h + S[h] => H[a] = "none"
  BY <1>0 DEF Geometry
<1>4. \A a \in Addr : Begins(G, a) <=> Begins(H, a)
  BY <1>0, <1>2, <1>3 DEF Begins
<1>5. Geometry(G, S)
  <2>1. \A b \in Addr : Begins(G, b) => S[b] >= 1 /\ b + S[b] <= Last + 1
    BY <1>4 DEF Geometry
  <2>2. \A b, c \in Addr : Begins(G, b) /\ Begins(G, c) /\ b < c => b + S[b] <= c
    BY <1>4 DEF Geometry
  <2>3. ASSUME NEW b \in Addr, NEW a \in Addr, Begins(G, b), b < a, a < b + S[b]
        PROVE  G[a] = IF G[b] = "used" THEN "inside" ELSE "none"
    <3>1. H[a] = IF H[b] = "used" THEN "inside" ELSE "none"
      BY <1>4, <2>3 DEF Geometry
    <3>2. CASE b = h
      BY <1>0, <1>2, <2>3, <3>2
    <3>3. CASE b # h
      <4>1. b + S[b] <= h \/ h + S[h] <= b
        BY <1>0, <1>4, <2>3, <3>3 DEF Geometry
      <4> QED BY <1>0, <1>2, <2>3, <3>1, <3>3, <4>1
    <3> QED BY <3>2, <3>3
  <2>4. ASSUME NEW a \in Addr, G[a] = "inside"
        PROVE  \E b \in Addr : Begins(G, b) /\ b < a /\ a < b + S[b]
    <3>1. CASE H[a] = "inside"
      BY <1>4, <3>1 DEF Geometry
    <3>2. CASE h < a /\ a < h + S[h]
      BY <1>0, <1>4, <3>2
    <3> QED BY <1>2, <2>4, <3>1, <3>2
  <2> QED BY <2>1, <2>2, <2>3, <2>4 DEF Geometry
<1>6. Free(G) = Free(H) \ {h}
  BY <1>2, <1>3 DEF Free
<1>7. \A a \in Addr : a \in h..(h + S[h] - 1) <=> h <= a /\ a < h + S[h]
  BY <1>0
<1>8. h..(h + S[h] - 1) \subseteq Cells(H, S)
  <2>1. h..(h + S[h] - 1) \subseteq Addr
    BY <1>0, AddrIs
  <2> QED BY <1>7, <2>1 DEF Cells, Free
<1>9. \A b \in Free(H), a \in Addr : b # h /\ b <= a /\ a < b + S[b] => ~(h <= a /\ a < h + S[h])
  BY <1>0 DEF Free, Begins, Geometry
<1>10. Cells(G, S) = Cells(H, S) \ h..(h + S[h] - 1)
  BY <1>6, <1>7, <1>9 DEF Cells
<1> QED BY <1>1, <1>5, <1>6, <1>8, <1>10 DEF G

\* Two free blocks side by side become one.
MergedH(H, c) == [H EXCEPT ![c] = "none"]
MergedS(S, b, c) == [S EXCEPT ![b] = S[b] + S[c]]

LEMMA MergedIs ==
  ASSUME NEW H \in Headers, NEW S \in Sizes, Geometry(H, S),
         NEW b \in Addr, NEW c \in Addr, H[b] = "free", H[c] = "free", c = b + S[b]
  PROVE  LET G == MergedH(H, c)
             R == MergedS(S, b, c)
         IN /\ G \in Headers /\ R \in Sizes /\ Geometry(G, R)
            /\ Free(G) = Free(H) \ {c}
            /\ Cells(G, R) = Cells(H, S)
<1> DEFINE G == MergedH(H, c)
           R == MergedS(S, b, c)
<1>0. /\ \A a \in Addr : a \in Int /\ 1 <= a /\ a <= Last /\ S[a] \in Int
      /\ S[b] >= 1 /\ b < c /\ S[c] >= 1 /\ c + S[c] <= Last + 1 /\ Begins(H, b) /\ Begins(H, c)
      /\ Last \in Int
  BY AddrIs DEF Sizes, Geometry, Begins
<1>1. G \in Headers /\ R \in Sizes
  BY <1>0 DEF MergedH, MergedS, Headers, Sizes
<1>2. /\ \A a \in Addr : G[a] = IF a = c THEN "none" ELSE H[a]
      /\ \A a \in Addr : R[a] = IF a = b THEN S[b] + S[c] ELSE S[a]
  BY DEF MergedH, MergedS, Headers, Sizes
<1> HIDE DEF G, R
<1>3. \A a \in Addr : Begins(G, a) <=> Begins(H, a) /\ a # c
  BY <1>2 DEF Begins
<1>4. \A a \in Addr : Begins(H, a) => a <= b \/ a = c \/ c + S[c] <= a
  BY <1>0 DEF Geometry
<1>5. Geometry(G, R)
  <2>1. ASSUME NEW e \in Addr, Begins(G, e)
        PROVE  R[e] >= 1 /\ e + R[e] <= Last + 1
    <3>1. Begins(H, e) /\ S[e] >= 1 /\ e + S[e] <= Last + 1
      BY <1>3, <2>1 DEF Geometry
    <3> QED BY <1>0, <1>2, <3>1
  <2>2. ASSUME NEW d \in Addr, NEW e \in Addr, Begins(G, d), Begins(G, e), d < e
        PROVE  d + R[d] <= e
    <3>1. Begins(H, d) /\ Begins(H, e) /\ e # c /\ d + S[d] <= e
      BY <1>3, <2>2 DEF Geometry
    <3> QED BY <1>0, <1>2, <1>4, <2>2, <3>1
  <2>3. ASSUME NEW e \in Addr, NEW a \in Addr, Begins(G, e), e < a, a < e + R[e]
        PROVE  G[a] = IF G[e] = "used" THEN "inside" ELSE "none"
    <3>1. Begins(H, e) /\ e # c
      BY <1>3, <2>3
    <3>2. CASE e = b
      <4>1. a = c \/ (b < a /\ a < b + S[b]) \/ (c < a /\ a < c + S[c])
        BY <1>0, <1>2, <2>3, <3>2
      <4>2. a # c => H[a] = "none"
        BY <1>0, <4>1 DEF Geometry
      <4> QED BY <1>0, <1>2, <3>2, <4>2
    <3>3. CASE e # b
      <4>1. R[e] = S[e] /\ G[e] = H[e]
        BY <1>2, <3>1, <3>3
      <4>2. H[a] = IF H[e] = "used" THEN "inside" ELSE "none"
        BY <2>3, <3>1, <4>1 DEF Geometry
      <4>3. a # c
        BY <4>2, <1>0
      <4> QED BY <1>2, <4>1, <4>2, <4>3
    <3> QED BY <3>2, <3>3
  <2>4. ASSUME NEW a \in Addr, G[a] = "inside"
        PROVE  \E e \in Addr : Begins(G, e) /\ e < a /\ a < e + R[e]
    <3>1. H[a] = "inside" /\ a # c
      BY <1>2, <2>4
    <3>2. PICK e \in Addr : Begins(H, e) /\ e < a /\ a < e + S[e]
      BY <3>1 DEF Geometry
    <3>3. e # b /\ e # c
      BY <1>0, <3>1, <3>2 DEF Geometry
    <3> QED BY <1>2, <1>3, <3>2, <3>3
  <2> QED BY <2>1, <2>2, <2>3, <2>4 DEF Geometry
<1>6. Free(G) = Free(H) \ {c}
  BY <1>2 DEF Free
<1>7. Cells(G, R) = Cells(H, S)
  <2>1. b \in Free(G) /\ b \in Free(H) /\ c \in Free(H)
    BY <1>0, <1>6 DEF Free
  <2>2. \A a \in Addr : b <= a /\ a < b + R[b] <=>
                          (b <= a /\ a < b + S[b]) \/ (c <= a /\ a < c + S[c])
    BY <1>0, <1>2
  <2>3. \A e \in Free(G) : e = b \/ (e \in Free(H) /\ R[e] = S[e])
    BY <1>2, <1>6 DEF Free
  <2>4. \A e \in Free(H) : e = b \/ e = c \/ (e \in Free(G) /\ R[e] = S[e])
    BY <1>2, <1>6 DEF Free
  <2> QED BY <2>1, <2>2, <2>3, <2>4 DEF Cells
<1> QED BY <1>1, <1>5, <1>6, <1>7 DEF G, R

\* A free block becomes two.
SplitH(H, s) == [H EXCEPT ![s] = "free"]
SplitS(S, b, s) == [S EXCEPT ![b] = s - b, ![s] = S[b] - (s - b)]

LEMMA SplitIs ==
  ASSUME NEW H \in Headers, NEW S \in Sizes, Geometry(H, S),
         NEW b \in Addr, NEW s \in Addr, H[b] = "free", b < s, s < b + S[b]
  PROVE  LET G == SplitH(H, s)
             R == SplitS(S, b, s)
         IN /\ G \in Headers /\ R \in Sizes /\ Geometry(G, R)
            /\ R[b] = s - b /\ R[s] = S[b] - (s - b) /\ H[s] = "none"
            /\ \A a \in Addr : a # b /\ a # s => R[a] = S[a]
            /\ Free(G) = Free(H) \union {s}
            /\ Cells(G, R) = Cells(H, S)
<1> DEFINE G == SplitH(H, s)
           R == SplitS(S, b, s)
<1>0. /\ \A a \in Addr : a \in Int /\ 1 <= a /\ a <= Last /\ S[a] \in Int
      /\ S[b] >= 1 /\ b + S[b] <= Last + 1 /\ Begins(H, b)
      /\ Last \in Int
  BY AddrIs DEF Sizes, Geometry, Begins
<1>1. G \in Headers /\ R \in Sizes
  BY <1>0 DEF SplitH, SplitS, Headers, Sizes
<1>2. /\ \A a \in Addr : G[a] = IF a = s THEN "free" ELSE H[a]
      /\ \A a \in Addr : R[a] = IF a = b THEN s - b ELSE IF a = s THEN S[b] - (s - b) ELSE S[a]
  BY <1>0 DEF SplitH, SplitS, Headers, Sizes
<1> HIDE DEF G, R
<1>3. \A a \in Addr : b < a /\ a < b + S[b] => H[a] = "none"
  BY <1>0 DEF Geometry
<1>4. \A a \in Addr : Begins(G, a) <=> Begins(H, a) \/ a = s
  BY <1>2 DEF Begins
<1>5. \A a \in Addr : Begins(H, a) => a <= b \/ b + S[b] <= a
  BY <1>0 DEF Geometry
<1>6. Geometry(G, R)
  <2>1. ASSUME NEW e \in Addr, Begins(G, e)
        PROVE  R[e] >= 1 /\ e + R[e] <= Last + 1
    <3>1. e = s \/ (S[e] >= 1 /\ e + S[e] <= Last + 1)
      BY <1>4, <2>1 DEF Geometry
    <3> QED BY <1>0, <1>2, <3>1
  <2>2. ASSUME NEW d \in Addr, NEW e \in Addr, Begins(G, d), Begins(G, e), d < e
        PROVE  d + R[d] <= e
    <3>1. Begins(H, d) /\ Begins(H, e) => d + S[d] <= e
      BY <2>2 DEF Geometry
    <3>2. CASE d = s
      <4>1. b + S[b] <= e
        BY <1>0, <1>4, <1>5, <2>2, <3>2
      <4> QED BY <1>0, <1>2, <3>2, <4>1
    <3>3. CASE d # s /\ e = s
      <4>1. Begins(H, d) /\ d <= b
        BY <1>0, <1>4, <1>5, <2>2, <3>3
      <4>2. d = b \/ d + S[d] <= b
        BY <1>0, <4>1 DEF Geometry
      <4> QED BY <1>0, <1>2, <3>3, <4>2
    <3>4. CASE d # s /\ e # s
      BY <1>0, <1>2, <1>4, <2>2, <3>1, <3>4
    <3> QED BY <3>2, <3>3, <3>4
  <2>3. ASSUME NEW e \in Addr, NEW a \in Addr, Begins(G, e), e < a, a < e + R[e]
        PROVE  G[a] = IF G[e] = "used" THEN "inside" ELSE "none"
    <3>1. CASE e = b \/ e = s
      <4>1. b < a /\ a < b + S[b] /\ a # s
        BY <1>0, <1>2, <2>3, <3>1
      <4> QED BY <1>0, <1>2, <1>3, <3>1, <4>1
    <3>2. CASE e # b /\ e # s
      <4>1. Begins(H, e) /\ R[e] = S[e] /\ G[e] = H[e]
        BY <1>2, <1>4, <2>3, <3>2
      <4>2. H[a] = IF H[e] = "used" THEN "inside" ELSE "none"
        BY <2>3, <4>1 DEF Geometry
      <4>3. e + S[e] <= b \/ b + S[b] <= e
        BY <1>0, <3>2, <4>1 DEF Geometry
      <4>4. a # s
        BY <1>0, <2>3, <4>1, <4>3
      <4> QED BY <1>2, <4>1, <4>2, <4>4
    <3> QED BY <3>1, <3>2
  <2>4. ASSUME NEW a \in Addr, G[a] = "inside"
        PROVE  \E e \in Addr : Begins(G, e) /\ e < a /\ a < e + R[e]
    <3>1. H[a] = "inside"
      BY <1>2, <2>4
    <3>2. PICK e \in Addr : Begins(H, e) /\ e < a /\ a < e + S[e]
      BY <3>1 DEF Geometry
    <3>3. e # b /\ e # s
      BY <1>0, <1>3, <3>1, <3>2 DEF Begins
    <3> QED BY <1>2, <1>4, <3>2, <3>3
  <2> QED BY <2>1, <2>2, <2>3, <2>4 DEF Geometry
<1>7. Free(G) = Free(H) \union {s} /\ H[s] = "none"
  BY <1>2, <1>3 DEF Free
<1>8. Cells(G, R) = Cells(H, S)
  <2>1. b \in Free(G) /\ s \in Free(G) /\ b \in Free(H)
    BY <1>0, <1>7 DEF Free
  <2>2. \A a \in Addr : b <= a /\ a < b + S[b] <=>
                          (b <= a /\ a < b + R[b]) \/ (s <= a /\ a < s + R[s])
    BY <1>0, <1>2
  <2>3. \A e \in Free(G) : e = b \/ e = s \/ (e \in Free(H) /\ R[e] = S[e])
    BY <1>2, <1>7 DEF Free
  <2>4. \A e \in Free(H) : e = b \/ (e \in Free(G) /\ R[e] = S[e])
    BY <1>2, <1>7 DEF Free
  <2> QED BY <2>1, <2>2, <2>3, <2>4 DEF Cells
<1>9. R[b] = s - b /\ R[s] = S[b] - (s - b) /\ \A a \in Addr : a # b /\ a # s => R[a] = S[a]
  BY <1>0, <1>2
<1> QED BY <1>1, <1>6, <1>7, <1>8, <1>9 DEF G, R

\* A free block becomes used blocks of one block each.
DroppedH(H, S, h) == [a \in Addr |-> IF a \in h..(h + S[h] - 1) THEN "used" ELSE H[a]]
DroppedS(S, h) == [a \in Addr |-> IF a \in h..(h + S[h] - 1) THEN 1 ELSE S[a]]

LEMMA DroppedIs ==
  ASSUME NEW H \in Headers, NEW S \in Sizes, Geometry(H, S), NEW h \in Addr, H[h] = "free"
  PROVE  LET G == DroppedH(H, S, h)
             R == DroppedS(S, h)
         IN /\ G \in Headers /\ R \in Sizes /\ Geometry(G, R)
            /\ Free(G) = Free(H) \ {h}
            /\ \A b \in Free(G) : R[b] = S[b]
            /\ h..(h + S[h] - 1) \subseteq Cells(H, S)
            /\ Cells(G, R) = Cells(H, S) \ h..(h + S[h] - 1)
<1> DEFINE G == DroppedH(H, S, h)
           R == DroppedS(S, h)
           In(a) == h <= a /\ a < h + S[h]
<1>0. /\ \A a \in Addr : a \in Int /\ 1 <= a /\ a <= Last /\ S[a] \in Int
      /\ S[h] >= 1 /\ h + S[h] <= Last + 1 /\ Begins(H, h)
      /\ Last \in Int /\ 1 \in 0..Last
  BY AddrIs DEF Sizes, Geometry, Begins
<1>1. G \in Headers /\ R \in Sizes
  BY <1>0 DEF DroppedH, DroppedS, Headers, Sizes
<1>2. /\ \A a \in Addr : a \in h..(h + S[h] - 1) <=> In(a)
      /\ \A a \in Addr : G[a] = IF In(a) THEN "used" ELSE H[a]
      /\ \A a \in Addr : R[a] = IF In(a) THEN 1 ELSE S[a]
  BY <1>0 DEF DroppedH, DroppedS
<1> HIDE DEF G, R
<1>3. \A a \in Addr : h < a /\ a < h + S[h] => H[a] = "none"
  BY <1>0 DEF Geometry
<1>4. \A a \in Addr : Begins(H, a) => a = h \/ ~In(a)
  BY <1>0, <1>3 DEF Begins
<1>5. \A e \in Addr : Begins(G, e) /\ ~In(e) => Begins(H, e) /\ R[e] = S[e] /\ G[e] = H[e]
                                              /\ (e + S[e] <= h \/ h + S[h] <= e)
  BY <1>0, <1>2 DEF Begins, Geometry
<1>6. Geometry(G, R)
  <2>1. ASSUME NEW e \in Addr, Begins(G, e)
        PROVE  R[e] >= 1 /\ e + R[e] <= Last + 1
    <3>1. CASE In(e)
      BY <1>0, <1>2, <3>1
    <3>2. CASE ~In(e)
      BY <1>5, <2>1, <3>2 DEF Geometry
    <3> QED BY <3>1, <3>2
  <2>2. ASSUME NEW d \in Addr, NEW e \in Addr, Begins(G, d), Begins(G, e), d < e
        PROVE  d + R[d] <= e
    <3>1. CASE In(d)
      BY <1>0, <1>2, <2>2, <3>1
    <3>2. CASE ~In(d) /\ In(e)
      BY <1>0, <1>2, <1>5, <2>2, <3>2
    <3>3. CASE ~In(d) /\ ~In(e)
      BY <1>5, <2>2, <3>3 DEF Geometry
    <3> QED BY <3>1, <3>2, <3>3
  <2>3. ASSUME NEW e \in Addr, NEW a \in Addr, Begins(G, e), e < a, a < e + R[e]
        PROVE  G[a] = IF G[e] = "used" THEN "inside" ELSE "none"
    <3>1. ~In(e)
      BY <1>0, <1>2, <2>3
    <3>2. ~In(a)
      BY <1>0, <1>5, <2>3, <3>1
    <3> QED BY <1>2, <1>5, <2>3, <3>1, <3>2 DEF Geometry
  <2>4. ASSUME NEW a \in Addr, G[a] = "inside"
        PROVE  \E e \in Addr : Begins(G, e) /\ e < a /\ a < e + R[e]
    <3>1. H[a] = "inside" /\ ~In(a)
      BY <1>2, <2>4
    <3>2. PICK e \in Addr : Begins(H, e) /\ e < a /\ a < e + S[e]
      BY <3>1 DEF Geometry
    <3>3. e # h
      BY <1>0, <3>1, <3>2
    <3>4. ~In(e)
      BY <1>4, <3>2, <3>3
    <3> QED BY <1>2, <3>2, <3>4 DEF Begins
  <2> QED BY <2>1, <2>2, <2>3, <2>4 DEF Geometry
<1>7. Free(G) = Free(H) \ {h}
  BY <1>0, <1>2, <1>4 DEF Free, Begins
<1>8. \A b \in Free(G) : R[b] = S[b] /\ ~In(b) /\ b \in Addr
  BY <1>2 DEF Free
<1>9. h..(h + S[h] - 1) \subseteq Cells(H, S)
  <2>1. h..(h + S[h] - 1) \subseteq Addr
    BY <1>0, AddrIs
  <2> QED BY <1>2, <2>1 DEF Cells, Free
<1>10. \A b \in Free(G), a \in Addr : b <= a /\ a < b + S[b] => ~In(a)
  <2>1. \A b \in Free(G) : b + S[b] <= h \/ h + S[h] <= b
    BY <1>5, <1>8 DEF Free, Begins
  <2> QED BY <1>0, <1>8, <2>1
<1>11. Cells(G, R) = Cells(H, S) \ h..(h + S[h] - 1)
  BY <1>2, <1>7, <1>8, <1>10 DEF Cells
<1> QED BY <1>1, <1>6, <1>7, <1>8, <1>9, <1>11 DEF G, R

------------------------------------------------------------------------------
\* The free lists hold F, block b the one L[b], linked both ways.
ListsType == [head : [0..Fls -> 0..Last], next : [Addr -> 0..Last], prev : [Addr -> 0..Last]]

Linked(lists, F, L) ==
  /\ \A i \in 0..Fls : lists.head[i] # 0 =>
       /\ lists.head[i] \in F /\ lists.prev[lists.head[i]] = 0 /\ L[lists.head[i]] = i
  /\ \A b \in F :
       /\ lists.prev[b] = 0 => lists.head[L[b]] = b
       /\ lists.prev[b] # 0 => lists.prev[b] \in F /\ lists.next[lists.prev[b]] = b
       /\ lists.next[b] # 0 =>
            lists.next[b] \in F /\ lists.prev[lists.next[b]] = b /\ L[lists.next[b]] = L[b]

LEMMA SameLinked ==
  ASSUME NEW l, NEW F, NEW L, NEW K, Linked(l, F, L), \A b \in F : K[b] = L[b]
  PROVE  Linked(l, F, K)
BY DEF Linked

\* No list is a circle.
Ordered(lists, F) ==
  \E r \in [Addr -> Nat] : \A b \in F : lists.next[b] # 0 => r[b] < r[lists.next[b]]

LEMMA NullIs ==
  /\ 0 \notin Addr /\ Addr \subseteq Int /\ Addr \subseteq 0..Last /\ 0 \in 0..Last
  /\ \A a \in 0..Last : a # 0 => a \in Addr
BY AddrIs

LEMMA ListsAre ==
  ASSUME NEW l \in ListsType
  PROVE  /\ l.head \in [0..Fls -> 0..Last] /\ l.next \in [Addr -> 0..Last]
         /\ l.prev \in [Addr -> 0..Last]
BY DEF ListsType

LEMMA RemovedIs ==
  ASSUME NEW l \in ListsType, NEW F \in SUBSET Addr, NEW L \in [Addr -> 0..Fls],
         Linked(l, F, L), Ordered(l, F), NEW b \in F, NEW i, i = L[b]
  PROVE  LET m == Removed(l, b, i)
             before == l.prev[b]
         IN /\ m \in ListsType /\ Linked(m, F \ {b}, L) /\ Ordered(m, F \ {b})
            /\ before # 0 => before \in F \ {b} /\ L[before] = i
<1> DEFINE before == l.prev[b]
           after == l.next[b]
           m == Removed(l, b, i)
<1>0. /\ b \in Addr /\ b # 0 /\ i \in 0..Fls /\ before \in 0..Last /\ after \in 0..Last
      /\ l.head \in [0..Fls -> 0..Last] /\ l.next \in [Addr -> 0..Last]
      /\ l.prev \in [Addr -> 0..Last]
  BY NullIs, ListsAre
<1>1. /\ m.head = IF before = 0 THEN [l.head EXCEPT ![i] = after] ELSE l.head
      /\ m.next = IF before = 0 THEN l.next ELSE [l.next EXCEPT ![before] = after]
      /\ m.prev = IF after = 0 THEN l.prev ELSE [l.prev EXCEPT ![after] = before]
      /\ m = [head |-> m.head, next |-> m.next, prev |-> m.prev]
  BY DEF Removed
<1>2. before # 0 => before \in F /\ l.next[before] = b
  BY DEF Linked
<1>3. after # 0 => after \in F /\ l.prev[after] = b /\ L[after] = i
  BY DEF Linked
<1>4. before = 0 => l.head[i] = b
  BY DEF Linked
<1>5. PICK r \in [Addr -> Nat] : \A a \in F : l.next[a] # 0 => r[a] < r[l.next[a]]
  BY DEF Ordered
<1>6. before # 0 => before \in F \ {b} /\ L[before] = i /\ before \in Addr
  <2>1. before # 0 => L[before] = i
    BY <1>0, <1>2 DEF Linked
  <2>2. before # 0 => before # b
    <3>1. before # 0 => r[before] < r[b]
      BY <1>0, <1>2, <1>5
    <3>2. r[b] \in Nat
      BY <1>0, <1>5
    <3> HIDE DEF before
    <3> QED BY <3>1, <3>2
  <2> QED BY <1>2, <2>1, <2>2
<1>7. after # 0 => after # b /\ after \in Addr
  <2>1. after # 0 => r[b] < r[after]
    BY <1>5
  <2>2. r[b] \in Nat
    BY <1>0, <1>5
  <2> HIDE DEF after
  <2> QED BY <1>0, <1>3, <2>1, <2>2, NullIs
<1> HIDE DEF m, before, after
<1>8. m \in ListsType
  <2>1. m.head \in [0..Fls -> 0..Last]
    BY <1>0, <1>1
  <2>2. m.next \in [Addr -> 0..Last]
    BY <1>0, <1>1
  <2>3. m.prev \in [Addr -> 0..Last]
    BY <1>0, <1>1
  <2> QED BY <1>1, <2>1, <2>2, <2>3 DEF ListsType
<1>9. /\ \A j \in 0..Fls : m.head[j] = IF before = 0 /\ j = i THEN after ELSE l.head[j]
      /\ \A a \in Addr : m.next[a] = IF a = before THEN after ELSE l.next[a]
      /\ \A a \in Addr : m.prev[a] = IF a = after THEN before ELSE l.prev[a]
  BY <1>0, <1>1, NullIs
<1>10. Linked(m, F \ {b}, L)
  <2>1. ASSUME NEW j \in 0..Fls, m.head[j] # 0
        PROVE  m.head[j] \in F \ {b} /\ m.prev[m.head[j]] = 0 /\ L[m.head[j]] = j
    <3>1. CASE before = 0 /\ j = i
      BY <1>3, <1>7, <1>9, <2>1, <3>1
    <3>2. CASE ~(before = 0 /\ j = i)
      <4>1. m.head[j] = l.head[j]
        BY <1>9, <3>2
      <4>2. l.head[j] \in F /\ l.prev[l.head[j]] = 0 /\ L[l.head[j]] = j
        BY <2>1, <4>1 DEF Linked
      <4>3. l.head[j] # b
        BY <3>2, <4>2 DEF before
      <4>4. l.head[j] # after
        BY <1>0, <1>3, <2>1, <4>1, <4>2
      <4> QED BY <1>9, <4>1, <4>2, <4>3, <4>4
    <3> QED BY <3>1, <3>2
  <2>2. ASSUME NEW a \in F \ {b}
        PROVE  /\ m.prev[a] = 0 => m.head[L[a]] = a
               /\ m.prev[a] # 0 => m.prev[a] \in F \ {b} /\ m.next[m.prev[a]] = a
               /\ m.next[a] # 0 =>
                    m.next[a] \in F \ {b} /\ m.prev[m.next[a]] = a /\ L[m.next[a]] = L[a]
    <3>0. /\ a \in Addr /\ L[a] \in 0..Fls
          /\ l.prev[a] = 0 => l.head[L[a]] = a
          /\ l.prev[a] # 0 => l.prev[a] \in F /\ l.next[l.prev[a]] = a
          /\ l.next[a] # 0 => l.next[a] \in F /\ l.prev[l.next[a]] = a /\ L[l.next[a]] = L[a]
      BY DEF Linked
    <3>1. CASE a = after
      <4>1. m.prev[a] = before /\ a # 0 /\ L[a] = i
        BY <1>3, <1>9, <3>0, <3>1, NullIs
      <4>2. before = 0 => m.head[L[a]] = a
        BY <1>9, <3>0, <3>1, <4>1
      <4>3. before # 0 => before \in F \ {b} /\ m.next[before] = a
        BY <1>6, <1>9, <3>1
      <4> HIDE DEF before
      <4>4. m.next[a] # 0 =>
              m.next[a] \in F \ {b} /\ m.prev[m.next[a]] = a /\ L[m.next[a]] = L[a]
        <5>1. a # before
          <6>1. r[b] < r[a]
            BY <1>5, <3>1, <4>1 DEF after
          <6>2. before # 0 => r[before] < r[b]
            BY <1>0, <1>2, <1>5
          <6> QED BY <1>0, <1>6, <3>0, <4>1, <6>1, <6>2
        <5>2. m.next[a] = l.next[a]
          BY <1>9, <3>0, <5>1
        <5>3. l.next[a] # 0 => l.next[a] # after /\ l.next[a] # b
          BY <1>0, <1>3, <3>0, <3>1, <5>1, <4>1, <1>5 DEF before
        <5> QED BY <1>9, <3>0, <5>2, <5>3
      <4> QED BY <4>1, <4>2, <4>3, <4>4
    <3>2. CASE a # after
      <4>1. m.prev[a] = l.prev[a] /\ l.prev[a] # b
        BY <1>0, <1>9, <3>0, <3>2 DEF after
      <4>2. l.prev[a] # 0 => l.prev[a] # before
        BY <1>2, <1>6, <3>0
      <4>3. l.prev[a] = 0 => m.head[L[a]] = a
        <5>1. l.prev[a] = 0 /\ before = 0 => L[a] # i
          BY <1>4, <3>0
        <5> QED BY <1>9, <3>0, <5>1
      <4>4. l.prev[a] # 0 => l.prev[a] \in F \ {b} /\ m.next[l.prev[a]] = a
        BY <1>9, <3>0, <4>1, <4>2
      <4>5. CASE a = before
        <5>1. m.next[a] = after
          BY <1>9, <3>0, <4>5
        <5>2. after # 0 => m.prev[after] = a /\ L[after] = L[a] /\ after \in F \ {b}
          BY <1>3, <1>6, <1>7, <1>9, <4>5, <3>0, NullIs
        <5> QED BY <4>1, <4>3, <4>4, <5>1, <5>2
      <4>6. CASE a # before
        <5>1. m.next[a] = l.next[a]
          BY <1>9, <3>0, <4>6
        <5>2. l.next[a] # 0 => l.next[a] # b /\ l.next[a] # after
          BY <1>3, <3>0, <4>6 DEF before
        <5>3. l.next[a] # 0 => m.prev[l.next[a]] = a
          BY <1>9, <3>0, <5>2
        <5> QED BY <3>0, <4>1, <4>3, <4>4, <5>1, <5>2, <5>3
      <4> QED BY <4>5, <4>6
    <3> QED BY <3>1, <3>2
  <2> QED BY <2>1, <2>2 DEF Linked
<1>11. Ordered(m, F \ {b})
  <2>1. ASSUME NEW a \in F \ {b}, m.next[a] # 0
        PROVE  r[a] < r[m.next[a]]
    <3>1. CASE a = before
      <4>0. m.next[a] = after /\ after # 0 /\ l.next[a] = b
        BY <1>2, <1>9, <2>1, <3>1, NullIs
      <4>1. r[a] < r[b]
        BY <1>0, <1>5, <4>0
      <4>2. r[b] < r[after]
        BY <1>5, <4>0 DEF after
      <4>3. r[a] \in Nat /\ r[b] \in Nat /\ r[after] \in Nat
        BY <1>0, <1>7, <4>0, NullIs
      <4> QED BY <4>0, <4>1, <4>2, <4>3
    <3>2. CASE a # before
      BY <1>5, <1>9, <2>1, <3>2
    <3> QED BY <3>1, <3>2
  <2> QED BY <2>1 DEF Ordered
<1> QED BY <1>6, <1>8, <1>10, <1>11 DEF m, before

\* The least ranks are free for a block at the head of its list.
LEMMA AddedIs ==
  ASSUME NEW l \in ListsType, NEW F \in SUBSET Addr, NEW L \in [Addr -> 0..Fls],
         Linked(l, F, L), Ordered(l, F), NEW b \in Addr, b \notin F,
         NEW k, FlFromBlocks(k) \in 0..Fls,
         NEW K \in [Addr -> 0..Fls], K[b] = FlFromBlocks(k), \A a \in F : K[a] = L[a]
  PROVE  LET m == Added(l, b, k)
         IN m \in ListsType /\ Linked(m, F \union {b}, K) /\ Ordered(m, F \union {b})
<1> DEFINE i == FlFromBlocks(k)
           second == l.head[i]
           m == Added(l, b, k)
<1>0. /\ b # 0 /\ b \in 0..Last /\ i \in 0..Fls /\ second \in 0..Last /\ 0 \in 0..Last
      /\ l.head \in [0..Fls -> 0..Last] /\ l.next \in [Addr -> 0..Last]
      /\ l.prev \in [Addr -> 0..Last]
  BY NullIs, ListsAre
<1>1. /\ m.head = [l.head EXCEPT ![i] = b]
      /\ m.next = [l.next EXCEPT ![b] = second]
      /\ m.prev = [a \in Addr |-> IF a = b THEN 0 ELSE IF a = second THEN b ELSE l.prev[a]]
      /\ m = [head |-> m.head, next |-> m.next, prev |-> m.prev]
  BY DEF Added
<1>2. second # 0 => second \in F /\ l.prev[second] = 0 /\ L[second] = i /\ second # b
  BY <1>0 DEF Linked
<1>3. PICK r \in [Addr -> Nat] : \A a \in F : l.next[a] # 0 => r[a] < r[l.next[a]]
  BY DEF Ordered
<1>4. K[b] = i
  OBVIOUS
<1> HIDE DEF m, second, i
<1>5. m \in ListsType
  <2>1. m.head \in [0..Fls -> 0..Last] /\ m.next \in [Addr -> 0..Last]
    BY <1>0, <1>1
  <2>2. m.prev \in [Addr -> 0..Last]
    BY <1>0, <1>1
  <2> QED BY <1>1, <2>1, <2>2 DEF ListsType
<1>6. /\ \A j \in 0..Fls : m.head[j] = IF j = i THEN b ELSE l.head[j]
      /\ \A a \in Addr : m.next[a] = IF a = b THEN second ELSE l.next[a]
      /\ \A a \in Addr : m.prev[a] = IF a = b THEN 0 ELSE IF a = second THEN b ELSE l.prev[a]
  BY <1>0, <1>1
<1>7. Linked(m, F \union {b}, K)
  <2>1. ASSUME NEW j \in 0..Fls, m.head[j] # 0
        PROVE  m.head[j] \in F \union {b} /\ m.prev[m.head[j]] = 0 /\ K[m.head[j]] = j
    <3>1. CASE j = i
      BY <1>4, <1>6, <3>1
    <3>2. CASE j # i
      <4>1. m.head[j] = l.head[j] /\ l.head[j] \in F /\ l.prev[l.head[j]] = 0 /\ L[l.head[j]] = j
        BY <1>6, <2>1, <3>2 DEF Linked
      <4>2. l.head[j] # second
        BY <1>2, <2>1, <3>2, <4>1
      <4> QED BY <1>6, <4>1, <4>2
    <3> QED BY <3>1, <3>2
  <2>2. ASSUME NEW a \in F
        PROVE  /\ m.prev[a] = 0 => m.head[K[a]] = a
               /\ m.prev[a] # 0 => m.prev[a] \in F \union {b} /\ m.next[m.prev[a]] = a
               /\ m.next[a] # 0 =>
                    m.next[a] \in F /\ m.prev[m.next[a]] = a /\ K[m.next[a]] = K[a]
    <3>0. /\ a \in Addr /\ L[a] \in 0..Fls /\ K[a] = L[a] /\ a # b
          /\ l.prev[a] = 0 => l.head[L[a]] = a
          /\ l.prev[a] # 0 => l.prev[a] \in F /\ l.next[l.prev[a]] = a
          /\ l.next[a] # 0 => l.next[a] \in F /\ l.prev[l.next[a]] = a /\ L[l.next[a]] = L[a]
      BY DEF Linked
    <3>1. m.prev[a] = 0 => m.head[K[a]] = a
      BY <1>0, <1>6, <3>0 DEF second
    <3>2. m.prev[a] # 0 => m.prev[a] \in F \union {b} /\ m.next[m.prev[a]] = a
      <4>1. CASE a = second
        BY <1>6, <3>0, <4>1
      <4>2. CASE a # second
        BY <1>6, <3>0, <4>2
      <4> QED BY <4>1, <4>2
    <3>3. m.next[a] = l.next[a]
      BY <1>6, <3>0
    <3>4. l.next[a] # 0 => l.next[a] # second
      BY <1>2, <3>0, NullIs
    <3>5. l.next[a] # 0 => m.prev[l.next[a]] = a /\ K[l.next[a]] = K[a]
      BY <1>6, <3>0, <3>4
    <3> QED BY <3>0, <3>1, <3>2, <3>3, <3>5
  <2>3. /\ m.prev[b] = 0 /\ m.head[K[b]] = b
        /\ m.next[b] # 0 =>
             m.next[b] \in F /\ m.prev[m.next[b]] = b /\ K[m.next[b]] = K[b]
    BY <1>0, <1>2, <1>4, <1>6
  <2> QED BY <2>1, <2>2, <2>3 DEF Linked
<1>8. Ordered(m, F \union {b})
  <2> DEFINE s == [a \in Addr |-> IF a = b THEN 0 ELSE r[a] + 1]
  <2>1. s \in [Addr -> Nat]
    BY <1>3
  <2>2. ASSUME NEW a \in F \union {b}, m.next[a] # 0
        PROVE  s[a] < s[m.next[a]]
    <3>1. CASE a = b
      <4>1. m.next[a] = second /\ second \in Addr /\ second # b /\ r[second] \in Nat
        BY <1>2, <1>6, <2>2, <3>1
      <4> QED BY <3>1, <4>1
    <3>2. CASE a # b
      <4>1. a \in F /\ a \in Addr /\ m.next[a] = l.next[a]
        BY <1>6, <3>2
      <4>2. l.next[a] \in F /\ l.next[a] # b /\ r[a] < r[l.next[a]]
        BY <1>3, <2>2, <4>1 DEF Linked
      <4> QED BY <1>3, <3>2, <4>1, <4>2
    <3> QED BY <3>1, <3>2
  <2> HIDE DEF s
  <2> QED BY <2>1, <2>2 DEF Ordered
<1> QED BY <1>5, <1>7, <1>8 DEF m

\* What is forgotten is on no list.
LEMMA ForgottenIs ==
  ASSUME NEW l \in ListsType, NEW F \in SUBSET Addr, NEW L,
         Linked(l, F, L), Ordered(l, F), NEW B, B \intersect F = {}
  PROVE  LET m == Forgotten(l, B)
         IN m \in ListsType /\ Linked(m, F, L) /\ Ordered(m, F)
<1> DEFINE m == Forgotten(l, B)
<1>0. /\ l.head \in [0..Fls -> 0..Last] /\ l.next \in [Addr -> 0..Last]
      /\ l.prev \in [Addr -> 0..Last] /\ 0 \in 0..Last
  BY NullIs, ListsAre
<1> DEFINE next == [a \in Addr |-> IF a \in B THEN 0 ELSE l.next[a]]
           prev == [a \in Addr |-> IF a \in B THEN 0 ELSE l.prev[a]]
<1>1. m = [l EXCEPT !.next = next, !.prev = prev]
  BY DEF Forgotten
<1>2. next \in [Addr -> 0..Last] /\ prev \in [Addr -> 0..Last]
  BY <1>0
<1> HIDE DEF m, next, prev
<1>6. m \in ListsType /\ m.head = l.head /\ m.next = next /\ m.prev = prev
  BY <1>1, <1>2 DEF ListsType
<1>3. \A a \in F : m.next[a] = l.next[a] /\ m.prev[a] = l.prev[a]
  BY <1>6 DEF next, prev
<1>4. Linked(m, F, L)
  BY <1>3, <1>6 DEF Linked
<1>5. Ordered(m, F)
  BY <1>3 DEF Ordered
<1> QED BY <1>4, <1>5, <1>6 DEF m

\* Another block takes the place of b, and b that of its new size.
LEMMA ReplacedIs ==
  ASSUME NEW l \in ListsType, NEW F \in SUBSET Addr, NEW L \in [Addr -> 0..Fls],
         Linked(l, F, L), Ordered(l, F), NEW b \in F, NEW i, i = L[b],
         NEW s \in Addr, s \notin F, NEW k, FlFromBlocks(k) \in 0..Fls,
         NEW K \in [Addr -> 0..Fls], K[b] = FlFromBlocks(k), K[s] = i,
         \A a \in F : a # b => K[a] = L[a]
  PROVE  LET m == Replaced(l, b, s, i, k)
         IN m \in ListsType /\ Linked(m, F \union {s}, K) /\ Ordered(m, F \union {s})
<1> DEFINE before == l.prev[b]
           after == l.next[b]
           m == [head |-> IF before = 0 THEN [l.head EXCEPT ![i] = s] ELSE l.head,
                 next |-> [a \in Addr |-> IF a = s THEN after ELSE IF a = before THEN s
                                          ELSE l.next[a]],
                 prev |-> [a \in Addr |-> IF a = s THEN before ELSE IF a = after THEN s
                                          ELSE l.prev[a]]]
           G == (F \ {b}) \union {s}
<1>0. /\ b \in Addr /\ b # 0 /\ i \in 0..Fls /\ before \in 0..Last /\ after \in 0..Last
      /\ s # 0 /\ s # b /\ s \in 0..Last
      /\ l.head \in [0..Fls -> 0..Last] /\ l.next \in [Addr -> 0..Last]
      /\ l.prev \in [Addr -> 0..Last]
  BY NullIs, ListsAre
<1>1. Replaced(l, b, s, i, k) = Added(m, b, k)
  BY DEF Replaced
<1>2. before # 0 => before \in F /\ l.next[before] = b
  BY DEF Linked
<1>3. after # 0 => after \in F /\ l.prev[after] = b /\ L[after] = i
  BY DEF Linked
<1>4. before = 0 => l.head[i] = b
  BY DEF Linked
<1>5. PICK r \in [Addr -> Nat] : \A a \in F : l.next[a] # 0 => r[a] < r[l.next[a]]
  BY DEF Ordered
<1>6. before # 0 => before \in F \ {b} /\ L[before] = i /\ before \in Addr /\ before # s
  <2>1. ASSUME before # 0 PROVE L[before] = i
    <3>1. before \in F /\ l.next[before] = b /\ b # 0
      BY <1>0, <1>2, <2>1
    <3> HIDE DEF before
    <3> QED BY <3>1 DEF Linked
  <2>2. before # 0 => before # b
    <3>1. before # 0 => r[before] < r[b]
      BY <1>0, <1>2, <1>5
    <3>2. r[b] \in Nat
      BY <1>0, <1>5
    <3> HIDE DEF before
    <3> QED BY <3>1, <3>2
  <2> QED BY <1>2, <2>1, <2>2
<1>7. after # 0 => after # b /\ after \in Addr /\ after # s /\ after \in F \ {b}
  <2>1. after # 0 => r[b] < r[after]
    BY <1>5
  <2>2. r[b] \in Nat
    BY <1>0, <1>5
  <2> HIDE DEF after
  <2> QED BY <1>3, <2>1, <2>2
<1>8. m \in ListsType
  <2>1. m.head \in [0..Fls -> 0..Last]
    BY <1>0
  <2>2. m.next \in [Addr -> 0..Last]
    BY <1>0
  <2>3. m.prev \in [Addr -> 0..Last]
    BY <1>0
  <2> QED BY <2>1, <2>2, <2>3 DEF ListsType
<1>9. /\ \A j \in 0..Fls : m.head[j] = IF before = 0 /\ j = i THEN s ELSE l.head[j]
      /\ \A a \in Addr : m.next[a] = IF a = s THEN after ELSE IF a = before THEN s ELSE l.next[a]
      /\ \A a \in Addr : m.prev[a] = IF a = s THEN before ELSE IF a = after THEN s ELSE l.prev[a]
  BY <1>0
<1>10. \A a \in F \ {b} : K[a] = L[a]
  OBVIOUS
<1> HIDE DEF m, before, after
<1>11. Linked(m, G, K)
  <2>1. ASSUME NEW j \in 0..Fls, m.head[j] # 0
        PROVE  m.head[j] \in G /\ m.prev[m.head[j]] = 0 /\ K[m.head[j]] = j
    <3>1. CASE before = 0 /\ j = i
      BY <1>9, <3>1
    <3>2. CASE ~(before = 0 /\ j = i)
      <4>1. m.head[j] = l.head[j]
        BY <1>9, <3>2
      <4>2. l.head[j] \in F /\ l.prev[l.head[j]] = 0 /\ L[l.head[j]] = j
        BY <2>1, <4>1 DEF Linked
      <4>3. l.head[j] # b
        BY <3>2, <4>2 DEF before
      <4>4. l.head[j] # after
        BY <1>0, <1>3, <2>1, <4>1, <4>2
      <4> QED BY <1>9, <4>1, <4>2, <4>3, <4>4
    <3> QED BY <3>1, <3>2
  <2>2. ASSUME NEW a \in F \ {b}
        PROVE  /\ m.prev[a] = 0 => m.head[K[a]] = a
               /\ m.prev[a] # 0 => m.prev[a] \in G /\ m.next[m.prev[a]] = a
               /\ m.next[a] # 0 =>
                    m.next[a] \in G /\ m.prev[m.next[a]] = a /\ K[m.next[a]] = K[a]
    <3>0. /\ a \in Addr /\ L[a] \in 0..Fls /\ K[a] = L[a] /\ a # s /\ a # 0
          /\ l.prev[a] = 0 => l.head[L[a]] = a
          /\ l.prev[a] # 0 => l.prev[a] \in F /\ l.next[l.prev[a]] = a
          /\ l.next[a] # 0 => l.next[a] \in F /\ l.prev[l.next[a]] = a /\ L[l.next[a]] = L[a]
      BY NullIs DEF Linked
    <3>1. m.prev[a] = 0 => m.head[K[a]] = a
      <4>1. a = after => m.prev[a] = s
        BY <1>9, <3>0
      <4>2. a # after => m.prev[a] = l.prev[a]
        BY <1>9, <3>0
      <4>3. l.prev[a] = 0 => ~(before = 0 /\ L[a] = i)
        BY <1>4, <3>0
      <4> QED BY <1>0, <1>9, <3>0, <4>1, <4>2, <4>3
    <3>2. m.prev[a] # 0 => m.prev[a] \in G /\ m.next[m.prev[a]] = a
      <4>1. CASE a = after
        BY <1>9, <3>0, <4>1
      <4>2. CASE a # after
        <5>1. m.prev[a] = l.prev[a] /\ l.prev[a] # b
          BY <1>0, <1>9, <3>0, <4>2 DEF after
        <5>2. l.prev[a] # 0 => l.prev[a] # before /\ l.prev[a] # s
          BY <1>2, <1>6, <3>0
        <5> QED BY <1>9, <3>0, <5>1, <5>2
      <4> QED BY <4>1, <4>2
    <3>3. m.next[a] # 0 => m.next[a] \in G /\ m.prev[m.next[a]] = a /\ K[m.next[a]] = K[a]
      <4>1. CASE a = before
        <5>1. m.next[a] = s
          BY <1>9, <3>0, <4>1
        <5>2. m.prev[s] = a
          BY <1>9, <4>1
        <5> QED BY <1>6, <3>0, <4>1, <5>1, <5>2
      <4>2. CASE a # before
        <5>1. m.next[a] = l.next[a]
          BY <1>9, <3>0, <4>2
        <5>2. l.next[a] # 0 => l.next[a] # b /\ l.next[a] # after /\ l.next[a] # s
          BY <1>3, <3>0, <4>2 DEF before
        <5>3. l.next[a] # 0 => m.prev[l.next[a]] = a
          BY <1>9, <3>0, <5>2
        <5> QED BY <1>10, <3>0, <5>1, <5>2, <5>3
      <4> QED BY <4>1, <4>2
    <3> QED BY <3>1, <3>2, <3>3
  <2>3. /\ m.prev[s] = 0 => m.head[K[s]] = s
        /\ m.prev[s] # 0 => m.prev[s] \in G /\ m.next[m.prev[s]] = s
        /\ m.next[s] # 0 => m.next[s] \in G /\ m.prev[m.next[s]] = s /\ K[m.next[s]] = K[s]
    <3>1. m.prev[s] = before /\ m.next[s] = after
      BY <1>9
    <3>2. before = 0 => m.head[i] = s
      BY <1>0, <1>9
    <3>3. before # 0 => before \in G /\ m.next[before] = s
      BY <1>6, <1>9
    <3>4. after # 0 => after \in G /\ m.prev[after] = s /\ K[after] = i
      BY <1>3, <1>7, <1>9, <1>10
    <3> QED BY <3>1, <3>2, <3>3, <3>4
  <2> QED BY <2>1, <2>2, <2>3 DEF Linked
<1>12. Ordered(m, G)
  <2> DEFINE q == [r EXCEPT ![s] = r[b]]
  <2>1. q \in [Addr -> Nat] /\ q[s] = r[b] /\ \A a \in Addr : a # s => q[a] = r[a]
    BY <1>0, <1>5
  <2> HIDE DEF q
  <2>2. ASSUME NEW a \in G, m.next[a] # 0
        PROVE  q[a] < q[m.next[a]]
    <3>1. CASE a = s
      <4>1. m.next[a] = after /\ after # 0
        BY <1>9, <2>2, <3>1
      <4>2. r[b] < r[after]
        BY <1>5, <4>1 DEF after
      <4> QED BY <1>7, <2>1, <3>1, <4>1, <4>2
    <3>2. CASE a # s /\ a = before
      <4>1. m.next[a] = s /\ l.next[a] = b
        <5>1. a \in Addr /\ before # 0
          BY <1>0, <3>2, NullIs
        <5> QED BY <1>2, <1>9, <3>2, <5>1
      <4>2. r[a] < r[b]
        BY <1>0, <1>5, <3>2, <4>1
      <4> QED BY <2>1, <3>2, <4>1, <4>2
    <3>3. CASE a # s /\ a # before
      <4>1. a \in F /\ m.next[a] = l.next[a]
        BY <1>9, <3>3
      <4>2. l.next[a] \in F
        BY <2>2, <4>1 DEF Linked
      <4> QED BY <1>5, <2>1, <2>2, <3>3, <4>1, <4>2
    <3> QED BY <3>1, <3>2, <3>3
  <2> QED BY <2>1, <2>2 DEF Ordered
<1>13. b \notin G /\ G \in SUBSET Addr /\ G \union {b} = F \union {s}
  BY <1>0
<1> HIDE DEF G
<1>14. LET p == Added(m, b, k)
       IN p \in ListsType /\ Linked(p, G \union {b}, K) /\ Ordered(p, G \union {b})
  BY <1>0, <1>8, <1>11, <1>12, <1>13, AddedIs
<1> QED BY <1>1, <1>13, <1>14

------------------------------------------------------------------------------
LEMMA DivGrows ==
  ASSUME NEW c \in Nat \ {0}, NEW a \in Nat, NEW b \in Nat, a <= b
  PROVE  a \div c \in Nat /\ b \div c \in Nat /\ a \div c <= b \div c
<1> DEFINE p == a \div c
           q == b \div c
<1>1. /\ p \in Int /\ q \in Int
      /\ c * p <= a /\ a < c * p + c /\ c * q <= b /\ b < c * q + c
  OBVIOUS
<1> HIDE DEF p, q
<1>2. ASSUME p > q PROVE FALSE
  <2>1. c * p >= c * (q + 1) /\ c * (q + 1) = c * q + c
    BY <1>1, <1>2
  <2>2. c * p \in Int /\ c * q \in Int
    BY <1>1
  <2> QED BY <1>1, <2>1, <2>2
<1>3. ASSUME p < 0 PROVE FALSE
  <2>1. c * p <= c * (0 - 1) /\ c * (0 - 1) = 0 - c
    BY <1>1, <1>3
  <2>2. c * p \in Int
    BY <1>1
  <2> QED BY <1>1, <2>1, <2>2
<1>4. p >= 0 /\ p <= q
  BY <1>1, <1>2, <1>3
<1> QED BY <1>1, <1>4 DEF p, q

\* A block of any size has a list.
LEMMA ListExists ==
  /\ Fls \in Nat
  /\ \A k \in Nat : FlFromBlocks(k) \in 0..Fls
<1>1. /\ Unique \in Nat /\ Compression \in Nat \ {0} /\ Huge \in Nat /\ Huge > Unique
      /\ Huge - Unique \in Nat
  BY ListAssumption
<1>2. Fls \in Nat /\ Unique <= Fls
  <2>1. (Huge - Unique) \div Compression \in Nat
    BY <1>1, DivGrows
  <2> QED BY <1>1, <2>1 DEF Fls
<1>3. ASSUME NEW k \in Nat
      PROVE  FlFromBlocks(k) \in 0..Fls
  <2>1. CASE k <= Unique
    BY <1>1, <1>2, <2>1 DEF FlFromBlocks
  <2>2. CASE k >= Huge
    BY <1>1, <1>2, <2>2 DEF FlFromBlocks
  <2>3. CASE k > Unique /\ k < Huge
    <3> DEFINE a == k - Unique
               b == Huge - Unique
    <3>1. a \in Nat /\ b \in Nat /\ a <= b
      BY <1>1, <2>3
    <3> HIDE DEF a, b
    <3>2. a \div Compression \in Nat /\ b \div Compression \in Nat
          /\ a \div Compression <= b \div Compression
      BY <1>1, <3>1, DivGrows
    <3>3. FlFromBlocks(k) = a \div Compression + Unique /\ Fls = b \div Compression + Unique
      BY <1>1, <2>3 DEF FlFromBlocks, Fls, a, b
    <3> QED BY <1>1, <3>2, <3>3
  <2> QED BY <1>1, <2>1, <2>2, <2>3
<1> QED BY <1>2, <1>3

LEMMA MinExists ==
  ASSUME NEW S \in SUBSET Nat, S # {}
  PROVE  \E m \in S : \A b \in S : m <= b
<1>1. PICK m \in S : \A b \in S : ~(<<b, m>> \in OpToRel(<, Nat))
  <2>1. \E m \in S : \A b \in S : ~(<<b, m>> \in OpToRel(<, Nat))
    BY NatLessThanWellFounded, WFMin
  <2> QED BY <2>1
<1>2. \A b \in S : m <= b
  <2> SUFFICES ASSUME NEW b \in S, b < m PROVE FALSE
    OBVIOUS
  <2>1. <<b, m>> \in OpToRel(<, Nat)
    BY DEF OpToRel
  <2> QED BY <2>1, <1>1
<1> QED BY <1>2

\* The least and the greatest of a set of addresses; 0 for none.
LEMMA LeastIs ==
  ASSUME NEW S \in SUBSET Nat
  PROVE  IF S = {} THEN Least(S) = 0
         ELSE Least(S) \in S /\ \A b \in S : Least(S) <= b
BY MinExists DEF Least

LEMMA GreatestIs ==
  ASSUME NEW S \in SUBSET Addr
  PROVE  IF S = {} THEN Greatest(S) = 0
         ELSE Greatest(S) \in S /\ \A b \in S : b <= Greatest(S)
<1>1. CASE S = {}
  BY <1>1 DEF Greatest
<1>2. CASE S # {}
  <2> DEFINE T == {t \in Nat : Last - t \in S}
  <2>1. PICK e \in S : TRUE
    BY <1>2
  <2>2. Last - e \in T
    BY <2>1, AddrIs
  <2>3. T \in SUBSET Nat /\ T # {}
    BY <2>2
  <2> HIDE DEF T
  <2>4. PICK t \in T : \A b \in T : t <= b
    BY <2>3, MinExists
  <2>5. Last - t \in S /\ t \in Nat
    BY DEF T
  <2>6. \A b \in S : b <= Last - t
    <3>1. \A b \in S : Last - b \in T
      BY AddrIs DEF T
    <3> QED BY <2>4, <2>5, <3>1, AddrIs
  <2>7. \A b \in S : Last - t >= b
    BY <2>5, <2>6, AddrIs
  <2> QED BY <1>2, <2>5, <2>6, <2>7, AddrIs DEF Greatest
<1> QED BY <1>1, <1>2

------------------------------------------------------------------------------
ListOf(S) == [b \in Addr |-> FlFromBlocks(S[b])]

\* The heap: its blocks, its free lists, and the count of its free cells.
Sound(H, S, l, c) ==
  /\ H \in Headers /\ S \in Sizes /\ l \in ListsType
  /\ Geometry(H, S) /\ Coalesced(H, S)
  /\ Linked(l, Free(H), ListOf(S)) /\ Ordered(l, Free(H))
  /\ c = Cardinality(Cells(H, S))

LEMMA ListOfIs ==
  ASSUME NEW S \in Sizes
  PROVE  ListOf(S) \in [Addr -> 0..Fls]
<1>1. \A b \in Addr : S[b] \in Nat
  BY AddrIs DEF Sizes
<1> QED BY <1>1, ListExists DEF ListOf

\* The search backwards finds the free block that ends at h, if there is one.
LEMMA EndingAtIs ==
  ASSUME NEW H \in Headers, NEW S \in Sizes, Geometry(H, S), NEW h \in Addr,
         NEW G \in Headers, \A a \in Addr : a # h => G[a] = H[a]
  PROVE  LET p == FreeBlockEndingAt(G, S, h)
         IN IF p = 0 THEN \A e \in Free(H) : e < h => e + S[e] # h
            ELSE p \in Free(H) /\ p < h /\ p + S[p] = h
<1> DEFINE B == {a \in 1..(h - 1) : G[a] \in {"free", "used"}}
           q == Greatest(B)
           p == FreeBlockEndingAt(G, S, h)
<1>1. B \in SUBSET Addr /\ \A a : a \in B <=> a \in Addr /\ a < h /\ Begins(H, a)
  BY AddrIs DEF Begins
<1>2. p = IF q # 0 /\ G[q] = "free" /\ q + S[q] = h THEN q ELSE 0
  BY DEF FreeBlockEndingAt
<1> HIDE DEF B, q, p
<1>3. IF B = {} THEN q = 0 ELSE q \in B /\ \A b \in B : b <= q
  BY <1>1, GreatestIs DEF q
<1>4. CASE p = 0
  <2>1. ASSUME NEW e \in Free(H), e < h, e + S[e] = h
        PROVE  FALSE
    <3>1. e \in B /\ e \in Addr /\ H[e] = "free" /\ Begins(H, e)
      BY <1>1, <2>1 DEF Free, Begins
    <3>2. q \in B /\ e <= q /\ q \in Addr /\ q < h /\ Begins(H, q) /\ q # 0
      BY <1>1, <1>3, <3>1, NullIs
    <3>3. e = q
      BY <2>1, <3>1, <3>2, AddrIs DEF Geometry
    <3> QED BY <1>2, <1>4, <2>1, <3>1, <3>2, <3>3
  <2> QED BY <1>4, <2>1 DEF p
<1>5. CASE p # 0
  <2>1. p = q /\ q # 0 /\ G[q] = "free" /\ q + S[q] = h
    BY <1>2, <1>5
  <2>2. q \in Addr /\ q < h
    BY <1>1, <1>3, <2>1
  <2>3. q \in Free(H)
    BY <2>1, <2>2, AddrIs DEF Free
  <2> QED BY <1>5, <2>1, <2>2, <2>3 DEF p
<1> QED BY <1>4, <1>5

LEMMA AddrFinite ==
  ASSUME NEW A \in SUBSET Addr
  PROVE  IsFiniteSet(A) /\ Cardinality(A) \in 0..Last
<1>1. IsFiniteSet(Addr) /\ Cardinality(Addr) = Last
  BY FS_Interval, AddrIs DEF Addr
<1>2. IsFiniteSet(A) /\ Cardinality(A) <= Last
  BY <1>1, FS_Subset
<1>3. Cardinality(A) \in Nat
  BY <1>2, FS_CardinalityType
<1> QED BY <1>2, <1>3, AddrIs

LEMMA RangeIs ==
  ASSUME NEW h \in Addr, NEW k \in Nat, h + k <= Last + 1
  PROVE  h..(h + k - 1) \in SUBSET Addr /\ Cardinality(h..(h + k - 1)) = k
<1>1. h..(h + k - 1) \in SUBSET Addr
  BY AddrIs
<1>2. h \in Int /\ h + k - 1 \in Int
  BY AddrIs
<1>3. Cardinality(h..(h + k - 1)) = IF h > h + k - 1 THEN 0 ELSE (h + k - 1) - h + 1
  BY <1>2, FS_Interval
<1> QED BY <1>1, <1>2, <1>3

LEMMA CountMore ==
  ASSUME NEW A \in SUBSET Addr, NEW B \in SUBSET Addr, A \intersect B = {}
  PROVE  Cardinality(A \union B) = Cardinality(A) + Cardinality(B)
<1>1. IsFiniteSet(A) /\ IsFiniteSet(B)
  BY AddrFinite
<1>2. Cardinality(A \union B) = Cardinality(A) + Cardinality(B) - Cardinality(A \intersect B)
  BY <1>1, FS_Union
<1>3. Cardinality(A \intersect B) = 0
  BY FS_EmptySet
<1>4. Cardinality(A) \in Nat /\ Cardinality(B) \in Nat
  BY <1>1, FS_CardinalityType
<1> QED BY <1>2, <1>3, <1>4

LEMMA CountLess ==
  ASSUME NEW A \in SUBSET Addr, NEW B \in SUBSET A
  PROVE  Cardinality(A \ B) = Cardinality(A) - Cardinality(B)
<1>1. A \ B \in SUBSET Addr /\ B \in SUBSET Addr /\ (A \ B) \intersect B = {}
      /\ A = (A \ B) \union B
  OBVIOUS
<1>2. Cardinality(A) = Cardinality(A \ B) + Cardinality(B)
  BY <1>1, CountMore
<1> QED BY <1>1, <1>2, AddrFinite

\* GC_freehblk(): the block at h, of size k and neither free nor in the count,
\* becomes free and one with its neighbours.
LEMMA FreedIntoIs ==
  ASSUME Sound(hdr, sz, fl, large),
         NEW h \in Addr, NEW k \in Nat \ {0}, h + k <= Last + 1, hdr[h] # "free",
         NEW headers \in Headers, headers[h] = "used",
         \A a \in Addr : a # h => headers[a] = hdr[a],
         NEW H \in Headers, NEW S \in Sizes, Geometry(H, S),
         \A a \in Addr : H[a] = IF a = h THEN "used"
                                ELSE IF h < a /\ a < h + k THEN "inside" ELSE hdr[a],
         \A a \in Addr : S[a] = IF a = h THEN k ELSE sz[a],
         Free(H) = Free(hdr), Cells(H, S) = Cells(hdr, sz),
         FreedInto(headers, fl, h, k)
  PROVE  Sound(hdr', sz', fl', large')
<1> DEFINE next == h + k
           joins == next <= Last /\ headers[next] = "free"
           prev == FreeBlockEndingAt(headers, sz, h)
           b == IF prev # 0 THEN prev ELSE h
           k1 == IF joins THEN k + sz[next] ELSE k
           k2 == IF prev # 0 THEN k1 + sz[prev] ELSE k1
           F == Free(hdr)
           L == ListOf(sz)
           l1 == IF joins THEN Removed(fl, next, FlFromBlocks(sz[next])) ELSE fl
           l2 == IF prev # 0 THEN Removed(l1, prev, FlFromBlocks(sz[prev])) ELSE l1
           F1 == IF joins THEN F \ {next} ELSE F
           F2 == IF prev # 0 THEN F1 \ {prev} ELSE F1
           G0 == FreedHere(H, S, h)
           G1 == IF joins THEN MergedH(G0, next) ELSE G0
           R1 == IF joins THEN MergedS(S, h, next) ELSE S
           G2 == IF prev # 0 THEN MergedH(G1, h) ELSE G1
           R2 == IF prev # 0 THEN MergedS(R1, prev, h) ELSE R1
           h1 == [a \in Addr |-> IF a = h THEN "free" ELSE IF joins /\ a = next THEN "none"
                                 ELSE Uncounted(headers, h, k)[a]]
<1>1. /\ hdr' = IF prev # 0 THEN [h1 EXCEPT ![h] = "none"] ELSE h1
      /\ sz' = [a \in Addr |-> IF a = b THEN k2 ELSE IF a \in b..(b + k2 - 1) THEN 0 ELSE sz[a]]
      /\ fl' = Added(Forgotten(l2, b..(b + k2 - 1)), b, k2)
      /\ large' = large + k
  BY DEF FreedInto
<1>2. /\ hdr \in Headers /\ sz \in Sizes /\ fl \in ListsType
      /\ Geometry(hdr, sz) /\ Coalesced(hdr, sz)
      /\ Linked(fl, F, L) /\ Ordered(fl, F) /\ large = Cardinality(Cells(hdr, sz))
      /\ L \in [Addr -> 0..Fls] /\ \A a \in Addr : L[a] = FlFromBlocks(sz[a])
  <2>1. Sound(hdr, sz, fl, large)
    OBVIOUS
  <2>2. sz \in Sizes
    BY <2>1 DEF Sound
  <2> QED BY <2>1, <2>2, ListOfIs DEF Sound, ListOf
<1>3. /\ Last \in Nat /\ h \in Int /\ k \in Int /\ next \in Int /\ next > h /\ 1 <= h /\ h <= Last
      /\ \A a \in Addr : a \in Int /\ 1 <= a /\ a <= Last /\ sz[a] \in 0..Last /\ sz[a] \in Int
  BY <1>2, AddrIs DEF Sizes
<1>4. joins => next \in F /\ next \in Addr /\ next # h /\ hdr[next] = "free"
  BY <1>3, AddrIs DEF Free
<1>5. IF prev = 0 THEN \A e \in F : e < h => e + sz[e] # h
      ELSE prev \in F /\ prev < h /\ prev + sz[prev] = h
  BY <1>2, EndingAtIs
<1>6. F \in SUBSET Addr /\ h \notin F
  BY DEF Free
<1>7. prev # 0 => prev \in Addr /\ prev \in F /\ prev # h /\ hdr[prev] = "free" /\ prev # next
  BY <1>3, <1>5, <1>6 DEF Free
<1> HIDE DEF prev, F, L
\* The block is free.
<1>8. /\ G0 \in Headers /\ Geometry(G0, S) /\ Free(G0) = F \union {h}
      /\ h..(h + k - 1) \subseteq Addr /\ Cells(hdr, sz) \intersect h..(h + k - 1) = {}
      /\ Cells(G0, S) = Cells(hdr, sz) \union h..(h + k - 1)
  <2>1. H[h] = "used" /\ S[h] = k
    OBVIOUS
  <2> QED BY <2>1, FreedHereIs DEF F
<1>9. \A a \in Addr : G0[a] = IF a = h THEN "free"
                              ELSE IF h < a /\ a < h + k THEN "none" ELSE hdr[a]
  <2>1. \A a \in Addr : G0[a] = IF a = h THEN "free"
                                ELSE IF h < a /\ a < h + S[h] THEN "none" ELSE H[a]
    BY DEF FreedHere
  <2>2. S[h] = k
    OBVIOUS
  <2> HIDE DEF G0
  <2> QED BY <2>1, <2>2
<1> HIDE DEF G0
\* It is one with what follows.
<1>10. /\ G1 \in Headers /\ R1 \in Sizes /\ Geometry(G1, R1)
       /\ Free(G1) = F1 \union {h} /\ Cells(G1, R1) = Cells(G0, S)
       /\ R1[h] = k1 /\ \A a \in Addr : a # h => R1[a] = sz[a]
       /\ \A a \in Addr : G1[a] = h1[a]
       /\ F1 \subseteq F /\ (joins => next \notin F1)
  <2>0. \A a \in Addr : h1[a] = IF a = h THEN "free" ELSE IF joins /\ a = next THEN "none"
                                ELSE IF h < a /\ a < h + k THEN "none" ELSE hdr[a]
    BY <1>3 DEF Uncounted
  <2> HIDE DEF h1
  <2>1. CASE joins
    <3>1. G0[next] = "free" /\ G0[h] = "free" /\ next = h + S[h] /\ S[next] = sz[next] /\ S[h] = k
      BY <1>3, <1>4, <1>9, <2>1
    <3>2. /\ MergedH(G0, next) \in Headers /\ MergedS(S, h, next) \in Sizes
          /\ Geometry(MergedH(G0, next), MergedS(S, h, next))
          /\ Free(MergedH(G0, next)) = Free(G0) \ {next}
          /\ Cells(MergedH(G0, next), MergedS(S, h, next)) = Cells(G0, S)
      <4> HIDE DEF next, joins
      <4> QED BY <1>4, <1>8, <2>1, <3>1, MergedIs
    <3>3. /\ \A a \in Addr : MergedH(G0, next)[a] = IF a = next THEN "none" ELSE G0[a]
          /\ \A a \in Addr : MergedS(S, h, next)[a] = IF a = h THEN S[h] + S[next] ELSE S[a]
      BY <1>8 DEF MergedH, MergedS, Headers, Sizes
    <3>4. G1 = MergedH(G0, next) /\ R1 = MergedS(S, h, next) /\ k1 = k + sz[next] /\ F1 = F \ {next}
      BY <2>1
    <3> HIDE DEF G1, R1, k1, F1
    <3>5. Free(G1) = F1 \union {h} /\ F1 \subseteq F /\ next \notin F1
      BY <1>4, <1>8, <2>1, <3>2, <3>4
    <3>6. R1[h] = k1 /\ \A a \in Addr : a # h => R1[a] = sz[a]
      BY <3>1, <3>3, <3>4
    <3>7. \A a \in Addr : G1[a] = h1[a]
      BY <1>3, <1>9, <2>0, <2>1, <3>3, <3>4
    <3> QED BY <3>2, <3>4, <3>5, <3>6, <3>7
  <2>2. CASE ~joins
    <3>1. G1 = G0 /\ R1 = S /\ k1 = k /\ F1 = F
      BY <2>2
    <3> HIDE DEF G1, R1, k1, F1
    <3> QED BY <1>8, <1>9, <2>0, <2>2, <3>1
  <2> QED BY <2>1, <2>2
<1>11. l1 \in ListsType /\ Linked(l1, F1, L) /\ Ordered(l1, F1)
  <2>1. CASE joins
    <3>1. FlFromBlocks(sz[next]) = L[next]
      BY <1>2, <1>4, <2>1
    <3>2. l1 = Removed(fl, next, FlFromBlocks(sz[next])) /\ F1 = F \ {next}
      BY <2>1
    <3> HIDE DEF l1, F1, next
    <3> QED BY <1>2, <1>4, <1>6, <2>1, <3>1, <3>2, RemovedIs
  <2>2. CASE ~joins
    BY <1>2, <2>2
  <2> QED BY <2>1, <2>2
<1> HIDE DEF G1, R1, F1, l1, k1
\* And with what precedes.
<1>12. /\ b \in Addr /\ b <= h /\ b # next
       /\ b + k2 = h + k1 /\ k1 = (IF joins THEN k + sz[next] ELSE k) /\ k1 \in Nat
       /\ b # h => prev # 0 /\ b = prev
  <2>0. k1 = (IF joins THEN k + sz[next] ELSE k) /\ k1 \in Nat
    <3>1. joins => sz[next] \in Nat
      BY <1>3, <1>4
    <3> QED BY <1>3, <3>1 DEF k1
  <2>1. CASE prev = 0
    BY <1>3, <2>0, <2>1
  <2>2. CASE prev # 0
    <3>1. b = prev /\ k2 = k1 + sz[prev]
      BY <2>2
    <3>2. prev \in Addr /\ prev < h /\ prev + sz[prev] = h /\ sz[prev] \in Int /\ prev \in Int
      BY <1>3, <1>5, <1>7, <2>2
    <3> HIDE DEF b, k2, joins, next
    <3>3. prev # next
      BY <1>7, <2>2
    <3> QED BY <2>0, <2>2, <3>1, <3>2, <3>3, <1>3
  <2> QED BY <2>1, <2>2
<1>13. prev # 0 => prev \in F1 /\ G1[prev] = "free" /\ G1[h] = "free" /\ R1[prev] = sz[prev]
  <2>1. prev # 0 => prev \in F1
    BY <1>7 DEF F1
  <2> QED BY <1>7, <1>10, <2>1 DEF Free
<1>14. /\ G2 \in Headers /\ R2 \in Sizes /\ Geometry(G2, R2)
       /\ Free(G2) = F2 \union {b} /\ Cells(G2, R2) = Cells(G1, R1)
       /\ R2[b] = k2 /\ \A a \in Addr : a # b /\ a # h => R2[a] = sz[a]
       /\ \A a \in Addr : G2[a] = hdr'[a]
       /\ F2 \subseteq F1 /\ b \notin F2
  <2>1. CASE prev # 0
    <3>1. h = prev + R1[prev] /\ R1[h] = k1
      BY <1>5, <1>10, <1>13, <2>1
    <3>2. /\ MergedH(G1, h) \in Headers /\ MergedS(R1, prev, h) \in Sizes
          /\ Geometry(MergedH(G1, h), MergedS(R1, prev, h))
          /\ Free(MergedH(G1, h)) = Free(G1) \ {h}
          /\ Cells(MergedH(G1, h), MergedS(R1, prev, h)) = Cells(G1, R1)
      <4>1. prev \in Addr /\ G1[prev] = "free" /\ G1[h] = "free"
        BY <1>7, <1>13, <2>1
      <4> QED BY <1>10, <3>1, <4>1, MergedIs
    <3>3. /\ \A a \in Addr : MergedH(G1, h)[a] = IF a = h THEN "none" ELSE G1[a]
          /\ \A a \in Addr : MergedS(R1, prev, h)[a] =
                               IF a = prev THEN R1[prev] + R1[h] ELSE R1[a]
      BY <1>10 DEF MergedH, MergedS, Headers, Sizes
    <3>4. /\ G2 = MergedH(G1, h) /\ R2 = MergedS(R1, prev, h)
          /\ k2 = k1 + sz[prev] /\ F2 = F1 \ {prev} /\ b = prev
          /\ hdr' = [h1 EXCEPT ![h] = "none"] /\ h1 \in [Addr -> {h1[a] : a \in Addr}]
      BY <1>1, <2>1
    <3> HIDE DEF G2, R2, k2, F2, b, h1
    <3>5. Free(G2) = F2 \union {b} /\ F2 \subseteq F1 /\ b \notin F2
      <4>1. h \notin F1
        BY <1>6, <1>10
      <4> QED BY <1>7, <1>10, <1>13, <2>1, <3>2, <3>4, <4>1
    <3>6. R2[b] = k2 /\ \A a \in Addr : a # b /\ a # h => R2[a] = sz[a]
      <4>1. R2[b] = sz[prev] + k1 /\ k1 \in Int
        BY <1>3, <1>7, <1>10, <1>13, <2>1, <3>1, <3>3, <3>4 DEF Sizes
      <4> QED BY <1>3, <1>7, <1>10, <2>1, <3>3, <3>4, <4>1
    <3>7. \A a \in Addr : G2[a] = hdr'[a]
      BY <1>10, <3>3, <3>4
    <3> QED BY <3>2, <3>4, <3>5, <3>6, <3>7
  <2>2. CASE prev = 0
    <3>1. G2 = G1 /\ R2 = R1 /\ k2 = k1 /\ F2 = F1 /\ b = h /\ hdr' = h1
      BY <1>1, <2>2
    <3> HIDE DEF G2, R2, k2, F2, b, h1
    <3>2. h \notin F1
      BY <1>6, <1>10
    <3> QED BY <1>10, <3>1, <3>2
  <2> QED BY <2>1, <2>2
<1>15. l2 \in ListsType /\ Linked(l2, F2, L) /\ Ordered(l2, F2)
  <2>1. CASE prev # 0
    <3>1. FlFromBlocks(sz[prev]) = L[prev] /\ F1 \in SUBSET Addr
      BY <1>2, <1>6, <1>7, <1>10, <2>1
    <3>2. l2 = Removed(l1, prev, FlFromBlocks(sz[prev])) /\ F2 = F1 \ {prev}
      BY <2>1
    <3> HIDE DEF l2, F2
    <3> QED BY <1>2, <1>11, <1>13, <2>1, <3>1, <3>2, RemovedIs
  <2>2. CASE prev = 0
    BY <1>11, <2>2
  <2> QED BY <2>1, <2>2
<1>16. hdr' = G2
  <2>1. hdr' \in Headers
    <3>1. h1 \in Headers
      BY DEF Headers, Uncounted
    <3> HIDE DEF h1
    <3> QED BY <1>1, <3>1 DEF Headers
  <2> HIDE DEF G2
  <2> QED BY <1>14, <2>1 DEF Headers
<1>17. b # h => hdr'[h] = "none"
  <2>1. h \in DOMAIN h1
    OBVIOUS
  <2> HIDE DEF h1, b
  <2> QED BY <1>1, <1>12, <2>1
<1> HIDE DEF G2, R2, k2, F2, b, l2, h1
<1>18. /\ Free(hdr') = F2 \union {b} /\ Geometry(hdr', R2) /\ F2 \in SUBSET Addr /\ F2 \subseteq F
       /\ k2 \in Nat /\ k2 >= 1 /\ b + k2 <= Last + 1 /\ hdr' \in Headers /\ b \in Int
  <2>1. Begins(G2, b)
    BY <1>12, <1>14 DEF Free, Begins
  <2>2. k2 \in Int
    BY <1>12, <1>14, AddrIs DEF Sizes
  <2>3. R2[b] = k2 /\ k2 >= 1 /\ b + k2 <= Last + 1
    BY <1>12, <1>14, <2>1 DEF Geometry
  <2> QED BY <1>3, <1>6, <1>10, <1>12, <1>14, <1>16, <2>2, <2>3
<1>19. sz' \in Sizes
       /\ \A a \in Addr : sz'[a] = IF a = b THEN k2
                                   ELSE IF b <= a /\ a < b + k2 THEN 0 ELSE sz[a]
  <2>1. k2 \in 0..Last /\ 0 \in 0..Last
    BY <1>3, <1>12, <1>18
  <2>2. \A a \in Addr : a \in b..(b + k2 - 1) <=> b <= a /\ a < b + k2
    BY <1>3, <1>18
  <2> QED BY <1>1, <1>3, <2>1, <2>2 DEF Sizes
<1>20. \A a \in Addr : Begins(hdr', a) => R2[a] = sz'[a] /\ (a = b \/ a < b \/ b + k2 <= a)
  <2> SUFFICES ASSUME NEW a \in Addr, Begins(hdr', a), a # b
               PROVE  R2[a] = sz'[a] /\ (a < b \/ b + k2 <= a)
    BY <1>12, <1>14, <1>19
  <2>1. a < b \/ b + k2 <= a
    <3>1. Begins(hdr', b)
      BY <1>12, <1>18 DEF Begins, Free
    <3> QED BY <1>3, <1>12, <1>14, <1>18, <3>1 DEF Geometry
  <2>2. sz'[a] = sz[a]
    BY <1>3, <1>18, <1>19, <2>1
  <2>3. a # h
    BY <1>17 DEF Begins
  <2> QED BY <1>14, <2>1, <2>2, <2>3
<1>21. Geometry(hdr', sz') /\ Cells(hdr', sz') = Cells(hdr, sz) \union h..(h + k - 1)
  <2>1. Geometry(hdr', sz') /\ Cells(hdr', sz') = Cells(hdr', R2)
    BY <1>14, <1>18, <1>19, <1>20, SameGeometry
  <2> QED BY <2>1, <1>8, <1>10, <1>14, <1>16
<1>22. \A e \in F2 : /\ e \in Addr /\ e # b /\ sz'[e] = sz[e] /\ e \in F
                      /\ (e < b \/ b + k2 <= e) /\ sz[e] >= 1
  <2>1. \A e \in F2 : e \in Addr /\ e # b /\ e \in F /\ e # h /\ Begins(hdr', e) /\ Begins(hdr, e)
    BY <1>6, <1>14, <1>18 DEF Free, Begins, F
  <2>2. \A e \in F2 : sz[e] >= 1
    BY <1>2, <2>1 DEF Geometry
  <2> QED BY <1>14, <1>20, <2>1, <2>2
<1>23. Coalesced(hdr', sz')
  <2> SUFFICES ASSUME NEW e \in F2 \union {b}, e + sz'[e] \in F2 \union {b}
               PROVE  FALSE
    BY <1>18 DEF Coalesced
  <2>0. \A d \in F : d + sz[d] \notin F
    BY <1>2 DEF Coalesced, F
  <2>1. CASE e # b
    <3>1. e \in F /\ sz'[e] = sz[e] /\ e \in Addr /\ sz[e] >= 1
      BY <1>22, <2>1
    <3>2. e + sz[e] = b
      BY <1>18, <2>0, <3>1
    <3>3. b # h => b \in F
      BY <1>5, <1>12
    <3>4. b = h /\ e < h
      BY <1>3, <2>0, <3>1, <3>2, <3>3
    <3>5. prev = 0
      BY <1>5, <3>4, <1>3 DEF b
    <3> QED BY <1>5, <3>1, <3>2, <3>4, <3>5
  <2>2. CASE e = b
    <3>1. h + k1 \in F
      BY <1>12, <1>18, <1>19, <2>2
    <3>2. CASE joins
      <4>1. next \in F /\ h + k1 = next + sz[next]
        BY <1>3, <1>4, <1>12, <3>2
      <4> QED BY <2>0, <3>1, <4>1
    <3>3. CASE ~joins
      <4>1. next \in F
        BY <1>12, <3>1, <3>3
      <4>2. next \in Addr /\ hdr[next] = "free" /\ next # h
        BY <1>3, <4>1 DEF F, Free
      <4> QED BY <1>3, <3>3, <4>2
    <3> QED BY <3>2, <3>3
  <2> QED BY <2>1, <2>2
<1>24. Linked(fl', F2 \union {b}, ListOf(sz')) /\ Ordered(fl', F2 \union {b}) /\ fl' \in ListsType
  <2> DEFINE B == b..(b + k2 - 1)
             m == Forgotten(l2, B)
             K == ListOf(sz')
  <2>1. B \intersect F2 = {}
    BY <1>3, <1>18, <1>22
  <2>2. K \in [Addr -> 0..Fls] /\ K[b] = FlFromBlocks(k2) /\ \A a \in F2 : K[a] = L[a]
    <3>1. K \in [Addr -> 0..Fls]
      BY <1>19, ListOfIs
    <3>2. \A a \in Addr : K[a] = FlFromBlocks(sz'[a])
      BY DEF ListOf
    <3> HIDE DEF K
    <3> QED BY <1>2, <1>12, <1>19, <1>22, <3>1, <3>2
  <2>3. fl' = Added(m, b, k2) /\ FlFromBlocks(k2) \in 0..Fls
    BY <1>1, <1>18, ListExists
  <2> HIDE DEF B, K
  <2>4. m \in ListsType /\ Linked(m, F2, L) /\ Ordered(m, F2)
    BY <1>15, <1>18, <2>1, ForgottenIs
  <2> HIDE DEF m
  <2>5. LET p == Added(m, b, k2)
        IN p \in ListsType /\ Linked(p, F2 \union {b}, K) /\ Ordered(p, F2 \union {b})
    BY <1>2, <1>12, <1>14, <1>18, <2>2, <2>3, <2>4, AddedIs
  <2> QED BY <2>3, <2>5 DEF K
<1>25. large' = Cardinality(Cells(hdr', sz'))
  <2> DEFINE A == Cells(hdr, sz)
             B == h..(h + k - 1)
  <2>1. A \in SUBSET Addr /\ A \intersect B = {}
    BY <1>8 DEF Cells
  <2>2. B \in SUBSET Addr /\ Cardinality(B) = k
    BY RangeIs
  <2> HIDE DEF A, B
  <2>3. Cardinality(A \union B) = Cardinality(A) + k
    BY <2>1, <2>2, CountMore
  <2>4. Cells(hdr', sz') = A \union B /\ large = Cardinality(A) /\ large' = large + k
    BY <1>1, <1>2, <1>21 DEF A, B
  <2> QED BY <2>3, <2>4
<1> QED BY <1>18, <1>19, <1>21, <1>23, <1>24, <1>25 DEF Sound
\* The heap has grown by k blocks at p, free and one with their neighbours.
LEMMA AddToHeapIs ==
  ASSUME Sound(hdr, sz, fl, large), NEW p \in Addr, NEW k \in 1..Last, AddToHeap(p, k)
  PROVE  Sound(hdr', sz', fl', large')
<1> DEFINE H == [a \in Addr |-> IF a = p THEN "used"
                                ELSE IF p < a /\ a < p + k THEN "inside" ELSE hdr[a]]
           S == [sz EXCEPT ![p] = k]
           headers == [hdr EXCEPT ![p] = "used"]
<1>1. hdr \in Headers /\ sz \in Sizes /\ Geometry(hdr, sz)
  <2>1. Sound(hdr, sz, fl, large)
    OBVIOUS
  <2> QED BY <2>1 DEF Sound
<1>2. /\ \A a \in Addr : a \in Int /\ 1 <= a /\ a <= Last /\ sz[a] \in Int
      /\ Last \in Int /\ k \in Nat \ {0} /\ k \in 0..Last
  BY <1>1, AddrIs DEF Sizes
<1>3. p + k <= Last + 1
  <2>1. p + k - 1 \in p..(p + k - 1)
    BY <1>2
  <2>2. p + k - 1 \in Addr
    BY <2>1 DEF AddToHeap
  <2> QED BY <1>2, <2>2
<1>4. \A a, e \in Addr : Begins(hdr, e) /\ e <= a /\ a < e + sz[e] => ~(p <= a /\ a < p + k)
  <2> SUFFICES ASSUME NEW a \in Addr, NEW e \in Addr, Begins(hdr, e), e <= a, a < e + sz[e],
                      p <= a, a < p + k
               PROVE  FALSE
    OBVIOUS
  <2>1. a \in p..(p + k - 1) /\ a \in e..(e + sz[e] - 1)
    BY <1>2
  <2>2. a \in InHeap
    BY <2>1 DEF InHeap, Begins
  <2> QED BY <2>1, <2>2 DEF AddToHeap
<1>5. \A e \in Addr : Begins(hdr, e) => sz[e] >= 1 /\ e + sz[e] <= Last + 1
                                        /\ (e + sz[e] <= p \/ p + k <= e)
  <2> SUFFICES ASSUME NEW e \in Addr, Begins(hdr, e)
               PROVE  sz[e] >= 1 /\ e + sz[e] <= Last + 1 /\ (e + sz[e] <= p \/ p + k <= e)
    OBVIOUS
  <2>1. sz[e] >= 1 /\ e + sz[e] <= Last + 1
    BY <1>1 DEF Geometry
  <2>2. ~(p <= e /\ e < p + k)
    BY <1>2, <1>4, <2>1
  <2>3. ~(e <= p /\ p < e + sz[e])
    BY <1>2, <1>4
  <2> QED BY <1>2, <2>1, <2>2, <2>3
<1>6. \A a \in Addr : p <= a /\ a < p + k => hdr[a] = "none"
  <2> SUFFICES ASSUME NEW a \in Addr, p <= a, a < p + k, hdr[a] # "none"
               PROVE  FALSE
    OBVIOUS
  <2>1. CASE Begins(hdr, a)
    BY <1>2, <1>4, <1>5, <2>1
  <2>2. CASE ~Begins(hdr, a)
    <3>1. hdr[a] = "inside"
      BY <1>1, <2>2 DEF Begins, Headers
    <3>2. PICK e \in Addr : Begins(hdr, e) /\ e < a /\ a < e + sz[e]
      BY <1>1, <3>1 DEF Geometry
    <3> QED BY <1>2, <1>4, <3>2
  <2> QED BY <2>1, <2>2
<1>7. /\ H \in Headers /\ S \in Sizes /\ headers \in Headers
      /\ headers[p] = "used" /\ \A a \in Addr : a # p => headers[a] = hdr[a]
      /\ \A a \in Addr : S[a] = IF a = p THEN k ELSE sz[a]
      /\ \A a \in Addr : H[a] = IF a = p THEN "used"
                                ELSE IF p < a /\ a < p + k THEN "inside" ELSE hdr[a]
  <2>1. H \in Headers
    BY <1>1 DEF Headers
  <2>2. S \in Sizes
    BY <1>1, <1>2 DEF Sizes
  <2> QED BY <1>1, <2>1, <2>2 DEF Headers, Sizes
<1>8. FreedInto(headers, fl, p, k)
  BY DEF AddToHeap
<1> HIDE DEF H, S, headers
<1>9. \A e \in Addr : Begins(H, e) <=> e = p \/ Begins(hdr, e)
  BY <1>2, <1>6, <1>7 DEF Begins
<1>10. \A e \in Addr : e # p /\ Begins(H, e) =>
         Begins(hdr, e) /\ S[e] = sz[e] /\ H[e] = hdr[e] /\ (e + sz[e] <= p \/ p + k <= e)
  BY <1>2, <1>5, <1>7, <1>9
<1>11. Geometry(H, S)
  <2>1. \A e \in Addr : Begins(H, e) => S[e] >= 1 /\ e + S[e] <= Last + 1
    BY <1>2, <1>3, <1>5, <1>7, <1>9
  <2>2. ASSUME NEW d \in Addr, NEW e \in Addr, Begins(H, d), Begins(H, e), d < e
        PROVE  d + S[d] <= e
    <3>1. d = p => e # p /\ p + k <= e /\ S[d] = k
      BY <1>2, <1>5, <1>7, <1>10, <2>2
    <3>2. e = p => d # p /\ d + sz[d] <= p /\ S[d] = sz[d]
      BY <1>2, <1>10, <2>2
    <3>3. d # p /\ e # p => d + sz[d] <= e /\ S[d] = sz[d]
      BY <1>1, <1>10, <2>2 DEF Geometry
    <3> QED BY <3>1, <3>2, <3>3
  <2>3. ASSUME NEW e \in Addr, NEW a \in Addr, Begins(H, e), e < a, a < e + S[e]
        PROVE  H[a] = IF H[e] = "used" THEN "inside" ELSE "none"
    <3>1. CASE e = p
      BY <1>2, <1>7, <2>3, <3>1
    <3>2. CASE e # p
      <4>1. hdr[a] = IF hdr[e] = "used" THEN "inside" ELSE "none"
        BY <1>1, <1>10, <2>3, <3>2 DEF Geometry
      <4>2. ~(p <= a /\ a < p + k)
        BY <1>2, <1>10, <2>3, <3>2
      <4> QED BY <1>2, <1>7, <1>10, <2>3, <3>2, <4>1, <4>2
    <3> QED BY <3>1, <3>2
  <2>4. ASSUME NEW a \in Addr, H[a] = "inside"
        PROVE  \E e \in Addr : Begins(H, e) /\ e < a /\ a < e + S[e]
    <3>1. CASE p < a /\ a < p + k
      BY <1>7, <1>9, <3>1
    <3>2. CASE ~(p < a /\ a < p + k)
      <4>1. hdr[a] = "inside"
        BY <1>7, <2>4, <3>2
      <4>2. PICK e \in Addr : Begins(hdr, e) /\ e < a /\ a < e + sz[e]
        BY <1>1, <4>1 DEF Geometry
      <4>3. e # p
        BY <1>2, <1>6, <4>2 DEF Begins
      <4> QED BY <1>7, <1>9, <4>2, <4>3
    <3> QED BY <3>1, <3>2
  <2> QED BY <2>1, <2>2, <2>3, <2>4 DEF Geometry
<1>12. Free(H) = Free(hdr)
  BY <1>2, <1>6, <1>7 DEF Free
<1>13. \A e \in Free(hdr) : S[e] = sz[e]
  BY <1>2, <1>6, <1>7 DEF Free
<1>14. Cells(H, S) = Cells(hdr, sz)
  BY <1>12, <1>13 DEF Cells
<1>15. hdr[p] # "free"
  BY <1>2, <1>6
<1> QED BY <1>2, <1>3, <1>7, <1>8, <1>11, <1>12, <1>14, <1>15, FreedIntoIs

LEMMA FreeHblkIs ==
  ASSUME Sound(hdr, sz, fl, large), NEW h \in Addr, FreeHblk(h)
  PROVE  Sound(hdr', sz', fl', large')
<1> DEFINE k == sz[h]
<1>1. hdr \in Headers /\ sz \in Sizes /\ Geometry(hdr, sz)
  <2>1. Sound(hdr, sz, fl, large)
    OBVIOUS
  <2> QED BY <2>1 DEF Sound
<1>2. hdr[h] = "used" /\ FreedInto(hdr, fl, h, k) /\ Begins(hdr, h)
  BY DEF FreeHblk, Begins
<1>3. k \in Nat \ {0} /\ h + k <= Last + 1
  BY <1>1, <1>2, AddrIs DEF Geometry, Sizes
<1>4. \A a \in Addr : hdr[a] = IF a = h THEN "used"
                               ELSE IF h < a /\ a < h + k THEN "inside" ELSE hdr[a]
  BY <1>1, <1>2 DEF Geometry
<1>5. \A a \in Addr : sz[a] = IF a = h THEN k ELSE sz[a]
  OBVIOUS
<1> HIDE DEF k
<1> QED BY <1>1, <1>2, <1>3, <1>4, <1>5, FreedIntoIs

\* The block at h, on list n, is allocated, and the rest of it is free.  It may follow
\* a free block, as when it was split off one.
LEMMA TakesIs ==
  ASSUME NEW H \in Headers, NEW S \in Sizes, NEW l \in ListsType, Geometry(H, S),
         NEW L \in [Addr -> 0..Fls], Linked(l, Free(H), L), Ordered(l, Free(H)),
         large = Cardinality(Cells(H, S)), req.needed \in Nat \ {0},
         NEW h \in Addr, H[h] = "free", L[h] = n,
         \A a \in Free(H) : a # h => L[a] = FlFromBlocks(S[a]),
         \A e \in Free(H) : e + S[e] \in Free(H) => e + S[e] = h,
         NEW k, k = S[h], req.needed <= k, Takes(H, l, h, k),
         sz' = [a \in Addr |-> IF a = h THEN req.needed
                               ELSE IF a = h + req.needed /\ k # req.needed
                               THEN k - req.needed ELSE S[a]]
  PROVE  /\ Sound(hdr', sz', fl', large')
         /\ \A a \in Addr : hdr'[a] = "used" => a = h \/ H[a] = "used"
         /\ sz'[h] = req.needed
<1> DEFINE d == req.needed
           rest == h + d
           splits == k # d
           l1 == Removed(l, h, n)
           l2 == IF k = d THEN l1 ELSE Added(l1, rest, k - d)
           F == Free(H)
           F2 == IF splits THEN (F \ {h}) \union {rest} ELSE F \ {h}
           G1 == IF splits THEN SplitH(H, rest) ELSE H
           R1 == IF splits THEN SplitS(S, h, rest) ELSE S
           G2 == UsedHere(G1, R1, h)
<1>1. /\ fl' = Forgotten(l2, {h})
      /\ hdr' = [a \in Addr |-> IF a = h THEN "used"
                                ELSE IF a \in (h + 1)..(rest - 1) THEN "inside"
                                ELSE IF a = rest /\ k # d THEN "free"
                                ELSE H[a]]
      /\ large' = large - d
  BY DEF Takes
<1>2. /\ \A a \in Addr : a \in Int /\ 1 <= a /\ a <= Last /\ S[a] \in 0..Last /\ S[a] \in Int
      /\ Last \in Int /\ d \in Int /\ d >= 1 /\ k \in Int /\ Begins(H, h)
      /\ k >= d /\ h + k <= Last + 1 /\ rest \in Int /\ F \in SUBSET Addr /\ h \in F
  <2>1. \A a \in Addr : a \in Int /\ 1 <= a /\ a <= Last /\ S[a] \in 0..Last /\ S[a] \in Int
    BY AddrIs DEF Sizes
  <2>2. Begins(H, h) /\ h + S[h] <= Last + 1 /\ S[h] = k /\ k >= d /\ d \in Nat \ {0}
    BY DEF Geometry, Begins
  <2> QED BY <2>1, <2>2, AddrIs DEF Free
<1>3. splits => rest \in Addr /\ h < rest /\ rest < h + k /\ H[rest] = "none"
  <2>1. splits => rest \in Addr /\ h < rest /\ rest < h + k
    BY <1>2, AddrIs
  <2> QED BY <1>2, <2>1 DEF Geometry
<1> HIDE DEF d, F
<1>4. /\ G1 \in Headers /\ R1 \in Sizes /\ Geometry(G1, R1) /\ G1[h] = "free" /\ R1[h] = d
      /\ Free(G1) = IF splits THEN F \union {rest} ELSE F
      /\ Cells(G1, R1) = Cells(H, S)
      /\ \A a \in Addr : R1[a] = IF a = h THEN d ELSE IF splits /\ a = rest THEN k - d ELSE S[a]
      /\ \A a \in Addr : G1[a] = IF splits /\ a = rest THEN "free" ELSE H[a]
  <2>1. CASE splits
    <3>1. G1 = SplitH(H, rest) /\ R1 = SplitS(S, h, rest)
      BY <2>1
    <3>2. \A a \in Addr : G1[a] = IF a = rest THEN "free" ELSE H[a]
      BY <3>1 DEF SplitH, Headers
    <3>3. rest - h = d /\ S[h] - (rest - h) = k - d
      BY <1>2
    <3> HIDE DEF G1, R1, rest, splits
    <3>4. /\ G1 \in Headers /\ R1 \in Sizes /\ Geometry(G1, R1)
          /\ R1[h] = rest - h /\ R1[rest] = S[h] - (rest - h)
          /\ \A a \in Addr : a # h /\ a # rest => R1[a] = S[a]
          /\ Free(G1) = Free(H) \union {rest}
          /\ Cells(G1, R1) = Cells(H, S)
      BY <1>3, <2>1, <3>1, SplitIs
    <3>5. h # rest
      BY <1>2, <1>3, <2>1
    <3> QED BY <2>1, <3>2, <3>3, <3>4, <3>5 DEF F
  <2>2. CASE ~splits
    <3>1. G1 = H /\ R1 = S /\ k = d
      BY <2>2
    <3> HIDE DEF G1, R1, splits
    <3> QED BY <2>2, <3>1 DEF F
  <2> QED BY <2>1, <2>2
<1> HIDE DEF G1, R1
<1>5. /\ G2 \in Headers /\ Geometry(G2, R1) /\ Free(G2) = F2
      /\ h..(h + d - 1) \subseteq Cells(H, S)
      /\ Cells(G2, R1) = Cells(H, S) \ h..(h + d - 1)
  <2>1. /\ G2 \in Headers /\ Geometry(G2, R1) /\ Free(G2) = Free(G1) \ {h}
        /\ h..(h + R1[h] - 1) \subseteq Cells(G1, R1)
        /\ Cells(G2, R1) = Cells(G1, R1) \ h..(h + R1[h] - 1)
    <3> HIDE DEF G2
    <3> QED BY <1>4, UsedHereIs DEF G2
  <2>2. Free(G1) \ {h} = F2
    <3>1. splits => rest # h
      BY <1>2, <1>3
    <3> QED BY <1>4, <3>1
  <2> HIDE DEF G2, F2
  <2> QED BY <1>4, <2>1, <2>2
<1>6. sz' = R1
  <2>1. sz' = [a \in Addr |-> IF a = h THEN d ELSE IF a = rest /\ splits THEN k - d ELSE S[a]]
    BY DEF d
  <2> HIDE DEF rest, splits
  <2>2. \A a \in Addr : sz'[a] = R1[a]
    BY <1>4, <2>1
  <2> QED BY <1>4, <2>1, <2>2 DEF Sizes
<1>7. \A a \in Addr : G2[a] = IF a = h THEN "used"
                              ELSE IF h < a /\ a < rest THEN "inside"
                              ELSE IF splits /\ a = rest THEN "free" ELSE H[a]
  BY <1>4 DEF UsedHere
<1>8. hdr' = G2
  <2> HIDE DEF G2
  <2>1. hdr' = [a \in Addr |-> IF a = h THEN "used"
                               ELSE IF h < a /\ a < rest THEN "inside"
                               ELSE IF splits /\ a = rest THEN "free" ELSE H[a]]
    <3>1. \A a \in Addr : a \in (h + 1)..(rest - 1) <=> h < a /\ a < rest
      BY <1>2
    <3> HIDE DEF rest
    <3> QED BY <1>1, <3>1
  <2> QED BY <1>5, <1>7, <2>1 DEF Headers
<1>9. \A a \in Addr : hdr'[a] = "used" => a = h \/ H[a] = "used"
  BY <1>7, <1>8
<1>10. sz' \in Sizes /\ sz'[h] = d /\ \A a \in F \ {h} : sz'[a] = S[a] /\ a # rest
  <2>1. splits => rest \notin F
    BY <1>3 DEF F, Free
  <2>2. ~splits => rest \notin F
    <3>1. ~splits => rest = h + S[h]
      BY <1>2 DEF d
    <3>2. h + S[h] # h
      BY <1>2
    <3> HIDE DEF rest
    <3> QED BY <1>2, <3>1, <3>2 DEF F
  <2> HIDE DEF rest
  <2> QED BY <1>2, <1>4, <1>6, <2>1, <2>2
<1> HIDE DEF G2
<1>11. Coalesced(hdr', sz')
  <2> SUFFICES ASSUME NEW e \in F2, e + sz'[e] \in F2
               PROVE  FALSE
    BY <1>5, <1>8 DEF Coalesced
  <2>1. CASE splits /\ e = rest
    <3>1. sz'[e] = k - d /\ e + sz'[e] = h + S[h]
      BY <1>2, <1>3, <1>4, <1>6, <2>1 DEF d
    <3>2. h + S[h] \in F
      BY <1>2, <1>3, <2>1, <3>1
    <3> QED BY <1>2, <3>2 DEF F
  <2>2. CASE ~(splits /\ e = rest)
    <3>1. e \in F /\ e # h /\ sz'[e] = S[e] /\ e \in Addr /\ Begins(H, e)
      BY <1>2, <1>10, <2>2 DEF Begins, F, Free
    <3>2. e < h => e + S[e] <= h
      BY <1>2, <3>1 DEF Geometry
    <3>3. h < e => h + k <= e
      BY <1>2, <3>1 DEF Geometry
    <3>4. ~splits \/ e + S[e] # rest
      <4>1. S[e] >= 1 /\ S[e] \in Int
        BY <1>2, <3>1 DEF Geometry
      <4> QED BY <1>2, <1>3, <3>1, <3>2, <3>3, <4>1
    <3>5. e + S[e] \in F /\ e + S[e] # h
      BY <3>1, <3>4, <1>3, <1>2
    <3> QED BY <3>1, <3>5 DEF F
  <2> QED BY <2>1, <2>2
<1>12. l1 \in ListsType /\ Linked(l1, F \ {h}, L) /\ Ordered(l1, F \ {h})
  BY <1>2, RemovedIs DEF F
<1> HIDE DEF l1
<1>13. l2 \in ListsType /\ Linked(l2, F2, ListOf(sz')) /\ Ordered(l2, F2)
  <2> DEFINE K == ListOf(sz')
  <2>1. K \in [Addr -> 0..Fls] /\ \A a \in Addr : K[a] = FlFromBlocks(sz'[a])
    BY <1>10, ListOfIs DEF ListOf
  <2> HIDE DEF K
  <2>2. \A a \in F \ {h} : K[a] = L[a]
    BY <1>2, <1>10, <2>1 DEF F
  <2>3. CASE splits
    <3>1. rest \in Addr /\ rest \notin F \ {h} /\ F \ {h} \in SUBSET Addr
      BY <1>2, <1>3, <1>10, <2>3
    <3>2. sz'[rest] = k - d /\ k - d \in Nat
      BY <1>2, <1>3, <1>4, <1>6, <2>3
    <3>3. FlFromBlocks(k - d) \in 0..Fls /\ K[rest] = FlFromBlocks(k - d)
      BY <2>1, <3>1, <3>2, ListExists
    <3>4. l2 = Added(l1, rest, k - d) /\ F2 = (F \ {h}) \union {rest}
      BY <2>3
    <3> HIDE DEF rest, l2, F2
    <3> DEFINE A == F \ {h}
               q == k - d
    <3>5. A \in SUBSET Addr /\ rest \notin A /\ Linked(l1, A, L) /\ Ordered(l1, A)
          /\ (\A a \in A : K[a] = L[a]) /\ FlFromBlocks(q) \in 0..Fls /\ K[rest] = FlFromBlocks(q)
      BY <1>12, <2>2, <3>1, <3>3
    <3> HIDE DEF A, q
    <3>6. LET m == Added(l1, rest, q)
          IN m \in ListsType /\ Linked(m, A \union {rest}, K) /\ Ordered(m, A \union {rest})
      BY <1>12, <2>1, <3>1, <3>5, AddedIs
    <3> QED BY <3>4, <3>6 DEF A, q, K
  <2>4. CASE ~splits
    <3>1. l2 = l1 /\ F2 = F \ {h}
      BY <2>4
    <3> HIDE DEF l2, F2
    <3> QED BY <1>12, <2>2, <3>1, SameLinked DEF K
  <2> QED BY <2>3, <2>4
<1>14. fl' \in ListsType /\ Linked(fl', F2, ListOf(sz')) /\ Ordered(fl', F2)
  <2>1. F2 \in SUBSET Addr /\ {h} \intersect F2 = {}
    BY <1>2, <1>3
  <2> DEFINE K == ListOf(sz')
             B == {h}
  <2> HIDE DEF F2, l2, K, B
  <2>2. LET m == Forgotten(l2, B)
        IN m \in ListsType /\ Linked(m, F2, K) /\ Ordered(m, F2)
    <3>1. Linked(l2, F2, K) /\ Ordered(l2, F2) /\ l2 \in ListsType /\ B \intersect F2 = {}
      BY <1>13, <2>1 DEF K, B
    <3> QED BY <2>1, <3>1, ForgottenIs
  <2> QED BY <1>1, <2>2 DEF K, B
<1>15. large' = Cardinality(Cells(hdr', sz'))
  <2> DEFINE A == Cells(H, S)
             B == h..(h + d - 1)
  <2>1. Cardinality(B) = d
    <3>1. d \in Nat /\ h + d <= Last + 1
      BY <1>2
    <3> QED BY <3>1, RangeIs
  <2>2. A \in SUBSET Addr /\ B \in SUBSET A
    BY <1>5 DEF Cells
  <2>3. large' = Cardinality(A) - d /\ Cells(hdr', sz') = A \ B
    BY <1>1, <1>5, <1>6, <1>8
  <2> HIDE DEF A, B
  <2>4. Cardinality(A \ B) = Cardinality(A) - Cardinality(B)
    BY <2>2, CountLess
  <2> QED BY <2>1, <2>3, <2>4
<1>16. Sound(hdr', sz', fl', large')
  BY <1>5, <1>6, <1>8, <1>10, <1>11, <1>14, <1>15 DEF Sound
<1> QED BY <1>9, <1>10, <1>16 DEF d

------------------------------------------------------------------------------
\* The block a search looks at is free, and on the list it has come to.
Places ==
  /\ oldBl \subseteq Suspect /\ newBl \subseteq Suspect
  /\ count \in 0..3
  /\ pc \in {"program", "search"}
  /\ req \in Requests
  /\ n \in 0..(Fls + 1) /\ (pc = "search" => n \in 0..Fls)
  /\ hbp \in 0..Last
  /\ hbp # 0 => pc = "search" /\ hbp \in Free(hdr) /\ ListOf(sz)[hbp] = n

HeapInv == Sound(hdr, sz, fl, large) /\ Places

\* What a search knows of the block it looks at.
LEMMA FoundIs ==
  ASSUME HeapInv, hbp # 0
  PROVE  /\ hbp \in Addr /\ hdr[hbp] = "free" /\ hbp \in Free(hdr) /\ Avail = sz[hbp]
         /\ Avail \in Nat /\ Avail >= 1 /\ hbp + Avail <= Last + 1
         /\ ListOf(sz)[hbp] = n /\ n \in 0..Fls /\ pc = "search"
         /\ req.needed \in Nat /\ req.needed >= 1 /\ req.avoids \in BOOLEAN
         /\ hdr \in Headers /\ sz \in Sizes /\ fl \in ListsType
         /\ Geometry(hdr, sz) /\ Coalesced(hdr, sz)
         /\ Linked(fl, Free(hdr), ListOf(sz)) /\ Ordered(fl, Free(hdr))
         /\ large = Cardinality(Cells(hdr, sz)) /\ ListOf(sz) \in [Addr -> 0..Fls]
         /\ \A a \in Addr : ListOf(sz)[a] = FlFromBlocks(sz[a])
<1>1. /\ hdr \in Headers /\ sz \in Sizes /\ fl \in ListsType
      /\ Geometry(hdr, sz) /\ Coalesced(hdr, sz)
      /\ Linked(fl, Free(hdr), ListOf(sz)) /\ Ordered(fl, Free(hdr))
      /\ large = Cardinality(Cells(hdr, sz))
  BY DEF HeapInv, Sound
<1>2. hbp \in Free(hdr) /\ ListOf(sz)[hbp] = n /\ pc = "search" /\ n \in 0..Fls /\ req \in Requests
  BY DEF HeapInv, Places
<1>3. hbp \in Addr /\ hdr[hbp] = "free" /\ Begins(hdr, hbp)
  BY <1>2 DEF Free, Begins
<1>4. Avail = sz[hbp] /\ Avail \in Nat /\ Avail >= 1 /\ hbp + Avail <= Last + 1
  BY <1>1, <1>3, AddrIs DEF Sizes, Geometry, Avail
<1>5. req.needed \in Nat /\ req.needed >= 1 /\ req.avoids \in BOOLEAN
  BY <1>2, HeapAssumption DEF Requests
<1>6. ListOf(sz) \in [Addr -> 0..Fls] /\ \A a \in Addr : ListOf(sz)[a] = FlFromBlocks(sz[a])
  BY <1>1, ListOfIs DEF ListOf
<1> QED BY <1>1, <1>2, <1>3, <1>4, <1>5, <1>6

LEMMA NotListed ==
  ASSUME NEW a \in Addr, NEW len \in Nat, IsBlackListed(a, len) = 0
  PROVE  a..(a + len - 1) \intersect (oldBl \union newBl) = {}
<1> DEFINE B == {e \in a..(a + len - 1) : e \in oldBl \union newBl}
           hit == Least(B)
<1>1. a \in Int /\ 1 <= a
  BY AddrIs
<1>2. B \in SUBSET Nat /\ 0 \notin B
  BY <1>1
<1>3. IsBlackListed(a, len) = IF hit = 0 THEN 0 ELSE hit + 1
  BY DEF IsBlackListed
<1> HIDE DEF B
<1>4. (B = {} => hit = 0) /\ (B # {} => hit \in B)
  BY <1>2, LeastIs
<1>5. hit \in Nat /\ hit = 0
  <2>1. hit \in Nat
    <3> HIDE DEF hit
    <3>1. CASE B = {}
      BY <1>4, <3>1
    <3>2. CASE B # {}
      BY <1>2, <1>4, <3>2
    <3> QED BY <3>1, <3>2
  <2> HIDE DEF hit
  <2> QED BY <1>3, <2>1
<1>6. B = {}
  BY <1>2, <1>4, <1>5
<1> QED BY <1>6 DEF B

LEMMA PassedIs ==
  ASSUME NEW b \in Addr, NEW avail \in Nat, NEW needed \in Nat, needed <= avail, NEW len
  PROVE  LET s == Passed(b, avail, needed, len)
         IN /\ s \in Int /\ b <= s /\ s <= b + avail - needed + 1
            /\ s <= b + avail - needed => IsBlackListed(s, len) = 0
<1> DEFINE P == {a \in b..(b + avail - needed + 1) :
                   a > b + avail - needed \/ IsBlackListed(a, len) = 0}
<1>1. b \in Nat
  BY AddrIs
<1>2. P \in SUBSET Nat /\ b + avail - needed + 1 \in P
  BY <1>1
<1>3. Passed(b, avail, needed, len) = Least(P)
  BY DEF Passed
<1>4. Least(P) \in P
  <2> HIDE DEF P
  <2> QED BY <1>2, LeastIs
<1> QED BY <1>1, <1>3, <1>4

\* Where the search lets a block begin, and what it then knows of it.
SuspectsIn(h) ==
  (IF req.ignoreOffPage THEN {h} ELSE h..(h + req.needed - 1)) \intersect (oldBl \union newBl)

LEMMA StartIs ==
  ASSUME HeapInv, hbp # 0, Suits
  PROVE  /\ Start \in Int /\ hbp <= Start /\ Start <= hbp + Avail - req.needed + 1
         /\ Avail >= req.needed
         /\ Start <= hbp + Avail - req.needed => ~req.avoids \/ SuspectsIn(Start) = {}
         /\ ~req.avoids => Start = hbp
<1> DEFINE len == IF req.ignoreOffPage THEN 1 ELSE req.needed
           s == Passed(hbp, Avail, req.needed, len)
<1>1. hbp \in Addr /\ Avail \in Nat /\ req.needed \in Nat /\ req.needed >= 1
      /\ req.avoids \in BOOLEAN /\ hbp + Avail <= Last + 1
  BY FoundIs
<1>2. Avail >= req.needed
  BY DEF Suits
<1>3. len \in Nat
  BY <1>1
<1> HIDE DEF len
<1>4. /\ s \in Int /\ hbp <= s /\ s <= hbp + Avail - req.needed + 1
      /\ s <= hbp + Avail - req.needed => IsBlackListed(s, len) = 0
  BY <1>1, <1>2, PassedIs
<1>5. Start = IF req.avoids THEN s ELSE hbp
  BY DEF Start, len
<1> HIDE DEF s
<1>6. ASSUME s <= hbp + Avail - req.needed
      PROVE  SuspectsIn(s) = {}
  <2>1. s \in Addr
    BY <1>1, <1>4, <1>6, AddrIs
  <2>2. s..(s + len - 1) \intersect (oldBl \union newBl) = {}
    BY <1>3, <1>4, <1>6, <2>1, NotListed
  <2>3. req.ignoreOffPage => s..(s + len - 1) = {s}
    BY <1>4 DEF len
  <2> QED BY <2>2, <2>3 DEF SuspectsIn, len
<1> QED BY <1>1, <1>2, <1>4, <1>5, <1>6, AddrIs

\* What AllocIsSound asks of a call that returns.
Allocates ==
  \A h \in Addr : hdr'[h] = "used" /\ hdr[h] # "used" =>
    /\ sz'[h] = req.needed
    /\ \E b \in FreeBlocks :
         /\ h..(h + req.needed - 1) \subseteq Extent(b)
         /\ \/ ~req.avoids
            \/ req.needed > BlackLimit /\ sz[b] - req.needed > BlackLimit
            \/ (IF req.ignoreOffPage THEN {h} ELSE h..(h + req.needed - 1))
                 \intersect (oldBl \union newBl) = {}

\* hbp, or the first part of it, is allocated where it is.
LEMMA TakesHbp ==
  ASSUME HeapInv, hbp # 0, Suits, Takes(hdr, fl, hbp, Avail),
         sz' = [a \in Addr |-> IF a = hbp THEN req.needed
                               ELSE IF a = hbp + req.needed /\ Avail # req.needed
                               THEN Avail - req.needed ELSE sz[a]],
         \/ ~req.avoids
         \/ req.needed > BlackLimit /\ Avail - req.needed > BlackLimit
         \/ SuspectsIn(hbp) = {}
  PROVE  Sound(hdr', sz', fl', large') /\ Allocates
<1> DEFINE L == ListOf(sz)
           k == Avail
<1>1. /\ hbp \in Addr /\ hdr[hbp] = "free" /\ hbp \in Free(hdr) /\ k = sz[hbp]
      /\ k \in Nat /\ hbp + k <= Last + 1 /\ L[hbp] = n
      /\ req.needed \in Nat \ {0}
      /\ hdr \in Headers /\ sz \in Sizes /\ fl \in ListsType
      /\ Geometry(hdr, sz) /\ Linked(fl, Free(hdr), L) /\ Ordered(fl, Free(hdr))
      /\ large = Cardinality(Cells(hdr, sz)) /\ L \in [Addr -> 0..Fls]
  BY FoundIs
<1>2. /\ \A e \in Free(hdr) : e + sz[e] \in Free(hdr) => e + sz[e] = hbp
      /\ \A a \in Free(hdr) : a # hbp => L[a] = FlFromBlocks(sz[a])
  BY FoundIs DEF Coalesced, Free
<1>3. req.needed <= k /\ Takes(hdr, fl, hbp, k)
      /\ sz' = [a \in Addr |-> IF a = hbp THEN req.needed
                               ELSE IF a = hbp + req.needed /\ k # req.needed
                               THEN k - req.needed ELSE sz[a]]
  BY <1>1 DEF Suits
<1> HIDE DEF L, k
<1>4. /\ Sound(hdr', sz', fl', large')
      /\ \A a \in Addr : hdr'[a] = "used" => a = hbp \/ hdr[a] = "used"
      /\ sz'[hbp] = req.needed
  BY <1>1, <1>2, <1>3, TakesIs
<1>5. hbp \in FreeBlocks /\ hbp..(hbp + req.needed - 1) \subseteq Extent(hbp) /\ sz[hbp] = Avail
  BY <1>1, <1>3, AddrIs DEF FreeBlocks, Extent, k
<1>6. Allocates
  BY <1>4, <1>5 DEF Allocates, SuspectsIn
<1> QED BY <1>4, <1>6

LEMMA TakeWholeIs ==
  ASSUME HeapInv, HeadersFail = FALSE, TakeWhole
  PROVE  Sound(hdr', sz', fl', large') /\ Allocates
<1>1. hbp # 0 /\ Suits /\ Start = hbp
  BY DEF TakeWhole, Searching
<1>2. ~req.avoids \/ SuspectsIn(hbp) = {}
  <2>1. hbp <= hbp + Avail - req.needed
    BY <1>1, StartIs, FoundIs, AddrIs
  <2> QED BY <1>1, <2>1, StartIs
<1>3. ~TakesFails(hdr, fl, hbp, Avail)
  BY DEF TakesFails
<1>4. Takes(hdr, fl, hbp, Avail)
      /\ sz' = [a \in Addr |-> IF a = hbp THEN req.needed
                               ELSE IF a = hbp + req.needed /\ Avail # req.needed
                               THEN Avail - req.needed ELSE sz[a]]
  BY <1>3 DEF TakeWhole
<1> QED BY <1>1, <1>2, <1>4, TakesHbp

LEMMA TakeBlackIs ==
  ASSUME HeapInv, TakeBlack
  PROVE  Sound(hdr', sz', fl', large') /\ Allocates
<1>1. hbp # 0 /\ Suits /\ req.needed > BlackLimit /\ Avail - req.needed > BlackLimit
  BY DEF TakeBlack, AllBlack, Searching, Punts
<1>2. Takes(hdr, fl, hbp, Avail)
      /\ sz' = [a \in Addr |-> IF a = hbp THEN req.needed
                               ELSE IF a = hbp + req.needed /\ Avail # req.needed
                               THEN Avail - req.needed ELSE sz[a]]
  BY DEF TakeBlack
<1> QED BY <1>1, <1>2, TakesHbp

\* A part of hbp is allocated that begins further on.
LEMMA TakeSplitIs ==
  ASSUME HeapInv, TakeSplit
  PROVE  Sound(hdr', sz', fl', large') /\ Allocates
<1> DEFINE s == Start
           k == Avail - (s - hbp)
           F == Free(hdr)
           L == ListOf(sz)
           H == SplitH(hdr, s)
           S == SplitS(sz, hbp, s)
           q == s - hbp
           K == [L EXCEPT ![hbp] = FlFromBlocks(q), ![s] = n]
           l == SplitLists(s)
<1>1. hbp # 0 /\ Suits /\ s # hbp /\ k >= req.needed
  BY DEF TakeSplit, Searching
<1>2. /\ s \in Int /\ hbp <= s
      /\ s <= hbp + Avail - req.needed => ~req.avoids \/ SuspectsIn(s) = {}
  BY <1>1, StartIs
<1>3. Takes([hdr EXCEPT ![s] = "free"], SplitLists(s), s, k)
      /\ sz' = [a \in Addr |-> IF a = hbp THEN s - hbp
                               ELSE IF a = s THEN req.needed
                               ELSE IF a = s + req.needed /\ k # req.needed
                               THEN k - req.needed ELSE sz[a]]
  BY DEF TakeSplit
<1>4. /\ hbp \in Addr /\ hdr[hbp] = "free" /\ hbp \in F /\ Avail = sz[hbp]
      /\ Avail \in Nat /\ hbp + Avail <= Last + 1 /\ L[hbp] = n /\ n \in 0..Fls
      /\ req.needed \in Nat \ {0}
      /\ hdr \in Headers /\ sz \in Sizes /\ fl \in ListsType
      /\ Geometry(hdr, sz) /\ Coalesced(hdr, sz)
      /\ Linked(fl, F, L) /\ Ordered(fl, F)
      /\ large = Cardinality(Cells(hdr, sz)) /\ L \in [Addr -> 0..Fls]
      /\ \A a \in Addr : L[a] = FlFromBlocks(sz[a])
  BY <1>1, FoundIs
<1> HIDE DEF s, L
<1>5. /\ s \in Addr /\ hbp \in Int /\ hbp < s /\ s < hbp + sz[hbp] /\ q \in Nat \ {0} /\ k \in Nat
      /\ sz[hbp] \in Int
  BY <1>1, <1>2, <1>4, AddrIs
<1>6. ~req.avoids \/ SuspectsIn(s) = {}
  BY <1>1, <1>2, <1>4, <1>5
<1>7. /\ H \in Headers /\ S \in Sizes /\ Geometry(H, S)
      /\ S[hbp] = q /\ S[s] = k /\ hdr[s] = "none"
      /\ \A a \in Addr : a # hbp /\ a # s => S[a] = sz[a]
      /\ Free(H) = F \union {s} /\ Cells(H, S) = Cells(hdr, sz)
  <2> HIDE DEF H, S
  <2>1. /\ H \in Headers /\ S \in Sizes /\ Geometry(H, S)
        /\ S[hbp] = s - hbp /\ S[s] = sz[hbp] - (s - hbp) /\ hdr[s] = "none"
        /\ \A a \in Addr : a # hbp /\ a # s => S[a] = sz[a]
        /\ Free(H) = Free(hdr) \union {s} /\ Cells(H, S) = Cells(hdr, sz)
    BY <1>4, <1>5, SplitIs DEF H, S
  <2> QED BY <1>4, <2>1
<1>8. H[s] = "free" /\ \A a \in Addr : a # s => H[a] = hdr[a]
  BY <1>4, <1>5 DEF SplitH, Headers
<1>9. Takes(H, l, s, k)
  BY <1>3 DEF SplitH
<1> HIDE DEF H, S, q, k
<1>10. F \in SUBSET Addr /\ s \notin F /\ s # hbp
  BY <1>1, <1>7 DEF Free
<1>11. FlFromBlocks(q) \in 0..Fls
  BY <1>5, ListExists
<1>12. /\ K \in [Addr -> 0..Fls] /\ K[hbp] = FlFromBlocks(q) /\ K[s] = n
       /\ \A a \in F : a # hbp => K[a] = L[a]
  BY <1>4, <1>5, <1>10, <1>11
<1> HIDE DEF K, F
<1>13. l = Replaced(fl, hbp, s, n, q)
  BY DEF SplitLists, q
<1>14. l \in ListsType /\ Linked(l, F \union {s}, K) /\ Ordered(l, F \union {s})
  <2>1. LET m == Replaced(fl, hbp, s, n, q)
        IN m \in ListsType /\ Linked(m, F \union {s}, K) /\ Ordered(m, F \union {s})
    BY <1>4, <1>5, <1>10, <1>11, <1>12, ReplacedIs
  <2> QED BY <1>13, <2>1
<1> HIDE DEF l
<1>15. sz' = [a \in Addr |-> IF a = s THEN req.needed
                             ELSE IF a = s + req.needed /\ k # req.needed
                             THEN k - req.needed ELSE S[a]]
  <2> DEFINE T == [a \in Addr |-> IF a = s THEN req.needed
                                  ELSE IF a = s + req.needed /\ k # req.needed
                                  THEN k - req.needed ELSE S[a]]
             U == [a \in Addr |-> IF a = hbp THEN s - hbp
                               ELSE IF a = s THEN req.needed
                               ELSE IF a = s + req.needed /\ k # req.needed
                               THEN k - req.needed ELSE sz[a]]
  <2>1. \A a \in Addr : T[a] = U[a]
    <3>1. hbp # s /\ hbp # s + req.needed /\ S[hbp] = s - hbp
      BY <1>4, <1>5, <1>7 DEF q
    <3> QED BY <1>7, <3>1
  <2>2. T = U
    BY <2>1
  <2> QED BY <1>3, <2>2 DEF k
<1>16. \A e \in Free(H) : e + S[e] \in Free(H) => e + S[e] = s
  <2> SUFFICES ASSUME NEW e \in F \union {s}, e + S[e] \in F \union {s}, e + S[e] # s
               PROVE  FALSE
    BY <1>7
  <2>1. e + S[e] \in F
    OBVIOUS
  <2>2. \A d \in F : d + sz[d] \notin F
    BY <1>4 DEF Coalesced, F
  <2>3. CASE e = s
    <3>1. e + S[e] = hbp + sz[hbp]
      BY <1>4, <1>5, <1>7, <2>3 DEF k
    <3> QED BY <1>4, <2>1, <2>2, <3>1
  <2>4. CASE e = hbp
    <3>1. e + S[e] = s
      BY <1>2, <1>5, <1>7, <2>4 DEF q
    <3> QED BY <3>1
  <2>5. CASE e # s /\ e # hbp
    <3>1. S[e] = sz[e] /\ e \in F
      BY <1>7, <1>10, <2>5
    <3> QED BY <2>1, <2>2, <3>1
  <2> QED BY <2>3, <2>4, <2>5
<1>17. \A a \in Free(H) : a # s => K[a] = FlFromBlocks(S[a])
  BY <1>4, <1>7, <1>10, <1>12
<1>18. /\ Sound(hdr', sz', fl', large')
       /\ \A a \in Addr : hdr'[a] = "used" => a = s \/ H[a] = "used"
       /\ sz'[s] = req.needed
  <2>1. large = Cardinality(Cells(H, S)) /\ Linked(l, Free(H), K) /\ Ordered(l, Free(H))
    BY <1>4, <1>7, <1>14
  <2>2. k = S[s] /\ req.needed <= k /\ req.needed \in Nat \ {0} /\ K[s] = n
    BY <1>1, <1>4, <1>5, <1>7, <1>12
  <2> QED BY <1>5, <1>7, <1>8, <1>9, <1>12, <1>14, <1>15, <1>16, <1>17, <2>1, <2>2, TakesIs
<1>19. hbp \in FreeBlocks /\ s..(s + req.needed - 1) \subseteq Extent(hbp)
  BY <1>1, <1>4, <1>5 DEF FreeBlocks, Extent, k
<1>20. \A a \in Addr : hdr'[a] = "used" => a = s \/ hdr[a] = "used"
  BY <1>8, <1>18
<1>21. Allocates
  BY <1>6, <1>18, <1>19, <1>20 DEF Allocates, SuspectsIn
<1> QED BY <1>18, <1>21

\* A list leads to blocks of that list only.
LEMMA LeadsTo ==
  ASSUME NEW l \in ListsType, NEW F \in SUBSET Addr, NEW L, Linked(l, F, L), NEW i \in 0..Fls
  PROVE  \A b \in F : L[b] = i =>
              l.next[b] \in 0..Last /\ (l.next[b] # 0 => l.next[b] \in F /\ L[l.next[b]] = i)
<1>1. l.head \in [0..Fls -> 0..Last] /\ l.next \in [Addr -> 0..Last]
  BY ListsAre
<1> QED BY <1>1 DEF Linked

\* hbp is dropped as blocks of one, and the search goes on behind the one before it.
LEMMA DropBlackIs ==
  ASSUME HeapInv, DropBlack
  PROVE  HeapInv'
<1> DEFINE before == fl.prev[hbp]
           lists == Removed(fl, hbp, n)
           F == Free(hdr)
           L == ListOf(sz)
           G == DroppedH(hdr, sz, hbp)
           R == DroppedS(sz, hbp)
           E == F \ {hbp}
           B == {hbp}
           U == hbp..(hbp + sz[hbp] - 1)
<1>1. hbp # 0
  BY DEF DropBlack, AllBlack, Searching
<1>2. /\ hbp \in Addr /\ hdr[hbp] = "free" /\ hbp \in F /\ Avail = sz[hbp]
      /\ Avail \in Nat /\ hbp + Avail <= Last + 1 /\ L[hbp] = n /\ n \in 0..Fls /\ pc = "search"
      /\ hdr \in Headers /\ sz \in Sizes /\ fl \in ListsType
      /\ Geometry(hdr, sz) /\ Coalesced(hdr, sz)
      /\ Linked(fl, F, L) /\ Ordered(fl, F)
      /\ large = Cardinality(Cells(hdr, sz)) /\ L \in [Addr -> 0..Fls]
      /\ \A a \in Addr : L[a] = FlFromBlocks(sz[a])
  BY <1>1, FoundIs
<1>3. /\ count' = 0 /\ large' = large - sz[hbp] /\ fl' = Forgotten(lists, B)
      /\ hdr' = G /\ sz' = R
      /\ hbp' = (IF before = 0 THEN lists.head[n] ELSE lists.next[before])
      /\ UNCHANGED <<blackLists, pc, req, n>>
  BY <1>2 DEF DropBlack, DroppedH, DroppedS
<1> HIDE DEF L
<1>4. /\ G \in Headers /\ R \in Sizes /\ Geometry(G, R) /\ Free(G) = E
      /\ \A b \in Free(G) : R[b] = sz[b]
      /\ U \subseteq Cells(hdr, sz) /\ Cells(G, R) = Cells(hdr, sz) \ U
  <2> HIDE DEF G, R
  <2> QED BY <1>2, DroppedIs DEF G, R
<1> HIDE DEF G, R, B, U
<1>5. /\ lists \in ListsType /\ Linked(lists, E, L) /\ Ordered(lists, E)
      /\ before # 0 => before \in E /\ L[before] = n
  <2>1. F \in SUBSET Addr
    BY DEF Free
  <2> HIDE DEF F
  <2> QED BY <1>2, <2>1, RemovedIs
<1>6. E \in SUBSET Addr /\ \A b \in E : sz[b] = R[b] /\ b \in F
  BY <1>4 DEF Free
<1> HIDE DEF lists, before
<1>7. /\ fl' \in ListsType /\ Linked(fl', E, ListOf(sz')) /\ Ordered(fl', E)
      /\ \A b \in E : ListOf(sz')[b] = L[b]
  <2> DEFINE K == ListOf(R)
  <2>1. \A b \in E : K[b] = L[b]
    BY <1>2, <1>6 DEF ListOf
  <2>2. B \intersect E = {}
    BY DEF B
  <2> HIDE DEF K, E
  <2>3. LET m == Forgotten(lists, B)
        IN m \in ListsType /\ Linked(m, E, L) /\ Ordered(m, E)
    BY <1>5, <1>6, <2>2, ForgottenIs
  <2>4. Linked(fl', E, K)
    BY <1>3, <2>1, <2>3, SameLinked
  <2> QED BY <1>3, <2>1, <2>3, <2>4 DEF K
<1>8. Coalesced(hdr', sz')
  BY <1>2, <1>3, <1>4, <1>6 DEF Coalesced
<1>9. large' = Cardinality(Cells(hdr', sz'))
  <2>1. Cardinality(U) = sz[hbp]
    BY <1>2, RangeIs DEF U
  <2>2. Cells(hdr, sz) \in SUBSET Addr /\ U \in SUBSET Cells(hdr, sz)
    BY <1>4 DEF Cells
  <2>3. Cardinality(Cells(hdr, sz) \ U) = Cardinality(Cells(hdr, sz)) - Cardinality(U)
    BY <2>2, CountLess
  <2> QED BY <1>2, <1>3, <1>4, <2>1, <2>3
<1>10. Sound(hdr', sz', fl', large')
  BY <1>3, <1>4, <1>7, <1>8, <1>9 DEF Sound
<1> HIDE DEF E
<1>11. hbp' \in 0..Last /\ (hbp' # 0 => hbp' \in E /\ L[hbp'] = n)
  <2>0. lists \in ListsType /\ E \in SUBSET Addr /\ Linked(lists, E, L) /\ n \in 0..Fls
    BY <1>2, <1>5, <1>6
  <2>1. lists.head[n] \in 0..Last /\ (lists.head[n] # 0 => lists.head[n] \in E /\ L[lists.head[n]] = n)
    BY <2>0, ListsAre DEF Linked
  <2>2. \A b \in E : L[b] = n =>
          lists.next[b] \in 0..Last /\ (lists.next[b] # 0 => lists.next[b] \in E /\ L[lists.next[b]] = n)
    BY <2>0, LeadsTo
  <2> QED BY <1>3, <1>5, <2>1, <2>2
<1>12. hbp' # 0 => hbp' \in Free(hdr') /\ ListOf(sz')[hbp'] = n'
  BY <1>3, <1>4, <1>7, <1>11
<1>13. Places
  BY DEF HeapInv
<1>14. Places'
  BY <1>2, <1>3, <1>11, <1>12, <1>13 DEF Places, blackLists
<1> QED BY <1>10, <1>14 DEF HeapInv

\* The rest of the steps, which change neither the headers nor the lists.
LEMMA LooksOn ==
  ASSUME HeapInv, UNCHANGED heap, UNCHANGED blackLists, count' \in 0..3,
         pc' = "search", req' \in Requests, n' \in 0..Fls,
         hbp' = fl.head[n'] \/ (hbp # 0 /\ n' = n /\ hbp' = fl.next[hbp])
  PROVE  HeapInv'
<1>1. Sound(hdr, sz, fl, large) /\ Places
  BY DEF HeapInv
<1>2. Sound(hdr', sz', fl', large')
  BY <1>1 DEF heap
<1>3. fl \in ListsType /\ Linked(fl, Free(hdr), ListOf(sz)) /\ Free(hdr) \in SUBSET Addr
  BY <1>1 DEF Sound, Free
<1>4. hbp # 0 => hbp \in Free(hdr) /\ ListOf(sz)[hbp] = n
  BY <1>1 DEF Places
<1>5. hbp' \in 0..Last /\ (hbp' # 0 => hbp' \in Free(hdr) /\ ListOf(sz)[hbp'] = n')
  <2> DEFINE F == Free(hdr)
             L == ListOf(sz)
             i == n'
  <2>1. fl \in ListsType /\ F \in SUBSET Addr /\ Linked(fl, F, L) /\ i \in 0..Fls
    BY <1>3
  <2> HIDE DEF F, L, i
  <2>2. fl.head[i] \in 0..Last /\ (fl.head[i] # 0 => fl.head[i] \in F /\ L[fl.head[i]] = i)
    BY <2>1, ListsAre DEF Linked
  <2>3. \A b \in F : L[b] = i =>
          fl.next[b] \in 0..Last /\ (fl.next[b] # 0 => fl.next[b] \in F /\ L[fl.next[b]] = i)
    BY <2>1, LeadsTo
  <2>4. hbp' = fl.head[i] \/ (hbp \in F /\ L[hbp] = i /\ hbp' = fl.next[hbp])
    BY <1>4 DEF F, L, i
  <2> QED BY <2>2, <2>3, <2>4 DEF F, L, i
<1>6. n' \in 0..(Fls + 1)
  BY ListExists
<1>7. Places'
  BY <1>1, <1>5, <1>6 DEF Places, heap, blackLists
<1> QED BY <1>2, <1>7 DEF HeapInv

\* A call returns, or the program goes on.
LEMMA Rests ==
  ASSUME HeapInv, Sound(hdr', sz', fl', large'), oldBl' \subseteq Suspect, newBl' \subseteq Suspect,
         count' \in 0..3, pc' = "program", req' \in Requests, n' \in 0..(Fls + 1), hbp' = 0
  PROVE  HeapInv'
BY NullIs DEF HeapInv, Places

LEMMA ReturnsIs ==
  ASSUME HeapInv, Returns, Sound(hdr', sz', fl', large'), UNCHANGED <<blackLists, count>>
  PROVE  HeapInv'
<1>1. NoRequest \in Requests /\ 0 \in 0..(Fls + 1)
  BY HeapAssumption, ListExists DEF NoRequest, Requests
<1>2. Places
  BY DEF HeapInv
<1> QED BY <1>1, <1>2, Rests DEF Returns, Places, blackLists

LEMMA HeapInitInv ==
  ASSUME HeapInit
  PROVE  HeapInv
<1>1. Fls \in Nat
  BY ListExists
<1>2. hdr = [a \in Addr |-> "none"] /\ sz = [a \in Addr |-> 0]
      /\ fl = [head |-> [i \in 0..Fls |-> 0], next |-> [a \in Addr |-> 0],
               prev |-> [a \in Addr |-> 0]]
      /\ large = 0
  BY DEF HeapInit
<1>3. hdr \in Headers /\ sz \in Sizes /\ fl \in ListsType
  BY <1>2, NullIs DEF Headers, Sizes, ListsType
<1>4. Free(hdr) = {} /\ \A a \in Addr : ~Begins(hdr, a) /\ hdr[a] # "inside"
  BY <1>2 DEF Free, Begins
<1>5. Geometry(hdr, sz)
  BY <1>4 DEF Geometry
<1>6. Coalesced(hdr, sz)
  BY <1>4 DEF Coalesced
<1>7. Linked(fl, Free(hdr), ListOf(sz))
  BY <1>2, <1>4 DEF Linked
<1>8. Ordered(fl, Free(hdr))
  <2>1. [a \in Addr |-> 0] \in [Addr -> Nat]
    OBVIOUS
  <2> QED BY <1>4, <2>1 DEF Ordered
<1>9. large = Cardinality(Cells(hdr, sz))
  <2>1. Cells(hdr, sz) = {}
    BY <1>4 DEF Cells
  <2> QED BY <1>2, <2>1, FS_EmptySet
<1>10. Sound(hdr, sz, fl, large)
  BY <1>3, <1>5, <1>6, <1>7, <1>8, <1>9 DEF Sound
<1>11. NoRequest \in Requests
  BY HeapAssumption DEF NoRequest, Requests
<1>12. Places
  BY <1>1, <1>11, NullIs DEF HeapInit, Places
<1> QED BY <1>10, <1>12 DEF HeapInv

LEMMA HeapStepInv ==
  ASSUME HeapInv, HeadersFail = FALSE, [HeapNext]_heapVars
  PROVE  HeapInv' /\ (pc = "search" /\ pc' = "program" => Allocates)
<1>0. Sound(hdr, sz, fl, large) /\ Places
  BY DEF HeapInv
<1>1. ASSUME NEW p \in Addr, NEW k \in 1..Last, AddToHeap(p, k)
      PROVE  HeapInv' /\ pc # "search"
  <2>1. Sound(hdr', sz', fl', large')
    BY <1>0, <1>1, AddToHeapIs
  <2>2. pc = "program" /\ UNCHANGED <<blackLists, count, pc, req, n, hbp>>
    BY <1>1 DEF AddToHeap
  <2> QED BY <1>0, <2>1, <2>2, Rests DEF Places, blackLists
<1>2. ASSUME NEW h \in Addr, FreeHblk(h)
      PROVE  HeapInv' /\ pc # "search"
  <2>1. Sound(hdr', sz', fl', large')
    BY <1>0, <1>2, FreeHblkIs
  <2>2. pc = "program" /\ UNCHANGED <<blackLists, count, pc, req, n, hbp>>
    BY <1>2 DEF FreeHblk
  <2> QED BY <1>0, <2>1, <2>2, Rests DEF Places, blackLists
<1>3. ASSUME NEW p \in Suspect, AddToBlackList(p)
      PROVE  HeapInv' /\ pc # "search"
  <2>1. pc = "program" /\ newBl' = newBl \union {p}
        /\ UNCHANGED <<hdr, sz, fl, large, oldBl, count, pc, req, n, hbp>>
    BY <1>3 DEF AddToBlackList, heap
  <2> QED BY <1>0, <2>1, Rests DEF Places
<1>4. ASSUME PromoteBlackLists
      PROVE  HeapInv' /\ pc # "search"
  <2>1. pc = "program" /\ newBl' = {} /\ oldBl' = newBl
        /\ UNCHANGED <<hdr, sz, fl, large, count, pc, req, n, hbp>>
    BY <1>4 DEF PromoteBlackLists, heap
  <2> QED BY <1>0, <2>1, Rests DEF Places
<1>5. ASSUME NEW r \in Requests, AllocHblk(r)
      PROVE  HeapInv' /\ pc' = "search"
  <2>1. pc' = "search" /\ req' = r /\ n' = FlFromBlocks(r.needed) /\ hbp' = fl.head[n']
        /\ UNCHANGED heap /\ UNCHANGED blackLists /\ count' = count
    BY <1>5 DEF AllocHblk
  <2>2. n' \in 0..Fls
    <3>1. r.needed \in Nat
      BY HeapAssumption DEF Requests
    <3> QED BY <2>1, <3>1, ListExists
  <2> QED BY <1>0, <2>1, <2>2, LooksOn DEF Places
<1>6. ASSUME NextList
      PROVE  HeapInv' /\ Allocates
  <2>1. pc = "search" /\ UNCHANGED heap /\ UNCHANGED blackLists /\ count' = count
    BY <1>6 DEF NextList
  <2>2. Allocates
    BY <2>1 DEF Allocates, heap
  <2>3. CASE n < Fls
    <3>1. n' = n + 1 /\ hbp' = fl.head[n'] /\ pc' = pc /\ req' = req
      BY <1>6, <2>3 DEF NextList
    <3>2. n' \in 0..Fls
      BY <1>0, <2>1, <2>3, <3>1, ListExists DEF Places
    <3> QED BY <1>0, <2>1, <2>2, <3>1, <3>2, LooksOn DEF Places
  <2>4. CASE ~(n < Fls)
    <3>1. Returns
      BY <1>6, <2>4 DEF NextList
    <3>2. Sound(hdr', sz', fl', large')
      BY <1>0, <2>1 DEF heap
    <3> QED BY <2>1, <2>2, <3>1, <3>2, ReturnsIs
  <2> QED BY <2>3, <2>4
<1>7. ASSUME PassOver \/ PassBlack
      PROVE  HeapInv' /\ pc' = "search"
  <2>1. /\ pc = "search" /\ hbp # 0 /\ hbp' = fl.next[hbp]
        /\ UNCHANGED heap /\ UNCHANGED blackLists /\ pc' = pc /\ req' = req /\ n' = n
        /\ count' = count \/ (count' = count + 1 /\ count # 3)
    BY <1>7 DEF PassOver, PassBlack, AllBlack, Searching, Hopeless
  <2>2. count' \in 0..3 /\ n' \in 0..Fls /\ req' \in Requests
    BY <1>0, <2>1 DEF Places
  <2> QED BY <2>1, <2>2, LooksOn
<1>8. ASSUME TakeWhole \/ TakeSplit \/ TakeBlack
      PROVE  HeapInv' /\ Allocates
  <2>1. Sound(hdr', sz', fl', large') /\ Allocates
    BY <1>8, TakeWholeIs, TakeSplitIs, TakeBlackIs
  <2>2. Returns /\ UNCHANGED <<blackLists, count>>
    <3>1. ~TakesFails(hdr, fl, hbp, Avail)
      BY DEF TakesFails
    <3> QED BY <1>8, <3>1 DEF TakeWhole, TakeSplit, TakeBlack, Takes
  <2> QED BY <2>1, <2>2, ReturnsIs
<1>9. ASSUME DropBlack
      PROVE  HeapInv' /\ pc' = pc
  BY <1>9, DropBlackIs DEF DropBlack
<1>10. ASSUME UNCHANGED heapVars
       PROVE  HeapInv' /\ pc' = pc
  <2>1. UNCHANGED <<hdr, sz, fl, large, oldBl, newBl, count, pc, req, n, hbp>>
    BY <1>10 DEF heapVars
  <2>2. Sound(hdr', sz', fl', large')
    BY <1>0, <2>1
  <2>3. Places'
    BY <1>0, <2>1 DEF Places
  <2> QED BY <2>1, <2>2, <2>3 DEF HeapInv
<1> QED BY <1>1, <1>2, <1>3, <1>4, <1>5, <1>6, <1>7, <1>8, <1>9, <1>10 DEF HeapNext, Search

------------------------------------------------------------------------------
\* What the walk of GC_next_used_block() finds from each place on.
UsedFrom(j) == {b \in Addr : hdr[b] = "used" /\ b >= j}

Found == [j \in 1..(Last + 1) |-> IF j = Last + 1 THEN 0 ELSE Least(UsedFrom(j))]

Walk(w) ==
  [j \in 1..(Last + 1) |->
     IF j = Last + 1 THEN 0
     ELSE IF hdr[j] \in {"none", "inside"} THEN w[j + 1]
     ELSE IF hdr[j] = "used" THEN j
     ELSE w[j + sz[j]]]

\* From a place where no used block begins, it goes on to one where none was missed.
LEMMA FoundWalks ==
  ASSUME hdr \in Headers, sz \in Sizes, Geometry(hdr, sz)
  PROVE  Walk(Found) = Found
<1>1. \A a \in Addr : a \in Nat /\ 1 <= a /\ a <= Last /\ sz[a] \in Int
  BY AddrIs DEF Sizes
<1>0. \A i, b : b \in UsedFrom(i) <=> b \in Addr /\ hdr[b] = "used" /\ b >= i
  BY DEF UsedFrom
<1>2. \A j \in 1..(Last + 1) : Found[j] = IF j = Last + 1 THEN 0 ELSE Least(UsedFrom(j))
  BY DEF Found
<1>3. UsedFrom(Last + 1) = {} /\ Least({}) = 0
  BY <1>1, AddrIs DEF UsedFrom, Least
<1>4. \A j \in 1..(Last + 1) : Found[j] = Least(UsedFrom(j))
  BY <1>2, <1>3
<1>5. ASSUME NEW j \in 1..(Last + 1), j # Last + 1
      PROVE  Found[j] = IF hdr[j] \in {"none", "inside"} THEN Found[j + 1]
                        ELSE IF hdr[j] = "used" THEN j
                        ELSE Found[j + sz[j]]
  <2>0. j \in Addr /\ j + 1 \in 1..(Last + 1)
    BY <1>5, AddrIs
  <2>1. CASE hdr[j] \in {"none", "inside"}
    <3>1. \A b \in Addr : hdr[b] = "used" => (b >= j <=> b >= j + 1)
      <4>1. \A b \in Addr : hdr[b] = "used" => b # j
        BY <2>1
      <4> QED BY <1>1, <2>0, <4>1
    <3>2. UsedFrom(j) = UsedFrom(j + 1)
      BY <1>0, <3>1
    <3> QED BY <1>4, <2>0, <2>1, <3>2
  <2>2. CASE hdr[j] = "used"
    <3> DEFINE U == UsedFrom(j)
    <3>1. U \in SUBSET Nat /\ j \in U /\ \A b \in U : j <= b
      <4>1. \A b \in U : b \in Addr /\ b >= j
        BY <1>0
      <4>2. j \in U
        BY <1>0, <1>1, <2>0, <2>2
      <4> HIDE DEF U
      <4> QED BY <1>1, <2>0, <4>1, <4>2
    <3>2. Found[j] = Least(U)
      BY <1>4
    <3> HIDE DEF U
    <3>3. Least(U) \in U /\ \A b \in U : Least(U) <= b
      BY <3>1, LeastIs
    <3>4. Least(U) = j
      <4>1. Least(U) \in Nat /\ j \in Nat /\ Least(U) <= j /\ j <= Least(U)
        BY <3>1, <3>3
      <4> QED BY <4>1
    <3> QED BY <2>2, <3>2, <3>4
  <2>3. CASE hdr[j] = "free"
    <3>1. Begins(hdr, j) /\ sz[j] >= 1 /\ j + sz[j] <= Last + 1
      BY <2>0, <2>3 DEF Begins, Geometry
    <3>2. j + sz[j] \in 1..(Last + 1)
      BY <1>1, <2>0, <3>1, AddrIs
    <3>3. \A b \in Addr : hdr[b] = "used" /\ b >= j => b >= j + sz[j]
      <4> SUFFICES ASSUME NEW b \in Addr, hdr[b] = "used", b >= j
                   PROVE  b >= j + sz[j]
        OBVIOUS
      <4>1. Begins(hdr, b) /\ j < b
        BY <1>1, <2>0, <2>3 DEF Begins
      <4> QED BY <1>1, <2>0, <3>1, <4>1 DEF Geometry
    <3>4. UsedFrom(j) = UsedFrom(j + sz[j])
      <4>1. \A b \in Addr : b >= j + sz[j] => b >= j
        BY <1>1, <2>0, <3>1
      <4> QED BY <1>0, <3>3, <4>1
    <3> QED BY <1>4, <2>3, <3>2, <3>4
  <2> QED BY <2>0, <2>1, <2>2, <2>3 DEF Headers
<1> DEFINE w == Found
<1>6. w = [j \in 1..(Last + 1) |-> w[j]] /\ (w[Last + 1] = 0)
  BY <1>2, AddrIs DEF Found
<1>7. \A j \in 1..(Last + 1) : Walk(w)[j] = w[j]
  <2> HIDE DEF w
  <2>1. \A j \in 1..(Last + 1) : Walk(w)[j] =
            IF j = Last + 1 THEN 0
            ELSE IF hdr[j] \in {"none", "inside"} THEN w[j + 1]
            ELSE IF hdr[j] = "used" THEN j
            ELSE w[j + sz[j]]
    BY DEF Walk
  <2> QED BY <1>5, <1>6, <2>1 DEF w
<1>8. Walk(w) = [j \in 1..(Last + 1) |-> Walk(w)[j]]
  BY DEF Walk
<1> HIDE DEF w
<1> QED BY <1>6, <1>7, <1>8 DEF w

\* No other function satisfies the equation.
LEMMA WalkIsFound ==
  ASSUME hdr \in Headers, sz \in Sizes, Geometry(hdr, sz), NEW w, w = Walk(w)
  PROVE  w = Found
<1> DEFINE D == {j \in 1..(Last + 1) : w[j] # Found[j]}
           v == Found
<1>1. v = Walk(v)
  BY FoundWalks
<1>2. \A a \in Addr : a \in Nat /\ 1 <= a /\ a <= Last /\ sz[a] \in Int
  BY AddrIs DEF Sizes
<1>3. /\ \A j \in 1..(Last + 1) : w[j] =
           IF j = Last + 1 THEN 0
           ELSE IF hdr[j] \in {"none", "inside"} THEN w[j + 1]
           ELSE IF hdr[j] = "used" THEN j
           ELSE w[j + sz[j]]
      /\ w = [j \in 1..(Last + 1) |-> w[j]]
  BY DEF Walk
<1>4. /\ \A j \in 1..(Last + 1) : v[j] =
           IF j = Last + 1 THEN 0
           ELSE IF hdr[j] \in {"none", "inside"} THEN v[j + 1]
           ELSE IF hdr[j] = "used" THEN j
           ELSE v[j + sz[j]]
      /\ v = [j \in 1..(Last + 1) |-> v[j]]
  <2> HIDE DEF v
  <2> QED BY <1>1 DEF Walk
<1>5. \A j : j \in D <=> j \in 1..(Last + 1) /\ w[j] # v[j]
  OBVIOUS
<1> HIDE DEF D, v
<1>6. D \in SUBSET Addr
  <2>1. Last + 1 \notin D
    BY <1>3, <1>4, <1>5
  <2> QED BY <1>5, <2>1, AddrIs
<1>7. D = {}
  <2> SUFFICES ASSUME D # {} PROVE FALSE
    OBVIOUS
  <2>1. PICK j \in D : \A b \in D : b <= j
    BY <1>6, GreatestIs
  <2>2. j \in Addr /\ j \in 1..(Last + 1) /\ j # Last + 1 /\ w[j] # v[j]
    BY <1>5, <1>6, AddrIs
  <2>3. \A i \in 1..(Last + 1) : i > j => w[i] = v[i]
    BY <1>2, <1>5, <1>6, <2>1, <2>2
  <2>4. CASE hdr[j] \in {"none", "inside"}
    <3>1. j + 1 \in 1..(Last + 1) /\ j + 1 > j
      BY <1>2, <2>2, AddrIs
    <3>2. w[j + 1] = v[j + 1]
      BY <2>3, <3>1
    <3> QED BY <1>3, <1>4, <2>2, <2>4, <3>2
  <2>5. CASE hdr[j] = "used"
    BY <1>3, <1>4, <2>2, <2>5
  <2>6. CASE hdr[j] = "free"
    <3>1. Begins(hdr, j) /\ sz[j] >= 1 /\ j + sz[j] <= Last + 1
      BY <2>2, <2>6 DEF Begins, Geometry
    <3>2. j + sz[j] \in 1..(Last + 1) /\ j + sz[j] > j
      BY <1>2, <2>2, <3>1, AddrIs
    <3>3. w[j + sz[j]] = v[j + sz[j]]
      BY <2>3, <3>2
    <3> QED BY <1>3, <1>4, <2>2, <2>6, <3>3
  <2> QED BY <2>2, <2>4, <2>5, <2>6 DEF Headers
<1>8. \A j \in 1..(Last + 1) : w[j] = v[j]
  BY <1>5, <1>7
<1>9. w = v
  BY <1>3, <1>4, <1>8
<1> QED BY <1>9 DEF v

LEMMA WalkIs ==
  ASSUME hdr \in Headers, sz \in Sizes, Geometry(hdr, sz)
  PROVE  WalkFindsUsed
<1> DEFINE walks == CHOOSE w : w = Walk(w)
<1>1. walks = Walk(walks)
  BY FoundWalks
<1>2. walks = Found
  <2> HIDE DEF walks
  <2> QED BY <1>1, WalkIsFound
<1>3. ASSUME NEW h \in Addr
      PROVE  NextUsedBlock(h) = walks[h]
  BY DEF NextUsedBlock, Walk
<1>4. \A h \in Addr : Found[h] = Least({b \in Addr : hdr[b] = "used" /\ b >= h})
  BY AddrIs DEF Found, UsedFrom
<1> QED BY <1>2, <1>3, <1>4 DEF WalkFindsUsed

------------------------------------------------------------------------------
LEMMA TypesAre ==
  ASSUME HeapInv
  PROVE  HeapTypeOK
<1>1. Sound(hdr, sz, fl, large) /\ Places
  BY DEF HeapInv
<1>2. large \in 0..Last
  <2>1. Cells(hdr, sz) \in SUBSET Addr
    BY DEF Cells
  <2> QED BY <1>1, <2>1, AddrFinite DEF Sound
<1> QED BY <1>1, <1>2 DEF HeapTypeOK, Sound, Places, Headers, Sizes, ListsType

LEMMA DisjointIs ==
  ASSUME hdr \in Headers, sz \in Sizes, Geometry(hdr, sz)
  PROVE  BlocksAreDisjoint
<1>1. \A a \in Addr : a \in Int /\ 1 <= a /\ a <= Last /\ sz[a] \in Int
  BY AddrIs DEF Sizes
<1>2. \A b : b \in Blocks <=> b \in Addr /\ Begins(hdr, b)
  BY DEF Blocks, Begins
<1>3. \A b \in Blocks : /\ b \in Addr /\ Begins(hdr, b) /\ sz[b] > 0 /\ b + sz[b] <= Last + 1
                        /\ \A a : a \in Extent(b) <=> a \in Int /\ b <= a /\ a < b + sz[b]
  <2> SUFFICES ASSUME NEW b \in Blocks
               PROVE  /\ b \in Addr /\ Begins(hdr, b) /\ sz[b] > 0 /\ b + sz[b] <= Last + 1
                      /\ \A a : a \in Extent(b) <=> a \in Int /\ b <= a /\ a < b + sz[b]
    OBVIOUS
  <2>1. b \in Addr /\ Begins(hdr, b) /\ sz[b] >= 1 /\ b + sz[b] <= Last + 1
    BY <1>2 DEF Geometry
  <2>2. b \in Int /\ sz[b] \in Int
    BY <1>1, <2>1
  <2> QED BY <2>1, <2>2 DEF Extent
<1>4. \A b \in Blocks : Extent(b) \subseteq Addr
  BY <1>1, <1>3, AddrIs
<1>5. ASSUME NEW b \in Blocks, NEW c \in Blocks, b # c
      PROVE  Extent(b) \intersect Extent(c) = {}
  <2>1. b + sz[b] <= c \/ c + sz[c] <= b
    BY <1>1, <1>3, <1>5 DEF Geometry
  <2>2. b \in Int /\ c \in Int /\ sz[b] \in Int /\ sz[c] \in Int
    BY <1>1, <1>3
  <2> QED BY <1>3, <2>1, <2>2
<1>6. ASSUME NEW b \in Blocks, NEW a \in Extent(b) \ {b}
      PROVE  hdr[a] = IF hdr[b] = "used" THEN "inside" ELSE "none"
  <2>1. b \in Addr /\ Begins(hdr, b) /\ a \in Addr /\ b < a /\ a < b + sz[b]
    BY <1>1, <1>3, <1>4
  <2> QED BY <2>1 DEF Geometry
<1>7. ASSUME NEW a \in Addr, hdr[a] = "inside"
      PROVE  a \in InHeap
  <2>1. PICK b \in Addr : Begins(hdr, b) /\ b < a /\ a < b + sz[b]
    BY <1>7 DEF Geometry
  <2>2. a \in b..(b + sz[b] - 1)
    BY <1>1, <2>1
  <2> QED BY <2>1, <2>2 DEF InHeap, Begins
<1>8. \A b \in Blocks : sz[b] > 0
  BY <1>3
<1> QED BY <1>4, <1>5, <1>6, <1>7, <1>8 DEF BlocksAreDisjoint

LEMMA ListsHold ==
  ASSUME Linked(fl, Free(hdr), ListOf(sz))
  PROVE  ListsHoldFree
<1>1. FreeBlocks = Free(hdr) /\ \A b \in FreeBlocks : b \in Addr
  BY DEF FreeBlocks, Free
<1>2. \A b \in FreeBlocks : ListOf(sz)[b] = FlFromBlocks(sz[b])
  BY <1>1 DEF ListOf
<1> DEFINE L == ListOf(sz)
<1>3. Linked(fl, FreeBlocks, L) /\ \A b \in FreeBlocks : L[b] = FlFromBlocks(sz[b])
  BY <1>1, <1>2
<1> HIDE DEF L
<1>4. {fl.head[i] : i \in 0..Fls} \ {0} \subseteq FreeBlocks
  BY <1>3 DEF Linked
<1>5. \A i \in 0..Fls : fl.head[i] # 0 =>
        fl.prev[fl.head[i]] = 0 /\ FlFromBlocks(sz[fl.head[i]]) = i
  <2> SUFFICES ASSUME NEW i \in 0..Fls, fl.head[i] # 0
               PROVE  fl.prev[fl.head[i]] = 0 /\ FlFromBlocks(sz[fl.head[i]]) = i
    OBVIOUS
  <2>1. fl.head[i] \in FreeBlocks /\ fl.prev[fl.head[i]] = 0 /\ L[fl.head[i]] = i
    BY <1>3 DEF Linked
  <2> QED BY <1>3, <2>1
<1>6. ASSUME NEW b \in FreeBlocks
      PROVE  /\ fl.prev[b] = 0 => fl.head[FlFromBlocks(sz[b])] = b
             /\ fl.prev[b] # 0 => fl.prev[b] \in FreeBlocks /\ fl.next[fl.prev[b]] = b
             /\ fl.next[b] # 0 => /\ fl.next[b] \in FreeBlocks /\ fl.prev[fl.next[b]] = b
                                  /\ FlFromBlocks(sz[fl.next[b]]) = FlFromBlocks(sz[b])
  <2>1. /\ fl.prev[b] = 0 => fl.head[L[b]] = b
        /\ fl.prev[b] # 0 => fl.prev[b] \in FreeBlocks /\ fl.next[fl.prev[b]] = b
        /\ fl.next[b] # 0 =>
             fl.next[b] \in FreeBlocks /\ fl.prev[fl.next[b]] = b /\ L[fl.next[b]] = L[b]
    BY <1>3 DEF Linked
  <2> QED BY <1>3, <2>1
<1> QED BY <1>4, <1>5, <1>6 DEF ListsHoldFree

LEMMA TilesHeap ==
  ASSUME HeapInv
  PROVE  BlocksTileHeap
<1>1. /\ hdr \in Headers /\ sz \in Sizes /\ Geometry(hdr, sz) /\ Coalesced(hdr, sz)
      /\ Linked(fl, Free(hdr), ListOf(sz)) /\ large = Cardinality(Cells(hdr, sz))
  BY DEF HeapInv, Sound
<1>2. FreeBlocks = Free(hdr) /\ \A b \in Free(hdr) : b \in Addr /\ Begins(hdr, b)
  BY DEF FreeBlocks, Free, Begins
<1>3. FreeIsCoalesced
  BY <1>1, <1>2 DEF FreeIsCoalesced, Coalesced
<1>4. LargeIsExact
  <2>1. \A b \in Free(hdr) : \A a : a \in Extent(b) <=> a \in Addr /\ b <= a /\ a < b + sz[b]
    <3> SUFFICES ASSUME NEW b \in Free(hdr), NEW a
                 PROVE  a \in Extent(b) <=> a \in Addr /\ b <= a /\ a < b + sz[b]
      OBVIOUS
    <3>1. b \in Int /\ 1 <= b /\ sz[b] \in Int /\ b + sz[b] <= Last + 1
      BY <1>1, <1>2, AddrIs DEF Sizes, Geometry
    <3> QED BY <3>1, AddrIs DEF Extent
  <2>2. UNION {Extent(b) : b \in FreeBlocks} = Cells(hdr, sz)
    BY <1>2, <2>1 DEF Cells
  <2> QED BY <1>1, <2>2 DEF LargeIsExact
<1> QED BY <1>1, <1>3, <1>4, TypesAre, DisjointIs, ListsHold, WalkIs DEF BlocksTileHeap

THEOREM HeapInvariance ==
  ASSUME HeadersFail = FALSE
  PROVE  HeapSpec => []HeapInv
<1>1. HeapInit => HeapInv
  BY HeapInitInv
<1>2. HeapInv /\ [HeapNext]_heapVars => HeapInv'
  BY HeapStepInv
<1> QED BY <1>1, <1>2, PTL DEF HeapSpec

\* Whenever headers and forwarding counts can be had, the blocks of the heap tile it,
\* no two free ones lie side by side, each free block is on the list of its size, the
\* count of free bytes is theirs, and the walk over the heap misses no used block: the
\* splitting and coalescing of libgc/allchblk.c, for a heap and lists of any size.
THEOREM BlocksTile ==
  ASSUME HeadersFail = FALSE
  PROVE  HeapSpec => []BlocksTileHeap
<1>1. HeapInv => BlocksTileHeap
  BY TilesHeap
<1> QED BY <1>1, HeapInvariance, PTL

\* A call of the allocator that returns a block took it from within one free block,
\* and, for objects with pointers, not where false pointers point, unless both it and
\* what is left are beyond BL_LIMIT (allchblk.c:535-575): whatever the search skipped,
\* split or dropped on its way.
THEOREM AllocSound ==
  ASSUME HeadersFail = FALSE
  PROVE  HeapSpec => AllocIsSound
<1>1. HeapInv /\ [HeapNext]_heapVars => (pc = "search" /\ pc' = "program" => Allocates)
  BY HeapStepInv
<1> QED BY <1>1, HeapInvariance, PTL DEF HeapSpec, AllocIsSound, Allocates

------------------------------------------------------------------------------
Live == IF phase = "dangling" THEN marked ELSE used

LiveClosed ==
  /\ MarkRoots \union Registered \subseteq Live
  /\ Targets(Live) \subseteq Live
  /\ Live \subseteq used

MarksClosed ==
  phase \in {"links", "mark"} =>
    MarkRoots \subseteq marked /\ Targets(marked) \subseteq marked /\ marked \subseteq used

PassedBelow ==
  /\ phase # "mark" => passed = {}
  /\ \A o \in passed : Targets({o}) \subseteq marked \union {o}

LinksKept ==
  /\ \A l \in Word : links[l] # NULL =>
       /\ l[1] \in Object => l[1] \in used
       /\ links[l] \in Live
       /\ phase = "mark" => links[l] \in marked
  /\ \A l \in Hidden : mem[l] = links[l]

Alone(c) ==
  /\ c.obj \notin Targets(Static) \union Arguments(running) \union Registered
  /\ \A o \in Object : finalizers[o].data # c.obj
  /\ \A d \in Pending : d.data # c.obj /\ (d.obj = c.obj => d = c)
  /\ c.obj \notin Targets(Live \ {c.obj})
  /\ \A l \in Word : links[l] # c.obj

PendingAlone ==
  /\ queue \intersect taken = {}
  /\ \A c \in Pending : Alone(c)

IInv == TypeOK /\ LiveClosed /\ MarksClosed /\ PassedBelow /\ LinksKept /\ PendingAlone

------------------------------------------------------------------------------
\* Reachability.
LEMMA WordPlace == \A w \in Word : w[1] \in Object \union Static \union Weak
  BY DEF Word

LEMMA TargetsAreObjects ==
  ASSUME TypeOK, NEW P
  PROVE  Targets(P) \subseteq Object
  BY DEF TypeOK, Targets, Visible

LEMMA TargetsMonotone ==
  ASSUME NEW P, NEW Q, P \subseteq Q
  PROVE  Targets(P) \subseteq Targets(Q)
  BY DEF Targets

LEMMA TargetsUnion ==
  ASSUME NEW P, NEW Q
  PROVE  Targets(P \union Q) = Targets(P) \union Targets(Q)
  BY DEF Targets

LEMMA ReachContains ==
  ASSUME NEW S \in SUBSET Object
  PROVE  S \subseteq ReachFrom(S) /\ ReachFrom(S) \subseteq Object
  BY DEF ReachFrom

LEMMA ReachWithin ==
  ASSUME NEW S, NEW T \in SUBSET Object, S \subseteq T, Targets(T) \subseteq T
  PROVE  ReachFrom(S) \subseteq T
  BY DEF ReachFrom

LEMMA ReachClosed ==
  ASSUME TypeOK, NEW S
  PROVE  Targets(ReachFrom(S)) \subseteq ReachFrom(S)
<1> SUFFICES ASSUME NEW x \in Targets(ReachFrom(S)),
                    NEW T \in SUBSET Object, S \subseteq T, Targets(T) \subseteq T
             PROVE  x \in T
  BY TargetsAreObjects DEF ReachFrom
<1>1. ReachFrom(S) \subseteq T
  BY ReachWithin
<1> QED BY <1>1, TargetsMonotone

\* What the program can get at is live, marked if there are marks, and nothing
\* whose finalizer is to run.
LEMMA AccessibleIsSafe ==
  ASSUME IInv
  PROVE  /\ Accessible \subseteq Live
         /\ phase # "idle" => Accessible \subseteq marked
         /\ \A c \in Pending : c.obj \notin Accessible
<1> DEFINE known == Targets(Static) \union Arguments(running)
<1>1. known \subseteq MarkRoots
  BY DEF MarkRoots, Arguments
<1>2. Live \subseteq Object /\ marked \subseteq Object
  BY DEF IInv, TypeOK, Live
<1>3. Accessible \subseteq Live
  BY <1>1, <1>2, ReachWithin DEF Accessible, IInv, LiveClosed
<1>4. phase # "idle" => Accessible \subseteq marked
  <2>1. phase \in {"links", "mark"} => Accessible \subseteq marked
    BY <1>1, <1>2, ReachWithin DEF Accessible, IInv, MarksClosed
  <2> QED BY <1>3, <2>1 DEF Live, IInv, TypeOK
<1>5. ASSUME NEW c \in Pending PROVE c.obj \notin Accessible
  <2> DEFINE rest == Live \ {c.obj}
  <2>1. c.obj \notin known /\ c.obj \notin Targets(rest)
    BY DEF IInv, PendingAlone, Alone
  <2>2. Targets(rest) \subseteq rest
    BY <2>1, TargetsMonotone DEF IInv, LiveClosed
  <2>3. known \subseteq rest
    BY <1>1, <2>1 DEF IInv, LiveClosed
  <2> QED BY <1>2, <2>2, <2>3, ReachWithin DEF Accessible
<1> QED BY <1>3, <1>4, <1>5

\* What the visible words of places P hold in memory m.
TargetsIn(m, P) == {m[w] : w \in {v \in Visible : v[1] \in P}} \ {NULL}

LEMMA TargetsAre == \A P : Targets(P) = TargetsIn(mem, P)
  BY DEF Targets, TargetsIn

\* A pointer is stored in a word the program can use.
LEMMA StoreStep ==
  ASSUME IInv, NEW w \in Visible, w[1] \in Static \union Accessible,
         NEW p \in Object \union {NULL},
         p # NULL => /\ p \in Live
                     /\ phase # "idle" => p \in marked
                     /\ \A c \in Pending : c.obj # p,
         mem' = [mem EXCEPT ![w] = p],
         UNCHANGED <<used, links, finalizers, queue, taken, running, marked, passed,
                     phase, overflows>>
  PROVE  IInv'
<1> DEFINE new == {p} \ {NULL}
<1>1. /\ \A P : TargetsIn(mem', P) \subseteq TargetsIn(mem, P) \union new
      /\ \A P : w[1] \notin P => TargetsIn(mem', P) \subseteq TargetsIn(mem, P)
  <2> SUFFICES ASSUME NEW P
               PROVE  /\ TargetsIn(mem', P) \subseteq TargetsIn(mem, P) \union new
                      /\ w[1] \notin P => TargetsIn(mem', P) \subseteq TargetsIn(mem, P)
    OBVIOUS
  <2>1. \A v \in Visible : mem'[v] \in {mem[v], NULL} \/ (v[1] \in {w[1]} /\ mem'[v] = p)
    BY DEF IInv, TypeOK, Visible
  <2>2. /\ TargetsIn(mem', P) \subseteq TargetsIn(mem, P) \union new
        /\ w[1] \notin P => TargetsIn(mem', P) \subseteq TargetsIn(mem, P)
    <3>1. ASSUME NEW x \in TargetsIn(mem', P)
          PROVE  /\ x \in TargetsIn(mem, P) \union new
                 /\ w[1] \notin P => x \in TargetsIn(mem, P)
      <4>1. PICK v \in Visible : v[1] \in P /\ x = mem'[v] /\ x # NULL
        BY DEF TargetsIn
      <4>2. mem[v] # NULL => mem[v] \in TargetsIn(mem, P)
        BY <4>1 DEF TargetsIn
      <4>3. x = mem[v] \/ (v[1] = w[1] /\ x = p)
        BY <2>1, <4>1
      <4> QED BY <4>1, <4>2, <4>3
    <3> QED BY <3>1
  <2> QED BY <2>2
<1>2. /\ \A P : Targets(P) = TargetsIn(mem, P)
      /\ Targets(Live)' = TargetsIn(mem', Live)
      /\ Targets(marked)' = TargetsIn(mem', marked)
      /\ Targets(Static)' = TargetsIn(mem', Static)
  <2>1. Targets(Live)' = TargetsIn(mem', Live)
    BY DEF Targets, TargetsIn, Live
  <2> QED BY <2>1, TargetsAre DEF Targets, TargetsIn
<1>3. Live' = Live /\ Registered' = Registered /\ Pending' = Pending
  BY DEF Live, Registered, Pending
<1>4. TypeOK'
  BY DEF IInv, TypeOK, Visible
<1>5. MarkRoots' \subseteq MarkRoots \union new
  <2>1. Targets(Static)' \subseteq Targets(Static) \union new
    BY <1>1, <1>2
  <2>2. Arguments(running \union Pending)' = Arguments(running \union Pending)
    BY DEF Arguments, Pending
  <2> HIDE DEF new
  <2> QED BY <2>1, <2>2 DEF MarkRoots
<1>6. LiveClosed'
  BY <1>1, <1>2, <1>3, <1>5 DEF IInv, LiveClosed
<1>7. MarksClosed'
  BY <1>1, <1>2, <1>5 DEF IInv, MarksClosed
<1>8. PassedBelow'
  <2> SUFFICES ASSUME NEW o \in passed PROVE Targets({o})' \subseteq marked \union {o}
    BY DEF PassedBelow, IInv
  <2>1. Targets({o})' = TargetsIn(mem', {o})
    BY DEF Targets, TargetsIn
  <2>2. phase = "mark" /\ Targets({o}) \subseteq marked \union {o}
    BY DEF IInv, PassedBelow
  <2> QED BY <1>1, <1>2, <2>1, <2>2
<1>9. LinksKept'
  <2>1. w \notin Hidden
    BY DEF Visible
  <2>2. \A l \in Hidden : mem'[l] = mem[l]
    BY <2>1 DEF IInv, TypeOK, Hidden
  <2> QED BY <1>3, <2>2 DEF IInv, LinksKept
<1>10. ASSUME NEW c \in Pending PROVE Alone(c)'
  <2>1. Alone(c) /\ c.obj # p
    <3>1. c.obj # NULL
      BY FinalizeAssumption DEF IInv, TypeOK, Pending, Call
    <3> QED BY <3>1 DEF IInv, PendingAlone
  <2>2. c.obj \notin Targets(Live \ {c.obj})'
    <3>1. Targets(Live \ {c.obj})' = TargetsIn(mem', Live \ {c.obj})
      BY <1>3 DEF Targets, TargetsIn
    <3> QED BY <1>1, <1>2, <2>1, <3>1 DEF Alone
  <2>3. c.obj \notin Targets(Static)'
    BY <1>1, <1>2, <2>1 DEF Alone
  <2> QED BY <1>3, <2>1, <2>2, <2>3 DEF Alone, Arguments, Pending
<1> QED BY <1>3, <1>4, <1>6, <1>7, <1>8, <1>9, <1>10 DEF IInv, PendingAlone

LEMMA AssignStep ==
  ASSUME IInv, NEW w \in Visible, NEW p \in Object \union {NULL}, Assign(w, p)
  PROVE  IInv'
<1>1. w[1] \in Static \union Accessible
  BY DEF Assign, AtHand, Visible, Hidden
<1>2. /\ mem' = [mem EXCEPT ![w] = p]
      /\ UNCHANGED <<used, links, finalizers, queue, taken, running, marked, passed,
                     phase, overflows>>
      /\ p \in Accessible \union {NULL}
  BY DEF Assign
<1> QED BY <1>1, <1>2, AccessibleIsSafe, StoreStep

LEMMA RevealStep ==
  ASSUME IInv, NEW l \in Hidden, NEW w \in Visible, Reveal(l, w)
  PROVE  IInv'
<1> DEFINE p == mem[l]
<1>1. w[1] \in Static \union Accessible
  BY DEF Reveal, AtHand, Visible, Hidden
<1>2. l \in Word /\ p = links[l] /\ p # NULL
  BY DEF IInv, LinksKept, Reveal, Hidden
<1>3. p \in Object /\ p \in Live /\ \A c \in Pending : c.obj # p
  BY <1>2 DEF IInv, TypeOK, LinksKept, PendingAlone, Alone
<1>4. /\ mem' = [mem EXCEPT ![w] = p] /\ phase = "idle"
      /\ UNCHANGED <<used, links, finalizers, queue, taken, running, marked, passed,
                     phase, overflows>>
  BY DEF Reveal
<1> HIDE DEF p
<1> QED BY <1>1, <1>2, <1>3, <1>4, StoreStep

\* Steps that change no visible word.
LEMMA SameTargets ==
  ASSUME \A v \in Visible : mem'[v] = mem[v], NEW P
  PROVE  TargetsIn(mem', P) = TargetsIn(mem, P)
  BY DEF TargetsIn

LEMMA LinkStep ==
  ASSUME IInv, NEW l \in Word, NEW o \in Object \union {NULL},
         phase = "idle",
         o # NULL => o \in Accessible /\ AtHand(l),
         mem' = IF l \in Hidden THEN [mem EXCEPT ![l] = o] ELSE mem,
         links' = [links EXCEPT ![l] = o],
         UNCHANGED <<used, finalizers, queue, taken, running, marked, passed,
                     phase, overflows>>
  PROVE  IInv'
<1>1. /\ \A v \in Visible : mem'[v] = mem[v]
      /\ \A v \in Hidden : mem'[v] = IF v = l THEN o ELSE mem[v]
      /\ \A v \in Word : links'[v] = IF v = l THEN o ELSE links[v]
  BY DEF IInv, TypeOK, Visible, Hidden
<1>2. /\ \A P : Targets(P) = TargetsIn(mem, P)
      /\ \A P : TargetsIn(mem', P) = TargetsIn(mem, P)
      /\ Targets(Live)' = TargetsIn(mem', Live)
      /\ Targets(Static)' = TargetsIn(mem', Static)
  BY <1>1, SameTargets DEF Targets, TargetsIn, Live
<1>3. Live' = Live /\ Registered' = Registered /\ Pending' = Pending /\ Live = used
  BY DEF Live, Registered, Pending
<1>4. TypeOK'
  BY DEF IInv, TypeOK, Hidden
<1>5. MarkRoots' = MarkRoots
  BY <1>2 DEF MarkRoots, Pending, Arguments
<1>6. LiveClosed' /\ MarksClosed' /\ PassedBelow'
  BY <1>2, <1>3, <1>5 DEF IInv, LiveClosed, MarksClosed, PassedBelow
<1>7. o # NULL => o \in Live /\ (l[1] \in Object => l[1] \in used)
  <2>1. Accessible \subseteq Live
    BY AccessibleIsSafe
  <2> QED BY <1>3, <2>1, FinalizeAssumption DEF AtHand
<1>8. LinksKept'
  BY <1>1, <1>3, <1>7 DEF IInv, LinksKept, Hidden
<1>9. ASSUME NEW c \in Pending PROVE Alone(c)'
  <2>1. Alone(c) /\ c.obj # o
    <3>1. c.obj # NULL
      BY FinalizeAssumption DEF IInv, TypeOK, Pending, Call
    <3> QED BY <3>1, AccessibleIsSafe DEF IInv, PendingAlone
  <2>2. c.obj \notin Targets(Live \ {c.obj})'
    <3>1. Targets(Live \ {c.obj})' = TargetsIn(mem', Live \ {c.obj})
      BY <1>3 DEF Targets, TargetsIn
    <3> QED BY <1>2, <2>1, <3>1 DEF Alone
  <2> QED BY <1>1, <1>2, <1>3, <2>1, <2>2 DEF Alone, Arguments, Pending
<1> QED BY <1>3, <1>4, <1>6, <1>8, <1>9 DEF IInv, PendingAlone

\* Steps that leave the heap, the links and the collection alone.
LEMMA TableStep ==
  ASSUME IInv, TypeOK', PendingAlone',
         UNCHANGED <<mem, used, links, marked, passed, phase, overflows>>,
         MarkRoots' \union Registered' \subseteq Live,
         phase # "idle" => MarkRoots' \subseteq marked
  PROVE  IInv'
<1>1. Live' = Live /\ Targets(Live)' = Targets(Live) /\ Targets(marked)' = Targets(marked)
  BY DEF Live, Targets
<1>2. LiveClosed' /\ MarksClosed'
  BY <1>1 DEF IInv, LiveClosed, MarksClosed
<1>3. PassedBelow'
  <2> SUFFICES ASSUME NEW o \in passed PROVE Targets({o})' \subseteq marked \union {o}
    BY DEF PassedBelow, IInv
  <2>1. Targets({o})' = Targets({o})
    BY DEF Targets
  <2> QED BY <2>1 DEF IInv, PassedBelow
<1>4. LinksKept'
  BY <1>1 DEF IInv, LinksKept
<1> QED BY <1>2, <1>3, <1>4 DEF IInv

LEMMA RegisterFinalizerStep ==
  ASSUME IInv, NEW o \in Object, NEW f \in Finalizer \union {None}, RegisterFinalizer(o, f)
  PROVE  IInv'
<1>1. /\ phase = "idle" /\ o \in Accessible /\ f.data \in Accessible \union {NULL}
      /\ finalizers' = [finalizers EXCEPT ![o] = f]
      /\ UNCHANGED <<mem, used, links, queue, taken, running, marked, passed,
                     phase, overflows>>
  BY DEF RegisterFinalizer
<1>2. \A q \in Object : finalizers'[q] = IF q = o THEN f ELSE finalizers[q]
  BY <1>1 DEF IInv, TypeOK
<1>3. TypeOK'
  BY <1>1 DEF IInv, TypeOK
<1>4. Registered' \subseteq Registered \union {o}
  BY <1>2 DEF Registered
<1>5. MarkRoots' \subseteq MarkRoots \union ({f.data} \ {NULL})
  <2>1. /\ Targets(Static)' = Targets(Static)
        /\ Arguments(running \union Pending)' = Arguments(running \union Pending)
    BY <1>1 DEF Targets, Arguments, Pending
  <2>2. {finalizers'[q].data : q \in Object} \subseteq {finalizers[q].data : q \in Object} \union {f.data}
    BY <1>2
  <2> QED BY <2>1, <2>2 DEF MarkRoots
<1>6. Accessible \subseteq Live
  BY AccessibleIsSafe
<1>7. PendingAlone'
  <2> SUFFICES ASSUME NEW c \in Pending PROVE Alone(c)'
    BY <1>1 DEF PendingAlone, IInv, Pending
  <2>1. Alone(c) /\ c.obj \notin Accessible
    BY AccessibleIsSafe DEF IInv, PendingAlone
  <2>2. c.obj # NULL
    BY FinalizeAssumption DEF IInv, TypeOK, Pending, Call
  <2>3. c.obj # o /\ c.obj # f.data
    BY <1>1, <2>1, <2>2
  <2>4. /\ Targets(Static)' = Targets(Static)
        /\ Targets(Live \ {c.obj})' = Targets(Live \ {c.obj})
        /\ Arguments(running)' = Arguments(running)
        /\ Pending' = Pending
    BY <1>1 DEF Targets, Live, Arguments, Pending
  <2>5. \A q \in Object : finalizers'[q].data # c.obj
    BY <1>2, <2>1, <2>3 DEF Alone
  <2> QED BY <1>1, <1>4, <2>1, <2>3, <2>4, <2>5 DEF Alone
<1> QED BY <1>1, <1>3, <1>4, <1>5, <1>6, <1>7, TableStep DEF IInv, LiveClosed

\* Calls are taken, begun and ended.
LEMMA CallStep ==
  ASSUME IInv, TypeOK',
         UNCHANGED <<mem, used, links, finalizers, marked, passed, phase, overflows>>,
         queue' \intersect taken' = {}, Pending' \subseteq Pending,
         (running \union Pending)' \subseteq running \union Pending,
         running' \subseteq running \union (Pending \ Pending')
  PROVE  IInv'
<1>1. /\ Targets(Static)' = Targets(Static) /\ Registered' = Registered
      /\ Arguments(running \union Pending)' \subseteq Arguments(running \union Pending)
  BY DEF Targets, Arguments, Registered
<1>2. MarkRoots' \subseteq MarkRoots
  BY <1>1 DEF MarkRoots
<1>3. MarkRoots \subseteq Live /\ (phase # "idle" => MarkRoots \subseteq marked)
  BY DEF IInv, LiveClosed, MarksClosed, Live, TypeOK
<1>4. PendingAlone'
  <2> SUFFICES ASSUME NEW c \in Pending' PROVE Alone(c)'
    BY DEF PendingAlone, IInv
  <2>1. Alone(c) /\ c \in Pending
    BY DEF IInv, PendingAlone
  <2>2. c.obj \notin Arguments(running)'
    BY <2>1 DEF Alone, Arguments
  <2>3. Targets(Live \ {c.obj})' = Targets(Live \ {c.obj})
    BY DEF Targets, Live
  <2> QED BY <1>1, <2>1, <2>2, <2>3 DEF Alone
<1> QED BY <1>1, <1>2, <1>3, <1>4, TableStep DEF IInv, LiveClosed

LEMMA TakeStep ==
  ASSUME IInv, NEW c \in queue, Take(c)
  PROVE  IInv'
<1>1. TypeOK' /\ Pending' = Pending /\ queue' \intersect taken' = {} /\ running' = running
  BY DEF IInv, TypeOK, PendingAlone, Take, Pending
<1>2. UNCHANGED <<mem, used, links, finalizers, marked, passed, phase, overflows>>
  BY DEF Take
<1> QED BY <1>1, <1>2, CallStep

LEMMA BeginStep ==
  ASSUME IInv, NEW c \in taken, Begin(c)
  PROVE  IInv'
<1>1. /\ TypeOK' /\ Pending' = Pending \ {c} /\ queue' \intersect taken' = {}
      /\ running' = running \union {c} /\ c \in Pending
  BY DEF IInv, TypeOK, PendingAlone, Begin, Pending
<1>2. UNCHANGED <<mem, used, links, finalizers, marked, passed, phase, overflows>>
  BY DEF Begin
<1> QED BY <1>1, <1>2, CallStep

LEMMA ReturnStep ==
  ASSUME IInv, NEW c \in running, Return(c)
  PROVE  IInv'
<1>1. /\ TypeOK' /\ Pending' = Pending /\ queue' \intersect taken' = {}
      /\ running' = running \ {c}
  BY DEF IInv, TypeOK, PendingAlone, Return, Pending
<1>2. UNCHANGED <<mem, used, links, finalizers, marked, passed, phase, overflows>>
  BY DEF Return
<1> QED BY <1>1, <1>2, CallStep

------------------------------------------------------------------------------
\* The steps of a collection.
LEMMA MarkStep ==
  ASSUME IInv, Mark
  PROVE  IInv'
<1>1. /\ phase = "idle" /\ marked' = ReachFrom(MarkRoots) /\ phase' = "links"
      /\ UNCHANGED <<mem, used, links, finalizers, queue, taken, running, passed,
                     overflows>>
  BY DEF Mark
<1>2. Live = used /\ Live' = used
  BY <1>1 DEF Live
<1>3. /\ MarkRoots' = MarkRoots /\ Registered' = Registered /\ Pending' = Pending
      /\ Targets(Live)' = Targets(Live) /\ Targets(Static)' = Targets(Static)
      /\ Targets(marked)' = Targets(ReachFrom(MarkRoots))
  BY <1>1, <1>2 DEF MarkRoots, Targets, Arguments, Pending, Registered
<1>4. used \in SUBSET Object /\ MarkRoots \subseteq used /\ Targets(used) \subseteq used
  BY <1>2 DEF IInv, TypeOK, LiveClosed
<1>5. /\ MarkRoots \subseteq marked' /\ marked' \subseteq used
      /\ Targets(marked)' \subseteq marked'
  BY <1>1, <1>3, <1>4, ReachContains, ReachWithin, ReachClosed DEF IInv
<1>6. TypeOK'
  BY <1>1, <1>4, <1>5 DEF IInv, TypeOK
<1>7. LiveClosed' /\ MarksClosed'
  BY <1>1, <1>2, <1>3, <1>5 DEF IInv, LiveClosed, MarksClosed
<1>8. PassedBelow' /\ LinksKept'
  BY <1>1, <1>2 DEF IInv, PassedBelow, LinksKept
<1>9. ASSUME NEW c \in Pending PROVE Alone(c)'
  <2>1. Targets(Live \ {c.obj})' = Targets(Live \ {c.obj})
    BY <1>1, <1>2 DEF Targets
  <2> QED BY <1>1, <1>2, <1>3, <2>1 DEF IInv, PendingAlone, Alone, Arguments
<1> QED BY <1>1, <1>3, <1>6, <1>7, <1>8, <1>9 DEF IInv, PendingAlone

\* Steps in which visible words only become NULL.
LEMMA LessTargets ==
  ASSUME \A v \in Visible : mem'[v] \in {mem[v], NULL}, NEW P
  PROVE  TargetsIn(mem', P) \subseteq TargetsIn(mem, P)
<1> SUFFICES ASSUME NEW x \in TargetsIn(mem', P) PROVE x \in TargetsIn(mem, P)
  OBVIOUS
<1>1. PICK v \in Visible : v[1] \in P /\ x = mem'[v] /\ x # NULL
  BY DEF TargetsIn
<1> QED BY <1>1 DEF TargetsIn

LEMMA ClearLinksStep ==
  ASSUME IInv, ClearLinks
  PROVE  IInv'
<1> DEFINE gone == {l \in Word : links[l] \notin marked \union {NULL}}
<1>1. /\ phase = "links" /\ phase' = "mark"
      /\ mem' = [w \in Word |-> IF w \in gone THEN NULL ELSE mem[w]]
      /\ links' = [l \in Word |-> IF l \in gone THEN NULL ELSE links[l]]
      /\ UNCHANGED <<used, finalizers, queue, taken, running, marked, passed,
                     overflows>>
  BY DEF ClearLinks
<1>2. /\ \A v \in Word : mem'[v] \in {mem[v], NULL} /\ links'[v] \in {links[v], NULL}
      /\ \A v \in Word : links'[v] # NULL => links'[v] = links[v] /\ links[v] \in marked
      /\ \A v \in Word : mem[v] = links[v] => mem'[v] = links'[v]
  BY <1>1
<1>3. Live = used /\ Live' = used /\ MarkRoots \subseteq marked
  BY <1>1 DEF Live, IInv, MarksClosed
<1>4. /\ \A P : Targets(P) = TargetsIn(mem, P)
      /\ \A P : TargetsIn(mem', P) \subseteq TargetsIn(mem, P)
      /\ Targets(Live)' = TargetsIn(mem', Live)
      /\ Targets(marked)' = TargetsIn(mem', marked)
      /\ Targets(Static)' = TargetsIn(mem', Static)
  <2>1. \A v \in Visible : mem'[v] \in {mem[v], NULL}
    BY <1>2 DEF Visible
  <2>2. /\ Targets(Live)' = TargetsIn(mem', Live)
        /\ Targets(marked)' = TargetsIn(mem', marked)
        /\ Targets(Static)' = TargetsIn(mem', Static)
    BY <1>1, <1>3 DEF Targets, TargetsIn
  <2> QED BY <2>1, <2>2, LessTargets, TargetsAre
<1>5. TypeOK'
  BY <1>1, FinalizeAssumption DEF IInv, TypeOK
<1>6. MarkRoots' \subseteq MarkRoots /\ Registered' = Registered /\ Pending' = Pending
  BY <1>1, <1>4 DEF MarkRoots, Arguments, Pending, Registered
<1>7. LiveClosed' /\ MarksClosed'
  BY <1>1, <1>3, <1>4, <1>6 DEF IInv, LiveClosed, MarksClosed
<1>8. PassedBelow'
  BY <1>1 DEF IInv, PassedBelow
<1>9. LinksKept'
  BY <1>1, <1>2, <1>3 DEF IInv, LinksKept, Hidden, MarksClosed
<1>10. ASSUME NEW c \in Pending PROVE Alone(c)'
  <2>1. Targets(Live \ {c.obj})' \subseteq Targets(Live \ {c.obj})
    <3>1. Targets(Live \ {c.obj})' = TargetsIn(mem', Live \ {c.obj})
      BY <1>3 DEF Targets, TargetsIn
    <3> QED BY <1>4, <3>1
  <2>2. c.obj # NULL
    BY FinalizeAssumption DEF IInv, TypeOK, Pending, Call
  <2>3. \A l \in Word : links'[l] # c.obj
    BY <1>2, <2>2 DEF IInv, PendingAlone, Alone
  <2>4. Arguments(running)' = Arguments(running) /\ Targets(Static)' \subseteq Targets(Static)
    BY <1>1, <1>4 DEF Arguments
  <2> QED BY <1>1, <1>6, <2>1, <2>3, <2>4 DEF IInv, PendingAlone, Alone
<1> QED BY <1>1, <1>5, <1>6, <1>7, <1>8, <1>9, <1>10 DEF IInv, PendingAlone

\* What B leads to is marked, and o, which points into B or to itself, is passed.
LEMMA MarkMore ==
  ASSUME IInv, NEW o \in Object, NEW B \in SUBSET Object, B \subseteq used,
         phase = "mark", TypeOK',
         Targets(B) \subseteq B, Targets({o}) \subseteq B \union {o},
         marked' = marked \union B, passed' = passed \union {o},
         UNCHANGED <<mem, used, links, finalizers, queue, taken, running, phase>>
  PROVE  IInv'
<1>1. Live = used /\ Live' = used
  BY DEF Live
<1>2. /\ MarkRoots' = MarkRoots /\ Registered' = Registered /\ Pending' = Pending
      /\ Targets(Live)' = Targets(Live) /\ Targets(Static)' = Targets(Static)
      /\ Targets(marked)' = Targets(marked \union B)
      /\ Arguments(running)' = Arguments(running)
  BY <1>1 DEF MarkRoots, Targets, Arguments, Pending, Registered
<1>3. LiveClosed' /\ MarksClosed'
  BY <1>1, <1>2, TargetsUnion DEF IInv, LiveClosed, MarksClosed
<1>4. PassedBelow'
  <2> SUFFICES ASSUME NEW q \in passed \union {o}
               PROVE  Targets({q})' \subseteq marked \union B \union {q}
    BY DEF PassedBelow
  <2>1. Targets({q})' = Targets({q})
    BY DEF Targets
  <2> QED BY <2>1 DEF IInv, PassedBelow
<1>5. LinksKept'
  BY <1>1 DEF IInv, LinksKept
<1>6. ASSUME NEW c \in Pending PROVE Alone(c)'
  <2>1. Targets(Live \ {c.obj})' = Targets(Live \ {c.obj})
    BY <1>1 DEF Targets
  <2> QED BY <1>2, <2>1 DEF IInv, PendingAlone, Alone
<1> QED BY <1>2, <1>3, <1>4, <1>5, <1>6 DEF IInv, PendingAlone

LEMMA MarkFromStep ==
  ASSUME IInv, NEW o \in Object, MarkFrom(o) \/ MarkFromOverflows(o)
  PROVE  IInv'
<1>1. /\ phase = "mark" /\ o \in Registered /\ passed' = passed \union {o}
      /\ UNCHANGED <<mem, used, links, finalizers, queue, taken, running, phase>>
  BY DEF MarkFrom, MarkFromOverflows
<1>2. used \in SUBSET Object /\ Targets(used) \subseteq used /\ o \in used
  BY <1>1 DEF IInv, TypeOK, LiveClosed, Live
<1>3. Targets({o}) \subseteq used
  BY <1>2, TargetsMonotone
<1>4. ASSUME NEW S \in SUBSET Object, S \subseteq used, marked' = marked \union ReachFrom(S),
             Targets({o}) \subseteq ReachFrom(S) \union {o}
      PROVE  IInv'
  <2> DEFINE B == ReachFrom(S)
  <2>1. B \in SUBSET Object /\ B \subseteq used /\ Targets(B) \subseteq B
    BY <1>2, <1>4, ReachWithin, ReachClosed DEF IInv
  <2>2. TypeOK'
    <3>1. marked' \subseteq Object /\ passed' \subseteq Object
      BY <1>1, <1>4, <2>1 DEF IInv, TypeOK
    <3>2. overflows' \in 0..MaxOverflows
      BY FinalizeAssumption DEF IInv, TypeOK, MarkFrom, MarkFromOverflows
    <3> QED BY <1>1, <3>1, <3>2 DEF IInv, TypeOK
  <2> HIDE DEF B
  <2>3. marked' = marked \union B /\ Targets({o}) \subseteq B \union {o}
    BY <1>4 DEF B
  <2> QED BY <1>1, <2>1, <2>2, <2>3, MarkMore
<1>5. CASE MarkFrom(o)
  <2>1. PICK S \in SUBSET Object :
          /\ S \subseteq Targets({o}) /\ Targets({o}) \subseteq S \union {o}
          /\ marked' = marked \union ReachFrom(S)
    <3>1. Targets({o}) \in SUBSET Object
      BY TargetsAreObjects DEF IInv
    <3> QED BY <1>5, <3>1 DEF MarkFrom, Below
  <2> QED BY <1>3, <1>4, <2>1, ReachContains
<1>6. CASE MarkFromOverflows(o)
  <2>1. o \in ReachFrom({o}) /\ Targets(ReachFrom({o})) \subseteq ReachFrom({o})
    BY ReachContains, ReachClosed DEF IInv
  <2>2. Targets({o}) \subseteq ReachFrom({o})
    BY <2>1, TargetsMonotone
  <2>3. marked' = marked \union ReachFrom({o})
    BY <1>6 DEF MarkFromOverflows
  <2> QED BY <1>2, <1>4, <2>2, <2>3
<1> QED BY <1>5, <1>6

\* What the words of P hold, the places of P point to.
LEMMA TargetsFrom ==
  ASSUME NEW P, NEW x \in Targets(P)
  PROVE  \E o \in P : x \in Targets({o})
<1>1. PICK v \in Visible : v[1] \in P /\ x = mem[v] /\ x # NULL
  BY DEF Targets
<1> QED BY <1>1 DEF Targets

LEMMA EnqueueStep ==
  ASSUME IInv, Enqueue
  PROVE  IInv'
<1> DEFINE new == Registered \ marked
<1>1. /\ phase = "mark" /\ phase' = "dangling" /\ passed' = {}
      /\ Registered \subseteq marked \union passed
      /\ queue' = queue \union Unmarked
      /\ finalizers' = [o \in Object |-> IF o \in marked THEN finalizers[o] ELSE None]
      /\ UNCHANGED <<mem, used, links, taken, running, overflows>>
  BY DEF Enqueue
<1>2. /\ marked' = marked \union new
      /\ \A c \in Unmarked : c.obj \in new /\ c.data = finalizers[c.obj].data
      /\ \A c, d \in Unmarked : c.obj = d.obj => c = d
  <2>1. \A c \in Unmarked : c.obj \in new /\ c.data = finalizers[c.obj].data
    BY DEF Unmarked
  <2>2. \A c, d \in Unmarked : c.obj = d.obj => c = d
    BY DEF Unmarked
  <2>3. {c.obj : c \in Unmarked} = new
    <3>1. ASSUME NEW o \in new PROVE \E c \in Unmarked : c.obj = o
      <4>1. [obj |-> o, data |-> finalizers[o].data] \in Unmarked
        BY DEF Unmarked
      <4> QED BY <4>1
    <3> QED BY <2>1, <3>1
  <2> QED BY <2>1, <2>2, <2>3 DEF Enqueue
<1>3. Live = used /\ Live' = marked \union new
  BY <1>1, <1>2 DEF Live
<1>4. /\ MarkRoots \subseteq marked /\ Targets(marked) \subseteq marked
      /\ marked \subseteq used /\ new \subseteq used
      /\ \A o \in new : Targets({o}) \subseteq marked \union {o}
  BY <1>1, <1>3 DEF IInv, MarksClosed, LiveClosed, PassedBelow
<1>5. Targets(Live)' = Targets(marked \union new) /\ Targets(Static)' = Targets(Static)
  BY <1>1, <1>3 DEF Targets
<1>6. Pending' = Pending \union Unmarked /\ Registered' \subseteq Registered \intersect marked
  BY <1>1 DEF Pending, Registered
<1>7. /\ Arguments(running \union Pending) \subseteq marked
      /\ \A o \in Object : finalizers[o].data \in marked \union {NULL}
      /\ \A o \in Object : finalizers'[o].data \in {finalizers[o].data, NULL}
  BY <1>1, <1>4 DEF MarkRoots, None
<1>8. TypeOK'
  <2>1. Unmarked \subseteq Call
    <3>1. \A o \in Object : finalizers[o].data \in Object \union {NULL}
      BY DEF IInv, TypeOK, Finalizer, None
    <3> QED BY <3>1 DEF Unmarked, Registered, Call
  <2>2. finalizers' \in [Object -> Finalizer \union {None}]
    BY <1>1 DEF IInv, TypeOK
  <2> QED BY <1>1, <1>2, <2>1, <2>2 DEF IInv, TypeOK, Registered
<1>9. LiveClosed'
  <2>1. MarkRoots' \subseteq marked \union new
    <3>1. Arguments(running \union Pending)' \subseteq marked \union new
      BY <1>1, <1>2, <1>6, <1>7 DEF Arguments, Registered
    <3>2. {finalizers'[o].data : o \in Object} \ {NULL} \subseteq marked
      BY <1>7
    <3>3. Targets(Static)' \subseteq marked
      BY <1>4, <1>5 DEF MarkRoots
    <3> QED BY <3>1, <3>2, <3>3 DEF MarkRoots
  <2>2. Targets(marked \union new) \subseteq marked \union new
    <3>1. ASSUME NEW x \in Targets(new) PROVE x \in marked \union new
      <4>1. PICK o \in new : x \in Targets({o})
        BY TargetsFrom
      <4> QED BY <1>4, <4>1
    <3>2. Targets(marked \union new) = Targets(marked) \union Targets(new)
      BY TargetsUnion
    <3> QED BY <1>4, <3>1, <3>2
  <2> QED BY <1>1, <1>3, <1>4, <1>5, <1>6, <2>1, <2>2 DEF LiveClosed
<1>10. MarksClosed' /\ PassedBelow'
  BY <1>1 DEF MarksClosed, PassedBelow
<1>11. LinksKept'
  BY <1>1, <1>3 DEF IInv, LinksKept
<1>12. \A c \in Pending : c.obj \in marked /\ c.obj # NULL /\ c.data \in marked \union {NULL}
  <2>1. \A c \in Pending : c.obj # NULL
    BY FinalizeAssumption DEF IInv, TypeOK, Pending, Call
  <2> QED BY <1>7, <2>1 DEF Arguments
<1>13. ASSUME NEW c \in Pending PROVE Alone(c)'
  <2>1. Alone(c)
    BY <1>13 DEF IInv, PendingAlone
  <2>2. c.obj \notin Targets(Static)' \union Arguments(running)' \union Registered'
    BY <1>1, <1>5, <1>6, <2>1 DEF Alone, Arguments
  <2>3. \A o \in Object : finalizers'[o].data # c.obj
    BY <1>7, <1>12, <2>1 DEF Alone
  <2>4. \A d \in Pending' : d.data # c.obj /\ (d.obj = c.obj => d = c)
    BY <1>2, <1>6, <1>12, <2>1 DEF Alone, Registered
  <2>5. c.obj \notin Targets(Live \ {c.obj})'
    <3>1. Targets(Live \ {c.obj})' = Targets((marked \union new) \ {c.obj})
      BY <1>1, <1>3 DEF Targets
    <3>2. (marked \union new) \ {c.obj} \subseteq Live \ {c.obj}
      BY <1>3, <1>4
    <3> QED BY <2>1, <3>1, <3>2, TargetsMonotone DEF Alone
  <2> QED BY <1>1, <2>1, <2>2, <2>3, <2>4, <2>5 DEF Alone
<1>14. ASSUME NEW c \in Unmarked PROVE Alone(c)'
  <2>1. c.obj \in Object /\ c.obj \notin marked /\ c.obj \in new /\ c.obj # NULL
    BY <1>2, FinalizeAssumption DEF Registered
  <2>2. c.obj \notin Targets(Static)' \union Arguments(running)' \union Registered'
    <3>1. Arguments(running) \subseteq marked
      BY <1>7 DEF Arguments
    <3>2. Targets(Static) \subseteq marked
      BY <1>4 DEF MarkRoots
    <3> QED BY <1>1, <1>5, <1>6, <2>1, <3>1, <3>2 DEF Arguments
  <2>3. \A o \in Object : finalizers'[o].data # c.obj
    BY <1>7, <2>1
  <2>4. \A d \in Pending' : d.data # c.obj /\ (d.obj = c.obj => d = c)
    BY <1>2, <1>6, <1>7, <1>12, <2>1 DEF Registered
  <2>5. c.obj \notin Targets(Live \ {c.obj})'
    <3>1. Targets(Live \ {c.obj})' = Targets((marked \union new) \ {c.obj})
      BY <1>1, <1>3 DEF Targets
    <3>2. ASSUME NEW o \in (marked \union new) \ {c.obj} PROVE c.obj \notin Targets({o})
      <4>1. o \in marked => Targets({o}) \subseteq Targets(marked)
        BY TargetsMonotone
      <4> QED BY <1>4, <2>1, <4>1
    <3> QED BY <3>1, <3>2, TargetsFrom
  <2>6. \A l \in Word : links[l] # c.obj
    BY <1>1, <2>1 DEF IInv, LinksKept
  <2> QED BY <1>1, <2>2, <2>3, <2>4, <2>5, <2>6 DEF Alone
<1>15. queue' \intersect taken' = {}
  BY <1>1, <1>2, <1>12 DEF IInv, PendingAlone, Pending
<1> QED BY <1>6, <1>8, <1>9, <1>10, <1>11, <1>13, <1>14, <1>15 DEF IInv, PendingAlone

LEMMA ReclaimStep ==
  ASSUME IInv, Reclaim
  PROVE  IInv'
<1>1. /\ phase = "dangling" /\ phase' = "idle" /\ marked' = {}
      /\ links' = [l \in Word |-> IF IsDangling(l) THEN NULL ELSE links[l]]
      /\ used' = used \intersect marked
      /\ mem' = [w \in Word |-> IF w[1] \in Object \ marked THEN NULL ELSE mem[w]]
      /\ UNCHANGED <<finalizers, queue, taken, running, passed, overflows>>
  BY DEF Reclaim
<1>2. Live = marked /\ used' = marked /\ Live' = marked /\ passed = {}
  BY <1>1 DEF Live, IInv, LiveClosed, PassedBelow
<1>3. /\ \A v \in Word : mem'[v] \in {mem[v], NULL}
      /\ \A v \in Word : links'[v] # NULL => links'[v] = links[v] /\ v[1] \notin Object \ marked
      /\ \A v \in Word : mem[v] = links[v] => mem'[v] = links'[v]
  BY <1>1 DEF IsDangling
<1>4. /\ \A P : Targets(P) = TargetsIn(mem, P)
      /\ \A P : TargetsIn(mem', P) \subseteq TargetsIn(mem, P)
      /\ Targets(Live)' = TargetsIn(mem', Live)
      /\ Targets(Static)' = TargetsIn(mem', Static)
  <2>1. \A v \in Visible : mem'[v] \in {mem[v], NULL}
    BY <1>3 DEF Visible
  <2>2. /\ Targets(Live)' = TargetsIn(mem', Live)
        /\ Targets(Static)' = TargetsIn(mem', Static)
    BY <1>1, <1>2 DEF Targets, TargetsIn
  <2> QED BY <2>1, <2>2, LessTargets, TargetsAre
<1>5. TypeOK'
  BY <1>1 DEF IInv, TypeOK
<1>6. MarkRoots' \subseteq MarkRoots /\ Registered' = Registered /\ Pending' = Pending
  BY <1>1, <1>4 DEF MarkRoots, Arguments, Pending, Registered
<1>7. LiveClosed' /\ MarksClosed' /\ PassedBelow'
  BY <1>1, <1>2, <1>4, <1>6 DEF IInv, LiveClosed, MarksClosed, PassedBelow
<1>8. LinksKept'
  BY <1>1, <1>2, <1>3 DEF IInv, LinksKept, Hidden
<1>9. ASSUME NEW c \in Pending PROVE Alone(c)'
  <2>1. Targets(Live \ {c.obj})' \subseteq Targets(Live \ {c.obj})
    <3>1. Targets(Live \ {c.obj})' = TargetsIn(mem', Live \ {c.obj})
      BY <1>2 DEF Targets, TargetsIn
    <3> QED BY <1>4, <3>1
  <2>2. c.obj # NULL
    BY FinalizeAssumption DEF IInv, TypeOK, Pending, Call
  <2>3. \A l \in Word : links'[l] # c.obj
    BY <1>3, <2>2 DEF IInv, PendingAlone, Alone
  <2>4. Arguments(running)' = Arguments(running) /\ Targets(Static)' \subseteq Targets(Static)
    BY <1>1, <1>4 DEF Arguments
  <2> QED BY <1>1, <1>6, <2>1, <2>3, <2>4 DEF IInv, PendingAlone, Alone
<1> QED BY <1>1, <1>5, <1>6, <1>7, <1>8, <1>9 DEF IInv, PendingAlone

------------------------------------------------------------------------------
\* The links, and a new object.
LEMMA LinksStep ==
  ASSUME IInv, NEW l \in Word,
         (\E o \in Object : RegisterLink(l, o)) \/ UnregisterLink(l)
  PROVE  IInv'
<1>1. PICK p \in Object \union {NULL} :
        /\ p # NULL => p \in Accessible /\ AtHand(l)
        /\ mem' = IF l \in Hidden THEN [mem EXCEPT ![l] = p] ELSE mem
        /\ links' = [links EXCEPT ![l] = p]
  BY DEF RegisterLink, UnregisterLink
<1>2. /\ phase = "idle"
      /\ UNCHANGED <<used, finalizers, queue, taken, running, marked, passed,
                     phase, overflows>>
  BY DEF RegisterLink, UnregisterLink
<1> QED BY <1>1, <1>2, LinkStep

LEMMA AllocateStep ==
  ASSUME IInv, NEW w \in Visible, NEW o \in Object, Allocate(w, o)
  PROVE  IInv'
<1>1. /\ phase = "idle" /\ o \notin used /\ used' = used \union {o}
      /\ mem' = [v \in Word |-> IF v = w THEN o ELSE IF v[1] = o THEN NULL ELSE mem[v]]
      /\ UNCHANGED <<links, finalizers, queue, taken, running, marked, passed,
                     phase, overflows>>
  BY DEF Allocate
<1>2. Live = used /\ Live' = used \union {o} /\ passed = {} /\ o # NULL
  BY <1>1, FinalizeAssumption DEF Live, IInv, PassedBelow
<1>3. w[1] \in Static \union used /\ w[1] # o
  <2>1. w[1] \in Static \union Accessible
    BY DEF Allocate, AtHand, Visible, Hidden
  <2>2. Accessible \subseteq used
    BY <1>2, AccessibleIsSafe
  <2> QED BY <1>1, <2>1, <2>2, FinalizeAssumption
<1>4. /\ \A P : TargetsIn(mem', P) \subseteq TargetsIn(mem, P \ {o}) \union {o}
      /\ \A P : w[1] \notin P => TargetsIn(mem', P) \subseteq TargetsIn(mem, P)
  <2> SUFFICES ASSUME NEW P, NEW x \in TargetsIn(mem', P)
               PROVE  /\ x \in TargetsIn(mem, P \ {o}) \union {o}
                      /\ w[1] \notin P => x \in TargetsIn(mem, P)
    OBVIOUS
  <2>1. PICK v \in Visible : v[1] \in P /\ x = mem'[v] /\ x # NULL
    BY DEF TargetsIn
  <2>2. (v = w /\ x = o) \/ (v[1] # o /\ x = mem[v])
    <3>1. mem'[v] = IF v = w THEN o ELSE IF v[1] = o THEN NULL ELSE mem[v]
      BY <1>1 DEF Visible
    <3> QED BY <2>1, <3>1
  <2>3. ASSUME v[1] # o, x = mem[v]
        PROVE  x \in TargetsIn(mem, P \ {o}) /\ x \in TargetsIn(mem, P)
    BY <2>1, <2>3 DEF TargetsIn
  <2> QED BY <2>1, <2>2, <2>3
<1>5. /\ \A P : Targets(P) = TargetsIn(mem, P)
      /\ Targets(Live)' = TargetsIn(mem', used \union {o})
      /\ Targets(Static)' = TargetsIn(mem', Static)
  <2>1. /\ Targets(Live)' = TargetsIn(mem', used \union {o})
        /\ Targets(Static)' = TargetsIn(mem', Static)
    BY <1>2 DEF Targets, TargetsIn
  <2> QED BY <2>1, TargetsAre
<1>6. Targets(Static)' \subseteq Targets(Static) \union {o}
  BY <1>4, <1>5, TargetsMonotone
<1>7. TypeOK'
  BY <1>1 DEF IInv, TypeOK
<1>8. MarkRoots' \subseteq MarkRoots \union {o} /\ Registered' = Registered /\ Pending' = Pending
  <2>1. Arguments(running \union Pending)' = Arguments(running \union Pending)
    BY <1>1 DEF Arguments, Pending
  <2> QED BY <1>1, <1>6, <2>1 DEF MarkRoots, Registered, Pending
<1>9. LiveClosed'
  <2>1. (used \union {o}) \ {o} = used
    BY <1>1
  <2>2. TargetsIn(mem', used \union {o}) \subseteq Targets(used) \union {o}
    BY <1>4, <1>5, <2>1
  <2> QED BY <1>1, <1>2, <1>5, <1>8, <2>2 DEF IInv, LiveClosed
<1>10. MarksClosed' /\ PassedBelow'
  BY <1>1, <1>2 DEF MarksClosed, PassedBelow
<1>11. LinksKept'
  <2>1. \A l \in Hidden : mem'[l] = links'[l]
    <3> SUFFICES ASSUME NEW l \in Hidden PROVE mem'[l] = links[l]
      BY <1>1
    <3>1. l \in Word /\ l # w /\ mem[l] = links[l]
      BY DEF Hidden, Visible, IInv, LinksKept
    <3>2. CASE l[1] = o
      BY <1>1, <3>1, <3>2 DEF IInv, LinksKept
    <3>3. CASE l[1] # o
      BY <1>1, <3>1, <3>3
    <3> QED BY <3>2, <3>3
  <2> QED BY <1>1, <1>2, <2>1 DEF IInv, LinksKept
<1>12. ASSUME NEW c \in Pending PROVE Alone(c)'
  <2>1. Alone(c)
    BY DEF IInv, PendingAlone
  <2>2. c.obj # o
    <3>1. c.obj # NULL
      BY FinalizeAssumption DEF IInv, TypeOK, Pending, Call
    <3>2. c.obj \in MarkRoots
      BY <3>1 DEF MarkRoots, Arguments
    <3> QED BY <1>1, <1>2, <3>2 DEF IInv, LiveClosed
  <2>3. c.obj \notin Targets(Live \ {c.obj})'
    <3>1. Targets(Live \ {c.obj})' = TargetsIn(mem', (used \union {o}) \ {c.obj})
      BY <1>2 DEF Targets, TargetsIn
    <3>2. ((used \union {o}) \ {c.obj}) \ {o} = Live \ {c.obj}
      BY <1>1, <1>2
    <3> QED BY <1>4, <1>5, <2>1, <2>2, <3>1, <3>2 DEF Alone
  <2> QED BY <1>1, <1>6, <1>8, <2>1, <2>2, <2>3 DEF Alone, Arguments
<1> QED BY <1>1, <1>7, <1>8, <1>9, <1>10, <1>11, <1>12 DEF IInv, PendingAlone

------------------------------------------------------------------------------
LEMMA InitInv == Init => IInv
<1> SUFFICES ASSUME Init PROVE IInv
  OBVIOUS
<1>1. /\ \A w \in Word : mem[w] = NULL /\ links[w] = NULL
      /\ \A o \in Object : finalizers[o] = None
      /\ used = {} /\ queue = {} /\ taken = {} /\ running = {} /\ marked = {} /\ passed = {}
      /\ phase = "idle"
  BY DEF Init
<1>2. TypeOK
  BY FinalizeAssumption DEF Init, TypeOK
<1>3. \A P : Targets(P) = {}
  BY <1>1 DEF Targets, Visible
<1>4. Registered = {} /\ Pending = {} /\ Live = {}
  BY <1>1 DEF Registered, Pending, Live
<1>5. MarkRoots = {}
  BY <1>1, <1>3, <1>4 DEF MarkRoots, Arguments, None
<1> QED
  BY <1>1, <1>2, <1>3, <1>4, <1>5
  DEF IInv, LiveClosed, MarksClosed, PassedBelow, LinksKept, PendingAlone, Hidden

LEMMA UnchangedStep ==
  ASSUME IInv, UNCHANGED vars
  PROVE  IInv'
<1>1. TypeOK' /\ UNCHANGED <<mem, used, links, marked, passed, phase, overflows>>
  BY DEF IInv, TypeOK, vars
<1>2. UNCHANGED <<finalizers, queue, taken, running>>
  BY DEF vars
<1> QED BY <1>1, <1>2, CallStep DEF IInv, PendingAlone, Pending

LEMMA StepInv == IInv /\ [Next]_vars => IInv'
<1> SUFFICES ASSUME IInv, [Next]_vars PROVE IInv'
  OBVIOUS
<1>1. CASE Program
  BY <1>1, AllocateStep, AssignStep, LinksStep, RevealStep, RegisterFinalizerStep
  DEF Program
<1>2. CASE Invoke
  BY <1>2, TakeStep, BeginStep, ReturnStep DEF Invoke
<1>3. CASE Mark
  BY <1>3, MarkStep
<1>4. CASE Collecting
  BY <1>4, ClearLinksStep, MarkFromStep, EnqueueStep, ReclaimStep DEF Collecting
<1>5. CASE UNCHANGED vars
  BY <1>5, UnchangedStep
<1> QED BY <1>1, <1>2, <1>3, <1>4, <1>5 DEF Next

(* The invariant of every behaviour. *)
THEOREM Invariant == Spec => []IInv
  BY InitInv, StepInv, PTL DEF Spec

(* Every variable has its type, the calls that run included.                *)
THEOREM TypeCorrect == Spec => []TypeOK
<1>1. IInv => TypeOK
  BY DEF IInv
<1> QED BY <1>1, Invariant, PTL

(* Nothing the program can get at, and nothing a pending finalizer will     *)
(* find, is reclaimed (finalize.c:517-583), although the program runs while *)
(* GC_finalize() does (alloc.c:514).                                        *)
THEOREM NeededKept == Spec => []NothingNeededReclaimed
<1>1. IInv => NothingNeededReclaimed
  <2> SUFFICES ASSUME IInv PROVE ReachFrom(MarkRoots) \subseteq used
    BY DEF NothingNeededReclaimed
  <2>1. Live \in SUBSET Object
    BY DEF IInv, TypeOK, Live
  <2> QED BY <2>1, ReachWithin DEF IInv, LiveClosed
<1> QED BY <1>1, Invariant, PTL

(* No disguised pointer dangles, and no link that the collector would write *)
(* is in a reclaimed object (finalize.c:494-596).                           *)
THEOREM LinksSafe == Spec => []LinksAreSafe
<1>1. IInv => LinksAreSafe
  <2> SUFFICES ASSUME IInv PROVE LinksAreSafe
    OBVIOUS
  <2>1. Live \subseteq used /\ \A l \in Hidden : l \in Word
    BY DEF IInv, LiveClosed, Hidden
  <2> QED BY <2>1, WordPlace DEF LinksAreSafe, IInv, LinksKept
<1> QED BY <1>1, Invariant, PTL

(* What is to be finalized is out of the program's reach, and of the reach  *)
(* of everything else that is finalized now or later (gc.h:461-465).        *)
THEOREM InOrder == Spec => []FinalizedInOrder
<1>1. IInv => FinalizedInOrder
  <2> SUFFICES ASSUME IInv, NEW c \in Pending
               PROVE  /\ c.obj \notin Accessible \union Registered
                      /\ c.obj \notin ReachFrom((Registered \union Arguments(Pending)) \ {c.obj})
                      /\ \A d \in Pending : d.obj = c.obj => d = c
    BY DEF FinalizedInOrder
  <2>1. Alone(c)
    BY DEF IInv, PendingAlone
  <2>2. c.obj \notin Accessible
    BY AccessibleIsSafe
  <2> DEFINE rest == Live \ {c.obj}
  <2>3. rest \in SUBSET Object
    BY DEF IInv, TypeOK, Live
  <2>4. (Registered \union Arguments(Pending)) \ {c.obj} \subseteq rest
    BY DEF IInv, LiveClosed, MarkRoots, Arguments
  <2>5. Targets(rest) \subseteq rest
    BY <2>1, TargetsMonotone DEF IInv, LiveClosed, Alone
  <2>6. ReachFrom((Registered \union Arguments(Pending)) \ {c.obj}) \subseteq rest
    BY <2>3, <2>4, <2>5, ReachWithin
  <2> QED BY <2>1, <2>2, <2>6 DEF Alone
<1> QED BY <1>1, Invariant, PTL

=============================================================================
