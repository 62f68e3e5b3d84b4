---------------------------- MODULE ConsoleProofs ----------------------------
(***************************************************************************)
(* Proofs about Console and the direct driver, for every screen whose      *)
(* offsets fit the driver's 16-bit integers, any texts, any number of      *)
(* threads and any configuration: the window stays whole rows and the      *)
(* cursor on the screen, the driver prints as Screen says, and the library *)
(* calls one driver, or none, and gives back a terminal it did not give up *)
(* half-way.                                                               *)
(*                                                                         *)
(* AlwaysInv is inductive with [ConsoleNext]_allVars.  It has two parts:   *)
(* what holds whatever statements do (DriverInv: the types, the window,    *)
(* who holds the lock), and what holds until two statements overlap        *)
(* (Undisturbed: the cursor not past the window, and what a thread has     *)
(* read without the lock still so).  The lemmas before it say what         *)
(* __scrollConsole(), the wrap at the end of a row and CLS do to the text, *)
(* given by rows and columns (TextOf), so that neither the type of the     *)
(* device nor the refinement needs to count bytes again.                   *)
(***************************************************************************)
EXTENDS Console, SequenceTheorems, WellFoundedInduction, NaturalsInduction, TLAPS

Dev == [0..(Size - 1) -> Byte]
RowStart(j) == j * RowBytes

\* Where the rows and the cells of the device begin.
LEMMA RowStep ==
  ASSUME NEW j \in Int
  PROVE  RowStart(j) \in Int /\ RowStart(j + 1) = RowStart(j) + RowBytes
<1>1. RowBytes \in Nat
  BY ScreenAssumption DEF RowBytes
<1> QED BY <1>1 DEF RowStart

LEMMA RowNat ==
  ASSUME NEW j \in Nat
  PROVE  RowStart(j) \in Nat
<1>1. RowBytes \in Nat
  BY ScreenAssumption DEF RowBytes
<1> QED BY <1>1 DEF RowStart

LEMMA RowOrder ==
  ASSUME NEW j \in Int, NEW k \in Int, j < k
  PROVE  RowStart(j) + RowBytes <= RowStart(k)
<1> DEFINE r == RowBytes
<1>1. r \in Nat
  BY ScreenAssumption DEF RowBytes
<1> HIDE DEF r
<1>2. (j + 1) * r <= k * r /\ (j + 1) * r = j * r + r
  BY <1>1
<1> QED BY <1>2 DEF r, RowStart

LEMMA RowFacts ==
  /\ columns \in Nat /\ lines \in Nat
  /\ RowBytes \in Nat /\ RowBytes = 2 * columns + 2
  /\ RowStart(0) = 0
  /\ Size = 4 + RowStart(lines + 1) /\ Size \in Nat
<1>1. columns \in Nat /\ lines \in Nat /\ RowBytes = 2 * columns + 2 /\ RowBytes \in Nat
  BY ScreenAssumption DEF RowBytes
<1>2. RowStart(lines + 1) \in Nat
  BY <1>1, RowNat
<1>3. RowStart(0) = 0
  BY <1>1 DEF RowStart
<1>4. Size = 4 + RowStart(lines + 1)
  BY DEF Size, RowStart
<1> QED BY <1>1, <1>2, <1>3, <1>4

LEMMA DivOfRow ==
  ASSUME NEW k \in Nat \ {0}, NEW q \in Nat, NEW r \in 0..(k - 1)
  PROVE  (q * k + r) \div k = q /\ (q * k + r) % k = r
OBVIOUS

\* A cell's place, and the cell at a place.
LEMMA CellPlace ==
  ASSUME NEW i \in 0..columns, NEW j \in 0..lines
  PROVE  /\ XyToConsoleMatrix(i, j) = RowStart(j) + 2 * i + 4
         /\ XyToConsoleMatrix(i, j) \in 4..(Size - 2)
         /\ ConsoleMatrixToX(XyToConsoleMatrix(i, j)) = i
         /\ ConsoleMatrixToY(XyToConsoleMatrix(i, j)) = j
         /\ (XyToConsoleMatrix(i, j) - 4) \div RowBytes = j
<1> DEFINE k == columns + 1
<1>1. k \in Nat \ {0} /\ i \in 0..(k - 1) /\ i \in Nat /\ j \in Nat /\ RowBytes = k * 2
  BY RowFacts DEF RowBytes
<1> HIDE DEF k
<1>2. j * (k * 2) = 2 * (j * k) /\ j * k \in Nat
  BY <1>1
<1>3. XyToConsoleMatrix(i, j) - 4 = 2 * (j * k + i)
  BY <1>1, <1>2 DEF XyToConsoleMatrix
<1>4. (2 * (j * k + i)) \div 2 = j * k + i
  BY <1>1, <1>2
<1>5. (j * k + i) \div k = j /\ (j * k + i) % k = i
  BY <1>1, DivOfRow
<1>6. XyToConsoleMatrix(i, j) = RowStart(j) + 2 * i + 4
  BY <1>1, RowFacts DEF XyToConsoleMatrix, RowStart
<1>7. XyToConsoleMatrix(i, j) \in 4..(Size - 2)
  <2>0. j \in Int /\ lines + 1 \in Int /\ j < lines + 1
    BY RowFacts
  <2>1. RowStart(j) + RowBytes <= RowStart(lines + 1)
    BY <2>0, RowOrder
  <2>2. RowStart(j) \in Nat /\ RowStart(lines + 1) \in Int
    BY <1>1, <2>0, RowNat, RowStep
  <2>3. 0 <= i /\ i <= columns /\ i \in Int /\ columns \in Int
    BY RowFacts
  <2>4. Size = 4 + RowStart(lines + 1) /\ RowBytes = 2 * columns + 2
    BY RowFacts
  <2> QED BY <1>6, <2>1, <2>2, <2>3, <2>4
<1>8. (XyToConsoleMatrix(i, j) - 4) \div RowBytes = j
  <2>1. 2 * i \in 0..((k * 2) - 1) /\ k * 2 \in Nat \ {0}
    BY <1>1
  <2>2. (j * (k * 2) + 2 * i) \div (k * 2) = j
    <3> DEFINE w == k * 2
               r == 2 * i
    <3>0. w = k * 2 /\ r = 2 * i
      OBVIOUS
    <3>1. w \in Nat \ {0} /\ r \in 0..(w - 1)
      BY <2>1
    <3> HIDE DEF w, r
    <3>2. (j * w + r) \div w = j
      BY <1>1, <3>1, DivOfRow
    <3> QED BY <3>2 DEF w, r
  <2>3. XyToConsoleMatrix(i, j) - 4 = j * (k * 2) + 2 * i
    BY <1>1, <1>2, <1>3
  <2> QED BY <1>1, <2>2, <2>3
<1>9. ConsoleMatrixToX(XyToConsoleMatrix(i, j)) = i /\ ConsoleMatrixToY(XyToConsoleMatrix(i, j)) = j
  BY <1>3, <1>4, <1>5 DEF ConsoleMatrixToX, ConsoleMatrixToY, k
<1> QED BY <1>6, <1>7, <1>8, <1>9

LEMMA PlaceIs ==
  ASSUME NEW i \in Int, NEW j \in Int
  PROVE  XyToConsoleMatrix(i, j) = RowStart(j) + 2 * i + 4
BY RowFacts DEF XyToConsoleMatrix, RowStart

\* The bytes of the device after a write of n bytes.
LEMMA WrittenIs ==
  ASSUME NEW dev \in Dev, NEW from \in Nat, NEW n \in Nat, NEW bytes \in [1..n -> Byte]
  PROVE  /\ Written(dev, from, bytes) \in Dev
         /\ \A p \in 0..(Size - 1) :
              Written(dev, from, bytes)[p] =
                IF p \in from..(from + n - 1) THEN bytes[p - from + 1] ELSE dev[p]
<1>1. bytes \in Seq(Byte)
  BY SeqDef
<1>2. Len(bytes) \in Nat /\ 1..Len(bytes) = 1..n
  BY <1>1, LenProperties
<1>3. Len(bytes) = n
  BY <1>2
<1>4. Size - 1 \in Int
  BY RowFacts
<1>5. \A p \in 0..(Size - 1) : p \in from..(from + n - 1) => p - from + 1 \in 1..n
  BY <1>4
<1> QED BY <1>3, <1>4, <1>5 DEF Written, Dev

LEMMA BlanksAre ==
  ASSUME NEW n \in Nat, curColor \in 0..15
  PROVE  /\ Blanks(n) \in [1..n -> Byte]
         /\ \A k \in 1..n : k % 2 = 1 => Blanks(n)[k] = Space
BY DEF Blanks, Space, Byte

LEMMA CellsAre ==
  ASSUME NEW t \in Thread, NEW n \in Nat, attr[t] \in 0..15, NEW ch \in Byte
  PROVE  /\ Cells(t, ch, n) \in [1..(2 * n) -> Byte]
         /\ \A k \in 1..(2 * n) : k % 2 = 1 => Cells(t, ch, n)[k] = ch
BY DEF Cells, Byte

\* The characters on a device.
TextOf(dev) == [p \in (0..lines) \X (0..columns) |-> dev[XyToConsoleMatrix(p[2], p[1])]]

LEMMA TextIs ==
  ASSUME NEW dev \in Dev
  PROVE  /\ TextOf(dev) \in [(0..lines) \X (0..columns) -> Byte]
         /\ \A j \in 0..lines, i \in 0..columns :
              TextOf(dev)[<<j, i>>] = dev[XyToConsoleMatrix(i, j)]
<1>1. ASSUME NEW p \in (0..lines) \X (0..columns)
      PROVE  XyToConsoleMatrix(p[2], p[1]) \in 0..(Size - 1)
  <2>1. p[1] \in 0..lines /\ p[2] \in 0..columns
    OBVIOUS
  <2>2. XyToConsoleMatrix(p[2], p[1]) \in 4..(Size - 2)
    BY <2>1, CellPlace
  <2>3. Size \in Int
    BY RowFacts
  <2> QED BY <2>2, <2>3
<1> QED BY <1>1 DEF TextOf, Dev

\* Two screens with the same cells are the same.
LEMMA SameText ==
  ASSUME NEW a \in [(0..lines) \X (0..columns) -> Byte],
         NEW b \in [(0..lines) \X (0..columns) -> Byte],
         \A j \in 0..lines, i \in 0..columns : a[<<j, i>>] = b[<<j, i>>]
  PROVE  a = b
<1>1. \A p \in (0..lines) \X (0..columns) : a[p] = b[p]
  <2> SUFFICES ASSUME NEW p \in (0..lines) \X (0..columns) PROVE a[p] = b[p]
    OBVIOUS
  <2>1. PICK j \in 0..lines, i \in 0..columns : p = <<j, i>>
    OBVIOUS
  <2> QED BY <2>1
<1> QED BY <1>1

\* Cells of different rows.
LEMMA CellOrder ==
  ASSUME NEW i \in 0..columns, NEW j \in 0..lines, NEW m \in 0..columns, NEW k \in 0..lines,
         j < k
  PROVE  XyToConsoleMatrix(i, j) + RowBytes - 2 * i + 2 * m <= XyToConsoleMatrix(m, k)
<1>1. i \in Int /\ j \in Int /\ m \in Int /\ k \in Int
  BY RowFacts
<1>2. RowStart(j) \in Int /\ RowStart(k) \in Int /\ RowStart(j) + RowBytes <= RowStart(k)
  BY <1>1, RowOrder, RowStep
<1>3. /\ XyToConsoleMatrix(i, j) = RowStart(j) + 2 * i + 4
      /\ XyToConsoleMatrix(m, k) = RowStart(k) + 2 * m + 4
  BY <1>1, PlaceIs
<1> QED BY <1>1, <1>2, <1>3, RowFacts

\* A position is below the window when its row is.
LEMMA BelowIs ==
  ASSUME NEW B \in 0..lines, winBottom = XyToConsoleMatrix(columns, B),
         NEW i \in -1..columns, NEW j \in Int
  PROVE  /\ i >= 0 => (Below(i, j) <=> j > B)
         /\ j <= B => ~Below(i, j)
<1>1. B \in Int /\ i \in Int /\ columns \in Int /\ -1 <= i /\ i <= columns
  BY RowFacts
<1>2. RowStart(j) \in Int /\ RowStart(B) \in Int
  BY <1>1, RowStep
<1>3. j > B => RowStart(B) + RowBytes <= RowStart(j)
  BY <1>1, RowOrder
<1>4. j < B => RowStart(j) + RowBytes <= RowStart(B)
  BY <1>1, RowOrder
<1>5. /\ XyToConsoleMatrix(i, j) = RowStart(j) + 2 * i + 4
      /\ winBottom = RowStart(B) + 2 * columns + 4
  BY <1>1, PlaceIs
<1>6. RowBytes = 2 * columns + 2
  BY RowFacts
<1>7. j = B => RowStart(j) = RowStart(B)
  OBVIOUS
<1>8. j <= B => ~Below(i, j)
  BY <1>1, <1>2, <1>4, <1>5, <1>6, <1>7 DEF Below
<1>9. i >= 0 /\ j > B => Below(i, j)
  BY <1>1, <1>2, <1>3, <1>5, <1>6 DEF Below
<1> QED BY <1>1, <1>8, <1>9

\* The cursor of the device may be written without changing a cell.
LEMMA CursorWritten ==
  ASSUME NEW dev \in Dev, NEW i \in Int, NEW j \in Int
  PROVE  /\ Written(dev, 2, <<i % 256, j % 256>>) \in Dev
         /\ TextOf(Written(dev, 2, <<i % 256, j % 256>>)) = TextOf(dev)
<1> DEFINE bytes == <<i % 256, j % 256>>
           new == Written(dev, 2, bytes)
<1>1. i % 256 \in Byte /\ j % 256 \in Byte
  BY DEF Byte
<1>2. bytes \in [1..2 -> Byte]
  BY <1>1
<1> HIDE DEF bytes
<1> DEFINE from == 2
           n == 2
<1>0. n \in Nat /\ bytes \in [1..n -> Byte] /\ from \in Nat
  BY <1>2
<1> HIDE DEF n, from
<1>6. /\ Written(dev, from, bytes) \in Dev
      /\ \A p \in 0..(Size - 1) :
           Written(dev, from, bytes)[p] =
             IF p \in from..(from + n - 1) THEN bytes[p - from + 1] ELSE dev[p]
  BY <1>0, WrittenIs
<1>3. new \in Dev /\ \A p \in 0..(Size - 1) : p \notin 2..(2 + 2 - 1) => new[p] = dev[p]
  BY <1>6 DEF from, n
<1> HIDE DEF new
<1>4. ASSUME NEW m \in 0..lines, NEW l \in 0..columns
      PROVE  TextOf(new)[<<m, l>>] = TextOf(dev)[<<m, l>>]
  <2>1. XyToConsoleMatrix(l, m) \in 4..(Size - 2) /\ Size \in Nat
    BY CellPlace, RowFacts
  <2>2. XyToConsoleMatrix(l, m) \in 0..(Size - 1) /\ XyToConsoleMatrix(l, m) \notin 2..(2 + 2 - 1)
    BY <2>1
  <2> QED BY <2>2, <1>3, TextIs
<1>5. TextOf(new) = TextOf(dev)
  BY <1>3, <1>4, TextIs, SameText
<1> QED BY <1>3, <1>5 DEF new, bytes

\* Characters go to the cells from the cursor on.
LEMMA CellsWritten ==
  ASSUME NEW dev \in Dev, NEW i \in 0..columns, NEW j \in 0..lines, NEW n \in Nat,
         i + n <= columns + 1,
         NEW t \in Thread, attr[t] \in 0..15, NEW ch \in Byte
  PROVE  LET new == Written(dev, XyToConsoleMatrix(i, j), Cells(t, ch, n))
         IN /\ new \in Dev
            /\ \A m \in 0..lines, l \in 0..columns :
                 TextOf(new)[<<m, l>>] = IF m = j /\ l \in i..(i + n - 1) THEN ch
                                         ELSE TextOf(dev)[<<m, l>>]
<1> DEFINE from == XyToConsoleMatrix(i, j)
           bytes == Cells(t, ch, n)
           new == Written(dev, from, bytes)
<1>1. /\ bytes \in [1..(2 * n) -> Byte]
      /\ \A k \in 1..(2 * n) : k % 2 = 1 => bytes[k] = ch
  BY CellsAre
<1>2. from \in Nat /\ 2 * n \in Nat
  BY CellPlace, RowFacts
<1> DEFINE k == 2 * n
<1>0. k \in Nat /\ bytes \in [1..k -> Byte]
  BY <1>1, <1>2
<1> HIDE DEF bytes, k, from
<1>6. /\ Written(dev, from, bytes) \in Dev
      /\ \A p \in 0..(Size - 1) :
           Written(dev, from, bytes)[p] =
             IF p \in from..(from + k - 1) THEN bytes[p - from + 1] ELSE dev[p]
  BY <1>0, <1>2, WrittenIs
<1>3. /\ new \in Dev
      /\ \A p \in 0..(Size - 1) :
           new[p] = IF p \in from..(from + 2 * n - 1) THEN bytes[p - from + 1] ELSE dev[p]
  BY <1>6 DEF k
<1> USE DEF from
<1> HIDE DEF new
<1>4. ASSUME NEW m \in 0..lines, NEW l \in 0..columns
      PROVE  TextOf(new)[<<m, l>>] = IF m = j /\ l \in i..(i + n - 1) THEN ch
                                     ELSE TextOf(dev)[<<m, l>>]
  <2> DEFINE p == XyToConsoleMatrix(l, m)
  <2>1. p \in 0..(Size - 1) /\ p \in Int
    BY CellPlace, RowFacts
  <2>2. TextOf(new)[<<m, l>>] = new[p] /\ TextOf(dev)[<<m, l>>] = dev[p]
    BY <1>3, TextIs
  <2>3. columns \in Int /\ i \in Int /\ j \in Int /\ l \in Int /\ m \in Int /\ RowBytes \in Int
        /\ 0 <= i /\ i <= columns /\ 0 <= l /\ l <= columns /\ RowBytes = 2 * columns + 2
    BY RowFacts
  <2>4. CASE m = j
    <3>1. p = from + 2 * (l - i)
      <4>1. p = RowStart(j) + 2 * l + 4 /\ from = RowStart(j) + 2 * i + 4 /\ RowStart(j) \in Int
        BY <2>3, <2>4, PlaceIs, RowStep
      <4> QED BY <4>1, <2>3
    <3>2. p \in from..(from + 2 * n - 1) <=> l \in i..(i + n - 1)
      BY <3>1, <2>3, <1>2
    <3>3. l \in i..(i + n - 1) => /\ p - from + 1 \in 1..(2 * n)
                                  /\ (p - from + 1) % 2 = 1
      BY <3>1, <2>3, <1>2
    <3> QED BY <2>1, <2>2, <2>4, <3>2, <3>3, <1>1, <1>3
  <2>5. CASE m < j
    <3>1. p + RowBytes - 2 * l + 2 * i <= from
      BY <2>5, CellOrder
    <3>2. p \notin from..(from + 2 * n - 1)
      BY <3>1, <2>1, <2>3, <1>2
    <3> QED BY <2>1, <2>2, <2>3, <2>5, <3>2, <1>3
  <2>6. CASE m > j
    <3>1. from + RowBytes - 2 * i + 2 * l <= p
      BY <2>6, CellOrder
    <3>2. p \notin from..(from + 2 * n - 1)
      BY <3>1, <2>1, <2>3, <1>2
    <3> QED BY <2>1, <2>2, <2>3, <2>6, <3>2, <1>3
  <2> QED BY <2>3, <2>4, <2>5, <2>6
<1> QED BY <1>3, <1>4 DEF new, bytes

\* The window from row T to row B moves up by a row.
LEMMA ScrolledIs ==
  ASSUME NEW dev \in Dev, NEW T \in 0..lines, NEW B \in 0..lines, T <= B, curColor \in 0..15
  PROVE  LET new == Scrolled(dev, XyToConsoleMatrix(0, T), XyToConsoleMatrix(columns, B))
         IN /\ new \in Dev
            /\ \A m \in 0..lines, l \in 0..columns :
                 TextOf(new)[<<m, l>>] = IF m \notin T..B THEN TextOf(dev)[<<m, l>>]
                                         ELSE IF m = B THEN Space
                                         ELSE TextOf(dev)[<<m + 1, l>>]
<1> DEFINE top == XyToConsoleMatrix(0, T)
           bottom == XyToConsoleMatrix(columns, B)
           bufSize == (bottom - (top + RowBytes)) + 1
           moved == [p \in 0..(Size - 1) |->
                       IF p \in top..(top + bufSize - 1) THEN dev[p + RowBytes] ELSE dev[p]]
           from == (bottom - RowBytes) + 2
           bytes == Blanks(RowBytes)
           w == RowBytes
           new == Written(moved, from, bytes)
<1>0. columns \in Nat /\ lines \in Nat /\ w \in Nat /\ w = 2 * columns + 2 /\ Size \in Nat
  BY RowFacts
<1>1. /\ top = RowStart(T) + 4 /\ bottom = RowStart(B) + w + 2
      /\ RowStart(T) \in Int /\ RowStart(B) \in Int
  <2>1. /\ T \in Int /\ B \in Int /\ 0 \in Int /\ columns \in Int
    BY <1>0
  <2>2. top = RowStart(T) + 2 * 0 + 4 /\ bottom = RowStart(B) + 2 * columns + 4
    BY <2>1, PlaceIs
  <2>3. RowStart(T) \in Int /\ RowStart(B) \in Int
    BY <2>1, RowStep
  <2> QED BY <2>2, <2>3, <1>0
<1>2. top \in 4..(Size - 2) /\ bottom \in 4..(Size - 2)
  BY CellPlace, <1>0
<1>3. from = RowStart(B) + 4 /\ from \in Nat
  <2>1. RowStart(B) \in Nat
    BY RowNat, <1>0
  <2> QED BY <1>0, <1>1, <2>1
<1>4. bytes \in [1..w -> Byte] /\ \A k \in 1..w : k % 2 = 1 => bytes[k] = Space
  BY BlanksAre, <1>0
<1>5. moved \in Dev
  <2>1. ASSUME NEW p \in 0..(Size - 1), p \in top..(top + bufSize - 1)
        PROVE  p + RowBytes \in 0..(Size - 1)
    BY <2>1, <1>0, <1>1, <1>2
  <2> QED BY <2>1 DEF Dev
<1> HIDE DEF bytes, moved, w, from
<1>10. w \in Nat /\ from \in Nat /\ bytes \in [1..w -> Byte] /\ moved \in Dev
  BY <1>0, <1>3, <1>4, <1>5
<1>6. /\ Written(moved, from, bytes) \in Dev
      /\ \A p \in 0..(Size - 1) :
           Written(moved, from, bytes)[p] =
             IF p \in from..(from + w - 1) THEN bytes[p - from + 1] ELSE moved[p]
  BY <1>10, WrittenIs
<1>7. new \in Dev
  BY <1>6
<1> HIDE DEF new
<1>8. ASSUME NEW m \in 0..lines, NEW l \in 0..columns
      PROVE  TextOf(new)[<<m, l>>] = IF m \notin T..B THEN TextOf(dev)[<<m, l>>]
                                     ELSE IF m = B THEN Space
                                     ELSE TextOf(dev)[<<m + 1, l>>]
  <2> DEFINE p == XyToConsoleMatrix(l, m)
  <2>1. p \in 0..(Size - 1) /\ p \in Int
    BY CellPlace, <1>0
  <2>2. TextOf(new)[<<m, l>>] = new[p] /\ TextOf(dev)[<<m, l>>] = dev[p]
    BY <1>7, TextIs
  <2>3. /\ m \in Int /\ l \in Int /\ T \in Int /\ B \in Int
        /\ 0 <= l /\ l <= columns
    BY <1>0
  <2>4. p = RowStart(m) + 2 * l + 4 /\ RowStart(m) \in Int
    BY <2>3, PlaceIs, RowStep
  <2>5. /\ m < T => RowStart(m) + w <= RowStart(T)
        /\ m < B => RowStart(m) + w <= RowStart(B)
        /\ T < m => RowStart(T) + w <= RowStart(m)
        /\ B < m => RowStart(B) + w <= RowStart(m)
        /\ T < B => RowStart(T) + w <= RowStart(B)
    BY <2>3, RowOrder DEF w
  <2>6. CASE m < T
    <3>1. p \notin from..(from + w - 1) /\ p \notin top..(top + bufSize - 1)
      BY <2>3, <2>4, <2>5, <2>6, <1>0, <1>1, <1>3
    <3>2. new[p] = dev[p]
      BY <3>1, <2>1, <1>6 DEF new, moved
    <3> QED BY <3>2, <2>2, <2>3, <2>6
  <2>7. CASE m > B
    <3>1. p \notin from..(from + w - 1) /\ p \notin top..(top + bufSize - 1)
      BY <2>3, <2>4, <2>5, <2>7, <1>0, <1>1, <1>3 DEF w
    <3>2. new[p] = dev[p]
      BY <3>1, <2>1, <1>6 DEF new, moved
    <3> QED BY <3>2, <2>2, <2>3, <2>7
  <2>8. CASE m = B
    <3>1. p = from + 2 * l
      BY <2>4, <2>8, <1>3, <2>3
    <3>2. p \in from..(from + w - 1) /\ p - from + 1 \in 1..w /\ (p - from + 1) % 2 = 1
      BY <3>1, <2>3, <1>0, <1>3
    <3>3. new[p] = Space
      BY <3>2, <2>1, <1>6, <1>4 DEF new
    <3> QED BY <3>3, <2>2, <2>3, <2>8
  <2>9. CASE T <= m /\ m < B
    <3> DEFINE q == XyToConsoleMatrix(l, m + 1)
    <3>1. m + 1 \in 0..lines /\ m + 1 \in Int
      BY <2>9, <2>3, <1>0
    <3>2. q = p + w
      <4>1. RowStart(m + 1) = RowStart(m) + w
        BY <2>3, RowStep DEF w
      <4>2. q = RowStart(m + 1) + 2 * l + 4
        BY <3>1, <2>3, PlaceIs
      <4> QED BY <4>1, <4>2, <2>3, <2>4, <1>0
    <3>3. TextOf(dev)[<<m + 1, l>>] = dev[q]
      BY <3>1, TextIs
    <3>4. T = m => RowStart(T) = RowStart(m)
      OBVIOUS
    <3>5. p \notin from..(from + w - 1)
      BY <2>3, <2>4, <2>5, <2>9, <1>0, <1>1, <1>3
    <3>6. p >= top /\ p <= bottom - w
      BY <2>3, <2>4, <2>5, <2>9, <3>4, <1>0, <1>1
    <3>7. p \in top..(top + bufSize - 1)
      BY <3>6, <2>1, <1>0, <1>1 DEF w
    <3>8. moved[p] = dev[q]
      BY <3>2, <3>7, <2>1 DEF moved, w
    <3>9. new[p] = dev[q]
      BY <3>5, <3>8, <2>1, <1>6 DEF new
    <3> QED BY <3>3, <3>9, <2>2, <2>3, <2>9
  <2> QED BY <2>3, <2>6, <2>7, <2>8, <2>9
<1>9. new = Scrolled(dev, XyToConsoleMatrix(0, T), XyToConsoleMatrix(columns, B))
  BY DEF new, Scrolled, moved, from, bytes
<1> QED BY <1>7, <1>8, <1>9

\* The window from row T to row B is cleared.
LEMMA ClearedIs ==
  ASSUME NEW dev \in Dev, NEW T \in 0..lines, NEW B \in 0..lines, T <= B, curColor \in 0..15
  PROVE  LET n == (XyToConsoleMatrix(columns, B) + 1) - XyToConsoleMatrix(0, T)
             new == Written(dev, XyToConsoleMatrix(0, T), Blanks(n))
         IN /\ new \in Dev
            /\ \A m \in 0..lines, l \in 0..columns :
                 TextOf(new)[<<m, l>>] = IF m \in T..B THEN Space ELSE TextOf(dev)[<<m, l>>]
<1> DEFINE top == XyToConsoleMatrix(0, T)
           bottom == XyToConsoleMatrix(columns, B)
           n == (bottom + 1) - top
           bytes == Blanks(n)
           w == RowBytes
           new == Written(dev, top, bytes)
<1>0. columns \in Nat /\ lines \in Nat /\ w \in Nat /\ w = 2 * columns + 2 /\ Size \in Nat
  BY RowFacts
<1>1. /\ top = RowStart(T) + 4 /\ bottom = RowStart(B) + w + 2
      /\ RowStart(T) \in Int /\ RowStart(B) \in Int
  <2>1. /\ T \in Int /\ B \in Int /\ 0 \in Int /\ columns \in Int
    BY <1>0
  <2>2. top = RowStart(T) + 2 * 0 + 4 /\ bottom = RowStart(B) + 2 * columns + 4
    BY <2>1, PlaceIs
  <2>3. RowStart(T) \in Int /\ RowStart(B) \in Int
    BY <2>1, RowStep
  <2> QED BY <2>2, <2>3, <1>0
<1> HIDE DEF w
<1>2. top \in Nat /\ n \in Nat
  <2>1. T < B => RowStart(T) + w <= RowStart(B)
    BY <1>0, RowOrder DEF w
  <2>2. T = B => RowStart(T) = RowStart(B)
    OBVIOUS
  <2>3. T < B \/ T = B
    BY <1>0
  <2>4. RowStart(T) <= RowStart(B)
    BY <2>1, <2>2, <2>3, <1>0, <1>1
  <2>5. RowStart(T) \in Nat
    BY <1>0, RowNat
  <2> QED BY <1>0, <1>1, <2>4, <2>5
<1>4. bytes \in [1..n -> Byte] /\ \A k \in 1..n : k % 2 = 1 => bytes[k] = Space
  BY BlanksAre, <1>2
<1> HIDE DEF bytes, n, top
<1>6. /\ Written(dev, top, bytes) \in Dev
      /\ \A p \in 0..(Size - 1) :
           Written(dev, top, bytes)[p] =
             IF p \in top..(top + n - 1) THEN bytes[p - top + 1] ELSE dev[p]
  BY <1>2, <1>4, WrittenIs
<1>7. new \in Dev
  BY <1>6
<1> HIDE DEF new
<1>3. top + n - 1 = bottom
  BY <1>0, <1>1, <1>2 DEF n
<1>8. ASSUME NEW m \in 0..lines, NEW l \in 0..columns
      PROVE  TextOf(new)[<<m, l>>] = IF m \in T..B THEN Space ELSE TextOf(dev)[<<m, l>>]
  <2> DEFINE p == XyToConsoleMatrix(l, m)
  <2>1. p \in 0..(Size - 1) /\ p \in Int
    BY CellPlace, <1>0
  <2>2. TextOf(new)[<<m, l>>] = new[p] /\ TextOf(dev)[<<m, l>>] = dev[p]
    BY <1>7, TextIs
  <2>3. /\ m \in Int /\ l \in Int /\ T \in Int /\ B \in Int
        /\ 0 <= l /\ l <= columns
    BY <1>0
  <2>4. p = RowStart(m) + 2 * l + 4 /\ RowStart(m) \in Int
    BY <2>3, PlaceIs, RowStep
  <2>5. /\ m < T => RowStart(m) + w <= RowStart(T)
        /\ m < B => RowStart(m) + w <= RowStart(B)
        /\ T < m => RowStart(T) + w <= RowStart(m)
        /\ B < m => RowStart(B) + w <= RowStart(m)
        /\ T = m => RowStart(T) = RowStart(m)
        /\ B = m => RowStart(B) = RowStart(m)
    BY <2>3, RowOrder DEF w
  <2>6. m < T => p < top
    BY <2>3, <2>4, <2>5, <1>0, <1>1
  <2>7. m > B => p > bottom
    BY <2>3, <2>4, <2>5, <1>0, <1>1
  <2>8. m >= T => p >= top
    BY <2>3, <2>4, <2>5, <1>0, <1>1
  <2>9. m <= B => p <= bottom
    BY <2>3, <2>4, <2>5, <1>0, <1>1
  <2>10. CASE m \in T..B
    <3>1. p \in top..(top + n - 1)
      BY <2>1, <2>3, <2>8, <2>9, <2>10, <1>1, <1>2, <1>3
    <3>2. p - top + 1 \in 1..n
      BY <3>1, <1>2
    <3>3. (p - top + 1) % 2 = 1
      <4>1. PICK j \in Int : T = j
        BY <2>3
      <4>2. PICK a \in Int, b \in Int : RowStart(m) = 2 * a /\ RowStart(T) = 2 * b
        <5>1. m * RowBytes = 2 * (m * (columns + 1)) /\ m * (columns + 1) \in Int
              /\ T * RowBytes = 2 * (T * (columns + 1)) /\ T * (columns + 1) \in Int
          BY <2>3, <1>0 DEF RowBytes
        <5> QED BY <5>1 DEF RowStart
      <4>3. p - top + 1 = 2 * (a - b + l) + 1
        BY <4>2, <2>3, <2>4, <1>1
      <4> QED BY <4>3, <4>2, <2>3
    <3>4. new[p] = Space
      BY <3>1, <3>2, <3>3, <2>1, <1>4, <1>6 DEF new
    <3> QED BY <3>4, <2>2, <2>10
  <2>11. CASE m \notin T..B
    <3>1. p \notin top..(top + n - 1)
      BY <2>1, <2>3, <2>6, <2>7, <2>11, <1>1, <1>2, <1>3
    <3>2. new[p] = dev[p]
      BY <3>1, <2>1, <1>6 DEF new
    <3> QED BY <3>2, <2>2, <2>11
  <2> QED BY <2>10, <2>11
<1> QED BY <1>7, <1>8 DEF new, bytes, n, top

------------------------------------------------------------------------------
\* The window is that of rows T to B.
WindowAt(T, B) ==
  /\ T \in 0..lines /\ B \in 0..lines /\ T <= B
  /\ winTop = XyToConsoleMatrix(0, T) /\ winBottom = XyToConsoleMatrix(columns, B)

\* What holds whatever the statements of threads do to each other.
DriverInv ==
  /\ TypeOK /\ WindowIsRows
  /\ ~WasOpened => ~isOpen /\ \A t \in Thread : pc[t] = "program"

\* A cursor off the screen is that of the start, which no VIEW PRINT has moved, or
\* that of a TAB without a stop.
CursorInv ==
  /\ x \in -1..columns \/ (x = columns + 1 /\ \E t \in Thread : pc[t] = "hung")
  /\ y \in -1..lines
  /\ x = -1 \/ y = -1 => winBottom = XyToConsoleMatrix(columns, lines)
  /\ ~WasOpened => x = 0 /\ y = 0

\* A thread that prints has the lock, and one that uses what it has read is alone
\* in a statement.
Alone(t) == \A u \in Thread \ {t} : pc[u] = "program"

StatementInv == \A t \in Thread :
  /\ pc[t] # "program" => isOpen
  /\ pc[t] \in {"print", "hung"} <=> consoleLock = t
  /\ pc[t] \in Reading => Alone(t)

\* What it has read is still so.
SeenInv == \A t \in Thread :
  /\ pc[t] = "top" => seen[t] = winTop
  /\ pc[t] = "bottom" => seen[t] = winBottom
  /\ pc[t] = "cls" => seen[t] = (winBottom + 1) - winTop
  /\ pc[t] = "column" => seen[t] = y
  /\ pc[t] = "row" => seen[t] = x

\* What holds until statements overlap.
Undisturbed == CursorInv /\ StatementInv /\ SeenInv

ScreenInv == DriverInv /\ Undisturbed

------------------------------------------------------------------------------
\* While the driver is open, or a statement is not ended, there is a window.
LEMMA OpenHasWindow ==
  ASSUME DriverInv, isOpen \/ \E t \in Thread : pc[t] # "program"
  PROVE  /\ WasOpened
         /\ \E T, B \in 0..lines : WindowAt(T, B)
BY DEF DriverInv, WindowIsRows, WindowAt

\* A window of whole rows has its bounds on the device.
LEMMA WindowTypes ==
  ASSUME NEW T \in 0..lines, NEW B \in 0..lines
  PROVE  /\ XyToConsoleMatrix(0, T) \in 0..(Size - 2)
         /\ XyToConsoleMatrix(columns, B) \in 0..(Size - 2)
         /\ XyToConsoleMatrix(columns, B) # 0
<1>1. 0 \in 0..columns /\ columns \in 0..columns /\ Size \in Nat
  BY RowFacts
<1>2. XyToConsoleMatrix(0, T) \in 4..(Size - 2) /\ XyToConsoleMatrix(columns, B) \in 4..(Size - 2)
  BY <1>1, CellPlace
<1> QED BY <1>1, <1>2

LEMMA SeekNat ==
  ASSUME at \in Nat, x \in Int, y \in Int
  PROVE  Seek \in Nat
<1>1. XyToConsoleMatrix(x, y) \in Int
  BY PlaceIs, RowStep
<1> QED BY <1>1 DEF Seek

\* The loop of a TAB ends at the first of its stops.
LEMMA NextStopIs ==
  ASSUME x \in Int, Stops # {}
  PROVE  /\ NextStop \in Stops /\ NextStop \in Int /\ x <= NextStop
         /\ \A j \in Stops : NextStop <= j
<1> DEFINE Steps == {i - x : i \in Stops}
<1>0. columns \in Nat /\ TabStop \in Nat \ {0}
  BY RowFacts, BoundAssumption
<1>1. \A i \in Stops : i \in Int /\ x <= i
  BY <1>0 DEF Stops
<1>2. Steps \subseteq Nat /\ Steps # {}
  BY <1>1
<1> HIDE DEF Steps
<1>3. \E m \in Steps : \A k \in Steps : ~(<<k, m>> \in OpToRel(<, Nat))
  BY <1>2, NatLessThanWellFounded, WFMin
<1>4. PICK m \in Steps : \A k \in Steps : ~(<<k, m>> \in OpToRel(<, Nat))
  BY <1>3
<1>5. \A k \in Steps : m <= k
  <2> SUFFICES ASSUME NEW k \in Steps, k < m PROVE FALSE
    BY <1>2
  <2>1. <<k, m>> \in OpToRel(<, Nat)
    BY <1>2 DEF OpToRel
  <2> QED BY <2>1, <1>4
<1>6. PICK i \in Stops : m = i - x
  BY <1>4 DEF Steps
<1>7. \A j \in Stops : i <= j
  <2> SUFFICES ASSUME NEW j \in Stops PROVE i <= j
    OBVIOUS
  <2>1. j - x \in Steps
    BY DEF Steps
  <2> QED BY <2>1, <1>1, <1>5, <1>6
<1>8. NextStop \in Stops /\ \A j \in Stops : NextStop <= j
  BY <1>7 DEF NextStop
<1> QED BY <1>1, <1>8

\* With the cursor on the screen it is in the rest of the row.
LEMMA NextStopOnRow ==
  ASSUME x \in -1..columns, Stops # {}
  PROVE  /\ NextStop \in (x + 1)..(columns + 1)
         /\ NextStop % TabStop = 0
         /\ \A d \in (x + 1)..(NextStop - 1) : d % TabStop # 0
<1>0. columns \in Nat /\ x \in Int
  BY RowFacts
<1>1. Stops = {i \in (x + 1)..(columns + 1) : i % TabStop = 0}
  BY <1>0 DEF Stops
<1>2. NextStop \in Stops /\ NextStop \in Int /\ \A j \in Stops : NextStop <= j
  BY <1>0, NextStopIs
<1>3. ASSUME NEW d \in (x + 1)..(NextStop - 1) PROVE d % TabStop # 0
  <2> SUFFICES ASSUME d % TabStop = 0 PROVE FALSE
    OBVIOUS
  <2>1. d \in Stops
    BY <1>0, <1>1, <1>2
  <2> QED BY <2>1, <1>0, <1>2
<1> QED BY <1>1, <1>2, <1>3

\* What PRINT puts on the device.
LEMMA CellsDev ==
  ASSUME TypeOK, NEW t \in Thread, NEW ch \in Byte, NEW n \in Nat
  PROVE  Written(vcsa, Seek, Cells(t, ch, n)) \in Dev
<1> DEFINE k == 2 * n
           bytes == Cells(t, ch, n)
           from == Seek
<1>1. attr[t] \in 0..15 /\ vcsa \in Dev /\ x \in Int /\ y \in Int /\ at \in Nat
  BY DEF TypeOK, Dev
<1>4. from \in Nat
  BY <1>1, SeekNat
<1>5. bytes \in [1..k -> Byte]
  BY <1>1, CellsAre
<1>2. k \in Nat /\ from \in Nat /\ bytes \in [1..k -> Byte]
  BY <1>4, <1>5
<1> HIDE DEF k, bytes, from
<1>3. Written(vcsa, from, bytes) \in Dev
  BY <1>1, <1>2, WrittenIs
<1> QED BY <1>3 DEF bytes, from

\* What CLS puts there, however many cells it has counted.
LEMMA BlanksDev ==
  ASSUME NEW dev \in Dev, NEW from \in Nat, NEW n \in Int, curColor \in 0..15
  PROVE  Written(dev, from, Blanks(n)) \in Dev
<1> DEFINE k == IF n < 0 THEN 0 ELSE n
<1>1. k \in Nat /\ 1..n = 1..k
  OBVIOUS
<1>2. Blanks(n) = Blanks(k)
  BY <1>1 DEF Blanks
<1> HIDE DEF k
<1> DEFINE bytes == Blanks(k)
<1>3. bytes \in [1..k -> Byte]
  BY <1>1, BlanksAre
<1> HIDE DEF bytes
<1>4. Written(dev, from, bytes) \in Dev
  BY <1>1, <1>3, WrittenIs
<1> QED BY <1>2, <1>4 DEF bytes

\* VIEW PRINT and LOCATE write the cursor of the device.
LEMMA CursorSet ==
  ASSUME NEW dev \in Dev, NEW i \in Int, NEW j \in Int, SetCursorXY(i, j, dev)
  PROVE  vcsa' \in Dev /\ TextOf(vcsa') = TextOf(dev) /\ x' = i /\ y' = j /\ at' = 4
BY CursorWritten DEF SetCursorXY

------------------------------------------------------------------------------
\* The types of the cursor and the device: every write is on the device.
DeviceOK == x \in Int /\ y \in Int /\ vcsa \in Dev /\ at \in Nat

LEMMA GoesToTypes ==
  ASSUME NEW T, NEW B, WindowAt(T, B), curColor \in 0..15,
         NEW i \in Int, NEW j \in Int, NEW dev \in Dev, NEW k \in Nat, GoesTo(i, j, dev, k)
  PROVE  DeviceOK'
<1>1. T \in 0..lines /\ B \in 0..lines /\ T <= B /\ columns \in 0..columns
  BY RowFacts DEF WindowAt
<1>2. ConsoleMatrixToY(winBottom) = B /\ B \in Int /\ winBottom + 2 \in Nat
  <2>1. ConsoleMatrixToY(winBottom) = B /\ winBottom \in 4..(Size - 2)
    BY <1>1, CellPlace DEF WindowAt
  <2> QED BY <1>1, <2>1, RowFacts
<1>3. Scrolled(dev, winTop, winBottom) \in Dev
  BY <1>1, ScrolledIs DEF WindowAt
<1> QED BY <1>1, <1>2, <1>3 DEF GoesTo, DeviceOK

LEMMA PrintCharTypes ==
  ASSUME DriverInv, NEW t \in Thread, PrintChar(t)
  PROVE  DeviceOK' /\ (pc' = pc \/ pc' = [pc EXCEPT ![t] = "hung"])
<1> DEFINE ch == Head(str[t])
<1>1. PICK T \in 0..lines, B \in 0..lines : WindowAt(T, B)
  BY OpenHasWindow DEF PrintChar
<1>2. /\ columns \in Nat /\ lines \in Nat /\ x \in Int /\ y \in Int /\ at \in Nat
      /\ vcsa \in Dev /\ curColor \in 0..15 /\ Space \in Byte /\ TypeOK
  <2>1. Space \in Byte
    BY DEF Space, Byte
  <2> QED BY <2>1, RowFacts DEF DriverInv, TypeOK, Dev
<1>3. Seek \in Nat
  BY <1>2, SeekNat
<1>4. ASSUME NEW i \in Int, NEW dev \in Dev, NEW k \in Nat, WrapsTo(i, dev, k)
      PROVE  DeviceOK'
  <2>1. y + 1 \in Int /\ 0 \in Int
    BY <1>2
  <2> QED BY <1>1, <1>2, <1>4, <2>1, GoesToTypes DEF WrapsTo
<1>5. CASE PrintLetter(t, ch)
  <2>1. ch \in Byte /\ 1 \in Nat
    BY <1>5, TextAssumption DEF PrintLetter
  <2> DEFINE dev == Written(vcsa, Seek, Cells(t, ch, 1))
             k == Seek + 2
             i == x + 1
  <2>2. dev \in Dev
    BY <1>2, <2>1, CellsDev
  <2>3. i \in Int /\ k \in Nat /\ WrapsTo(i, dev, k)
    BY <1>2, <1>3, <1>5 DEF PrintLetter
  <2> HIDE DEF dev, i, k
  <2> QED BY <1>4, <1>5, <2>2, <2>3 DEF PrintLetter
<1>6. CASE PrintNewLine(ch)
  <2> DEFINE j == IF Below(0, y + 1) THEN ConsoleMatrixToY(winBottom) ELSE y + 1
             dev == IF Below(0, y + 1) THEN Scrolled(vcsa, winTop, winBottom) ELSE vcsa
  <2>1. /\ ConsoleMatrixToY(winBottom) \in Int /\ Scrolled(vcsa, winTop, winBottom) \in Dev
    <3>1. /\ columns \in 0..columns /\ T <= B /\ B \in Int
          /\ winTop = XyToConsoleMatrix(0, T) /\ winBottom = XyToConsoleMatrix(columns, B)
      BY <1>1, <1>2 DEF WindowAt
    <3>2. ConsoleMatrixToY(winBottom) = B
      BY <3>1, CellPlace
    <3>3. Scrolled(vcsa, winTop, winBottom) \in Dev
      BY <1>2, <3>1, ScrolledIs
    <3> QED BY <3>1, <3>2, <3>3
  <2>2. j \in Int /\ dev \in Dev /\ 0 \in Int
    BY <1>2, <2>1
  <2>3. SetCursorXY(0, j, dev)
    BY <1>6 DEF PrintNewLine
  <2> HIDE DEF j, dev
  <2> QED BY <1>6, <2>2, <2>3, CursorSet DEF PrintNewLine, DeviceOK
<1>7. CASE PrintTab(t, ch) /\ Stops = {}
  <2>1. Rest \in Nat
    BY <1>2 DEF Rest
  <2>2. Written(vcsa, Seek, Cells(t, Space, Rest)) \in Dev
    BY <1>2, <2>1, CellsDev
  <2>3. Seek + 2 * Rest \in Nat /\ x + Rest \in Int
    BY <1>2, <1>3, <2>1
  <2> QED BY <1>2, <1>7, <2>2, <2>3 DEF PrintTab, DeviceOK
<1>8. CASE PrintTab(t, ch) /\ Stops # {}
  <2> DEFINE n == NextStop - x
             dev == Written(vcsa, Seek, Cells(t, Space, n))
             k == Seek + 2 * n
             i == NextStop
  <2>1. NextStop \in Int /\ x <= NextStop
    BY <1>2, <1>8, NextStopIs
  <2>2. n \in Nat /\ k \in Nat /\ i \in Int /\ WrapsTo(i, dev, k)
    BY <1>2, <1>3, <1>8, <2>1 DEF PrintTab
  <2> HIDE DEF n
  <2>3. dev \in Dev
    BY <1>2, <2>2, CellsDev
  <2> HIDE DEF dev, i, k
  <2> QED BY <1>4, <1>8, <2>2, <2>3 DEF PrintTab
<1>9. CASE PrintBeep(ch)
  BY <1>2, <1>3, <1>4, <1>9 DEF PrintBeep
<1> QED BY <1>5, <1>6, <1>7, <1>8, <1>9 DEF PrintChar

\* Every step of the driver keeps the types: those of the cursor and the device,
\* and those of what goes with the threads.
LEMMA DeviceStep ==
  ASSUME DriverInv, [Next]_vars
  PROVE  DeviceOK'
<1>0. /\ DeviceOK /\ TypeOK /\ columns \in Nat /\ lines \in Nat
      /\ vcsa \in Dev /\ x \in Int /\ y \in Int /\ curColor \in 0..15
  BY RowFacts DEF DriverInv, TypeOK, DeviceOK, Dev
<1>1. CASE UNCHANGED <<x, y, vcsa, at>>
  BY <1>0, <1>1 DEF DeviceOK
<1>2. ASSUME NEW i \in Int, NEW j \in Int, NEW dev \in Dev, SetCursorXY(i, j, dev)
      PROVE  DeviceOK'
  BY <1>2, CursorSet DEF DeviceOK
<1>3. CASE Open
  BY <1>0, <1>3 DEF Open, DeviceOK
<1>4. ASSUME NEW t \in Thread, Proceeds(t)
      PROVE  DeviceOK'
  <2>1. CASE PrintEnd(t)
    BY <1>0, <1>2, <2>1 DEF PrintEnd
  <2>2. CASE ClsSize(t)
    BY <1>1, <2>2 DEF ClsSize
  <2>3. CASE ClsEnd(t)
    <3>1. PICK T \in 0..lines, B \in 0..lines : WindowAt(T, B)
      BY <2>3, OpenHasWindow DEF ClsEnd
    <3>2. 0 \in 0..columns /\ winTop = XyToConsoleMatrix(0, T)
      BY <1>0, <3>1 DEF WindowAt
    <3>3. ConsoleMatrixToX(winTop) = 0 /\ ConsoleMatrixToY(winTop) = T
          /\ winTop \in 4..(Size - 2)
      BY <3>2, CellPlace
    <3> DEFINE dev == Written(vcsa, winTop, Blanks(seen[t]))
    <3>4. dev \in Dev
      BY <1>0, <3>3, RowFacts, BlanksDev DEF TypeOK
    <3>5. SetCursorXY(0, T, dev)
      BY <2>3, <3>3 DEF ClsEnd
    <3> HIDE DEF dev
    <3> QED BY <1>2, <3>4, <3>5
  <2>4. CASE LocateEnd(t)
    <3>1. seen[t] \in Int
      BY <1>0 DEF TypeOK
    <3> QED BY <1>0, <1>2, <2>4, <3>1 DEF LocateEnd
  <2> QED BY <1>4, <2>1, <2>2, <2>3, <2>4, PrintCharTypes DEF Proceeds
<1>5. ASSUME NEW t \in Thread, Begins(t)
      PROVE  DeviceOK'
  <2>1. ASSUME NEW top \in 0..lines, NEW bottom \in 0..lines, ViewPrint(t, top, bottom)
        PROVE  DeviceOK'
    BY <1>0, <1>2, <2>1 DEF ViewPrint
  <2>2. CASE ViewPrintAll(t)
    BY <1>0, <1>2, <2>2 DEF ViewPrintAll
  <2>3. ASSUME NEW i \in 0..columns, NEW j \in 0..lines, Locate(t, i, j)
        PROVE  DeviceOK'
    BY <1>0, <1>2, <2>3 DEF Locate
  <2>4. CASE (\E s \in Texts : PrintText(t, s)) \/ ClsBegin(t) \/ (\E c \in Color : SetColor(t, c))
             \/ LocateOne(t, "column") \/ LocateOne(t, "row")
    BY <1>1, <2>4 DEF PrintText, ClsBegin, SetColor, LocateOne
  <2> QED BY <1>5, <2>1, <2>2, <2>3, <2>4 DEF Begins
<1>6. ASSUME NEW t \in Thread, Deinit(t)
      PROVE  DeviceOK'
  <2>1. CASE y >= lines
    <3> DEFINE dev == Scrolled(vcsa, winTop', winBottom')
    <3>1. /\ winTop' = XyToConsoleMatrix(0, 0)
          /\ winBottom' = XyToConsoleMatrix(columns, lines)
          /\ SetCursorXY(0, lines, dev)
      BY <1>6, <2>1 DEF Deinit
    <3>2. dev \in Dev
      <4>1. 0 \in 0..lines /\ lines \in 0..lines /\ 0 <= lines
        BY <1>0
      <4>2. dev = Scrolled(vcsa, XyToConsoleMatrix(0, 0), XyToConsoleMatrix(columns, lines))
        BY <3>1
      <4> DEFINE T == 0
                 B == lines
      <4>3. /\ dev = Scrolled(vcsa, XyToConsoleMatrix(0, T), XyToConsoleMatrix(columns, B))
            /\ T \in 0..lines /\ B \in 0..lines /\ T <= B
        BY <4>1, <4>2
      <4> HIDE DEF dev, T, B
      <4> QED BY <1>0, <4>3, ScrolledIs
    <3> HIDE DEF dev
    <3> QED BY <1>0, <1>2, <3>1, <3>2
  <2>2. CASE ~(y >= lines)
    BY <1>0, <1>2, <1>6, <2>2 DEF Deinit
  <2> QED BY <2>1, <2>2
<1> QED BY <1>1, <1>3, <1>4, <1>5, <1>6 DEF Next, vars

\* What a thread may read of the cursor are integers.
LEMMA SeenTypes ==
  ASSUME TypeOK
  PROVE  SeenX \subseteq Int /\ SeenY \subseteq Int
<1>1. x \in Int /\ y \in Int
  BY DEF TypeOK
<1>2. ASSUME NEW t \in InIteration
      PROVE  Passing(t) \subseteq Int
  BY <1>1 DEF Passing
<1> QED BY <1>1, <1>2 DEF SeenX, SeenY

LEMMA ThreadStep ==
  ASSUME DriverInv, [Next]_vars
  PROVE  /\ isOpen' \in BOOLEAN /\ consoleLock' \in Thread \union {Nobody}
         /\ pc' \in [Thread -> {"program", "print", "hung"} \union Reading]
         /\ str' \in [Thread -> Seq(Letter \union {BEEP, TAB, NL, CR})]
         /\ attr' \in [Thread -> 0..15] /\ curColor' \in 0..15
         /\ seen' \in [Thread -> Int]
         /\ overlapped' \in BOOLEAN /\ calls' \in 0..MaxCalls
<1> DEFINE Goal ==
         /\ isOpen' \in BOOLEAN /\ consoleLock' \in Thread \union {Nobody}
         /\ pc' \in [Thread -> {"program", "print", "hung"} \union Reading]
         /\ str' \in [Thread -> Seq(Letter \union {BEEP, TAB, NL, CR})]
         /\ attr' \in [Thread -> 0..15] /\ curColor' \in 0..15
         /\ seen' \in [Thread -> Int]
         /\ overlapped' \in BOOLEAN /\ calls' \in 0..MaxCalls
<1>0. TypeOK /\ x \in Int /\ y \in Int /\ winTop \in Int /\ winBottom \in Int
  BY RowFacts DEF DriverInv, TypeOK
<1>1. CASE UNCHANGED vars
  BY <1>0, <1>1 DEF TypeOK, vars
<1>2. CASE Open
  BY <1>0, <1>2 DEF TypeOK, Open
<1>3. ASSUME NEW t \in Thread, Proceeds(t)
      PROVE  Goal
  <2>1. CASE PrintChar(t)
    <3>1. str' \in [Thread -> Seq(Letter \union {BEEP, TAB, NL, CR})]
      <4>1. str[t] \in Seq(Letter \union {BEEP, TAB, NL, CR}) /\ str[t] # <<>>
        BY <1>0, <2>1 DEF TypeOK, PrintChar
      <4>2. Tail(str[t]) \in Seq(Letter \union {BEEP, TAB, NL, CR})
        BY <4>1, HeadTailProperties
      <4> QED BY <1>0, <2>1, <4>2 DEF TypeOK, PrintChar
    <3>2. pc' = pc \/ pc' = [pc EXCEPT ![t] = "hung"]
      BY <2>1, PrintCharTypes
    <3> QED BY <1>0, <2>1, <3>1, <3>2 DEF TypeOK, PrintChar
  <2>2. CASE PrintEnd(t)
    BY <1>0, <2>2 DEF TypeOK, PrintEnd
  <2>3. CASE ClsSize(t)
    <3>1. seen[t] \in Int
      BY <1>0 DEF TypeOK
    <3>2. seen' \in [Thread -> Int]
      BY <1>0, <2>3, <3>1 DEF TypeOK, ClsSize
    <3> QED BY <1>0, <2>3, <3>2 DEF TypeOK, ClsSize, Reading
  <2>4. CASE ClsEnd(t)
    BY <1>0, <2>4 DEF TypeOK, ClsEnd
  <2>5. CASE LocateEnd(t)
    BY <1>0, <2>5 DEF TypeOK, LocateEnd
  <2> QED BY <1>3, <2>1, <2>2, <2>3, <2>4, <2>5 DEF Proceeds
<1>4. ASSUME NEW t \in Thread, Begins(t)
      PROVE  Goal
  <2>0. ASSUME NEW some, Meets(some)
        PROVE  overlapped' \in BOOLEAN
    BY <2>0 DEF Meets
  <2>1. ASSUME Calls(t)
        PROVE  calls' \in 0..MaxCalls /\ isOpen' \in BOOLEAN
    BY <1>0, <2>1, BoundAssumption DEF TypeOK, Calls
  <2>2. ASSUME NEW s \in Texts, PrintText(t, s)
        PROVE  Goal
    <3>1. str' \in [Thread -> Seq(Letter \union {BEEP, TAB, NL, CR})]
      BY <1>0, <2>2, TextAssumption DEF TypeOK, PrintText
    <3>2. attr' \in [Thread -> 0..15]
      BY <1>0, <2>2 DEF TypeOK, PrintText
    <3> QED BY <1>0, <2>0, <2>1, <2>2, <3>1, <3>2 DEF TypeOK, PrintText
  <2>3. CASE ClsBegin(t)
    <3>1. pc' \in [Thread -> {"program", "print", "hung"} \union Reading]
      BY <1>0, <2>3 DEF TypeOK, ClsBegin, Reading
    <3>2. seen' \in [Thread -> Int]
      BY <1>0, <2>3 DEF TypeOK, ClsBegin
    <3> QED BY <1>0, <2>0, <2>1, <2>3, <3>1, <3>2 DEF TypeOK, ClsBegin, ReadsUnlocked
  <2>4. ASSUME NEW c \in Color, SetColor(t, c)
        PROVE  Goal
    BY <1>0, <2>0, <2>1, <2>4, TextAssumption DEF TypeOK, SetColor
  <2>5. ASSUME NEW top \in 0..lines, NEW bottom \in 0..lines, ViewPrint(t, top, bottom)
        PROVE  Goal
    BY <1>0, <2>0, <2>1, <2>5 DEF TypeOK, ViewPrint
  <2>6. CASE ViewPrintAll(t)
    BY <1>0, <2>0, <2>1, <2>6 DEF TypeOK, ViewPrintAll
  <2>7. ASSUME NEW i \in 0..columns, NEW j \in 0..lines, Locate(t, i, j)
        PROVE  Goal
    BY <1>0, <2>0, <2>1, <2>7 DEF TypeOK, Locate
  <2>8. ASSUME NEW what \in {"column", "row"}, LocateOne(t, what)
        PROVE  Goal
    <3>1. PICK k \in Int : seen' = [seen EXCEPT ![t] = k]
      BY <1>0, <2>8, SeenTypes DEF LocateOne
    <3>2. seen' \in [Thread -> Int]
      BY <1>0, <3>1 DEF TypeOK
    <3>3. pc' \in [Thread -> {"program", "print", "hung"} \union Reading]
      BY <1>0, <2>8 DEF TypeOK, LocateOne, Reading
    <3> QED BY <1>0, <2>0, <2>1, <2>8, <3>2, <3>3 DEF TypeOK, LocateOne, ReadsUnlocked
  <2> QED BY <1>4, <2>2, <2>3, <2>4, <2>5, <2>6, <2>7, <2>8 DEF Begins
<1>5. ASSUME NEW t \in Thread, Deinit(t)
      PROVE  Goal
  BY <1>0, <1>5 DEF TypeOK, Deinit, Meets
<1> QED BY <1>1, <1>2, <1>3, <1>4, <1>5 DEF Next

\* The window is set to whole rows, or left alone; what opens the driver sets it.
LEMMA WindowStep ==
  ASSUME DriverInv, [Next]_vars
  PROVE  /\ WindowIsRows'
         /\ winTop' \in 0..(Size - 2) /\ winBottom' \in 0..(Size - 2)
         /\ WasOpened => WasOpened'
         /\ ~WasOpened' => ~isOpen' /\ \A t \in Thread : pc'[t] = "program"
<1> DEFINE Goal ==
         /\ WindowIsRows'
         /\ winTop' \in 0..(Size - 2) /\ winBottom' \in 0..(Size - 2)
         /\ WasOpened => WasOpened'
         /\ ~WasOpened' => ~isOpen' /\ \A t \in Thread : pc'[t] = "program"
<1>0. /\ 0 \in 0..lines /\ lines \in 0..lines /\ 0 <= lines
      /\ winTop \in 0..(Size - 2) /\ winBottom \in 0..(Size - 2)
  BY RowFacts DEF DriverInv, TypeOK
<1>1. ASSUME UNCHANGED window, WasOpened \/ UNCHANGED <<isOpen, pc>>
      PROVE  Goal
  BY <1>0, <1>1 DEF DriverInv, WindowIsRows, WasOpened, window
<1>2. ASSUME NEW T \in 0..lines, NEW B \in 0..lines, T <= B,
             winTop' = XyToConsoleMatrix(0, T), winBottom' = XyToConsoleMatrix(columns, B)
      PROVE  Goal
  BY <1>2, WindowTypes DEF WindowIsRows, WasOpened
<1>3. CASE Open
  BY <1>0, <1>2, <1>3 DEF Open
<1>4. ASSUME NEW t \in Thread, Begins(t)
      PROVE  Goal
  <2>0. WasOpened
    BY <1>4, OpenHasWindow
       DEF Begins, PrintText, ClsBegin, SetColor, ViewPrint, ViewPrintAll, Locate, LocateOne,
           ReadsUnlocked, Calls
  <2>1. ASSUME NEW T \in 0..lines, NEW B \in 0..lines, ViewPrint(t, T, B)
        PROVE  Goal
    BY <1>2, <2>1 DEF ViewPrint
  <2>2. CASE ViewPrintAll(t)
    BY <1>0, <1>2, <2>2 DEF ViewPrintAll
  <2>3. CASE UNCHANGED window
    BY <1>1, <2>0, <2>3
  <2> QED BY <1>4, <2>1, <2>2, <2>3
        DEF Begins, PrintText, ClsBegin, SetColor, Locate, LocateOne
<1>5. ASSUME NEW t \in Thread, Proceeds(t)
      PROVE  Goal
  <2>1. pc[t] # "program"
    BY <1>5 DEF Proceeds, PrintChar, PrintEnd, ClsSize, ClsEnd, LocateEnd
  <2>2. WasOpened
    BY <2>1, OpenHasWindow
  <2>3. UNCHANGED window
    BY <1>5 DEF Proceeds, PrintChar, PrintEnd, ClsSize, ClsEnd, LocateEnd, window
  <2> QED BY <1>1, <2>2, <2>3
<1>6. ASSUME NEW t \in Thread, Deinit(t)
      PROVE  Goal
  <2>1. WasOpened
    BY <1>6, OpenHasWindow DEF Deinit
  <2>2. CASE UNCHANGED window
    BY <1>1, <2>1, <2>2
  <2> QED BY <1>0, <1>2, <1>6, <2>2 DEF Deinit
<1>7. CASE UNCHANGED vars
  BY <1>1, <1>7 DEF vars, window
<1> QED BY <1>3, <1>4, <1>5, <1>6, <1>7 DEF Next

LEMMA DriverStep ==
  ASSUME DriverInv, [Next]_vars
  PROVE  DriverInv'
<1>1. TypeOK'
  BY DeviceStep, ThreadStep, WindowStep DEF TypeOK, DeviceOK, Dev
<1> QED BY <1>1, WindowStep DEF DriverInv

LEMMA DriverInit == Init => DriverInv
<1> SUFFICES ASSUME Init PROVE DriverInv
  OBVIOUS
<1>0. columns \in Nat /\ lines \in Nat /\ Size \in Nat /\ Size >= 4
  <2>1. RowStart(lines + 1) \in Nat
    BY RowFacts, RowNat
  <2> QED BY <2>1, RowFacts
<1>1. Size - 2 \in Nat
  BY <1>0
<1>2. TypeOK
  <2>1. str \in [Thread -> Seq(Letter \union {BEEP, TAB, NL, CR})]
    BY DEF Init
  <2>2. vcsa \in [0..(Size - 1) -> Byte]
    BY TextAssumption DEF Init
  <2>3. /\ x \in Int /\ y \in Int
        /\ winTop \in 0..(Size - 2) /\ winBottom \in 0..(Size - 2)
    BY <1>0, <1>1 DEF Init
  <2>4. /\ pc \in [Thread -> {"program", "print", "hung"} \union Reading]
        /\ attr \in [Thread -> 0..15] /\ seen \in [Thread -> Int]
    BY DEF Init
  <2>5. curColor \in 0..15 /\ at \in Nat /\ calls \in 0..MaxCalls
    BY BoundAssumption DEF Init
  <2>6. overlapped \in BOOLEAN
    BY DEF Init
  <2> QED BY <2>1, <2>2, <2>3, <2>4, <2>5, <2>6 DEF Init, TypeOK
<1> QED BY <1>2 DEF Init, DriverInv, WindowIsRows, WasOpened

------------------------------------------------------------------------------
\* Where the cursor and the device are after a character that leads to column i.
Lands(i, dev, B) ==
  LET r == IF i > columns THEN y + 1 ELSE y
  IN /\ x' = IF i > columns THEN 0 ELSE i
     /\ y' = IF r > B THEN B ELSE r
     /\ vcsa' = IF r > B THEN Scrolled(dev, winTop, winBottom) ELSE dev

LEMMA WrapsToLands ==
  ASSUME CursorInv, x \in -1..columns, NEW T, NEW B, WindowAt(T, B), curColor \in 0..15,
         NEW i \in x..(columns + 1), NEW dev \in Dev, NEW k \in Nat, WrapsTo(i, dev, k)
  PROVE  /\ Lands(i, dev, B)
         /\ x' \in -1..columns /\ y' \in -1..lines
         /\ x' = -1 => x = -1
         /\ y' = -1 => y = -1
         /\ vcsa' \in Dev /\ at' \in Nat
<1>0. /\ columns \in Nat /\ lines \in Nat /\ T \in 0..lines /\ B \in 0..lines
      /\ x \in -1..columns /\ y \in -1..lines /\ i \in Int /\ x <= i /\ i <= columns + 1
  BY RowFacts DEF WindowAt, CursorInv
<1>1. ConsoleMatrixToY(winBottom) = B
  BY <1>0, CellPlace DEF WindowAt
<1>2. /\ Scrolled(dev, winTop, winBottom) \in Dev
      /\ winBottom + 2 \in Nat
  <2>1. Scrolled(dev, winTop, winBottom) \in Dev
    BY <1>0, ScrolledIs DEF WindowAt
  <2>2. winBottom \in 4..(Size - 2) /\ Size \in Nat
    BY <1>0, CellPlace, RowFacts DEF WindowAt
  <2> QED BY <2>1, <2>2
<1>3. CASE i > columns
  <2>1. GoesTo(0, y + 1, dev, k)
    BY <1>3 DEF WrapsTo
  <2>2. 0 \in -1..columns /\ y + 1 \in Int /\ winBottom = XyToConsoleMatrix(columns, B)
    BY <1>0 DEF WindowAt
  <2>3. Below(0, y + 1) <=> y + 1 > B
    BY <1>0, <2>2, BelowIs
  <2>4. Lands(i, dev, B)
    BY <1>1, <1>3, <2>1, <2>3 DEF GoesTo, Lands
  <2>5. vcsa' \in Dev /\ at' \in Nat
    BY <1>2, <2>1 DEF GoesTo
  <2> QED BY <1>0, <1>3, <2>4, <2>5 DEF Lands
<1>4. CASE i <= columns
  <2>1. GoesTo(i, y, dev, k)
    BY <1>0, <1>4 DEF WrapsTo
  <2>2. i \in -1..columns /\ y \in Int /\ winBottom = XyToConsoleMatrix(columns, B)
    BY <1>0, <1>4 DEF WindowAt
  <2>3. /\ i >= 0 => (Below(i, y) <=> y > B)
        /\ y <= B => ~Below(i, y)
    BY <1>0, <2>2, BelowIs
  <2>4. i < 0 => y <= B
    <3> SUFFICES ASSUME i < 0 PROVE y <= B
      OBVIOUS
    <3>1. x = -1
      BY <1>0
    <3>2. XyToConsoleMatrix(columns, B) = XyToConsoleMatrix(columns, lines)
      BY <3>1 DEF CursorInv, WindowAt
    <3>3. columns \in 0..columns /\ lines \in 0..lines
      BY <1>0
    <3>4. B = lines
      BY <3>2, <3>3, <1>0, CellPlace
    <3> QED BY <3>4, <1>0
  <2>5. Below(i, y) <=> y > B
    BY <2>3, <2>4, <1>0
  <2>6. Lands(i, dev, B)
    BY <1>0, <1>1, <1>4, <2>1, <2>5 DEF GoesTo, Lands
  <2>7. vcsa' \in Dev /\ at' \in Nat
    BY <1>2, <2>1 DEF GoesTo
  <2> QED BY <1>0, <1>4, <2>6, <2>7 DEF Lands
<1> QED BY <1>0, <1>3, <1>4

\* What a character of PRINT does to the cursor and the device.
Effect(t, ch, B) ==
  \/ /\ ch \in Letter /\ UNCHANGED pc
     /\ Lands(x + 1, Written(vcsa, Seek, Cells(t, ch, 1)), B)
  \/ /\ ch \in {CR, NL} /\ UNCHANGED pc
     /\ x' = 0
     /\ y' = IF y + 1 > B THEN B ELSE y + 1
     /\ TextOf(vcsa') = TextOf(IF y + 1 > B THEN Scrolled(vcsa, winTop, winBottom) ELSE vcsa)
  \/ /\ ch = TAB /\ Stops = {}
     /\ pc' = [pc EXCEPT ![t] = "hung"]
     /\ x' = columns + 1 /\ y' = y
     /\ vcsa' = Written(vcsa, Seek, Cells(t, Space, (columns + 1) - x))
  \/ /\ ch = TAB /\ Stops # {} /\ UNCHANGED pc
     /\ Lands(NextStop, Written(vcsa, Seek, Cells(t, Space, NextStop - x)), B)
  \/ /\ ch = BEEP /\ UNCHANGED pc
     /\ Lands(x, vcsa, B)

LEMMA PrintCharIs ==
  ASSUME TypeOK, CursorInv, x \in -1..columns,
         NEW T, NEW B, WindowAt(T, B), NEW t \in Thread, PrintChar(t)
  PROVE  /\ Effect(t, Head(str[t]), B)
         /\ \/ x' \in -1..columns
            \/ x' = columns + 1 /\ pc' = [pc EXCEPT ![t] = "hung"]
         /\ y' \in -1..lines
         /\ x' = -1 => x = -1
         /\ y' = -1 => y = -1
<1> DEFINE ch == Head(str[t])
           Kept == /\ x' \in -1..columns /\ y' \in -1..lines
                   /\ x' = -1 => x = -1
                   /\ y' = -1 => y = -1
<1>0. /\ columns \in Nat /\ lines \in Nat /\ T \in 0..lines /\ B \in 0..lines
      /\ x \in -1..columns /\ y \in -1..lines /\ curColor \in 0..15
      /\ vcsa \in Dev /\ at \in Nat
  BY RowFacts DEF WindowAt, CursorInv, TypeOK, Dev
<1>1. Seek \in Nat
  BY <1>0, SeekNat
<1>2. CASE PrintLetter(t, ch)
  <2>1. ch \in Byte
    BY <1>2, TextAssumption DEF PrintLetter
  <2>2. Written(vcsa, Seek, Cells(t, ch, 1)) \in Dev
    BY <2>1, CellsDev
  <2>3. x + 1 \in x..(columns + 1) /\ Seek + 2 \in Nat
    BY <1>0, <1>1
  <2>4. WrapsTo(x + 1, Written(vcsa, Seek, Cells(t, ch, 1)), Seek + 2)
    BY <1>2 DEF PrintLetter
  <2> HIDE DEF ch
  <2>5. Lands(x + 1, Written(vcsa, Seek, Cells(t, ch, 1)), B) /\ Kept
    BY <1>0, <2>2, <2>3, <2>4, WrapsToLands
  <2>6. ch \in Letter /\ UNCHANGED pc
    BY <1>2 DEF PrintLetter
  <2>7. Effect(t, ch, B)
    BY <2>5, <2>6 DEF Effect
  <2> QED BY <2>5, <2>7 DEF ch
<1>3. CASE PrintNewLine(ch)
  <2> DEFINE j == IF y + 1 > B THEN B ELSE y + 1
             dev == IF y + 1 > B THEN Scrolled(vcsa, winTop, winBottom) ELSE vcsa
  <2>1. Below(0, y + 1) <=> y + 1 > B
    <3>1. 0 \in -1..columns /\ y + 1 \in Int /\ winBottom = XyToConsoleMatrix(columns, B)
      BY <1>0 DEF WindowAt
    <3> QED BY <1>0, <3>1, BelowIs
  <2>2. ConsoleMatrixToY(winBottom) = B
    BY <1>0, CellPlace DEF WindowAt
  <2>3. SetCursorXY(0, j, dev)
    BY <1>3, <2>1, <2>2 DEF PrintNewLine
  <2>4. dev \in Dev /\ j \in 0..lines
    <3>1. Scrolled(vcsa, winTop, winBottom) \in Dev
      BY <1>0, ScrolledIs DEF WindowAt
    <3> QED BY <3>1, <1>0
  <2> HIDE DEF j, dev
  <2>5. vcsa' = Written(dev, 2, <<0 % 256, j % 256>>) /\ x' = 0 /\ y' = j /\ at' = 4
    BY <2>3 DEF SetCursorXY
  <2>6. vcsa' \in Dev /\ TextOf(vcsa') = TextOf(dev)
    BY <2>4, <2>5, CursorWritten
  <2>7. Effect(t, ch, B)
    BY <1>3, <2>5, <2>6 DEF Effect, PrintNewLine, j, dev
  <2> QED BY <2>4, <2>5, <2>6, <2>7, <1>0
<1>4. CASE PrintTab(t, ch) /\ Stops = {}
  <2>1. Rest = (columns + 1) - x /\ x + Rest = columns + 1
    BY <1>0 DEF Rest
  <2> HIDE DEF ch
  <2>2. /\ x' = columns + 1 /\ y' = y /\ pc' = [pc EXCEPT ![t] = "hung"]
        /\ vcsa' = Written(vcsa, Seek, Cells(t, Space, (columns + 1) - x))
    BY <1>4, <2>1 DEF PrintTab
  <2>3. Effect(t, ch, B)
    BY <1>4, <2>2 DEF PrintTab, Effect
  <2> QED BY <1>0, <2>2, <2>3 DEF ch
<1>5. CASE PrintTab(t, ch) /\ Stops # {}
  <2> DEFINE n == NextStop - x
  <2>1. NextStop \in (x + 1)..(columns + 1)
    BY <1>0, <1>5, NextStopOnRow
  <2>2. /\ NextStop \in x..(columns + 1) /\ n \in Nat /\ Seek + 2 * n \in Nat
    BY <1>0, <1>1, <2>1
  <2>3. WrapsTo(NextStop, Written(vcsa, Seek, Cells(t, Space, n)), Seek + 2 * n)
    BY <1>5 DEF PrintTab
  <2>4. Space \in Byte
    BY DEF Space, Byte
  <2>5. Written(vcsa, Seek, Cells(t, Space, n)) \in Dev
    BY <2>2, <2>4, CellsDev
  <2> HIDE DEF n
  <2>6. Lands(NextStop, Written(vcsa, Seek, Cells(t, Space, n)), B) /\ Kept
    BY <1>0, <2>2, <2>3, <2>5, WrapsToLands
  <2>7. Effect(t, ch, B)
    BY <1>5, <2>6 DEF Effect, PrintTab, n
  <2> QED BY <2>6, <2>7
<1>6. CASE PrintBeep(ch)
  <2>1. WrapsTo(x, vcsa, Seek) /\ x \in x..(columns + 1)
    BY <1>0, <1>6 DEF PrintBeep
  <2>2. Lands(x, vcsa, B) /\ Kept
    BY <1>0, <1>1, <2>1, WrapsToLands
  <2>3. Effect(t, ch, B)
    BY <1>6, <2>2 DEF Effect, PrintBeep
  <2> QED BY <2>2, <2>3
<1> QED BY <1>2, <1>3, <1>4, <1>5, <1>6 DEF PrintChar

------------------------------------------------------------------------------
LEMMA UndisturbedInit == Init => Undisturbed
<1> SUFFICES ASSUME Init PROVE Undisturbed
  OBVIOUS
<1>0. columns \in Nat /\ lines \in Nat
  BY RowFacts
<1>1. CursorInv
  BY <1>0 DEF Init, CursorInv, WasOpened
<1>2. StatementInv /\ SeenInv
  BY NobodyAssumption DEF Init, StatementInv, SeenInv, Alone, Reading
<1> QED BY <1>1, <1>2 DEF Undisturbed

\* Who has the lock, may take it or is about to use what it has read finds the
\* cursor on its row: no TAB is without an end.
LEMMA OnRow ==
  ASSUME ScreenInv, NEW t \in Thread,
         pc[t] = "print" \/ pc[t] \in Reading \/ (pc[t] = "program" /\ Free(t))
  PROVE  x \in -1..columns /\ \A u \in Thread : pc[u] # "hung"
<1>1. \A u \in Thread : pc[u] # "hung"
  BY NobodyAssumption DEF ScreenInv, Undisturbed, StatementInv, Alone, Free, Reading
<1> QED BY <1>1 DEF ScreenInv, Undisturbed, CursorInv

LEMMA OpenKeeps ==
  ASSUME ScreenInv, Open
  PROVE  Undisturbed'
<1>0. /\ columns \in Nat /\ lines \in Nat /\ lines \in 0..lines
  BY RowFacts
<1>1. winBottom' = XyToConsoleMatrix(columns, lines) /\ winBottom' # 0
  BY <1>0, WindowTypes DEF Open
<1>2. CursorInv'
  BY <1>0, <1>1 DEF Open, CursorInv, WasOpened
<1>3. \A t \in Thread : pc[t] = "program"
  BY DEF ScreenInv, DriverInv, Open
<1>4. StatementInv' /\ SeenInv'
  BY <1>3 DEF ScreenInv, Undisturbed, StatementInv, SeenInv, Open, Alone, Reading
<1> QED BY <1>2, <1>4 DEF Undisturbed

LEMMA PrintKeeps ==
  ASSUME ScreenInv, NEW t \in Thread, PrintChar(t)
  PROVE  Undisturbed'
<1>1. pc[t] = "print" /\ x \in -1..columns /\ TypeOK /\ CursorInv
  BY OnRow DEF ScreenInv, DriverInv, Undisturbed, PrintChar
<1>2. PICK T \in 0..lines, B \in 0..lines : WindowAt(T, B)
  BY <1>1, OpenHasWindow DEF ScreenInv
<1>3. /\ Effect(t, Head(str[t]), B)
      /\ x' \in -1..columns \/ (x' = columns + 1 /\ pc' = [pc EXCEPT ![t] = "hung"])
      /\ y' \in -1..lines
      /\ x' = -1 => x = -1
      /\ y' = -1 => y = -1
  BY <1>1, <1>2, PrintCharIs
<1>4. pc' = pc \/ pc' = [pc EXCEPT ![t] = "hung"]
  BY <1>3 DEF Effect
<1>5. \A u \in Thread : pc'[u] = pc[u] \/ (u = t /\ pc'[u] = "hung")
  BY <1>1, <1>4 DEF TypeOK
<1>6. pc' = [pc EXCEPT ![t] = "hung"] => pc'[t] = "hung"
  BY <1>1 DEF TypeOK
<1>7. WasOpened
  BY <1>1 DEF ScreenInv, DriverInv
<1>8. CursorInv'
  BY <1>1, <1>3, <1>6, <1>7 DEF CursorInv, WasOpened, PrintChar, window
<1>9. \A u \in Thread : pc[u] \notin Reading
  BY <1>1 DEF ScreenInv, Undisturbed, StatementInv, Alone, Reading
<1>10. StatementInv' /\ SeenInv'
  BY <1>1, <1>5, <1>9
     DEF ScreenInv, Undisturbed, StatementInv, SeenInv, PrintChar, Alone, Reading
<1> QED BY <1>8, <1>10 DEF Undisturbed

LEMMA PrintEndKeeps ==
  ASSUME ScreenInv, NEW t \in Thread, PrintEnd(t)
  PROVE  Undisturbed' /\ TextOf(vcsa') = TextOf(vcsa) /\ UNCHANGED <<x, y>>
<1>0. /\ vcsa \in Dev /\ x \in Int /\ y \in Int /\ pc[t] = "print" /\ consoleLock = t
      /\ x \in -1..columns
  BY OnRow DEF ScreenInv, DriverInv, Undisturbed, TypeOK, Dev, StatementInv, PrintEnd
<1>1. vcsa' \in Dev /\ TextOf(vcsa') = TextOf(vcsa) /\ x' = x /\ y' = y /\ at' = 4
  BY <1>0, CursorSet DEF PrintEnd
<1>2. pc'[t] = "program" /\ \A u \in Thread \ {t} : pc'[u] = pc[u]
  BY DEF ScreenInv, DriverInv, TypeOK, PrintEnd
<1>3. CursorInv'
  BY <1>0, <1>1 DEF ScreenInv, Undisturbed, CursorInv, WasOpened, PrintEnd, window
<1>4. StatementInv' /\ SeenInv'
  BY <1>0, <1>1, <1>2, NobodyAssumption
     DEF ScreenInv, Undisturbed, StatementInv, SeenInv, PrintEnd, Alone, window, Reading
<1> QED BY <1>1, <1>3, <1>4 DEF Undisturbed

\* A statement that was alone in what it read has used it.
LEMMA ReadingEnds ==
  ASSUME ScreenInv, NEW t \in Thread, pc[t] \in Reading, pc' = [pc EXCEPT ![t] = "program"],
         UNCHANGED <<isOpen, consoleLock>>
  PROVE  StatementInv' /\ SeenInv'
<1>1. \A u \in Thread \ {t} : pc[u] = "program"
  BY DEF ScreenInv, Undisturbed, StatementInv, Alone
<1>2. \A u \in Thread : pc'[u] = "program"
  BY <1>1 DEF ScreenInv, DriverInv, TypeOK
<1>3. \A u \in Thread : consoleLock # u
  BY <1>1 DEF ScreenInv, Undisturbed, StatementInv, Reading
<1> QED BY <1>2, <1>3 DEF StatementInv, SeenInv, Alone, Reading

LEMMA ClsSizeKeeps ==
  ASSUME ScreenInv, NEW t \in Thread, ClsSize(t)
  PROVE  Undisturbed' /\ UNCHANGED <<x, y, window, vcsa>>
<1>0. pc[t] \in Reading /\ pc[t] \in {"top", "bottom"} /\ TypeOK
      /\ winTop \in Int /\ winBottom \in Int
  <2>1. TypeOK /\ pc[t] \in {"top", "bottom"}
    BY DEF ScreenInv, DriverInv, ClsSize
  <2> QED BY <2>1, RowFacts DEF TypeOK, Reading
<1>1. \A u \in Thread \ {t} : pc[u] = "program"
  BY <1>0 DEF ScreenInv, Undisturbed, StatementInv, Alone
<1>2. /\ pc'[t] = "cls" /\ \A u \in Thread \ {t} : pc'[u] = "program"
      /\ UNCHANGED <<x, y, window, vcsa, isOpen, consoleLock>>
  BY <1>0, <1>1 DEF TypeOK, ClsSize
<1>3. seen'[t] = (winBottom + 1) - winTop
  <2>1. /\ pc[t] = "top" => seen[t] = winTop
        /\ pc[t] = "bottom" => seen[t] = winBottom
    BY DEF ScreenInv, Undisturbed, SeenInv
  <2>2. seen'[t] = IF pc[t] = "top" THEN (winBottom + 1) - seen[t] ELSE (seen[t] + 1) - winTop
    BY <1>0 DEF TypeOK, ClsSize
  <2> QED BY <1>0, <2>1, <2>2
<1>4. x \in -1..columns
  BY <1>0, OnRow
<1>5. CursorInv'
  BY <1>2, <1>4 DEF ScreenInv, Undisturbed, CursorInv, WasOpened, window
<1>6. StatementInv' /\ SeenInv'
  BY <1>0, <1>2, <1>3 DEF ScreenInv, Undisturbed, StatementInv, SeenInv, Alone, Reading, window
<1> QED BY <1>2, <1>5, <1>6 DEF Undisturbed

LEMMA ClsEndKeeps ==
  ASSUME ScreenInv, NEW t \in Thread, ClsEnd(t), NEW T, NEW B, WindowAt(T, B)
  PROVE  /\ Undisturbed'
         /\ x' = 0 /\ y' = T
         /\ \A m \in 0..lines, l \in 0..columns :
              TextOf(vcsa')[<<m, l>>] = IF m \in T..B THEN Space ELSE TextOf(vcsa)[<<m, l>>]
<1>0. /\ vcsa \in Dev /\ curColor \in 0..15 /\ columns \in Nat /\ lines \in Nat
      /\ T \in 0..lines /\ B \in 0..lines /\ T <= B /\ 0 \in 0..columns
      /\ pc[t] = "cls" /\ isOpen /\ 0 \in Int /\ T \in Int
  BY RowFacts DEF ScreenInv, DriverInv, TypeOK, Dev, WindowAt, ClsEnd
<1>1. seen[t] = (winBottom + 1) - winTop
  BY <1>0 DEF ScreenInv, Undisturbed, SeenInv
<1> DEFINE cleared == Written(vcsa, winTop, Blanks(seen[t]))
<1>2. /\ cleared \in Dev
      /\ \A m \in 0..lines, l \in 0..columns :
           TextOf(cleared)[<<m, l>>] = IF m \in T..B THEN Space ELSE TextOf(vcsa)[<<m, l>>]
  <2>1. cleared = Written(vcsa, XyToConsoleMatrix(0, T),
                    Blanks((XyToConsoleMatrix(columns, B) + 1) - XyToConsoleMatrix(0, T)))
    BY <1>1 DEF WindowAt
  <2>2. vcsa \in Dev /\ T \in 0..lines /\ B \in 0..lines /\ T <= B /\ curColor \in 0..15
    BY <1>0
  <2> HIDE DEF cleared
  <2> QED BY <2>1, <2>2, ClearedIs
<1>3. ConsoleMatrixToX(winTop) = 0 /\ ConsoleMatrixToY(winTop) = T
  BY <1>0, CellPlace DEF WindowAt
<1>4. SetCursorXY(0, T, cleared)
  BY <1>3 DEF ClsEnd
<1> HIDE DEF cleared
<1>5. vcsa' \in Dev /\ TextOf(vcsa') = TextOf(cleared) /\ x' = 0 /\ y' = T /\ at' = 4
  BY <1>0, <1>2, <1>4, CursorSet
<1>6. WasOpened /\ UNCHANGED window
  BY <1>0 DEF ScreenInv, DriverInv, ClsEnd
<1>7. CursorInv'
  BY <1>0, <1>5, <1>6 DEF CursorInv, WasOpened, window
<1>8. pc[t] \in Reading
  BY <1>0 DEF Reading
<1>9. StatementInv' /\ SeenInv'
  BY <1>8, ReadingEnds DEF ClsEnd
<1> QED BY <1>2, <1>5, <1>7, <1>9 DEF Undisturbed

LEMMA LocateEndKeeps ==
  ASSUME ScreenInv, NEW t \in Thread, LocateEnd(t)
  PROVE  Undisturbed' /\ TextOf(vcsa') = TextOf(vcsa) /\ x' \in -1..columns
<1>0. /\ vcsa \in Dev /\ columns \in Nat /\ lines \in Nat
      /\ pc[t] \in {"column", "row"} /\ pc[t] \in Reading
      /\ x \in -1..columns /\ y \in -1..lines
  BY RowFacts, OnRow
     DEF ScreenInv, DriverInv, Undisturbed, TypeOK, Dev, LocateEnd, CursorInv, Reading
<1>1. PICK i \in -1..columns, j \in -1..lines :
        /\ SetCursorXY(i, j, vcsa)
        /\ i = -1 => x = -1
        /\ j = -1 => y = -1
  <2>1. CASE pc[t] = "column"
    <3>1. PICK i \in 0..columns : SetCursorXY(i, seen[t], vcsa)
      BY <2>1 DEF LocateEnd
    <3>2. seen[t] = y
      BY <2>1 DEF ScreenInv, Undisturbed, SeenInv
    <3> QED BY <3>1, <3>2, <1>0
  <2>2. CASE pc[t] = "row"
    <3>1. PICK j \in 0..lines : SetCursorXY(seen[t], j, vcsa)
      BY <2>2 DEF LocateEnd
    <3>2. seen[t] = x
      BY <2>2 DEF ScreenInv, Undisturbed, SeenInv
    <3> QED BY <3>1, <3>2, <1>0
  <2> QED BY <1>0, <2>1, <2>2
<1>2. vcsa' \in Dev /\ TextOf(vcsa') = TextOf(vcsa) /\ x' = i /\ y' = j /\ at' = 4
  BY <1>0, <1>1, CursorSet
<1>3. WasOpened /\ UNCHANGED window
  BY DEF ScreenInv, DriverInv, LocateEnd
<1>4. CursorInv'
  BY <1>0, <1>1, <1>2, <1>3 DEF ScreenInv, Undisturbed, CursorInv, WasOpened, window
<1>5. StatementInv' /\ SeenInv'
  BY <1>0, ReadingEnds DEF LocateEnd
<1> QED BY <1>2, <1>4, <1>5 DEF Undisturbed

------------------------------------------------------------------------------
\* A statement begins, and none overlaps: nothing that is read without the lock is
\* about to be used.
LEMMA CallsFacts ==
  ASSUME ScreenInv, NEW t \in Thread, Calls(t)
  PROVE  /\ isOpen /\ pc[t] = "program" /\ isOpen' = isOpen /\ WasOpened
BY DEF ScreenInv, DriverInv, Calls

LEMMA NoneMet ==
  ASSUME NEW some, Meets(some), ~overlapped'
  PROVE  \A u \in Thread : pc[u] \notin some
BY DEF Meets

\* A statement that takes and releases the lock, or needs none.
LEMMA AtOnce ==
  ASSUME ScreenInv, Meets(Reading), ~overlapped', UNCHANGED <<isOpen, consoleLock, pc>>
  PROVE  StatementInv' /\ SeenInv'
<1>1. \A u \in Thread : pc[u] \notin Reading
  BY NoneMet
<1> QED BY <1>1 DEF ScreenInv, Undisturbed, StatementInv, SeenInv, Alone, Reading

LEMMA PrintTextKeeps ==
  ASSUME ScreenInv, ~overlapped', NEW t \in Thread, NEW s \in Texts, PrintText(t, s)
  PROVE  Undisturbed'
<1>0. /\ isOpen /\ pc[t] = "program" /\ isOpen' = isOpen /\ WasOpened
      /\ \A u \in Thread : pc[u] \notin Reading
  BY CallsFacts, NoneMet DEF PrintText
<1>1. pc'[t] = "print" /\ \A u \in Thread \ {t} : pc'[u] = pc[u]
  BY DEF ScreenInv, DriverInv, TypeOK, PrintText
<1>2. x \in -1..columns
  BY <1>0, OnRow DEF PrintText
<1>3. CursorInv'
  BY <1>0, <1>2 DEF ScreenInv, Undisturbed, CursorInv, WasOpened, PrintText, window
<1>4. consoleLock \in {Nobody, t} /\ consoleLock # t /\ consoleLock' = t
  BY <1>0 DEF ScreenInv, Undisturbed, StatementInv, PrintText, Free
<1>5. StatementInv' /\ SeenInv'
  BY <1>0, <1>1, <1>4, NobodyAssumption
     DEF ScreenInv, Undisturbed, StatementInv, SeenInv, PrintText, Alone, Reading
<1> QED BY <1>3, <1>5 DEF Undisturbed

LEMMA ReadKeeps ==
  ASSUME ScreenInv, ~overlapped', NEW t \in Thread,
         ClsBegin(t) \/ LocateOne(t, "column") \/ LocateOne(t, "row")
  PROVE  Undisturbed' /\ UNCHANGED <<x, y, window, vcsa>>
<1>0. ReadsUnlocked(t) /\ UNCHANGED <<x, y, window, curColor, vcsa, at, consoleLock, str, attr>>
  BY DEF ClsBegin, LocateOne
<1>1. /\ isOpen /\ isOpen' = isOpen /\ WasOpened /\ TypeOK
      /\ \A u \in Thread : pc[u] = "program"
  BY <1>0, CallsFacts, NoneMet DEF ScreenInv, DriverInv, TypeOK, ReadsUnlocked
<1>2. PICK where \in Reading, k \in Int :
        /\ pc' = [pc EXCEPT ![t] = where] /\ seen' = [seen EXCEPT ![t] = k]
        /\ where = "top" => k = winTop
        /\ where = "bottom" => k = winBottom
        /\ where # "cls"
        /\ where = "column" => k = y
        /\ where = "row" => k = x
  <2>0. x \in Int /\ y \in Int /\ winBottom \in Int /\ winTop \in Int
    BY <1>1, RowFacts DEF TypeOK
  <2>1. CASE ClsBegin(t)
    BY <2>0, <2>1 DEF ClsBegin, Reading
  <2>2. InIteration = {}
    BY <1>1 DEF InIteration
  <2>3. (\A k \in SeenX : k = x) /\ \A k \in SeenY : k = y
    BY <2>2 DEF SeenX, SeenY
  <2>4. CASE LocateOne(t, "column")
    <3>1. PICK k \in SeenY : seen' = [seen EXCEPT ![t] = k]
      BY <2>4 DEF LocateOne
    <3> QED BY <2>0, <2>3, <2>4, <3>1 DEF LocateOne, Reading
  <2>5. CASE LocateOne(t, "row")
    <3>1. PICK k \in SeenX : seen' = [seen EXCEPT ![t] = k]
      BY <2>5 DEF LocateOne
    <3> QED BY <2>0, <2>3, <2>5, <3>1 DEF LocateOne, Reading
  <2> QED BY <2>1, <2>4, <2>5
<1>3. pc'[t] = where /\ \A u \in Thread \ {t} : pc'[u] = "program"
  BY <1>1, <1>2 DEF TypeOK
<1>4. seen'[t] = k
  BY <1>1, <1>2 DEF TypeOK
<1>5. x \in -1..columns
  BY <1>1 DEF ScreenInv, Undisturbed, CursorInv
<1>6. CursorInv'
  BY <1>0, <1>1, <1>5 DEF ScreenInv, Undisturbed, CursorInv, WasOpened, window
<1>7. StatementInv'
  BY <1>0, <1>1, <1>3 DEF ScreenInv, Undisturbed, StatementInv, Alone, Reading
<1>8. SeenInv'
  BY <1>0, <1>2, <1>3, <1>4 DEF SeenInv, window
<1> QED BY <1>0, <1>6, <1>7, <1>8 DEF Undisturbed

LEMMA SetColorKeeps ==
  ASSUME ScreenInv, ~overlapped', NEW t \in Thread, NEW c \in Color, SetColor(t, c)
  PROVE  Undisturbed'
<1>1. CursorInv'
  BY DEF ScreenInv, Undisturbed, CursorInv, WasOpened, SetColor, window
<1>2. StatementInv' /\ SeenInv'
  BY AtOnce DEF SetColor, Calls
<1> QED BY <1>1, <1>2 DEF Undisturbed

\* VIEW PRINT, with lines and without.
LEMMA ViewPrintKeeps ==
  ASSUME ScreenInv, ~overlapped', NEW t \in Thread,
         NEW T \in 0..lines, NEW B \in 0..lines, T <= B, Calls(t), Meets(Reading),
         winTop' = XyToConsoleMatrix(0, T), winBottom' = XyToConsoleMatrix(columns, B),
         SetCursorXY(0, T, vcsa),
         UNCHANGED <<curColor, consoleLock, pc, str, attr, seen>>
  PROVE  /\ Undisturbed' /\ WindowAt(T, B)'
         /\ TextOf(vcsa') = TextOf(vcsa) /\ x' = 0 /\ y' = T
<1>0. /\ vcsa \in Dev /\ columns \in Nat /\ lines \in Nat /\ 0 \in Int /\ T \in Int
  BY RowFacts DEF ScreenInv, DriverInv, TypeOK, Dev
<1>1. vcsa' \in Dev /\ TextOf(vcsa') = TextOf(vcsa) /\ x' = 0 /\ y' = T /\ at' = 4
  BY <1>0, CursorSet
<1>2. winBottom' # 0
  BY WindowTypes
<1>3. WindowAt(T, B)'
  BY DEF WindowAt
<1>4. CursorInv'
  BY <1>0, <1>1, <1>2 DEF CursorInv, WasOpened
<1>5. StatementInv' /\ SeenInv'
  BY AtOnce DEF Calls
<1> QED BY <1>1, <1>3, <1>4, <1>5 DEF Undisturbed

LEMMA LocateKeeps ==
  ASSUME ScreenInv, ~overlapped', NEW t \in Thread,
         NEW i \in 0..columns, NEW j \in 0..lines, Locate(t, i, j)
  PROVE  /\ Undisturbed'
         /\ TextOf(vcsa') = TextOf(vcsa) /\ x' = i /\ y' = j
<1>0. /\ vcsa \in Dev /\ columns \in Nat /\ lines \in Nat /\ i \in Int /\ j \in Int
  BY RowFacts DEF ScreenInv, DriverInv, TypeOK, Dev
<1>1. WasOpened
  BY CallsFacts DEF Locate
<1>2. vcsa' \in Dev /\ TextOf(vcsa') = TextOf(vcsa) /\ x' = i /\ y' = j /\ at' = 4
  BY <1>0, CursorSet DEF Locate
<1>3. CursorInv'
  BY <1>0, <1>1, <1>2 DEF CursorInv, WasOpened, Locate, window
<1>4. StatementInv' /\ SeenInv'
  BY AtOnce DEF Locate, Calls
<1> QED BY <1>2, <1>3, <1>4 DEF Undisturbed

\* What the end of the program does to the screen.
LEMMA DeinitIs ==
  ASSUME ScreenInv, ~overlapped', NEW t \in Thread, Deinit(t)
  PROVE  /\ Undisturbed'
         /\ x' = 0 /\ y \in -1..lines
         /\ y < lines => y' = y + 1 /\ UNCHANGED window /\ TextOf(vcsa') = TextOf(vcsa)
         /\ y >= lines => /\ y' = lines /\ WindowAt(0, lines)'
                          /\ \A m \in 0..lines, l \in 0..columns :
                               TextOf(vcsa')[<<m, l>>] =
                                 IF m = lines THEN Space ELSE TextOf(vcsa)[<<m + 1, l>>]
<1>0. /\ vcsa \in Dev /\ columns \in Nat /\ lines \in Nat /\ curColor \in 0..15
      /\ 0 \in 0..lines /\ lines \in 0..lines /\ 0 <= lines /\ lines \in Int /\ 0 \in Int
      /\ y \in -1..lines /\ WasOpened
  BY RowFacts DEF ScreenInv, DriverInv, Undisturbed, TypeOK, Dev, CursorInv, Deinit
<1>1. \A u \in Thread : pc[u] = "program" /\ pc'[u] = "program" /\ consoleLock' # u
  <2>1. \A u \in Thread : pc[u] \notin Reading
    BY NoneMet DEF Deinit
  <2>2. pc[t] = "program" /\ Free(t) /\ consoleLock # t
    BY DEF ScreenInv, Undisturbed, StatementInv, Deinit
  <2>3. consoleLock = Nobody
    BY <2>2 DEF Free
  <2>4. \A u \in Thread : pc[u] \notin {"print", "hung"} /\ consoleLock # u
    BY <2>3, NobodyAssumption DEF ScreenInv, Undisturbed, StatementInv
  <2> QED BY <2>1, <2>4 DEF ScreenInv, DriverInv, TypeOK, Deinit
<1>2. StatementInv' /\ SeenInv'
  BY <1>1 DEF StatementInv, SeenInv, Alone, Reading
<1>3. CASE y < lines
  <2>1. SetCursorXY(0, y + 1, vcsa) /\ UNCHANGED window /\ y + 1 \in 0..lines /\ y + 1 \in Int
    BY <1>0, <1>3 DEF Deinit
  <2>2. vcsa' \in Dev /\ TextOf(vcsa') = TextOf(vcsa) /\ x' = 0 /\ y' = y + 1 /\ at' = 4
    BY <1>0, <2>1, CursorSet
  <2>3. CursorInv'
    BY <1>0, <2>1, <2>2 DEF CursorInv, WasOpened, window
  <2> QED BY <1>0, <1>2, <1>3, <2>1, <2>2, <2>3 DEF Undisturbed
<1>4. CASE y >= lines
  <2> DEFINE dev == Scrolled(vcsa, winTop', winBottom')
  <2>1. /\ winTop' = XyToConsoleMatrix(0, 0)
        /\ winBottom' = XyToConsoleMatrix(columns, lines)
        /\ SetCursorXY(0, lines, dev)
    BY <1>4 DEF Deinit
  <2>2. /\ dev \in Dev
        /\ \A m \in 0..lines, l \in 0..columns :
             TextOf(dev)[<<m, l>>] = IF m \notin 0..lines THEN TextOf(vcsa)[<<m, l>>]
                                     ELSE IF m = lines THEN Space
                                     ELSE TextOf(vcsa)[<<m + 1, l>>]
    <3> DEFINE T == 0
               B == lines
    <3>1. T \in 0..lines /\ B \in 0..lines /\ T <= B
      BY <1>0
    <3>2. dev = Scrolled(vcsa, XyToConsoleMatrix(0, T), XyToConsoleMatrix(columns, B))
      BY <2>1
    <3> HIDE DEF dev, T, B
    <3>3. /\ dev \in Dev
          /\ \A m \in 0..lines, l \in 0..columns :
               TextOf(dev)[<<m, l>>] = IF m \notin T..B THEN TextOf(vcsa)[<<m, l>>]
                                       ELSE IF m = B THEN Space
                                       ELSE TextOf(vcsa)[<<m + 1, l>>]
      BY <1>0, <3>1, <3>2, ScrolledIs
    <3> QED BY <3>3 DEF T, B
  <2> HIDE DEF dev
  <2>3. vcsa' \in Dev /\ TextOf(vcsa') = TextOf(dev) /\ x' = 0 /\ y' = lines /\ at' = 4
    BY <1>0, <2>1, <2>2, CursorSet
  <2>4. winBottom' # 0
    BY <1>0, <2>1, WindowTypes
  <2>5. WindowAt(0, lines)'
    BY <1>0, <2>1 DEF WindowAt
  <2>6. CursorInv'
    BY <1>0, <2>3, <2>4 DEF CursorInv, WasOpened
  <2>7. \A m \in 0..lines, l \in 0..columns :
          TextOf(vcsa')[<<m, l>>] = IF m = lines THEN Space ELSE TextOf(vcsa)[<<m + 1, l>>]
    BY <2>2, <2>3
  <2> QED BY <1>0, <1>2, <1>4, <2>3, <2>5, <2>6, <2>7 DEF Undisturbed
<1> QED BY <1>0, <1>3, <1>4

\* One step of the driver keeps it; what an action changes is in the lemmas above.
LEMMA ScreenStep ==
  ASSUME ScreenInv, ~overlapped', [Next]_vars
  PROVE  ScreenInv'
<1>0. DriverInv'
  BY DriverStep DEF ScreenInv
<1>1. CASE UNCHANGED vars
  BY <1>1 DEF ScreenInv, Undisturbed, CursorInv, WasOpened, StatementInv, Alone, SeenInv,
              vars, DriverInv, TypeOK, WindowIsRows
<1>2. CASE Open
  BY <1>0, <1>2, OpenKeeps DEF ScreenInv
<1>3. ASSUME NEW t \in Thread, Proceeds(t)
      PROVE  Undisturbed'
  <2>1. CASE ClsEnd(t)
    <3>1. PICK T \in 0..lines, B \in 0..lines : WindowAt(T, B)
      BY <2>1, OpenHasWindow DEF ClsEnd, ScreenInv
    <3> QED BY <2>1, <3>1, ClsEndKeeps
  <2> QED BY <1>3, <2>1, PrintKeeps, PrintEndKeeps, ClsSizeKeeps, LocateEndKeeps DEF Proceeds
<1>4. ASSUME NEW t \in Thread, Begins(t)
      PROVE  Undisturbed'
  <2>1. ASSUME NEW top \in 0..lines, NEW bottom \in 0..lines, ViewPrint(t, top, bottom)
        PROVE  Undisturbed'
    BY <2>1, ViewPrintKeeps DEF ViewPrint
  <2>2. CASE ViewPrintAll(t)
    <3>1. 0 \in 0..lines /\ lines \in 0..lines /\ 0 <= lines
      BY RowFacts
    <3> QED BY <2>2, <3>1, ViewPrintKeeps DEF ViewPrintAll
  <2> QED BY <1>4, <2>1, <2>2, PrintTextKeeps, ReadKeeps, SetColorKeeps, LocateKeeps DEF Begins
<1>5. ASSUME NEW t \in Thread, Deinit(t)
      PROVE  Undisturbed'
  BY <1>5, DeinitIs
<1> QED BY <1>0, <1>1, <1>2, <1>3, <1>4, <1>5 DEF Next, ScreenInv

\* That statements have overlapped is not forgotten.
LEMMA OverlapStays ==
  ASSUME [Next]_vars, overlapped
  PROVE  overlapped'
BY DEF Next, vars, Open, Proceeds, PrintChar, PrintEnd, ClsSize, ClsEnd, LocateEnd, Begins,
       PrintText, ClsBegin, SetColor, ViewPrint, ViewPrintAll, Locate, LocateOne, Deinit,
       ReadsUnlocked, Meets

\* Inductive: what always holds, and what does until statements overlap.
AlwaysInv == DriverInv /\ (~overlapped => Undisturbed)

LEMMA AlwaysStep ==
  ASSUME AlwaysInv, [Next]_vars
  PROVE  AlwaysInv'
<1>1. DriverInv'
  BY DriverStep DEF AlwaysInv
<1>2. ASSUME ~overlapped' PROVE Undisturbed'
  <2>1. ScreenInv
    BY <1>2, OverlapStays DEF AlwaysInv, ScreenInv
  <2> QED BY <1>2, <2>1, ScreenStep DEF ScreenInv
<1> QED BY <1>1, <1>2 DEF AlwaysInv

------------------------------------------------------------------------------
\* The steps of the composition are steps of the driver, or leave it alone.
LEMMA ConsoleStep ==
  ASSUME [ConsoleNext]_allVars
  PROVE  [Next]_vars
<1>1. CASE UNCHANGED allVars
  BY <1>1 DEF allVars
<1>2. CASE SkipLine \/ TryFails \/ TryLeavesRaw \/ GiveUp
  BY <1>2 DEF SkipLine, TryFails, TryLeavesRaw, GiveUp
<1>3. CASE TryWorks
  BY <1>3 DEF TryWorks, Next
<1>4. CASE Statement
  BY <1>4 DEF Statement, Next
<1>5. CASE DeinitConsole
  BY <1>5 DEF DeinitConsole, Next
<1> QED BY <1>1, <1>2, <1>3, <1>4, <1>5 DEF ConsoleNext

LEMMA AlwaysHolds == ConsoleSpec => []AlwaysInv
<1>1. ConsoleInit => AlwaysInv
  BY DriverInit, UndisturbedInit DEF ConsoleInit, AlwaysInv
<1>2. AlwaysInv /\ [ConsoleNext]_allVars => AlwaysInv'
  BY AlwaysStep, ConsoleStep
<1> QED BY <1>1, <1>2, PTL DEF ConsoleSpec

(* The window is always whole rows and every write on the device, whatever  *)
(* threads do at the same time, and until their statements overlap the      *)
(* cursor is on the screen: no step of __scrollConsole(), of the wrap at    *)
(* the end of a row or of VIEW PRINT leads off it, on every screen whose    *)
(* offsets fit an __integer, but for a TAB that never ends.                 *)
THEOREM ScreenBounded == ConsoleSpec => []ScreenInBounds
<1>1. AlwaysInv => ScreenInBounds
  BY DEF AlwaysInv, DriverInv, Undisturbed, ScreenInBounds, CursorOnScreen, CursorInv
<1> QED BY <1>1, AlwaysHolds, PTL

(* The window of VIEW PRINT, of the start and of the end of the program is  *)
(* whole rows, on every screen whose offsets fit an __integer.              *)
THEOREM WindowWhole == ConsoleSpec => []WindowIsRows
<1>1. AlwaysInv => WindowIsRows
  BY DEF AlwaysInv, DriverInv
<1> QED BY <1>1, AlwaysHolds, PTL

------------------------------------------------------------------------------
\* What goes with the driver that is in use.
Unused ==
  /\ consDriverHandle = NoLib /\ consoleEntries = NoDriver
  /\ ~tty /\ (raw <=> gaveUp)

ChoiceInv ==
  /\ line \in 1..(Len(Config) + 1)
  /\ refs \in [Lib -> Nat]
  /\ consDriverHandle \in Lib \union {NoLib}
  /\ consoleEntries \in Driver \union {NoDriver}
  /\ phase \in {"starting", "running", "failed", "stopped"}
  /\ tty \in BOOLEAN /\ raw \in BOOLEAN /\ termAttr \in BOOLEAN /\ gaveUp \in BOOLEAN
  /\ \A l \in Lib : refs[l] = IF l = consDriverHandle THEN 1 ELSE 0
  /\ phase # "running" => Unused
  /\ phase = "running" =>
       /\ consDriverHandle \in Lib /\ consoleEntries \in Driver
       /\ IF consoleEntries = "direct" THEN termAttr <=> gaveUp ELSE raw <=> gaveUp
       /\ consoleEntries # "direct" => ~tty

LEMMA ConfigIs ==
  ASSUME ChoiceInv, line <= Len(Config)
  PROVE  /\ Config[line].lib \in Lib /\ Config[line].driver \in Driver
         /\ line + 1 \in 1..(Len(Config) + 1)
<1>1. Len(Config) \in Nat
  BY ConfigAssumption, LenProperties
<1>2. line \in 1..Len(Config)
  BY <1>1 DEF ChoiceInv
<1>3. Config[line] \in [mode : Nat, lib : Lib, driver : Driver]
  BY <1>2, ConfigAssumption, ElementOfSeq
<1> QED BY <1>1, <1>2, <1>3

\* A library that is loaded and freed is as it was.
LEMMA FreedLoaded ==
  ASSUME ChoiceInv, NEW l \in Lib
  PROVE  Freed(Loaded(l), l) = refs
<1>1. \A k \in Lib : refs[k] \in Nat
  BY DEF ChoiceInv
<1>2. \A k \in Lib : Freed(Loaded(l), l)[k] = refs[k]
  BY <1>1 DEF ChoiceInv, Freed, Loaded
<1> QED BY <1>2 DEF ChoiceInv, Freed, Loaded

LEMMA ChoiceStep ==
  ASSUME ChoiceInv, [ConsoleNext]_allVars
  PROVE  ChoiceInv'
<1>1. CASE UNCHANGED allVars \/ Statement
  BY <1>1 DEF ChoiceInv, Unused, allVars, choice, Statement
<1>2. CASE SkipLine
  BY <1>2, ConfigIs DEF ChoiceInv, Unused, SkipLine, Looks
<1>3. CASE TryFails
  <2>1. refs' = refs /\ line' \in 1..(Len(Config) + 1)
    BY <1>3, ConfigIs, FreedLoaded DEF TryFails, Looks
  <2> QED BY <1>3, <2>1 DEF ChoiceInv, Unused, TryFails, Looks
<1>4. CASE TryLeavesRaw
  <2>1. refs' = refs /\ line' \in 1..(Len(Config) + 1)
    BY <1>4, ConfigIs, FreedLoaded DEF TryLeavesRaw, Looks
  <2> QED BY <1>4, <2>1 DEF ChoiceInv, Unused, TryLeavesRaw, Looks
<1>5. CASE TryWorks
  <2> DEFINE l == Config[line].lib
             d == Config[line].driver
  <2>1. l \in Lib /\ d \in Driver /\ line' \in 1..(Len(Config) + 1)
    BY <1>5, ConfigIs DEF TryWorks, Looks
  <2>2. Chosen(l, d) /\ phase = "starting" /\ UNCHANGED gaveUp
    BY <1>5 DEF TryWorks, Looks
  <2>3. IF d = "direct" THEN tty' = TRUE /\ raw' = TRUE /\ termAttr' = raw
        ELSE UNCHANGED <<tty, raw, termAttr>>
    BY <1>5 DEF TryWorks
  <2> HIDE DEF l, d
  <2>4. refs' \in [Lib -> Nat] /\ \A k \in Lib : refs'[k] = IF k = l THEN 1 ELSE 0
    <3>1. \A k \in Lib : refs[k] = 0
      BY <2>2, ConfigAssumption DEF ChoiceInv, Unused
    <3>2. refs' = [refs EXCEPT ![l] = refs[l] + 1]
      BY <2>2 DEF Chosen, Loaded
    <3>3. refs \in [Lib -> Nat]
      BY DEF ChoiceInv
    <3> QED BY <2>1, <3>1, <3>2, <3>3
  <2>5. NoLib \notin Lib /\ NoDriver \notin Driver
    BY ConfigAssumption
  <2> QED BY <2>1, <2>2, <2>3, <2>4, <2>5 DEF ChoiceInv, Unused, Chosen
<1>6. CASE GiveUp
  BY <1>6 DEF ChoiceInv, Unused, GiveUp
<1>7. CASE DeinitConsole
  <2>1. phase = "running" /\ consDriverHandle \in Lib /\ consoleEntries \in Driver
    BY <1>7 DEF DeinitConsole, ChoiceInv
  <2>2. refs' \in [Lib -> Nat] /\ \A k \in Lib : refs'[k] = 0
    <3>1. refs' = Freed(refs, consDriverHandle)
      BY <1>7 DEF DeinitConsole
    <3>2. \A k \in Lib : refs[k] = IF k = consDriverHandle THEN 1 ELSE 0
      BY DEF ChoiceInv
    <3> QED BY <2>1, <3>1, <3>2 DEF ChoiceInv, Freed
  <2>3. tty' \in BOOLEAN /\ raw' \in BOOLEAN /\ ~tty' /\ (raw' <=> gaveUp)
    <3>1. CASE consoleEntries = "direct"
      BY <1>7, <2>1, <3>1 DEF DeinitConsole, ChoiceInv, CloseTerminal
    <3>2. CASE consoleEntries # "direct"
      BY <1>7, <2>1, <3>2 DEF DeinitConsole, ChoiceInv
    <3> QED BY <3>1, <3>2
  <2>4. phase' = "stopped" /\ consoleEntries' = NoDriver /\ consDriverHandle' = NoLib
        /\ UNCHANGED <<line, termAttr, gaveUp>>
    BY <1>7 DEF DeinitConsole
  <2> QED BY <2>2, <2>3, <2>4, ConfigAssumption DEF ChoiceInv, Unused
<1> QED BY <1>1, <1>2, <1>3, <1>4, <1>5, <1>6, <1>7 DEF ConsoleNext

(* The library calls one driver, from the library that is loaded once for   *)
(* it, or none (__initConsole(), closeConsoleDriver()), however many lines  *)
(* the configuration has and whichever of them fail.  At the end the        *)
(* terminal is closed, and as it was found exactly if no direct console was *)
(* given up half-way: what such a try changes nothing gives back.           *)
THEOREM DriverSound == ConsoleSpec => []DriverIsSound
<1>1. ConsoleInit => ChoiceInv
  <2> SUFFICES ASSUME ConsoleInit PROVE ChoiceInv
    OBVIOUS
  <2>2. Len(Config) \in Nat
    BY ConfigAssumption, LenProperties
  <2>3. ChoiceInv
    <3>1. line \in 1..(Len(Config) + 1)
      BY <2>2 DEF ConsoleInit
    <3>2. refs \in [Lib -> Nat] /\ \A l \in Lib : refs[l] = 0
      BY DEF ConsoleInit
    <3>3. \A l \in Lib : l # consDriverHandle
      BY ConfigAssumption DEF ConsoleInit
    <3> QED BY <3>1, <3>2, <3>3 DEF ConsoleInit, ChoiceInv, Unused
  <2> QED BY <2>3
<1>2. ChoiceInv /\ [ConsoleNext]_allVars => ChoiceInv'
  BY ChoiceStep
<1>3. AlwaysInv /\ ChoiceInv => DriverIsSound
  <2> SUFFICES ASSUME AlwaysInv, ChoiceInv PROVE DriverIsSound
    OBVIOUS
  <2>1. ConsoleTypeOK
    BY DEF AlwaysInv, DriverInv, ChoiceInv, ConsoleTypeOK
  <2>2. LoadedIsUsed
    <3>1. CASE phase = "running"
      BY <3>1, ConfigAssumption DEF ChoiceInv, LoadedIsUsed
    <3>2. CASE phase # "running"
      BY <3>2 DEF ChoiceInv, Unused, LoadedIsUsed
    <3> QED BY <3>1, <3>2
  <2>3. TerminalGivenBack
    BY DEF ChoiceInv, Unused, TerminalGivenBack
  <2> QED BY <2>1, <2>2, <2>3 DEF DriverIsSound
<1> QED BY <1>1, <1>2, <1>3, AlwaysHolds, PTL DEF ConsoleSpec

------------------------------------------------------------------------------
\* What the driver's state is in Screen's terms.
Places == (0..lines) \X (0..columns)
Text == [p \in Places |-> vcsa[XyToConsoleMatrix(p[2], p[1])]]
TopRow == IF WasOpened THEN (winTop - 4) \div RowBytes ELSE 0
BottomRow == IF WasOpened THEN (winBottom - 4) \div RowBytes ELSE lines

LEMMA MappedText == Text = TextOf(vcsa) /\ Text' = TextOf(vcsa')
BY DEF Text, TextOf, Places

LEMMA MappedCells ==
  /\ TextScreen!Cell = Places
  /\ (lines + 1) - 1 = lines /\ (columns + 1) - 1 = columns
BY RowFacts DEF TextScreen!Cell, Places

LEMMA MappedWindow ==
  ASSUME NEW T, NEW B, WindowAt(T, B)
  PROVE  TopRow = T /\ BottomRow = B /\ WasOpened
<1>1. T \in 0..lines /\ B \in 0..lines /\ 0 \in 0..columns /\ columns \in 0..columns
  BY RowFacts DEF WindowAt
<1>2. WasOpened
  BY <1>1, WindowTypes DEF WindowAt, WasOpened
<1>3. (winTop - 4) \div RowBytes = T /\ (winBottom - 4) \div RowBytes = B
  BY <1>1, CellPlace DEF WindowAt
<1> QED BY <1>2, <1>3 DEF TopRow, BottomRow

LEMMA MappedWindowStays ==
  ASSUME UNCHANGED window
  PROVE  UNCHANGED <<TopRow, BottomRow>>
BY DEF window, TopRow, BottomRow, WasOpened

\* The window scrolls as Screen's does.
LEMMA ScrollMaps ==
  ASSUME NEW T, NEW B, WindowAt(T, B), NEW dev \in Dev, curColor \in 0..15
  PROVE  TextOf(Scrolled(dev, winTop, winBottom)) = TextScreen!ScrolledUp(TextOf(dev))
<1> DEFINE new == Scrolled(dev, winTop, winBottom)
           up == TextScreen!ScrolledUp(TextOf(dev))
<1>0. T \in 0..lines /\ B \in 0..lines /\ T <= B /\ lines \in Nat
  BY RowFacts DEF WindowAt
<1>1. /\ new \in Dev
      /\ \A m \in 0..lines, l \in 0..columns :
           TextOf(new)[<<m, l>>] = IF m \notin T..B THEN TextOf(dev)[<<m, l>>]
                                   ELSE IF m = B THEN Space
                                   ELSE TextOf(dev)[<<m + 1, l>>]
  <2>1. new = Scrolled(dev, XyToConsoleMatrix(0, T), XyToConsoleMatrix(columns, B))
    BY DEF WindowAt
  <2> HIDE DEF new, up
  <2>2. dev \in Dev /\ curColor \in 0..15 /\ T \in 0..lines /\ B \in 0..lines /\ T <= B
    BY <1>0
  <2> QED BY <2>1, <2>2, ScrolledIs
<1>2. TopRow = T /\ BottomRow = B
  BY MappedWindow
<1>3. up = [p \in Places |->
              IF p[1] \notin T..B THEN TextOf(dev)[p]
              ELSE IF p[1] = B THEN Space ELSE TextOf(dev)[<<p[1] + 1, p[2]>>]]
  BY <1>2, MappedCells DEF TextScreen!ScrolledUp, TopRow, BottomRow
<1> HIDE DEF new, up
<1>4. ASSUME NEW p \in Places
      PROVE  TextOf(new)[p] = up[p]
  <2>1. PICK m \in 0..lines, l \in 0..columns : p = <<m, l>>
    BY DEF Places
  <2> QED BY <1>1, <1>3, <2>1
<1>5. TextOf(new) \in [Places -> Byte]
  BY <1>1, TextIs DEF Places
<1>6. TextOf(new) = [p \in Places |-> up[p]] /\ up = [p \in Places |-> up[p]]
  BY <1>3, <1>4, <1>5
<1> QED BY <1>6 DEF new, up

\* So does the cursor.
LEMMA ReachesMaps ==
  ASSUME NEW T, NEW B, WindowAt(T, B), NEW dev \in Dev, curColor \in 0..15,
         NEW r, NEW c, x' = c, y' = (IF r > B THEN B ELSE r),
         TextOf(vcsa') = TextOf(IF r > B THEN Scrolled(dev, winTop, winBottom) ELSE dev)
  PROVE  TextScreen!Reaches(r, c, TextOf(dev))
<1>1. TopRow = T /\ BottomRow = B
  BY MappedWindow
<1>2. TextOf(Scrolled(dev, winTop, winBottom)) = TextScreen!ScrolledUp(TextOf(dev))
  BY ScrollMaps
<1>3. Text' = IF r > B THEN TextScreen!ScrolledUp(TextOf(dev)) ELSE TextOf(dev)
  BY <1>2, MappedText
<1> QED BY <1>1, <1>3 DEF TextScreen!Reaches, Text, Places, BottomRow

LEMMA LandsMaps ==
  ASSUME NEW T, NEW B, WindowAt(T, B), NEW dev \in Dev, curColor \in 0..15,
         NEW i \in -1..(columns + 1), Lands(i, dev, B)
  PROVE  TextScreen!Advances(i, TextOf(dev))
<1>0. columns \in Nat
  BY RowFacts
<1>1. CASE i > columns
  <2>1. i = columns + 1
    BY <1>0, <1>1
  <2>2. TextScreen!Reaches(y + 1, 0, TextOf(dev))
    BY <1>1, ReachesMaps DEF Lands
  <2> QED BY <2>1, <2>2 DEF TextScreen!Advances
<1>2. CASE i <= columns
  <2>1. i # columns + 1 /\ ~(i > columns)
    BY <1>0, <1>2
  <2>2. TextScreen!Reaches(y, i, TextOf(dev))
    BY <2>1, ReachesMaps DEF Lands
  <2> QED BY <2>1, <2>2 DEF TextScreen!Advances
<1> QED BY <1>0, <1>1, <1>2

------------------------------------------------------------------------------
\* Every step of the driver is one of the screen, or changes nothing of it.
Mapped == <<Text, y, x, TopRow, BottomRow>>

LEMMA MappedStutter ==
  ASSUME UNCHANGED <<x, y, window>>, TextOf(vcsa') = TextOf(vcsa)
  PROVE  UNCHANGED Mapped
BY MappedText, MappedWindowStays DEF Mapped

LEMMA MappedTextType ==
  ASSUME NEW dev \in Dev
  PROVE  TextOf(dev) \in [Places -> Byte]
BY TextIs DEF Places

\* Two texts that agree on every cell, the second given by rows and columns.
LEMMA TextByCells ==
  ASSUME NEW a \in [Places -> Byte], NEW b \in [Places -> Byte],
         \A m \in 0..lines, l \in 0..columns : a[<<m, l>>] = b[<<m, l>>]
  PROVE  a = b
BY SameText DEF Places

\* A device on which n blanks have been written at the cursor.
LEMMA BlankedIs ==
  ASSUME NEW dev \in Dev, vcsa \in Dev, NEW n \in Nat, x \in Int, NEW c \in Int, x + n = c,
         \A m \in 0..lines, l \in 0..columns :
           TextOf(dev)[<<m, l>>] = IF m = y /\ l \in x..(x + n - 1) THEN Space
                                   ELSE TextOf(vcsa)[<<m, l>>]
  PROVE  TextOf(dev) = [p \in Places |-> IF p[1] = y /\ p[2] \in x..(c - 1)
                                         THEN Space ELSE Text[p]]
<1> DEFINE new == [p \in Places |-> IF p[1] = y /\ p[2] \in x..(c - 1) THEN Space ELSE Text[p]]
<1>1. /\ TextOf(dev) \in [Places -> Byte] /\ TextOf(vcsa) \in [Places -> Byte]
      /\ Space \in Byte /\ Text = TextOf(vcsa)
  BY MappedText, MappedTextType DEF Space, Byte
<1>2. new \in [Places -> Byte]
  BY <1>1
<1>3. ASSUME NEW m \in 0..lines, NEW l \in 0..columns
      PROVE  TextOf(dev)[<<m, l>>] = new[<<m, l>>]
  <2>1. x + n - 1 = c - 1
    OBVIOUS
  <2>2. <<m, l>> \in Places
    BY DEF Places
  <2>3. new[<<m, l>>] = IF m = y /\ l \in x..(c - 1) THEN Space ELSE Text[<<m, l>>]
    BY <2>2
  <2> QED BY <2>1, <2>3, <1>1
<1> HIDE DEF new
<1>4. TextOf(dev) = new
  BY <1>1, <1>2, <1>3, TextByCells
<1> QED BY <1>4 DEF new

\* A character of PRINT.
LEMMA PrintMaps ==
  ASSUME ScreenInv, NEW t \in Thread, PrintChar(t)
  PROVE  TextScreen!Next \/ UNCHANGED Mapped
<1>1. pc[t] = "print" /\ UNCHANGED window /\ TypeOK /\ CursorInv /\ x \in -1..columns
  BY OnRow DEF ScreenInv, DriverInv, Undisturbed, PrintChar
<1>2. PICK T \in 0..lines, B \in 0..lines : WindowAt(T, B)
  BY <1>1, OpenHasWindow DEF ScreenInv
<1> DEFINE ch == Head(str[t])
<1>3. Effect(t, ch, B) /\ y' \in -1..lines /\ vcsa' \in Dev
  BY <1>1, <1>2, PrintCharIs, PrintCharTypes DEF ScreenInv, DeviceOK
<1>4. /\ vcsa \in Dev /\ curColor \in 0..15 /\ attr[t] \in 0..15
      /\ x \in -1..columns /\ y \in -1..lines /\ columns \in Nat /\ lines \in Nat
      /\ T \in 0..lines /\ B \in 0..lines
  BY <1>1, <1>2, RowFacts DEF TypeOK, CursorInv, Dev, WindowAt
<1>5. TopRow = T /\ BottomRow = B /\ UNCHANGED <<TopRow, BottomRow>>
  BY <1>1, <1>2, MappedWindow, MappedWindowStays
<1>6. Text = TextOf(vcsa) /\ Text' = TextOf(vcsa')
  BY MappedText
<1>7. <<y, x>> \in Places => Seek = XyToConsoleMatrix(x, y)
  <2> SUFFICES ASSUME x \in 0..columns, y \in 0..lines PROVE Seek = XyToConsoleMatrix(x, y)
    BY DEF Places
  <2>1. XyToConsoleMatrix(x, y) \in 4..(Size - 2)
    BY CellPlace
  <2> QED BY <2>1, RowFacts DEF Seek
<1>8. <<y, x>> \notin Places => B = lines
  <2> SUFFICES ASSUME x = -1 \/ y = -1 PROVE B = lines
    BY <1>4 DEF Places
  <2>1. XyToConsoleMatrix(columns, B) = XyToConsoleMatrix(columns, lines)
    BY <1>1, <1>2 DEF CursorInv, WindowAt
  <2>2. columns \in 0..columns /\ lines \in 0..lines
    BY <1>4
  <2> QED BY <2>1, <2>2, <1>4, CellPlace
<1> HIDE DEF ch
<1>9. ASSUME NEW i \in (x + 1)..(columns + 1), NEW dev, Lands(i, dev, B), <<y, x>> \notin Places
      PROVE  TextScreen!Stray
  <2>1. /\ x' = IF i > columns THEN 0 ELSE i
        /\ y' = IF (IF i > columns THEN y + 1 ELSE y) > B
                THEN B ELSE IF i > columns THEN y + 1 ELSE y
    BY <1>9 DEF Lands
  <2>2. B = lines /\ (x = -1 \/ y = -1)
    BY <1>4, <1>8, <1>9 DEF Places
  <2>3. i > columns => y = -1 \/ x = -1
    BY <2>2
  <2>4. y' \in y..(y + 1) /\ y' <= B /\ x' \in 0..(columns + 1)
    BY <1>3, <1>4, <2>1, <2>2
  <2>5. Text' \in [Places -> Byte]
    BY <1>3, <1>6, MappedTextType
  <2> QED BY <1>5, <1>9, <2>4, <2>5, MappedCells
          DEF TextScreen!Stray, Text, Places, TopRow, BottomRow
<1>10. CASE ch \in Letter /\ Lands(x + 1, Written(vcsa, Seek, Cells(t, ch, 1)), B)
  <2> DEFINE dev == Written(vcsa, Seek, Cells(t, ch, 1))
  <2>0. ch \in Byte /\ x + 1 \in (x + 1)..(columns + 1) /\ x + 1 \in -1..(columns + 1)
    BY <1>4, <1>10, TextAssumption
  <2>1. CASE <<y, x>> \notin Places
    BY <1>9, <1>10, <2>0, <2>1 DEF TextScreen!Next
  <2>2. CASE <<y, x>> \in Places
    <3>1. x \in 0..columns /\ y \in 0..lines /\ Seek = XyToConsoleMatrix(x, y)
          /\ 1 \in Nat /\ x + 1 <= columns + 1
      BY <1>4, <1>7, <2>2 DEF Places
    <3>2. /\ dev \in Dev
          /\ \A m \in 0..lines, l \in 0..columns :
               TextOf(dev)[<<m, l>>] = IF m = y /\ l \in x..(x + 1 - 1) THEN ch
                                       ELSE TextOf(vcsa)[<<m, l>>]
      BY <3>1, <1>4, <2>0, CellsWritten
    <3>3. TextOf(dev) = [Text EXCEPT ![<<y, x>>] = ch]
      <4> HIDE DEF dev
      <4> DEFINE new == [Text EXCEPT ![<<y, x>>] = ch]
      <4>1. TextOf(dev) \in [Places -> Byte] /\ TextOf(vcsa) \in [Places -> Byte]
        BY <3>2, <1>4, MappedTextType
      <4>2. new \in [Places -> Byte]
        BY <4>1, <1>6, <2>0
      <4>3. ASSUME NEW m \in 0..lines, NEW l \in 0..columns
            PROVE  TextOf(dev)[<<m, l>>] = new[<<m, l>>]
        <5>1. m = y /\ l \in x..(x + 1 - 1) <=> <<m, l>> = <<y, x>>
          BY <1>4
        <5>2. <<m, l>> \in Places
          BY DEF Places
        <5>3. new[<<m, l>>] = IF <<m, l>> = <<y, x>> THEN ch ELSE Text[<<m, l>>]
          BY <4>1, <5>2, <1>6
        <5> QED BY <3>2, <5>1, <5>3, <1>6
      <4> HIDE DEF new
      <4>4. TextOf(dev) = new
        BY <4>1, <4>2, <4>3, SameText DEF Places
      <4> QED BY <4>4 DEF new
    <3>4. TextScreen!Advances(x + 1, TextOf(dev))
      <4> HIDE DEF dev
      <4>1. Lands(x + 1, dev, B)
        BY <1>10 DEF dev
      <4> QED BY <4>1, <3>2, <1>2, <1>4, <2>0, LandsMaps
    <3>5. TextScreen!Put(ch)
      BY <3>3, <3>4, <1>5, <2>2, MappedCells
         DEF TextScreen!Put, Text, Places, TopRow, BottomRow
    <3> QED BY <3>5, <2>0 DEF TextScreen!Next
  <2> QED BY <2>1, <2>2
<1>11. CASE /\ x' = 0
            /\ y' = IF y + 1 > B THEN B ELSE y + 1
            /\ TextOf(vcsa') = TextOf(IF y + 1 > B THEN Scrolled(vcsa, winTop, winBottom) ELSE vcsa)
  <2>1. TextScreen!Reaches(y + 1, 0, TextOf(vcsa))
    BY <1>11, <1>2, <1>4, ReachesMaps
  <2>2. TextScreen!NewLine
    BY <2>1, <1>5, <1>6 DEF TextScreen!NewLine, Text, Places, TopRow, BottomRow
  <2> QED BY <2>2 DEF TextScreen!Next
<1>12. CASE /\ Stops = {} /\ x' = columns + 1 /\ y' = y
            /\ vcsa' = Written(vcsa, Seek, Cells(t, Space, (columns + 1) - x))
  <2>1. CASE <<y, x>> \notin Places
    <3>1. Text' \in [Places -> Byte] /\ B = lines
      BY <1>3, <1>6, <1>8, <2>1, MappedTextType
    <3>2. y' \in y..(y + 1) /\ y' <= B /\ x' \in 0..(columns + 1)
      BY <1>4, <1>12, <3>1
    <3>3. TextScreen!Stray
      BY <1>5, <2>1, <3>1, <3>2, MappedCells
         DEF TextScreen!Stray, Text, Places, TopRow, BottomRow
    <3> QED BY <3>3 DEF TextScreen!Next
  <2>2. CASE <<y, x>> \in Places
    <3> DEFINE n == (columns + 1) - x
    <3>1. /\ x \in 0..columns /\ y \in 0..lines /\ Seek = XyToConsoleMatrix(x, y)
          /\ n \in Nat /\ x + n = columns + 1 /\ x + n <= columns + 1 /\ Space \in Byte
      BY <1>4, <1>7, <2>2 DEF Places, Space, Byte
    <3>2. vcsa' = Written(vcsa, XyToConsoleMatrix(x, y), Cells(t, Space, n))
      BY <1>12, <3>1
    <3> HIDE DEF n
    <3>3. \A m \in 0..lines, l \in 0..columns :
            TextOf(vcsa')[<<m, l>>] = IF m = y /\ l \in x..(x + n - 1) THEN Space
                                      ELSE TextOf(vcsa)[<<m, l>>]
      <4> DEFINE dev == Written(vcsa, XyToConsoleMatrix(x, y), Cells(t, Space, n))
      <4>1. /\ x \in 0..columns /\ y \in 0..lines /\ n \in Nat /\ x + n <= columns + 1
            /\ Space \in Byte /\ vcsa \in Dev /\ attr[t] \in 0..15
        BY <1>4, <3>1
      <4>2. /\ dev \in Dev
            /\ \A m \in 0..lines, l \in 0..columns :
                 TextOf(dev)[<<m, l>>] = IF m = y /\ l \in x..(x + n - 1) THEN Space
                                         ELSE TextOf(vcsa)[<<m, l>>]
        BY <4>1, CellsWritten
      <4> HIDE DEF dev
      <4>3. vcsa' = dev
        BY <3>2 DEF dev
      <4> QED BY <4>2, <4>3
    <3>4. Text' = [p \in Places |-> IF p[1] = y /\ p[2] \in x..((columns + 1) - 1)
                                    THEN Space ELSE Text[p]]
      <4> DEFINE dev == vcsa'
                 c == columns + 1
      <4>1. /\ dev \in Dev /\ vcsa \in Dev /\ n \in Nat /\ x \in Int /\ c \in Int /\ x + n = c
            /\ \A m \in 0..lines, l \in 0..columns :
                 TextOf(dev)[<<m, l>>] = IF m = y /\ l \in x..(x + n - 1) THEN Space
                                         ELSE TextOf(vcsa)[<<m, l>>]
        BY <1>3, <1>4, <3>1, <3>3
      <4> HIDE DEF dev, c
      <4>2. TextOf(dev) = [p \in Places |-> IF p[1] = y /\ p[2] \in x..(c - 1)
                                           THEN Space ELSE Text[p]]
        BY <4>1, BlankedIs
      <4> QED BY <1>6, <4>2 DEF dev, c
    <3>5. ASSUME NEW c \in (x + 1)..(columns + 1) PROVE c % TabStop # 0
      BY <1>4, <1>12 DEF Stops
    <3>6. TextScreen!TabStays
      BY <1>5, <1>12, <2>2, <3>4, <3>5, MappedCells
         DEF TextScreen!TabStays, TextScreen!Blanked, Text, Places, TopRow, BottomRow
    <3> QED BY <3>6 DEF TextScreen!Next
  <2> QED BY <2>1, <2>2
<1>13. CASE Stops # {} /\ Lands(NextStop, Written(vcsa, Seek, Cells(t, Space, NextStop - x)), B)
  <2> DEFINE n == NextStop - x
             dev == Written(vcsa, Seek, Cells(t, Space, n))
  <2>0. /\ NextStop \in (x + 1)..(columns + 1)
        /\ NextStop % TabStop = 0
        /\ \A d \in (x + 1)..(NextStop - 1) : d % TabStop # 0
    BY <1>4, <1>13, NextStopOnRow
  <2>1. CASE <<y, x>> \notin Places
    BY <1>9, <1>13, <2>0, <2>1 DEF TextScreen!Next
  <2>2. CASE <<y, x>> \in Places
    <3>1. x \in 0..columns /\ y \in 0..lines /\ Seek = XyToConsoleMatrix(x, y)
          /\ n \in Nat /\ x + n = NextStop /\ x + n <= columns + 1 /\ Space \in Byte
          /\ NextStop \in -1..(columns + 1)
      BY <1>4, <1>7, <2>0, <2>2 DEF Places, Space, Byte
    <3>2. Lands(NextStop, dev, B)
      BY <1>13
    <3>3. /\ dev \in Dev
          /\ \A m \in 0..lines, l \in 0..columns :
               TextOf(dev)[<<m, l>>] = IF m = y /\ l \in x..(x + n - 1) THEN Space
                                       ELSE TextOf(vcsa)[<<m, l>>]
      <4>1. dev = Written(vcsa, XyToConsoleMatrix(x, y), Cells(t, Space, n))
        BY <3>1
      <4>2. /\ vcsa \in Dev /\ attr[t] \in 0..15 /\ Space \in Byte /\ x \in 0..columns
            /\ y \in 0..lines /\ n \in Nat /\ x + n <= columns + 1
        BY <3>1, <1>4
      <4> HIDE DEF n, dev
      <4> QED BY <4>1, <4>2, CellsWritten
    <3> HIDE DEF n, dev
    <3>4. TextOf(dev) = [p \in Places |-> IF p[1] = y /\ p[2] \in x..(NextStop - 1)
                                          THEN Space ELSE Text[p]]
      BY <1>4, <1>6, <3>1, <3>3, BlankedIs
    <3>5. TextScreen!Advances(NextStop, TextOf(dev))
      BY <3>1, <3>2, <3>3, <1>2, <1>4, LandsMaps
    <3>6. TextScreen!Tab
      BY <3>4, <3>5, <1>5, <2>0, <2>2, MappedCells
         DEF TextScreen!Tab, TextScreen!Blanked, Text, Places, TopRow, BottomRow
    <3> QED BY <3>6 DEF TextScreen!Next
  <2> QED BY <2>1, <2>2
<1>14. CASE Lands(x, vcsa, B)
  <2>1. ~(x > columns)
    BY <1>4
  <2>2. TextScreen!Reaches(y, x, TextOf(vcsa))
    BY <1>14, <2>1, <1>2, <1>4, ReachesMaps DEF Lands
  <2>3. TextScreen!Beep
    BY <2>2, <1>5, <1>6 DEF TextScreen!Beep, Text, Places, TopRow, BottomRow
  <2> QED BY <2>3 DEF TextScreen!Next
<1> QED BY <1>3, <1>10, <1>11, <1>12, <1>13, <1>14 DEF Effect

LEMMA OpenMaps ==
  ASSUME ScreenInv, Open
  PROVE  TextScreen!Next
<1>0. columns \in Nat /\ lines \in Nat /\ 0 \in 0..lines /\ lines \in 0..lines
  BY RowFacts
<1>1. WindowAt(0, lines)'
  BY <1>0 DEF Open, WindowAt
<1>2. TopRow' = 0 /\ BottomRow' = lines
  <2>1. winTop' = XyToConsoleMatrix(0, 0) /\ winBottom' = XyToConsoleMatrix(columns, lines)
    BY DEF Open
  <2>2. winBottom' # 0
    BY <1>0, <2>1, WindowTypes
  <2>3. 0 \in 0..columns /\ columns \in 0..columns
    BY <1>0
  <2>4. (winTop' - 4) \div RowBytes = 0 /\ (winBottom' - 4) \div RowBytes = lines
    BY <1>0, <2>1, <2>3, CellPlace
  <2> QED BY <2>2, <2>4 DEF TopRow, BottomRow, WasOpened
<1>3. TopRow = 0 /\ BottomRow = lines
  BY DEF Open, TopRow, BottomRow
<1>4. Text' = Text
  BY DEF Open, Text
<1>5. x' \in -1..columns /\ y' \in -1..lines
  BY <1>0 DEF Open
<1>6. TextScreen!Locate
  BY <1>2, <1>3, <1>4, <1>5, MappedCells
     DEF TextScreen!Locate, Text, Places, TopRow, BottomRow
<1> QED BY <1>6 DEF TextScreen!Next

\* LOCATE, at once or after what it did not set was read.
LEMMA LocateMaps ==
  ASSUME UNCHANGED window, TextOf(vcsa') = TextOf(vcsa), x' \in -1..columns, y' \in -1..lines
  PROVE  TextScreen!Next
<1>1. UNCHANGED <<Text, TopRow, BottomRow>>
  BY MappedText, MappedWindowStays
<1>2. TextScreen!Locate
  BY <1>1, MappedCells DEF TextScreen!Locate, Text, Places, TopRow, BottomRow
<1> QED BY <1>2 DEF TextScreen!Next

\* The window at the next state has the rows of T to B.
LEMMA MappedWindowNext ==
  ASSUME NEW T, NEW B, WindowAt(T, B)'
  PROVE  TopRow' = T /\ BottomRow' = B
<1>1. /\ T \in 0..lines /\ B \in 0..lines
      /\ winTop' = XyToConsoleMatrix(0, T) /\ winBottom' = XyToConsoleMatrix(columns, B)
  BY DEF WindowAt
<1>2. winBottom' # 0
  BY <1>1, WindowTypes
<1>3. 0 \in 0..columns /\ columns \in 0..columns
  BY RowFacts
<1>4. (winTop' - 4) \div RowBytes = T /\ (winBottom' - 4) \div RowBytes = B
  BY <1>1, <1>3, CellPlace
<1> QED BY <1>2, <1>4 DEF TopRow, BottomRow, WasOpened

LEMMA ViewPrintMaps ==
  ASSUME NEW T, NEW B, WindowAt(T, B)', TextOf(vcsa') = TextOf(vcsa), x' = 0, y' = T
  PROVE  TextScreen!Next
<1>1. TopRow' = T /\ BottomRow' = B /\ Text' = Text
  BY MappedWindowNext, MappedText
<1>2. /\ T \in 0..((lines + 1) - 1) /\ B \in T..((lines + 1) - 1)
  BY RowFacts DEF WindowAt
<1>3. TextScreen!ViewPrint
  BY <1>1, <1>2 DEF TextScreen!ViewPrint, Text, Places, TopRow, BottomRow
<1> QED BY <1>3 DEF TextScreen!Next

LEMMA ClsMaps ==
  ASSUME ScreenInv, ScreenInv', NEW t \in Thread, ClsEnd(t)
  PROVE  TextScreen!Next
<1>1. PICK T \in 0..lines, B \in 0..lines : WindowAt(T, B)
  BY OpenHasWindow DEF ClsEnd, ScreenInv
<1>2. /\ x' = 0 /\ y' = T
      /\ \A m \in 0..lines, l \in 0..columns :
           TextOf(vcsa')[<<m, l>>] = IF m \in T..B THEN Space ELSE TextOf(vcsa)[<<m, l>>]
  BY <1>1, ClsEndKeeps
<1>3. TopRow = T /\ BottomRow = B /\ UNCHANGED <<TopRow, BottomRow>>
  BY <1>1, MappedWindow, MappedWindowStays DEF ClsEnd
<1>4. Text = TextOf(vcsa) /\ Text' = TextOf(vcsa') /\ vcsa \in Dev /\ vcsa' \in Dev
  BY MappedText DEF ScreenInv, DriverInv, TypeOK, Dev
<1>5. Text' = [p \in Places |-> IF p[1] \in T..B THEN Space ELSE Text[p]]
  <2> DEFINE new == [p \in Places |-> IF p[1] \in T..B THEN Space ELSE Text[p]]
  <2>1. Text' \in [Places -> Byte] /\ Text \in [Places -> Byte] /\ Space \in Byte
    BY <1>4, MappedTextType DEF Space, Byte
  <2>2. new \in [Places -> Byte]
    BY <2>1
  <2>3. ASSUME NEW m \in 0..lines, NEW l \in 0..columns
        PROVE  Text'[<<m, l>>] = new[<<m, l>>]
    <3>1. <<m, l>> \in Places
      BY DEF Places
    <3>2. new[<<m, l>>] = IF m \in T..B THEN Space ELSE Text[<<m, l>>]
      BY <3>1
    <3> QED BY <1>2, <1>4, <3>2
  <2> HIDE DEF new
  <2>4. Text' = new
    BY <2>1, <2>2, <2>3, TextByCells
  <2> QED BY <2>4 DEF new
<1>6. TextScreen!Cls
  BY <1>2, <1>3, <1>5, MappedCells DEF TextScreen!Cls, Text, Places, TopRow, BottomRow
<1> QED BY <1>6 DEF TextScreen!Next

LEMMA DeinitMaps ==
  ASSUME ScreenInv, ScreenInv', ~overlapped', NEW t \in Thread, Deinit(t)
  PROVE  TextScreen!Next
<1>0. columns \in Nat /\ lines \in Nat /\ (lines + 1) - 1 = lines /\ y \in -1..lines
  BY RowFacts DEF ScreenInv, Undisturbed, CursorInv
<1>1. /\ x' = 0
      /\ y < lines => y' = y + 1 /\ UNCHANGED window /\ TextOf(vcsa') = TextOf(vcsa)
      /\ y >= lines => /\ y' = lines /\ WindowAt(0, lines)'
                       /\ \A m \in 0..lines, l \in 0..columns :
                            TextOf(vcsa')[<<m, l>>] =
                              IF m = lines THEN Space ELSE TextOf(vcsa)[<<m + 1, l>>]
  BY DeinitIs
<1>2. Text = TextOf(vcsa) /\ Text' = TextOf(vcsa') /\ vcsa \in Dev /\ vcsa' \in Dev
  BY MappedText DEF ScreenInv, DriverInv, TypeOK, Dev
<1>3. CASE y < lines
  <2>1. UNCHANGED <<TopRow, BottomRow, Text>>
    BY <1>1, <1>2, <1>3, MappedWindowStays
  <2>2. TextScreen!Leave
    BY <1>0, <1>1, <1>3, <2>1 DEF TextScreen!Leave, Text, Places, TopRow, BottomRow
  <2> QED BY <2>2 DEF TextScreen!Next
<1>4. CASE y >= lines
  <2>1. TopRow' = 0 /\ BottomRow' = lines
    BY <1>1, <1>4, MappedWindowNext
  <2>2. Text' = [p \in Places |-> IF p[1] = lines THEN Space ELSE Text[<<p[1] + 1, p[2]>>]]
    <3> DEFINE new == [p \in Places |-> IF p[1] = lines THEN Space
                                        ELSE Text[<<p[1] + 1, p[2]>>]]
    <3>1. Text' \in [Places -> Byte] /\ Text \in [Places -> Byte] /\ Space \in Byte
      BY <1>2, MappedTextType DEF Space, Byte
    <3>2. new \in [Places -> Byte]
      <4>1. ASSUME NEW p \in Places, p[1] # lines PROVE Text[<<p[1] + 1, p[2]>>] \in Byte
        <5>1. p[1] \in 0..lines /\ p[2] \in 0..columns
          BY DEF Places
        <5>2. <<p[1] + 1, p[2]>> \in Places
          BY <1>0, <4>1, <5>1 DEF Places
        <5> QED BY <3>1, <5>2
      <4> QED BY <3>1, <4>1
    <3>3. ASSUME NEW m \in 0..lines, NEW l \in 0..columns
          PROVE  Text'[<<m, l>>] = new[<<m, l>>]
      <4>1. <<m, l>> \in Places
        BY DEF Places
      <4>2. new[<<m, l>>] = IF m = lines THEN Space ELSE Text[<<m + 1, l>>]
        BY <4>1
      <4> QED BY <1>1, <1>2, <1>4, <4>2
    <3> HIDE DEF new
    <3>4. Text' = new
      BY <3>1, <3>2, <3>3, TextByCells
    <3> QED BY <3>4 DEF new
  <2>3. y = lines /\ y' = y /\ x' = 0
    BY <1>0, <1>1, <1>4
  <2>4. Text' = [p \in TextScreen!Cell |->
                   IF p[1] = (lines + 1) - 1 THEN Space ELSE Text[<<p[1] + 1, p[2]>>]]
    BY <2>2, MappedCells
  <2>5. /\ ~(y < (lines + 1) - 1) /\ TopRow' = 0 /\ BottomRow' = (lines + 1) - 1
        /\ x' = 0 /\ UNCHANGED y
    BY <1>0, <1>4, <2>1, <2>3
  <2>6. TextScreen!Leave
    BY <2>4, <2>5 DEF TextScreen!Leave, Text, Places, TopRow, BottomRow
  <2> QED BY <2>6 DEF TextScreen!Next
<1> QED BY <1>0, <1>3, <1>4

LEMMA ScreenMaps ==
  ASSUME ScreenInv, ~overlapped', [Next]_vars
  PROVE  TextScreen!Next \/ UNCHANGED Mapped
<1>0. /\ columns \in Nat /\ lines \in Nat /\ ScreenInv'
      /\ 0 \in 0..lines /\ lines \in 0..lines /\ 0 <= lines
  BY RowFacts, ScreenStep
<1>1. CASE UNCHANGED vars
  BY <1>1, MappedStutter DEF vars, window
<1>2. CASE Open
  BY <1>2, OpenMaps
<1>3. ASSUME NEW t \in Thread, Proceeds(t)
      PROVE  TextScreen!Next \/ UNCHANGED Mapped
  <2>1. CASE PrintChar(t)
    BY <2>1, PrintMaps
  <2>2. CASE PrintEnd(t)
    <3>1. UNCHANGED window
      BY <2>2 DEF PrintEnd
    <3> QED BY <2>2, <3>1, PrintEndKeeps, MappedStutter
  <2>3. CASE ClsEnd(t)
    BY <1>0, <2>3, ClsMaps
  <2>4. CASE LocateEnd(t)
    <3>1. Undisturbed' /\ TextOf(vcsa') = TextOf(vcsa) /\ x' \in -1..columns
      BY <2>4, LocateEndKeeps
    <3>2. UNCHANGED window
      BY <2>4 DEF LocateEnd
    <3>3. x' \in -1..columns /\ y' \in -1..lines
      BY <3>1 DEF Undisturbed, CursorInv
    <3> QED BY <3>1, <3>2, <3>3, LocateMaps
  <2>5. CASE ClsSize(t)
    BY <2>5, ClsSizeKeeps, MappedStutter
  <2> QED BY <1>3, <2>1, <2>2, <2>3, <2>4, <2>5 DEF Proceeds
<1>4. ASSUME NEW t \in Thread, Begins(t)
      PROVE  TextScreen!Next \/ UNCHANGED Mapped
  <2>1. ASSUME NEW s \in Texts, PrintText(t, s)
        PROVE  UNCHANGED Mapped
    BY <2>1, MappedStutter DEF PrintText
  <2>2. CASE ClsBegin(t) \/ LocateOne(t, "column") \/ LocateOne(t, "row")
    BY <2>2, MappedStutter DEF ClsBegin, LocateOne
  <2>3. ASSUME NEW c \in Color, SetColor(t, c)
        PROVE  UNCHANGED Mapped
    BY <2>3, MappedStutter DEF SetColor
  <2>4. ASSUME NEW top \in 0..lines, NEW bottom \in 0..lines, ViewPrint(t, top, bottom)
        PROVE  TextScreen!Next
    <3>1. /\ WindowAt(top, bottom)'
          /\ TextOf(vcsa') = TextOf(vcsa) /\ x' = 0 /\ y' = top
      BY <2>4, ViewPrintKeeps DEF ViewPrint
    <3> QED BY <3>1, ViewPrintMaps
  <2>5. CASE ViewPrintAll(t)
    <3>1. /\ WindowAt(0, lines)'
          /\ TextOf(vcsa') = TextOf(vcsa) /\ x' = 0 /\ y' = 0
      BY <1>0, <2>5, ViewPrintKeeps DEF ViewPrintAll
    <3> QED BY <3>1, ViewPrintMaps
  <2>6. ASSUME NEW i \in 0..columns, NEW j \in 0..lines, Locate(t, i, j)
        PROVE  TextScreen!Next
    <3>1. TextOf(vcsa') = TextOf(vcsa) /\ x' = i /\ y' = j
      BY <2>6, LocateKeeps
    <3>2. UNCHANGED window
      BY <2>6 DEF Locate
    <3>3. x' \in -1..columns /\ y' \in -1..lines
      BY <1>0, <3>1
    <3> QED BY <3>1, <3>2, <3>3, LocateMaps
  <2> QED BY <1>4, <2>1, <2>2, <2>3, <2>4, <2>5, <2>6 DEF Begins
<1>5. ASSUME NEW t \in Thread, Deinit(t)
      PROVE  TextScreen!Next
  BY <1>0, <1>5, DeinitMaps
<1> QED BY <1>1, <1>2, <1>3, <1>4, <1>5 DEF Next

(* The characters of the device, the cursor and the window behave as a      *)
(* screen (module Screen), until statements of two threads overlap:         *)
(* printing, the wrap, the scroll of the window and of the whole screen,    *)
(* TAB, LOCATE, VIEW PRINT, CLS and the end of the program, on every screen *)
(* whose offsets fit an __integer.                                          *)
THEOREM PrintsAsScreen == ConsoleSpec => ScreenSpec
<1>1. ConsoleInit => TextScreen!Init
  <2> SUFFICES ASSUME ConsoleInit PROVE TextScreen!Init
    OBVIOUS
  <2>1. Text \in [Places -> Byte]
    <3>1. vcsa \in Dev
      BY TextAssumption DEF ConsoleInit, Init, Dev
    <3> QED BY <3>1, MappedText, MappedTextType
  <2>2. x \in -1..columns /\ y \in -1..lines /\ TopRow = 0 /\ BottomRow = lines
    BY RowFacts DEF ConsoleInit, Init, TopRow, BottomRow, WasOpened
  <2> QED BY <2>1, <2>2, MappedCells DEF TextScreen!Init, Text, Places, TopRow, BottomRow
<1>2. AlwaysInv /\ [ConsoleNext]_allVars => [overlapped' \/ TextScreen!Next]_(TextScreen!vars)
  <2> SUFFICES ASSUME AlwaysInv, [ConsoleNext]_allVars, ~overlapped'
               PROVE  [TextScreen!Next]_(TextScreen!vars)
    OBVIOUS
  <2>1. [Next]_vars
    BY ConsoleStep
  <2>2. ScreenInv
    BY <2>1, OverlapStays DEF AlwaysInv, ScreenInv
  <2>3. TextScreen!Next \/ UNCHANGED Mapped
    BY <2>1, <2>2, ScreenMaps
  <2>4. UNCHANGED Mapped => UNCHANGED TextScreen!vars
    BY DEF Mapped, TextScreen!vars, Text, Places, TopRow, BottomRow
  <2> QED BY <2>3, <2>4
<1> QED BY <1>1, <1>2, AlwaysHolds, PTL DEF ConsoleSpec, ScreenSpec

=============================================================================
