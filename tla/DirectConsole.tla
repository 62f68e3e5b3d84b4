--------------------------- MODULE DirectConsole ----------------------------
(***************************************************************************)
(* The driver of the Linux console                                         *)
(* (BASIClib/consoledrivers/DirectConsole.c, of which SDLDriver.c is a     *)
(* copy): a program's screen kept in the bytes of /dev/vcsa.               *)
(*                                                                         *)
(* Bytes 0 to 3 of the device are its size and its cursor; from 4 on there *)
(* are two bytes for each cell, the character and the colour, row by row.  *)
(* The statements of several threads interleave; consoleLock is recursive  *)
(* and a step that takes and releases it is atomic.  PRINT holds it while  *)
(* it puts one character after the other; CLS and LOCATE read what they    *)
(* use before they take it, and what they read may be of a PRINT half done *)
(* or no longer so (overlapped).                                           *)
(***************************************************************************)
EXTENDS Integers, Sequences

CONSTANTS
  Thread, Nobody,
  lines, columns,    \* the last row and the last column, from 0
  Letter,            \* the characters a program prints
  Color,
  TabStop,           \* 8 in the code
  Texts,             \* the strings a program prints
  Junk,              \* Junk[p]: what is on the device at the start
  MaxCalls           \* bound on the statements of a behaviour

BEEP == 7
TAB == 9
NL == 10
CR == 13
Space == 32

RowBytes == (columns + 1) * 2
Size == 4 + (lines + 1) * RowBytes
Byte == 0..255

\* The offsets of the driver are 16-bit integers (__integer) and fit: on a larger
\* screen, of more than some 16000 cells, winBottom wraps and is not modelled.
ASSUME ScreenAssumption ==
  /\ lines \in Nat /\ columns \in Nat /\ lines < 255 /\ columns < 255
  /\ Size <= 32767
ASSUME TextAssumption ==
  /\ Letter \subseteq Byte \ {BEEP, TAB, NL, CR} /\ Color \subseteq 0..15 /\ 7 \in Color
  /\ Texts \subseteq Seq(Letter \union {BEEP, TAB, NL, CR})
  /\ Junk \in [0..(Size - 1) -> Byte]
ASSUME BoundAssumption ==
  TabStop \in Nat \ {0} /\ MaxCalls \in Nat
ASSUME NobodyAssumption == Nobody \notin Thread

VARIABLES
  x, y,          \* the cursor
  winTop, winBottom,   \* positions of the first and the last cell of the window
  curColor,
  vcsa,          \* the bytes of the device
  at,            \* the file offset of cons
  isOpen,        \* cons # -1
  consoleLock,   \* its owner
  pc,            \* where each thread is
  str,           \* what PRINT has still to print
  attr,          \* the colour it prints in, matrixChar[1]
  seen,          \* what CLS, LOCATE have read: winTop, winBottom or max, y, x
  overlapped,    \* history: a statement began while another was between its
                 \* reads without the lock and their use, or one so read during
                 \* a PRINT
  calls          \* statements begun so far

vars == <<x, y, winTop, winBottom, curColor, vcsa, at, isOpen, consoleLock, pc, str,
          attr, seen, overlapped, calls>>
window == <<winTop, winBottom>>

XyToConsoleMatrix(i, j) == j * RowBytes + i * 2 + 4
ConsoleMatrixToY(pos) == ((pos - 4) \div 2) \div (columns + 1)
ConsoleMatrixToX(pos) == ((pos - 4) \div 2) % (columns + 1)

\* Between what a statement reads without the lock and its use.
Reading == {"top", "bottom", "cls", "column", "row"}

TypeOK ==
  /\ x \in Int /\ y \in Int
  /\ winTop \in 0..(Size - 2) /\ winBottom \in 0..(Size - 2)
  /\ curColor \in 0..15
  /\ vcsa \in [0..(Size - 1) -> Byte]
  /\ at \in Nat
  /\ isOpen \in BOOLEAN
  /\ consoleLock \in Thread \union {Nobody}
  /\ pc \in [Thread -> {"program", "print", "hung"} \union Reading]
  /\ str \in [Thread -> Seq(Letter \union {BEEP, TAB, NL, CR})]
  /\ attr \in [Thread -> 0..15]
  /\ seen \in [Thread -> Int]
  /\ overlapped \in BOOLEAN
  /\ calls \in 0..MaxCalls

------------------------------------------------------------------------------
Init ==
  /\ x = 0 /\ y = 0
  /\ winTop = 0 /\ winBottom = 0
  /\ curColor = 7
  /\ vcsa = Junk
  /\ at = 0
  /\ isOpen = FALSE
  /\ consoleLock = Nobody
  /\ pc = [t \in Thread |-> "program"]
  /\ str = [t \in Thread |-> <<>>]
  /\ attr = [t \in Thread |-> 7]
  /\ seen = [t \in Thread |-> 0]
  /\ overlapped = FALSE
  /\ calls = 0

WasOpened == winBottom # 0

\* __setupOutput(), when the cursor of the device is at i, j: both are taken
\* for numbers from 1.
Open ==
  /\ ~WasOpened
  /\ \E i \in 0..columns, j \in 0..lines : x' = i - 1 /\ y' = j - 1
  /\ winTop' = XyToConsoleMatrix(0, 0)
  /\ winBottom' = XyToConsoleMatrix(columns, lines)
  /\ curColor' = 7
  /\ at' = 4
  /\ isOpen' = TRUE
  /\ UNCHANGED <<vcsa, consoleLock, pc, str, attr, seen, overlapped, calls>>

\* The device after bytes are written at an offset; what lies past its end is
\* not.
Written(dev, from, bytes) ==
  [p \in 0..(Size - 1) |->
     IF p \in from..(from + Len(bytes) - 1) THEN bytes[p - from + 1] ELSE dev[p]]

\* __setCursorXY(): the position is written as two unsigned bytes.
SetCursorXY(i, j, dev) ==
  /\ x' = i /\ y' = j
  /\ vcsa' = Written(dev, 2, <<i % 256, j % 256>>)
  /\ at' = 4

\* None if n is negative.
Blanks(n) == [k \in 1..n |-> IF k % 2 = 1 THEN Space ELSE curColor]

\* A mutant of Scrolled: rows above the window move as well.
ScrolledFromTop(dev, top, bottom) ==
  LET n == (bottom - (4 + RowBytes)) + 1
      moved == [p \in 0..(Size - 1) |->
                  IF p \in 4..(4 + n - 1) THEN dev[p + RowBytes] ELSE dev[p]]
  IN Written(moved, (bottom - RowBytes) + 2, Blanks(RowBytes))

\* __scrollConsole() on the window from top to bottom.  With a single row the
\* size of the buffer is negative, and read() and write() refuse it.
Scrolled(dev, top, bottom) ==
  LET scrollStart == top + RowBytes
      bufSize == (bottom - scrollStart) + 1
      moved == [p \in 0..(Size - 1) |->
                  IF p \in top..(top + bufSize - 1) THEN dev[p + RowBytes] ELSE dev[p]]
  IN Written(moved, (bottom - RowBytes) + 2, Blanks(RowBytes))

Below(i, j) == XyToConsoleMatrix(i, j) > winBottom

\* The cursor is to go to i, j; below the window that scrolls and stays in the
\* last row.
GoesTo(i, j, dev, k) ==
  /\ x' = i
  /\ y' = IF Below(i, j) THEN ConsoleMatrixToY(winBottom) ELSE j
  /\ vcsa' = IF Below(i, j) THEN Scrolled(dev, winTop, winBottom) ELSE dev
  /\ at' = IF Below(i, j) THEN winBottom + 2 ELSE k

\* What ends an iteration of printNChars: past the last column the cursor goes
\* to the start of the next row.
WrapsTo(i, dev, k) ==
  IF i > columns THEN GoesTo(0, y + 1, dev, k) ELSE GoesTo(i, y, dev, k)

------------------------------------------------------------------------------
Free(t) == consoleLock \in {Nobody, t}

\* A thread begins a statement.
Calls(t) ==
  /\ isOpen /\ pc[t] = "program"
  /\ calls < MaxCalls
  /\ calls' = calls + 1
  /\ UNCHANGED isOpen

\* Where the others are when a statement begins.
Meets(some) == overlapped' = (overlapped \/ \E u \in Thread : pc[u] \in some)

\* PRINT s: printNChars() takes the lock.
PrintText(t, s) ==
  /\ Calls(t) /\ Free(t) /\ Meets(Reading)
  /\ consoleLock' = t
  /\ pc' = [pc EXCEPT ![t] = "print"]
  /\ str' = [str EXCEPT ![t] = s]
  /\ attr' = [attr EXCEPT ![t] = curColor]
  /\ UNCHANGED <<x, y, window, curColor, vcsa, at, seen>>

\* lseek() to where the cursor is; before the start of the device it fails.
Seek == IF XyToConsoleMatrix(x, y) < 0 THEN at ELSE XyToConsoleMatrix(x, y)

Cells(t, ch, n) == [k \in 1..(2 * n) |-> IF k % 2 = 1 THEN ch ELSE attr[t]]

\* A mutant of PrintLetter: no wrap at the end of a row.
PrintLetterOn(t, ch) ==
  /\ ch \in Letter
  /\ GoesTo(x + 1, y, Written(vcsa, Seek, Cells(t, ch, 1)), Seek + 2)
  /\ UNCHANGED pc

PrintLetter(t, ch) ==
  /\ ch \in Letter
  /\ WrapsTo(x + 1, Written(vcsa, Seek, Cells(t, ch, 1)), Seek + 2)
  /\ UNCHANGED pc

\* A carriage return is a new line, and so is the line feed after it: the code
\* compares str[i] with both (DirectConsole.c:368), where docs/console.txt:190
\* takes the two for one.
PrintNewLine(ch) ==
  /\ ch \in {CR, NL}
  /\ LET j == IF Below(0, y + 1) THEN ConsoleMatrixToY(winBottom) ELSE y + 1
         dev == IF Below(0, y + 1) THEN Scrolled(vcsa, winTop, winBottom) ELSE vcsa
     IN SetCursorXY(0, j, dev)
  /\ UNCHANGED pc

\* A mutant of Stops: the column after the cursor is none.
StopsPastNext == {i \in (x + 2)..(columns + 1) : i % TabStop = 0}

\* Where the loop of a TAB may end.  Past the last column x no longer moves.
Stops == {i \in (x + 1)..(columns + 1) : i % TabStop = 0}
         \union {i \in {x} : x > columns /\ x % TabStop = 0}
NextStop == CHOOSE i \in Stops : \A j \in Stops : i <= j

\* The blanks that fill the rest of a row.
Rest == IF x > columns THEN 0 ELSE (columns + 1) - x

\* Without a stop the loop fills the row and never ends, and the lock is kept.
PrintTab(t, ch) ==
  /\ ch = TAB
  /\ IF Stops = {}
     THEN /\ x' = x + Rest
          /\ vcsa' = Written(vcsa, Seek, Cells(t, Space, Rest))
          /\ at' = Seek + 2 * Rest
          /\ pc' = [pc EXCEPT ![t] = "hung"]
          /\ UNCHANGED y
     ELSE /\ WrapsTo(NextStop, Written(vcsa, Seek, Cells(t, Space, NextStop - x)),
                     Seek + 2 * (NextStop - x))
          /\ UNCHANGED pc

PrintBeep(ch) ==
  /\ ch = BEEP
  /\ WrapsTo(x, vcsa, Seek)
  /\ UNCHANGED pc

\* One iteration of printNChars.
PrintChar(t) ==
  /\ pc[t] = "print" /\ str[t] # <<>>
  /\ \/ PrintLetter(t, Head(str[t]))
     \/ PrintNewLine(Head(str[t]))
     \/ PrintTab(t, Head(str[t]))
     \/ PrintBeep(Head(str[t]))
  /\ str' = [str EXCEPT ![t] = Tail(@)]
  /\ UNCHANGED <<window, curColor, isOpen, consoleLock, attr, seen, overlapped, calls>>

PrintEnd(t) ==
  /\ pc[t] = "print" /\ str[t] = <<>>
  /\ SetCursorXY(x, y, vcsa)
  /\ consoleLock' = Nobody
  /\ pc' = [pc EXCEPT ![t] = "program"]
  /\ UNCHANGED <<window, curColor, isOpen, str, attr, seen, overlapped, calls>>

\* t reads variables of the driver without the lock.
ReadsUnlocked(t) == Calls(t) /\ Meets({"print", "hung"} \union Reading)

\* CLS computes the size of the window from its bounds, read in either order,
\* and clears that much with the lock.
ClsBegin(t) ==
  /\ ReadsUnlocked(t)
  /\ \/ /\ seen' = [seen EXCEPT ![t] = winTop]
        /\ pc' = [pc EXCEPT ![t] = "top"]
     \/ /\ seen' = [seen EXCEPT ![t] = winBottom]
        /\ pc' = [pc EXCEPT ![t] = "bottom"]
  /\ UNCHANGED <<x, y, window, curColor, vcsa, at, consoleLock, str, attr>>

ClsSize(t) ==
  /\ isOpen /\ pc[t] \in {"top", "bottom"}
  /\ seen' = [seen EXCEPT ![t] = IF pc[t] = "top" THEN (winBottom + 1) - @
                                                 ELSE (@ + 1) - winTop]
  /\ pc' = [pc EXCEPT ![t] = "cls"]
  /\ UNCHANGED <<x, y, window, curColor, vcsa, at, isOpen, consoleLock, str, attr,
                 overlapped, calls>>

ClsEnd(t) ==
  /\ isOpen /\ pc[t] = "cls" /\ Free(t)
  /\ SetCursorXY(ConsoleMatrixToX(winTop), ConsoleMatrixToY(winTop),
                 Written(vcsa, winTop, Blanks(seen[t])))
  /\ pc' = [pc EXCEPT ![t] = "program"]
  /\ seen' = [seen EXCEPT ![t] = 0]
  /\ UNCHANGED <<window, curColor, isOpen, consoleLock, str, attr, overlapped, calls>>

\* COLOR c, without the lock.
SetColor(t, c) ==
  /\ Calls(t) /\ Meets(Reading)
  /\ curColor' = c
  /\ UNCHANGED <<x, y, window, vcsa, at, consoleLock, pc, str, attr, seen>>

\* VIEW PRINT top TO bottom, from 0.
ViewPrint(t, top, bottom) ==
  /\ Calls(t) /\ Free(t) /\ Meets(Reading)
  /\ top <= bottom
  /\ winTop' = XyToConsoleMatrix(0, top)
  /\ winBottom' = XyToConsoleMatrix(columns, bottom)
  /\ SetCursorXY(0, top, vcsa)
  /\ UNCHANGED <<curColor, consoleLock, pc, str, attr, seen>>

\* VIEW PRINT.
ViewPrintAll(t) ==
  /\ Calls(t) /\ Free(t) /\ Meets(Reading)
  /\ winTop' = XyToConsoleMatrix(0, 0)
  /\ winBottom' = XyToConsoleMatrix(columns, lines)
  /\ SetCursorXY(0, 0, vcsa)
  /\ UNCHANGED <<curColor, consoleLock, pc, str, attr, seen>>

\* LOCATE j, i, anywhere on the screen.
Locate(t, i, j) ==
  /\ Calls(t) /\ Free(t) /\ Meets(Reading)
  /\ SetCursorXY(i, j, vcsa)
  /\ UNCHANGED <<window, curColor, consoleLock, pc, str, attr, seen>>

\* What a thread may read of the cursor: an iteration of PRINT moves it past the
\* end of the row or of the window before it looks.
Passing(t) ==
  LET ch == Head(str[t])
  IN IF ch \in Letter THEN {x + 1}
     ELSE IF ch # TAB THEN {}
     ELSE IF Stops = {} THEN x..(x + Rest) ELSE (x + 1)..NextStop

NextRow(t) ==
  LET ch == Head(str[t])
  IN \/ ch \in {CR, NL}
     \/ \E i \in Passing(t) \union {x} : i > columns /\ (ch # TAB \/ Stops # {})

InIteration == {t \in Thread : pc[t] = "print" /\ str[t] # <<>>}
SeenX == {x} \union UNION {Passing(t) : t \in InIteration}
SeenY == {y} \union {y + 1 : t \in {u \in InIteration : NextRow(u)}}

\* LOCATE , i and LOCATE j read the other coordinate before they take the lock.
LocateOne(t, what) ==
  /\ ReadsUnlocked(t)
  /\ \E k \in IF what = "column" THEN SeenY ELSE SeenX : seen' = [seen EXCEPT ![t] = k]
  /\ pc' = [pc EXCEPT ![t] = what]
  /\ UNCHANGED <<x, y, window, curColor, vcsa, at, consoleLock, str, attr>>

LocateEnd(t) ==
  /\ isOpen /\ pc[t] \in {"column", "row"} /\ Free(t)
  /\ \/ /\ pc[t] = "column"
        /\ \E i \in 0..columns : SetCursorXY(i, seen[t], vcsa)
     \/ /\ pc[t] = "row"
        /\ \E j \in 0..lines : SetCursorXY(seen[t], j, vcsa)
  /\ pc' = [pc EXCEPT ![t] = "program"]
  /\ seen' = [seen EXCEPT ![t] = 0]
  /\ UNCHANGED <<window, curColor, isOpen, consoleLock, str, attr, overlapped, calls>>

\* __dcon_deinitConsoleDriver(): the cursor moves to the next row, for which
\* the whole screen scrolls if there is none.  Then the device is closed.
Deinit(t) ==
  /\ isOpen /\ pc[t] = "program" /\ Free(t) /\ Meets(Reading)
  /\ IF y >= lines
     THEN /\ winTop' = XyToConsoleMatrix(0, 0)
          /\ winBottom' = XyToConsoleMatrix(columns, lines)
          /\ SetCursorXY(0, lines, Scrolled(vcsa, winTop', winBottom'))
     ELSE SetCursorXY(0, y + 1, vcsa) /\ UNCHANGED window
  /\ isOpen' = FALSE
  /\ UNCHANGED <<curColor, consoleLock, pc, str, attr, seen, calls>>

------------------------------------------------------------------------------
Proceeds(t) == PrintChar(t) \/ PrintEnd(t) \/ ClsSize(t) \/ ClsEnd(t) \/ LocateEnd(t)

Begins(t) ==
  \/ \E s \in Texts : PrintText(t, s)
  \/ ClsBegin(t)
  \/ \E c \in Color : SetColor(t, c)
  \/ \E top, bottom \in 0..lines : ViewPrint(t, top, bottom)
  \/ ViewPrintAll(t)
  \/ \E i \in 0..columns, j \in 0..lines : Locate(t, i, j)
  \/ LocateOne(t, "column") \/ LocateOne(t, "row")

Next == Open \/ \E t \in Thread : Proceeds(t) \/ Begins(t) \/ Deinit(t)

\* A statement that has begun goes on.
Spec == Init /\ [][Next]_vars /\ \A t \in Thread : WF_vars(Proceeds(t))

------------------------------------------------------------------------------
(* The printable window is whole rows of the screen, the first not below    *)
(* the last (DirectConsole.c:498): what scrolls and what CLS clears starts  *)
(* and ends where rows do, whatever VIEW PRINT and the end of the program   *)
(* have set.                                                                *)
WindowIsRows ==
  WasOpened => \E top, bottom \in 0..lines :
    /\ top <= bottom
    /\ winTop = XyToConsoleMatrix(0, top)
    /\ winBottom = XyToConsoleMatrix(columns, bottom)

(* As long as no thread uses what it read of the cursor after another moved *)
(* it, the cursor is on the screen, but for the row and the column too few  *)
(* of the start (DirectConsole.c:184): wrapping and scrolling bring it back *)
(* before anyone looks.  Only a TAB that never ends leaves it past its row. *)
CursorOnScreen ==
  ~overlapped =>
    /\ y \in -1..lines
    /\ x \in -1..columns \/ (x = columns + 1 /\ \E t \in Thread : pc[t] = "hung")

(* The window is on the screen, the cursor as long as statements do not     *)
(* overlap, and whatever they do what the driver keeps has its type.        *)
ScreenInBounds == TypeOK /\ WindowIsRows /\ CursorOnScreen

(* The characters of the device, the cursor and the window are a screen     *)
(* that prints, scrolls, clears and closes as one (module Screen), however  *)
(* the statements of threads interleave, until two of them overlap.         *)
TextScreen == INSTANCE Screen WITH
  Rows <- lines + 1, Columns <- columns + 1, Char <- Byte, Blank <- Space,
  text <- [p \in (0..lines) \X (0..columns) |-> vcsa[XyToConsoleMatrix(p[2], p[1])]],
  row <- y, col <- x,
  top <- IF WasOpened THEN (winTop - 4) \div RowBytes ELSE 0,
  bottom <- IF WasOpened THEN (winBottom - 4) \div RowBytes ELSE lines
ScreenSpec == TextScreen!Init /\ [][overlapped' \/ TextScreen!Next]_(TextScreen!vars)

(* A PRINT ends (DirectConsole.c:341), and the lock is free for the next    *)
(* statement, but for a TAB at or past the last stop of a row whose width   *)
(* is no multiple of 8 (or with a cursor that an overlap left off the row): *)
(* the loop of DirectConsole.c:377-387 has no other way out ("check end of  *)
(* line...  !!!").                                                          *)
LastStop == (columns + 1) - ((columns + 1) % TabStop)
PrintEnds ==
  /\ \A t \in Thread : pc[t] = "print" ~> pc[t] \in {"program", "hung"}
  /\ [][\A t \in Thread : pc[t] = "print" /\ pc'[t] = "hung" =>
           Head(str[t]) = TAB /\ x >= LastStop /\ (x <= columns \/ overlapped)]_vars

(* CLS sets every cell of the window to the background colour, the last one *)
(* as well ("The window will be blanked of characters, and set to the       *)
(* background color", DirectConsole.c:441).                                 *)
ClsSetsColor ==
  [][\A t \in Thread :
       pc[t] = "cls" /\ pc'[t] = "program" =>
         \A p \in winTop..(winBottom + 1) : p % 2 = 1 => vcsa'[p] = curColor]_vars

=============================================================================
