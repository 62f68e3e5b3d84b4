------------------------------- MODULE Screen -------------------------------
(***************************************************************************)
(* What BASIC programs are promised of a text screen: rows of characters,  *)
(* a cursor, and a window of whole rows.  Printing past the end of a row   *)
(* goes on in the next one, and past the last row of the window moves the  *)
(* rows of the window up.  The drivers' comments say no more              *)
(* (BASIClib/consoledrivers/DirectConsole.c).                              *)
(***************************************************************************)
EXTENDS Integers

CONSTANTS Rows, Columns,   \* the rows are 0..Rows-1, the columns 0..Columns-1
          Char, Blank,
          TabStop          \* distance of the tabulator's stops

VARIABLES text,         \* text[r, c]
          row, col,     \* the cursor
          top, bottom   \* the first and the last row of the window

vars == <<text, row, col, top, bottom>>
Cell == (0..(Rows - 1)) \X (0..(Columns - 1))

\* The cursor of the device at the start may be taken for one off the screen.
Init ==
  /\ text \in [Cell -> Char]
  /\ row \in -1..(Rows - 1) /\ col \in -1..(Columns - 1)
  /\ top = 0 /\ bottom = Rows - 1

\* What is left on the screen, was, with the rows of the window moved up.
ScrolledUp(was) ==
  [p \in Cell |-> IF p[1] \notin top..bottom THEN was[p]
                  ELSE IF p[1] = bottom THEN Blank ELSE was[<<p[1] + 1, p[2]>>]]

\* The cursor goes to row r, or stays in the window if that is below it.
Reaches(r, c, was) ==
  /\ col' = c
  /\ IF r > bottom THEN row' = bottom /\ text' = ScrolledUp(was)
     ELSE row' = r /\ text' = was

\* The cursor advances to column c, which may be past the end of its row.
Advances(c, was) ==
  IF c = Columns THEN Reaches(row + 1, 0, was) ELSE Reaches(row, c, was)

\* A character at the cursor.
Put(ch) ==
  /\ <<row, col>> \in Cell
  /\ Advances(col + 1, [text EXCEPT ![<<row, col>>] = ch])
  /\ UNCHANGED <<top, bottom>>

\* No one knows what becomes of the text when the cursor is off the screen.
Stray ==
  /\ <<row, col>> \notin Cell
  /\ row' \in row..(row + 1) /\ row' <= bottom /\ col' \in 0..Columns
  /\ text' \in [Cell -> Char]
  /\ UNCHANGED <<top, bottom>>

\* The text with blanks from the cursor to before column c.
Blanked(c) ==
  [p \in Cell |-> IF p[1] = row /\ p[2] \in col..(c - 1) THEN Blank ELSE text[p]]

\* Blanks up to a stop of the tabulator.
Tab ==
  /\ \E c \in (col + 1)..Columns :
       /\ c % TabStop = 0
       /\ \A d \in (col + 1)..(c - 1) : d % TabStop # 0
       /\ <<row, col>> \in Cell
       /\ Advances(c, Blanked(c))
  /\ UNCHANGED <<top, bottom>>

\* There is no stop: blanks to the end of the row, and the cursor past it.
TabStays ==
  /\ <<row, col>> \in Cell
  /\ \A c \in (col + 1)..Columns : c % TabStop # 0
  /\ text' = Blanked(Columns)
  /\ col' = Columns
  /\ UNCHANGED <<row, top, bottom>>

NewLine == Reaches(row + 1, 0, text) /\ UNCHANGED <<top, bottom>>

\* A character that only sounds still brings the cursor into the window.
Beep == Reaches(row, col, text) /\ UNCHANGED <<top, bottom>>

Locate == /\ row' \in -1..(Rows - 1) /\ col' \in -1..(Columns - 1)
          /\ UNCHANGED <<text, top, bottom>>

ViewPrint ==
  /\ top' \in 0..(Rows - 1) /\ bottom' \in top'..(Rows - 1)
  /\ row' = top' /\ col' = 0
  /\ UNCHANGED text

Cls ==
  /\ text' = [p \in Cell |-> IF p[1] \in top..bottom THEN Blank ELSE text[p]]
  /\ row' = top /\ col' = 0
  /\ UNCHANGED <<top, bottom>>

\* The program stops: the cursor goes to the start of the row below its own,
\* for which the whole screen moves up if there is none.
Leave ==
  /\ top' = (IF row < Rows - 1 THEN top ELSE 0)
  /\ bottom' = (IF row < Rows - 1 THEN bottom ELSE Rows - 1)
  /\ IF row < Rows - 1
     THEN row' = row + 1 /\ UNCHANGED text
     ELSE /\ UNCHANGED row
          /\ text' = [p \in Cell |-> IF p[1] = Rows - 1 THEN Blank
                                     ELSE text[<<p[1] + 1, p[2]>>]]
  /\ col' = 0

Next == (\E ch \in Char : Put(ch)) \/ Stray \/ Tab \/ TabStays \/ NewLine \/ Beep
        \/ Locate \/ ViewPrint \/ Cls \/ Leave

Spec == Init /\ [][Next]_vars
=============================================================================
