------------------------------ MODULE Console -------------------------------
(***************************************************************************)
(* How the library finds the console driver it prints with                 *)
(* (BASIClib/BasicConsole.c, DynamicLoader.c), composed with one of them   *)
(* (DirectConsole).                                                        *)
(*                                                                         *)
(* Each line of the user's and then of the system's configuration names a  *)
(* library and a driver in it; those for mode 0 are tried in their order.  *)
(* A try loads the library, looks the driver up and calls its              *)
(* initialization, and may fail at each; the libraries, the terminal and   *)
(* the other drivers are external.  One thread starts the library, and a   *)
(* try is one step.                                                        *)
(***************************************************************************)
EXTENDS DirectConsole, FiniteSets

CONSTANTS
  Lib, Driver,
  NoLib, NoDriver,
  Config           \* the lines of both files, [mode, lib, driver] each

ASSUME ConfigAssumption ==
  /\ NoLib \notin Lib /\ NoDriver \notin Driver /\ "direct" \in Driver
  /\ Config \in Seq([mode : Nat, lib : Lib, driver : Driver])

VARIABLES
  line,           \* the line to be looked at next
  refs,           \* refs[l]: the references the loader counts for l
  consDriverHandle,
  consoleEntries, \* the driver whose functions it holds
  phase,          \* "starting", "running", "failed", "stopped"
  tty,            \* ttyHandle # -1
  raw,            \* the terminal neither echoes nor edits what is typed
  termAttr,       \* what raw was when the driver last looked
  gaveUp          \* history: a direct console was tried and had no /dev/vcsa

choice == <<line, refs, consDriverHandle, consoleEntries, phase, tty, raw, termAttr, gaveUp>>
allVars == <<vars, choice>>

ConsoleTypeOK ==
  /\ TypeOK
  /\ line \in 1..(Len(Config) + 1)
  /\ refs \in [Lib -> Nat]
  /\ consDriverHandle \in Lib \union {NoLib}
  /\ consoleEntries \in Driver \union {NoDriver}
  /\ phase \in {"starting", "running", "failed", "stopped"}
  /\ tty \in BOOLEAN /\ raw \in BOOLEAN /\ termAttr \in BOOLEAN /\ gaveUp \in BOOLEAN

ConsoleInit ==
  /\ Init
  /\ line = 1
  /\ refs = [l \in Lib |-> 0]
  /\ consDriverHandle = NoLib
  /\ consoleEntries = NoDriver
  /\ phase = "starting"
  /\ tty = FALSE /\ raw = FALSE /\ termAttr = FALSE /\ gaveUp = FALSE

------------------------------------------------------------------------------
\* The next line is looked at.
Looks ==
  /\ phase = "starting" /\ line <= Len(Config)
  /\ line' = line + 1

\* A line for another mode.
SkipLine ==
  /\ Looks
  /\ Config[line].mode # 0
  /\ UNCHANGED <<vars, refs, consDriverHandle, consoleEntries, phase, tty, raw, termAttr,
                 gaveUp>>

Loaded(l) == [refs EXCEPT ![l] = @ + 1]
Freed(r, l) == [r EXCEPT ![l] = @ - 1]

\* The library or the symbol is not found, or a driver other than the direct
\* one does not work here; a library that was loaded is freed.
TryFails ==
  /\ Looks
  /\ Config[line].mode = 0
  /\ refs' = Freed(Loaded(Config[line].lib), Config[line].lib)
  /\ UNCHANGED <<vars, consDriverHandle, consoleEntries, phase, tty, raw, termAttr, gaveUp>>

\* The direct driver opens the terminal and changes it, and then may not open
\* /dev/vcsa: the terminal is closed as it is.
TryLeavesRaw ==
  /\ Looks
  /\ Config[line].mode = 0 /\ Config[line].driver = "direct"
  /\ raw' = TRUE /\ termAttr' = raw
  /\ gaveUp' = TRUE
  /\ refs' = Freed(Loaded(Config[line].lib), Config[line].lib)
  /\ UNCHANGED <<vars, consDriverHandle, consoleEntries, phase, tty>>

\* A mutant of Chosen: the search goes on after a driver has been found.
ChosenGoesOn(l, d) ==
  /\ refs' = Loaded(l)
  /\ consDriverHandle' = l
  /\ consoleEntries' = d
  /\ UNCHANGED phase

\* The driver that works is kept.
Chosen(l, d) ==
  /\ refs' = Loaded(l)
  /\ consDriverHandle' = l
  /\ consoleEntries' = d
  /\ phase' = "running"

TryWorks ==
  /\ Looks
  /\ Config[line].mode = 0
  /\ Chosen(Config[line].lib, Config[line].driver)
  /\ IF Config[line].driver = "direct"
     THEN Open /\ tty' = TRUE /\ raw' = TRUE /\ termAttr' = raw
     ELSE UNCHANGED <<vars, tty, raw, termAttr>>
  /\ UNCHANGED gaveUp

\* No line is left: ERR_CANNOT_CONTINUE.
GiveUp ==
  /\ phase = "starting" /\ line > Len(Config)
  /\ phase' = "failed"
  /\ UNCHANGED <<vars, line, refs, consDriverHandle, consoleEntries, tty, raw, termAttr,
                 gaveUp>>

\* Statements of the program, for the direct driver.
Statement ==
  /\ phase = "running" /\ consoleEntries = "direct"
  /\ \E t \in Thread : Proceeds(t) \/ Begins(t)
  /\ UNCHANGED choice

CloseTerminal == tty' = FALSE /\ raw' = termAttr

\* __deinitConsole(): closeConsoleDriver().
DeinitConsole ==
  /\ phase = "running"
  /\ IF consoleEntries = "direct"
     THEN (\E t \in Thread : Deinit(t)) /\ CloseTerminal
     ELSE UNCHANGED <<vars, tty, raw>>
  /\ consoleEntries' = NoDriver
  /\ refs' = Freed(refs, consDriverHandle)
  /\ consDriverHandle' = NoLib
  /\ phase' = "stopped"
  /\ UNCHANGED <<line, termAttr, gaveUp>>

ConsoleNext ==
  \/ SkipLine \/ TryFails \/ TryLeavesRaw \/ TryWorks \/ GiveUp
  \/ Statement \/ DeinitConsole

\* A statement that has begun goes on, as long as there is a driver.
ConsoleSpec ==
  /\ ConsoleInit /\ [][ConsoleNext]_allVars
  /\ \A t \in Thread : WF_allVars(Proceeds(t) /\ phase = "running" /\ UNCHANGED choice)

------------------------------------------------------------------------------
(* A library is loaded exactly when its driver is the one in use, once      *)
(* (BasicConsole.c:89): what failed is freed, what works is not used after  *)
(* it is.                                                                   *)
LoadedIsUsed ==
  /\ \A l \in Lib : refs[l] = IF l = consDriverHandle THEN 1 ELSE 0
  /\ (consoleEntries = NoDriver) <=> (consDriverHandle = NoLib)

(* When the program ends, or has no driver, the terminal is closed and as   *)
(* it was found (DirectConsole.c:298), unless a direct console was given up *)
(* half-way: what such a try has changed (DirectConsole.c:161) nothing      *)
(* gives back, whichever driver is used after it.                           *)
TerminalGivenBack == phase \in {"stopped", "failed"} => ~tty /\ (raw <=> gaveUp)

(* The library has a driver it can call, or none, and a terminal it can     *)
(* give back.                                                               *)
DriverIsSound == ConsoleTypeOK /\ LoadedIsUsed /\ TerminalGivenBack

=============================================================================
