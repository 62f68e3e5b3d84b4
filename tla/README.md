# Verification of vbSlacker's runtime library

vbSlacker compiles BASIC to C and links it with BASIClib, a runtime library in
C, which brings a garbage collector, libgc, with it. This directory holds TLA+
models of both, the TLC configurations that check them, and proofs for TLAPS.
Paths below are relative to the repository; file names without a directory are
in `BASIClib/`, and `libgc/` is the directory of that name.

## The system

| Component | State | Operations | What is hard | What makes it correct |
|---|---|---|---|---|
| ON ERROR (`BasicError.c/.h`) | one `__OnErrorHandler` per stack frame, linked from `onErrorThreadStates[tidx]`; `basicErrno[tidx]` | ON ERROR GOTO, ERROR, RESUME, RESUME NEXT, RESUME label, the clean-up at every return | pointers into stack frames that come and go, frames dropped by a jump, errors inside handlers | the list is the stack of live handlers; an error reaches the innermost idle one; RESUME returns to the statement that failed |
| Threads (`Threads.c`) | `indexes`, `maxIndex`, `threadCount`, a lock | spin, terminate self or another, wait, index queries | sections under the lock that belong together but are not one section; a vector that shrinks | a slot names a live thread; a running thread stays registered; its index is its own; the count is right; waits outlast threads and end |
| File handles (`FileIOFunctions.c`) | 255 handle structures, one recursive mutex | OPEN, CLOSE, EOF, FREEFILE | every error path leaves through a runtime error; two numberings; a close() that fails | one descriptor per handle; no file without a handle; the mutex comes back; CLOSE closes everything |
| Start and stop (`Initialize.c`, `SignalHandlers.c`) | `initialized`, the state of every module's lock, the texts of `Language.c` | init and deinit in a fixed order, per-thread init and deinit, exit by a signal | locks used after they are destroyed, errors during the exit handler, which closes the files under their lock, lock order | each lock exists while used; no circular wait; the exit handler leaves nothing, and ends |
| File system statements (`FileSystemFunctions.c`) | per thread: a DIR$ query; during a call: two descriptors, a buffer, counters | DIR$, KILL, NAME, FILECOPY, MKDIR, RMDIR | other threads between two system calls; partial reads and writes; a step that fails half way; a query spread over calls | a copy equals its source; KILL and DIR$ miss nothing; nothing stays open |
| Console front end (`BasicConsole.c`, `ConsoleFunctions.c`, `DynamicLoader.c`) | the driver's library and functions | choice of a driver, start, stop | a candidate that fails at any of three steps | the library loaded is the one used; the terminal is given back |
| Console drivers (`consoledrivers/`) | cursor, window, colour, the bytes of the device, a lock | PRINT, LOCATE, VIEW PRINT, CLS, COLOR | arithmetic at the edges in bytes and in 16-bit integers, scrolling, a TAB with no stop left in its row, reads before the lock | the device shows a screen that wraps and scrolls; PRINT stays in its window and ends |
| Memory (`MemoryManager.c`; `libgc/malloc.c`, `alloc.c`, `reclaim.c`, `new_hblk.c`) | free lists, mark bits, blocks to be swept, a failure count | allocate, free, collect, enable and disable | sweeping is put off while the program goes on | nothing the program can reach is reused; a call ends |
| Heap blocks (`libgc/allchblk.c`, `headers.c`, `blacklst.c`) | headers, free lists by size, black lists | add a section, allocate, free | splitting and coalescing while a search holds a position | blocks tile the heap, the lists hold the free ones; the search ends |
| Marking (`libgc/mark.c`, `mark_rts.c`) | mark bits, a bounded mark stack, a state machine | `GC_mark_some` | overflow of the stack, objects cut in pieces | exactly the reachable objects are marked |
| Stopping the world (`libgc/linux_threads.c`) | the table of threads, the allocation lock, a semaphore, each thread's pending signals and handler | create, join, detach, end; stop and start the world | signals that race the end of threads, ids used again, records that outlive threads | nothing runs while the heap is marked; who was stopped goes on; a collection ends |
| Finalisation (`libgc/finalize.c`) | tables of disappearing links and finalizers, a queue, the marks of a collection | register and unregister, `GC_finalize`, invoke | the program runs while the tables are gone through; what is unreachable is kept for a finalizer; cycles; overflow of the mark stack | nothing a finalizer needs is reclaimed; finalizers run in order; links never dangle; what is lost is finalized |
| Random numbers, strings, conversion, GOSUB, environment, languages, registry, dates, mathematics | little or none | functions of their arguments, wrappers of the C library | boundaries | agreement with the C library |
| Compiler (`vbs/`), parser (`parser/`) | token and context lists | tokenise, enter and leave contexts | a skeleton; parts are not finished | - |

Interaction: every module throws through `__runtimeError`, which asks
`Threads.c` for the caller's index and looks at that thread's handlers. A new
thread runs `__initThread`, which lets `BasicError.c` and
`FileSystemFunctions.c` enlarge their per-thread tables to the registry's
highest index. The exit handler undoes `__initBasicLib`: it first closes every
file, each under the lock that OPEN takes (`FileIOFunctions.c:72`), and ends the
threads that are left before it frees the texts of the errors. Locks are
recursive POSIX mutexes. All memory comes from the collector, which finds the
program's pointers by scanning its data and stack.

`BASIClib/default.mak` builds with `singlethreaded=true`. The models `Threads`,
`FileIO`, `Lifecycle`, `FileSystem` and `Console` describe the build without
it, the only one in which the locks exist; the others hold for both. `libgc` is
taken as `libgc/Makefile` and BASIClib build it: no unmapping, interior
pointers recognised, not incremental, not parallel.

## Modules

* `HandlerStack` - the abstract ON ERROR: a stack of procedures, the set of
  those with a handler, the set of handlers executing.
* `OnError` - `BasicError.c` and the macros of `BasicError.h` for one thread.
  A frame's structure is named by its depth, so a new frame reuses the memory
  of an old one. One action per macro or function: `Call` (`__ONERRORVARS`),
  `Return` (`__exitCleanupOnError`), `Statement` (`__setInstructs`),
  `SetOnErrorHandler`, `SetOnErrorHandlerOff`, `RuntimeError`, the loop of
  `__getOnErrorHandler` one turn at a time (`SkipActive`), its two outcomes
  (`Trigger`, `Unhandled`), and the RESUMEs. `faulted` is a history variable.
* `Threads` - the registry. A section under the lock is one action; the code
  between two sections is an action of its own. `__terminateThread` is
  `LookUpVictim`, `Prepare`, `Strike`; a thread's end is `Leave`, `Prepare`,
  `Exit`; a new thread's `__initThreadBasicError` is `ReadHighest` (before its
  lock) and `ResizeTables` (under it). SIGKILL is taken to end the one thread it
  is sent to, as the code expects; a thread killed while it executes library
  code may leave the lock taken. pthread_create() is libgc's and fails in two
  ways: it returns an error when there is no memory (`SpinFails`,
  `libgc/linux_threads.c:652`), and when the system refuses it waits for a
  thread that never starts (`SpinSticks`, `:680`), with the lock of the registry
  taken. `failures` and `missed` are history: creations that failed, and
  terminations that found their slot free. The first undefined step (an index
  past the vector, the use of a freed vector, a signal to an indeterminate
  thread) is recorded in `fault` and ends the behaviour.
* `FileIO` - the handle table with its recursive mutex (`owner`, `count`).
  Operations hold the mutex throughout and are one action each, with one
  disjunct per way out of OPEN; CLOSE without a number is a loop of one action
  per handle. A close() that fails keeps the descriptor or, as on Linux, has
  released it, while the handle stays open either way
  (`FileIOFunctions.c:294-305`); `dropped` is history, whether one has. The test
  at `:239` and the index at `:242` differ by one, so that no OPEN reaches the
  last slot.
* `Lifecycle` - `Initialize.c` with the init and deinit function of each module.
  What a thread has to do is a sequence of steps on locks: `InitScript`
  (`__initBasicLib`), `DeinitScript` (the exit handler), `Calls` (what a call
  into each module takes and gives back), `Open` (which may keep its lock),
  `Terminate` and `TerminateOther` (`__terminateThread` of oneself and of
  another). In the exit handler `CloseHandles` and `CloseHandle` are the CLOSE
  of every file: they take and give back fileIOThreadLock once for each of
  `Handles` handles, and a close() that fails throws. Errors, SIGINT
  (`Interrupt`) and pthread_kill come between any two steps.
* `FileSystem` - the statements on files, one step per system call. `entry` and
  `data` are the disks, which other threads change in between; `Refused` is a
  call the system refuses, stat(), mkdir() and rmdir() included. What an entry
  should be to be listed is `Fits`; what DIR$ lists is `Qualifies`, which for an
  entry below the root directory is every one (`FileSystemFunctions.c:318-339`
  lacks an else). `was` and `alone` are history: what the source held
  when the statement began, and whether anyone else touched its names.
* `Screen` - the abstract text screen: rows, a cursor, a window of rows. A TAB
  goes to the next stop of its row; past the last one it writes blanks for ever
  (`TabStays`).
* `DirectConsole` - the driver of the Linux console, on the bytes of
  `/dev/vcsa`; `printNChars` is cut into one step per character. CLS reads the
  two bounds of the window, in either order, before it takes the lock. A thread
  whose TAB finds no stop is "hung" and keeps the lock. CR NL gives two new
  lines, since `DirectConsole.c:368` compares the character it has with NL and
  not the next one. `overlapped` is history: a thread read without the lock
  while another was in a statement, or another began one before it used what it
  had read. `SDLDriver.c` is a copy of the driver.
* `Console` - `BasicConsole.c` and `DynamicLoader.c`: the search for a driver,
  composed with `DirectConsole`.
* `HeapBlocks` - `allchblk.c` with `headers.c` and `blacklst.c`; the search of
  `GC_allochblk` is cut into one step per block it looks at. Addresses count
  blocks; forwarding counts are the headers called "inside".
* `Marking` - what the mark phase promises: reachable objects and no others.
* `Marker` - `GC_mark_some`: the states from MS_INVALID to MS_NONE, the order of
  the roots, the mark stack with overflow and growth, one step per word.
* `Collector` - `MemoryManager.c` with allocation, sweeping and expansion. Its
  `Collect` is what `Marking` promises and its `NewBlock` what `HeapBlocks`
  does, each in one step.
* `StopWorld` - `linux_threads.c`, through which `Threads.c` creates and joins
  its threads (`gc.h:745`): the table of threads under the allocation lock, the
  signals SIG_SUSPEND and SIG_RESTART, each thread's signal handler, and a
  collection in steps, one per record looked at (`Suspend`, `Restart`) or
  acknowledgement taken (`Wait`). `id` is a thread's pthread_t, which the system
  uses again; `left` is what pthread_detach() told the system, and not the
  collector. Where `Collect` here marks in one step, `Marker` has the steps.
* `Finalize` - `finalize.c`, for programs that use the collector's finalizers
  (BASIClib registers none). `Mark` is what `Marking` promises, in one step
  with the world stopped; then the world runs again (`libgc/alloc.c:472`) while
  `GC_finalize` (`:514`) clears links (`ClearLinks`), marks what is below
  finalizable objects, one entry a step and in any order (`MarkFrom`,
  `MarkFromOverflows` where the mark stack overflows), enqueues what is still
  unmarked (`Enqueue`) and drops links in dead objects before the sweep
  (`Reclaim`). `Assign`, `Begin` and `Return` come between any two of these
  steps; what takes the allocation lock does not. A word is visible to the
  collector or holds a disguised pointer.
* `OnErrorProofs`, `ThreadsProofs`, `ResourceProofs`, `LifecycleProofs`,
  `FileSystemProofs`, `ConsoleProofs`, `CollectionProofs`, `ReclamationProofs` -
  theorems and proofs; `ResourceProofs` is about `FileIO` and `Collector`, the
  handles and objects a program takes, `CollectionProofs` about `StopWorld` and
  `Marker`, what a collection does first and next, `ReclamationProofs` about
  `HeapBlocks` and `Finalize`, what becomes of the rest.
* `MC...` - constants for TLC; `OnError`, `Lifecycle`, `HeapBlocks` and
  `Finalize` need none, their configurations give them values.

Operators whose comment says *a mutant of X* are plausible bugs. No action
uses them; they stand in for X to see that a property notices.

## Runs

| Run | Configuration | Shows |
|---|---|---|
| `on_error` | `OnError.cfg` | three nested procedures, two statements, one label, error 5 and "no error": the list matches the stack, RESUME is exact, errors reach the innermost idle handler, the search ends, and the list implements `HandlerStack` |
| `threads` | `Threads.cfg` | a pool of four threads, three alive at a time, of which two kill and one waits, one failing pthread_create: a slot names a live thread at its index, a running thread falls out of the registry only when one with a lower index is terminated (`LostOnlyToLower`), the count is wrong exactly by failed creations and double terminations (`CountAccounted`), and a waiting thread goes on |
| `shared_index` | `ThreadsSharedIndex.cfg` | a violation: with five workers that start and end, two running threads come to have one index (`Threads.c:155`, against `docs/threads.txt:75-78`), because the highest index is sought from the wrong end |
| `file_io` | `FileIO.cfg` | two threads, four handles, two descriptors, failing open(), and close() that fails in both ways: no file is open without a handle, none is shared before a failing close() has released one, and a CLOSE loop that ends has closed all |
| `lifecycle` | `Lifecycle.cfg` | two workers call every module, terminate each other and end; then the program ends, by itself, by an error or by SIGINT inside a call: no lock is used outside its life, nobody waits in a circle, the handler, once through, has destroyed every lock, an error in it finds its text, and it ends unless a thread that is gone left a lock taken, as OPEN does |
| `file_system` | `FileSystem.cfg` | two threads, four names on two disks, any two statements interleaved, every system call failing at will: exact copies, complete KILL, a DIR$ that omits nothing it should list, nothing left open, copies end |
| `console` | `Console.cfg` | the search for a driver, then two threads that print, scroll, clear and locate, also at the same time, on three rows of three columns: until statements overlap the device implements `Screen`, so that PRINT stays in its window, and the cursor is in bounds; the window is so always; PRINT ends unless it meets a TAB past its row's last stop; the library in use is loaded once, and at the end the terminal is as it was found exactly if no direct console was given up half-way |
| `heap_blocks` | `HeapBlocks.cfg` | five blocks in every order of growing, allocating, freeing and black-listing: blocks tile the heap, lists and counts are exact, allocation is from free blocks that are not black-listed, every search ends |
| `marker` | `Marker.cfg` | every content of four objects and two areas, a mark stack of one entry that may double once: whatever an overflow drops, `Marking` is implemented, marking ends |
| `collector` | `Collector.cfg` | three objects in two blocks of either kind: nothing live is reused or freed, the sweep that was put off is safe, free lists stay lists, every allocation ends |
| `stop_world` | `StopWorld.cfg` | the main thread and two others that start, detach, join and end around collections by any of them: the world stands still, the table is right although ids are used again, stopped threads are told to go on, collections end |
| `finalize` | `Finalize.cfg` | two objects, a variable and a weak word, a finalizer at a time, one overflow: nothing the program or a pending finalizer can get at is reclaimed, no link dangles, finalizers run in order, and a lost object is finalized |

### Further configurations

These are not runs; TLC finds in each, with the MC module of its component or,
where it has none, the component itself, a counterexample that shows how the
code disagrees with what is written about it.

| Configuration | Property | Behaviour |
|---|---|---|
| `OnErrorGotoZero.cfg` | `GotoZeroDisablesTrapping` | ON ERROR GOTO 0 writes through NULL (`BasicError.c:291`) where `:316-318` says it disables handling |
| `ThreadsTableSize.cfg` | `TableCoversThread` | threads that start together leave the error tables too short (`BasicError.c:114`, against `:105`) |
| `ThreadsWait.cfg` | `WaitOutlastsThread` | a wait returns while the thread still runs (`Threads.c:223`, against `:207`) |
| `ThreadsVector.cfg` | `VectorStaysAllocated` | the vector of ids is used after the collector freed it (`Threads.c:156`) |
| `FileIOLockLeak.cfg` | `LockGivenBack` | OPEN keeps the mutex (`FileIOFunctions.c:244`, against `:269`) |
| `FileIOWrongSlot.cfg` | `OpenUsesItsHandle` | OPEN and CLOSE of one number use different handles (`FileIOFunctions.c:242`) |
| `FileIOCloseFails.cfg` | `Owned` | after a failing close() released the descriptor, another handle may be given it while the first still names it (`FileIOFunctions.c:294-305`) |
| `LifecycleExit.cfg` | `LocksExistWhenUsed` | with other threads alive at the end, `__deinitThreads` (`Initialize.c:168`) comes after fileSystemLock is destroyed, and `__deinitThread` takes it |
| `FileSystemRename.cfg` | `NameOverwritesNothing` | a file that appears between the test and rename() is lost (`FileSystemFunctions.c:553`) |
| `FileSystemDir.cfg` | `DirListsOnlyMatches` | DIR$ of a directory other than the root returns every entry, whatever the pattern and the attributes (`FileSystemFunctions.c:318-339`, against `:303-308` and `:375-379`) |
| `FileSystemShortWrite.cfg` | `TransferIsExact` | where write() accepts a part of the buffer, `doWrite` writes the accepted part again (`FileSystemFunctions.c:660`, against `:643-645`) |
| `ConsoleCls.cfg` | `ClsSetsColor` | CLS clears an odd number of bytes and misses the last cell's colour (`DirectConsole.c:441`) |
| `HeapBlocksNoHeader.cfg` | `OnlyLeaks` | a block whose rest got no header "leaks" (`libgc/allchblk.c:659`), but is free by its map: the next block freed beside it is joined with it, through the pointers of a list it is no longer on |
| `StopWorldFinished.cfg` | `StoppedIsRestarted` | a thread returns from its function and sets FINISHED without the lock (`libgc/linux_threads.c:627`) while SIG_SUSPEND is on its way: it stops, and `GC_start_world` passes it over for ever, against `:190` |
| `StopWorldJoin.cfg` | `WorldStandsStill` | a thread that has detached itself (`Threads.c:159`) is joined: the join fails at once, `GC_delete_gc_thread` removes its record all the same (`libgc/linux_threads.c:567`), and the next collection does not stop it |
| `CollectorDisabled.cfg` | `DisabledNeverRuns` | the last resort of `GC_collect_or_expand` (`libgc/alloc.c:850`) collects although collection is disabled, against `MemoryManager.c:226` |

Met while reading and not modelled: OPEN without an access or a lock clause
throws an internal error (`FileIOFunctions.c:224`; action `OpenIllegal`); open()
is called with the flags 0 whatever the mode (`:253`); `modeTable` is written
one element past its end (`:58`); FILECOPY reads as many bytes at a time as a
pointer has, because `sizeof (buffer)` is that of the pointer, and empties a
file copied to itself; KILL closes a NULL stream when the directory is missing;
DIR$ swaps two results of the path split (`FileSystemFunctions.c:475`); CR NL
prints two new lines (`DirectConsole.c:368`, against `docs/console.txt:190-193`;
modelled, and no property is about it); on a screen of more than about 16381
cells the driver's offsets wrap in its 16-bit `__integer` (`DirectConsole.c:73`,
`:82-83`, `Platform.h:98`), so the model assumes smaller ones
(`ScreenAssumption`); the registry's error path releases its lock twice
(`RegistryFunctions.c:112`, `:115`); a link for which there is no memory is not
registered, and the call returns 0 as for success (`libgc/finalize.c:213`); the
comment of `GC_finalize` says it is called with the world stopped (`:481`), but
the world runs (`libgc/alloc.c:472`, `:514`) - `finalize` shows that its
promises hold all the same.

### Bounds

* `MaxDepth = 3` of `OnError`: one frame that handles, one below and one above
  it, the least that shows an error crossing an active handler on its way to an
  idle one. Two statements tell the failing statement from another.
* `Threads`: a pool of four threads with `MaxLive = 3`, the main thread and two
  workers: one may kill while another leaves and a third is spun into the slot,
  and a worker may end below one that runs, which then falls out of the
  registry. `ThreadsSharedIndex` needs five workers beside the main thread,
  because the vector must shrink by no more than half to stay allocated.
  `MaxFailures = 1`, a creation that fails in either way: failures do not
  interact.
* `FileIO`: `VB_MAX_FILE_HANDLES = 4`, of which OPEN reaches three; two
  descriptors, so that OPEN meets a full table and a released one is given out
  again; `MaxHeld = 3`: the count only grows.
* `Lifecycle`: three threads, so that one may hold what another waits for while
  the third ends the program; two handles, so that the exit handler's CLOSE
  gives its lock back between two; `MaxDepth = 4` locks of one mutex, the most
  that abandoned OPENs, a CLOSE and the exit handler that interrupts it need.
* `FileSystem`: `MaxStatements = 2`, one for each thread or a DIR$ and its
  continuation; a buffer of two bytes and a file of three, so that a copy takes
  two turns; a directory, an absent name and a file on each disk.
* `Console`: `lines = 2` and `columns = 2` number the last row and column, from
  0: three rows let a window leave rows out on either side, and of three columns
  with a stop at every second the last has no stop after it, as where 8 does not
  divide the columns of a real screen, so that a TAB may find its stop or never
  end; `MaxCalls = 3` statements, of which two set up and one is looked at, or
  two overlap.
* `HeapBlocks`: five blocks and thresholds that give three lists of one size and
  one of several; one suspect address in the middle, so that blocks are split
  before and after it.
* `Marker`: the collector's own frames, scanned at once, and one static area
  stand for the roots, the stacks of other threads being pushed as such areas
  are (`libgc/mark.c:997-1006`); a stack of one entry, so that any two pushes
  overflow, and its double, with which some collections do not; an object of two
  words is cut in pieces; both ways of scanning roots and blocks occur.
* `StopWorld`: one thread that collects, one that is born and one that ends
  meanwhile; three ids, of which one may be used again. Threads end by returning
  and by pthread_exit().
* `Finalize`: two objects are the least of which one leads to the other, or
  both to each other; one of them may be client data; a link is a field of an
  object or the weak word; one call taken or running at a time, one overflow.
* `Collector`: two blocks are the least that let one be swept while the other is
  allocated from; `Numbers` is one word that looks like a pointer;
  `MaxRetries = 1` is what `__initMemoryManager` sets.

Deadlock is not checked where the system may really stop: a thread returns, a
process exits or faults, or a bound on statements is reached (`OnError`,
`Threads`, `Lifecycle`, `FileSystem`, `Console`), all threads are gone
(`StopWorld`, where besides a thread whose pthread_create() failed waits for
ever, `linux_threads.c:680`) or the mark phase is over (`Marker`). `FileIO`,
`HeapBlocks`, `Collector` and `Finalize` check it.

### Fairness

`OnError` assumes WF of the search for a handler: the loop waits for nothing.
`Threads` assumes WF, for each thread, of the steps a thread takes once it is
inside the library (`Progress`): the scheduler runs every thread, and what a
thread's program calls next is its own choice and has no fairness. A section
that waits for a lock a dead thread holds is not enabled, so no fairness is
assumed of it; for that reason `WaiterGoesOn` excuses a wait for a thread that
itself waits for the registry's lock, and `ExitEnds` speaks of programs that end
with every lock free or held by the thread that ends. `Lifecycle`, `FileSystem`
and `Console` do the same: a thread inside a call goes on (`LibraryStep`,
`Proceeds`), and no statement need ever begin. `HeapBlocks` (`Search`), `Marker`
and `Collector` (`Allocating`) assume WF of a call that holds the allocation
lock, or runs with the world stopped, until it returns. `StopWorld` assumes WF
of the thread that collects and of each thread's handling of signals, and none
of the allocation lock. `Finalize` assumes WF of a collection that has begun
(`Collecting`): it holds the allocation lock and waits for nothing. That
collections begin and the queue is emptied is a hypothesis of `LostIsFinalized`,
since a program need never allocate again. No strong fairness is used. `FileIO`
has no liveness property and no fairness.

## Proofs

All theorems hold for every value of the constants that meets the module's
assumptions.

* `OnErrorProofs`: `TypeCorrect`, `NoDanglingHandler`, `ResumeIsExact`,
  `InnermostIdleHandler`, `ListImplementsStack`. The list invariant is not
  inductive alone: while the search runs, everything the cursor has passed
  must be active (`SearchSound`), the frame that runs must exist
  (`RunningFrame`), and the statement a frame recorded must be the one it
  executes as long as its handler does not (`InstrRecorded`). The refinement
  theorem is the safety part of `AbsSpec`: each action of `OnError` maps to an
  action of `HandlerStack` or to a stutter.
* `ThreadsProofs`: `TypeCorrect`, `RegistryIsSound`, `LossesExplained`,
  `CountExplained`, for any threads, any of which kill, and any number of
  failing creations. For the first two, a thread that looked up a target and has
  not acted yet must still have the right slot if the target is listed
  (`AimSound`); one that took its target out must not find it listed again
  (`StrickenUnlisted`), which rests on indexes naming only threads that were
  spun (`TargetsBorn`) and on no thread being spun twice. For the other two, who
  was terminated was spun and is out of the registry (`TerminatedGone`), and a
  thread that looked up another has the index that one has or had (`AimBorn`);
  then each section can only push out what lies above the index it frees. That a
  running thread does fall out, and that its index is given out again, is what
  `shared_index`, `ThreadsTableSize` and `ThreadsVector` show, and the theorems
  do not exclude it.
* `ResourceProofs`, on `FileIO`: `TypeCorrect`, `DescriptorsOwned`,
  `FilesKeepHandles`, `CloseAllIsComplete`, with no hypothesis on close(): it
  may fail with or without releasing the descriptor. `DescriptorsOwned` says who
  owns what until the first such release, and `FilesKeepHandles`, which holds
  also after it, that no open file is without a handle; both are inductive
  beside the types. The last needs `ClosedBehind`: a loop that can go on has
  left no open handle behind it. It holds because a thread that opens a handle
  never gives the mutex back: the property depends on the leak that
  `FileIOLockLeak` shows, and a repair of the leak has to make CLOSE hold the
  mutex across the loop.

* `ResourceProofs`, on `Collector`: `CollectorHeapIsSound`, with no hypothesis,
  for every heap, every layout of the objects in blocks, any number of roots and
  whatever numbers look like pointers. What the program can get at (`Live`) and
  what is on a free list (`OnList`) are recursive functions that take a step per
  object. `SearchIs` shows, without induction, that such a search has ended by
  then (it finds something new in every step that is not its last) and finds no
  more than it must; so `LiveIs` and `OnListIs` can say what both are without
  recursion: the least sets that are closed under pointers and under links. Each
  step is judged by that: a bound on the set after it is a set that is closed
  then (`LiveBound`, `ListKept`, `ListMade`). `HeapIsSound` is not inductive
  alone. The program must hold no pointer to what is in no block of objects
  (`PlacesPointAtObjects`), or a new block would come with live objects in it;
  what it was given must be in such blocks (`UsedInBlocks`); the word that
  awaits the new pointer must be one it can get at, also after the collection
  the call made (`RequestStands`), or the object would be lost and reclaimed. A
  new block is asked for, as a block is swept, only when the list is empty
  (`RequestStands` too), so that the list is then the block's objects and no
  others (`ListMade`).

* `LifecycleProofs`: `TypeCorrect`, `LocksExist`, `NoCircle`,
  `ShutdownComplete`, for any threads, any number of handles and of locks of one
  mutex, under the hypothesis that the program ends alone (`ExitsAlone`); with
  other threads alive the first is false (`LifecycleExit.cfg`). The invariant
  says that who initialises or ends the library is alone (`Alone`); that the
  steps a thread has before it are those its phase allows (`StepsOfPhase`); that
  it gives back exactly what it holds or is about to take (`ReleasesOwn`), for
  which `BorrowsOnce` walks through each script, and that the exit handler gives
  OPEN's lock back only before it has files left to close (`ClosesFirst`); that
  it takes locks in the order file handles, the others, the registry
  (`HeldInOrder`), which is what excludes a circle, since of all who wait one
  waits for the highest lock; that a lock is ready from its module's init to its
  deinit (`LocksReady`); and that what the exit handler has left to do destroys
  what still exists (`DestroysAll`).

* `FileSystemProofs`: `TypeCorrect`, `NothingOpen`, `TransferExact`,
  `KillComplete`, `DirComplete`, for any threads, names, disks and contents and
  any number of statements, `TransferExact` where write() takes what it is given
  (`ShortWrites = FALSE`; `FileSystemShortWrite.cfg` shows that it needs that).
  Files are open only between open() and close() (`OpenInside`), and two names
  never denote one file (`OneName`). A statement that is alone shares no name
  with any other, and no other has a file open for writing that one of its names
  denotes (`Apart`, `QueriesApart`); so a step of another thread leaves alone
  what its part of the invariant speaks of (`SparedSound`). That part is, for a
  transfer, that the source is what it was, what was written is its beginning
  and the buffer what follows (`TransferSound`); for KILL, that what it has
  passed without an error is gone (`KillSound`); for DIR$, that it has listed
  what the code lists of what it has passed, which omits nothing it should
  (`Faithful`). The proof needs no bound
  on the statements, and corrected the model: `alone` used to compare only the
  names statements were given, and three statements - FILECOPY a TO b, NAME b AS
  z, FILECOPY z TO y - read a file half written under a name its writer never
  had. Two statements, the bound of `FileSystem.cfg`, cannot show that.

* `ConsoleProofs`: `ScreenBounded`, `WindowWhole`, `PrintsAsScreen`,
  `DriverSound`, for any texts, any number of threads, any configuration and
  every screen whose offsets fit the driver's 16-bit integers
  (`ScreenAssumption`). The invariant (`AlwaysInv`) has a part that holds
  whatever statements do at the same time (`DriverInv`): the types, the window;
  it is all that `WindowWhole` needs. The other part (`Undisturbed`) holds until
  two statements have overlapped: the cursor is on the screen or, while the
  window is the whole screen, one before it (`CursorInv`), who may hold the lock
  (`StatementInv`), and what a thread has read is still so (`SeenInv`).
  `ScreenBounded` and `PrintsAsScreen` say what holds until then; after it
  `CursorOnScreen` fails. Most of the proof is about operators: cells and bytes
  of the device correspond (`CellPlace`, `PlaceIs`, `CellOrder`), and
  `ScrolledIs`, `ClearedIs` and `CellsWritten` say by rows and columns what the
  byte copies of `__scrollConsole()`, CLS and PRINT leave. `PrintsAsScreen` then
  maps each action to one of `Screen` or to a stutter: the letters, TAB, new
  line and bell each to their own (`PrintMaps`), the wrap past the last column
  and the scroll to `Reaches`, a cursor left of or above the screen to `Stray`.
  `DriverSound` rests on `ChoiceInv`, which ties phase, driver, references and
  terminal together, and has no hypothesis on the statements.

* `CollectionProofs`, on `Marker`: `MarkTypeCorrect`, `NothingForgotten`,
  `MarksExactly`, for any objects, blocks, roots and sizes of the stack.
  Inductive are the types; that everything marked is in `Marking`'s reachable
  set and every entry of the stack is of a root or a marked object (soundness);
  and that while the state is valid every word of a marked object or a pushed
  root is to be scanned, points to something marked, or belongs to an object the
  search of the heap has yet to come to (`NothingIsForgotten`). What an overflow
  drops falls under no clause, so the invariant says nothing while the state is
  MS_INVALID, and the proof of each action that leaves MS_INVALID has to
  establish it anew. At MS_NONE the stack is empty, so the marked objects are
  closed under pointers, which with soundness makes them the reachable ones.

* `ReclamationProofs`, on `HeapBlocks`: `BlocksTile`, `AllocSound`, for a heap,
  a set of lists and a black list of any size, where headers and forwarding
  counts can be had (`HeadersFail = FALSE`; `HeapBlocksNoHeader.cfg` shows that
  without them the lists do not hold what is free). The invariant says of the
  headers and sizes that blocks end before the next begins and mark what is
  inside them (`Geometry`) and that no two free ones touch (`Coalesced`), of the
  lists that they hold the free blocks by size and are linked both ways
  (`Linked`) and are no circles (`Ordered`), and of a search that the block it
  looks at is free and on the list it has come to (`Places`). `Linked` alone is
  not inductive: on a circle of one block, unlinking it would leave it linked.
  All but `Places` are operators on headers, sizes and lists, so that
  `FreedIntoIs` and `TakesIs` can follow GC_freehblk() and GC_allochblk_nth()
  through the heaps in between, where a block just split off touches the free
  block it was part of: `FreedHereIs`, `UsedHereIs`, `MergedIs`, `SplitIs`,
  `DroppedIs` for the blocks, `RemovedIs`, `AddedIs`, `ReplacedIs` for the
  lists. The walk of GC_next_used_block() is a recursive function; that it finds
  what it should is proved without induction, by giving a function that
  satisfies its equation (`FoundWalks`) and showing, at the last place where
  another would differ, that there is none (`WalkIsFound`).

* `ReclamationProofs`, on `Finalize`: `TypeCorrect`, `NeededKept`, `LinksSafe`,
  `InOrder`, for any objects, areas, words and client data. What the collection
  at hand will leave (`Live`) holds the roots and is closed under pointers
  (`LiveClosed`), and so are the marks while the tables are gone through
  (`MarksClosed`): a program that runs meanwhile has only marked objects to
  store, which is why the world need not stand still. What the second loop has
  passed points to marked objects or itself (`PassedBelow`); a disguised pointer
  is that of its table entry (`LinksKept`); and nothing live but itself points
  to an object that waits for its finalizer, no link names it, and no two calls
  are for one object (`PendingAlone`). `Enqueue` is the step that needs all of
  them: it makes unmarked objects live, and `PassedBelow` says that what they
  lead to is marked.

* `CollectionProofs`, on `StopWorld`: `TypeCorrect`, `WorldStopped`,
  `TableSound`, `StoppedGoesOn`, for any finite number of threads and any ids,
  under the hypothesis that nobody joins a thread that has detached itself. The
  invariant has ten parts beside the types: ids of living threads differ; a
  record that is not finished is that of a living thread, which has one until it
  has ended (`TableHoldsLiving`); older records of an id are behind
  (`NewestFirst`); a join has its record for itself (`JoinsKnow`); a thread not
  in the table is waited for by one that is (`StartInfoIsHeld`); signals sent
  and acknowledgements pending make up what the collector counts
  (`AcksCounted`); every record passed is sent the signal or stands still
  already (`Halting`); and while the world starts, what was passed has its
  signal (`GoingOn`). When all acknowledgements have come, nothing sent is left,
  so what was passed stands still.

Only model-checked: the liveness properties (`EveryErrorIsSettled`,
`WaiterGoesOn`, `ExitEnds`, `CopyEnds`, `PrintEnds`, `SearchEnds`,
`MarkingEnds`, `AllocEnds`, `CollectionEnds`, `LostIsFinalized`) and the
fairness part of `ImplementsHandlerStack`, because TLAPS does not prove liveness
under fairness. Of the rest, every invariant and action property of a passing
run is stated by a theorem.

## Not modelled

* `RandomFunctions.c`, `StringFunctions.c`, `ConversionFunctions.c`,
  `TimeDateFunctions.c`, `MathFunctions.c`, `LowLevelFunctions.c`,
  `BasicString.c`, `Variant.c`, `ArrayFunctions.c`: functions of their arguments
  with no state, or one seed, of their own. `BasicFileStream.c` is not built.
* `Gosub.c`: no code of the repository generates the calls yet.
* `BasicFileSystem.c` and CHDIR, CHDRIVE, CURDIR$: they ask the host and keep
  nothing. `EnvrFunctions.c`, `RegistryFunctions.c`, `Language.c` beyond their
  locks and texts.
* The curses, SDL, redirected and null console drivers.
* `libgc`: finalizers without an order and JAVA_FINALIZATION, `GC_finalize_all`,
  the growth of the tables of finalisation, typed allocation, debugging headers,
  cords, incremental and parallel collection, `GC_realloc`'s copying, root
  registration, and the ports to platforms and threads packages.
* `vbs/`: statements are recognised and no code is generated; `parser/` is a
  grammar. Tests and tools. `docs/*.txt` is used for what it promises.
