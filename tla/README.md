# Formal models of SPL-Labs-3sem

TLA+ models, TLC configurations and TLAPS proofs for the concurrent and
stateful programs of this repository. Paths below are relative to `src/`, with
`SPF` for `System-Programming-Fundamentals` and `SPL` for
`System-Programming-Languages`.

## 1. Inventory

The repository is a collection of independent programs; the parts below talk to
each other only where it is said.

| Component | State | Operations and interactions | What is hard |
|---|---|---|---|
| **Directory server** `SPF/lab6/server.c`, `client.c` | pool of slots (`busy`, `client_fd`, read and written by two threads without a lock), one table of descriptors for connections and open directories, listen queue | main: `get_free_thread`, `accept`, store into the slot; workers: poll, copy, `read_request`, open a directory and answer path by path, close, clear; clients: connect, send lines, read to the end | the handover through two polled fields; reuse of descriptor numbers; slots lost to refused requests and failed `accept`; `accept` and `opendir` that take each other's descriptors; SIGPIPE; silent clients |
| **Task processor** `SPF/lab5/additional/main.c` | reader's local `msg`, five pipes, results on stacks and on the heap, the log | reader: parse and dispatch by strategy; executors: compute and send; writer: append to the log; `goodbye` on a signal | pointers to another thread's stack and to dead frames; pipes that fill up; cancellation; who waits for whom |
| **Heap allocator** `SPL/LAB6/mem_alloc.c` | list of chunk headers inside the heap | `heap_space_init`, `custom_alloc`, `custom_free`, `merge_free_chunks` | long sequences of calls; sizes at the split boundary; wrap-around; growth |
| **Alphabet** `SPF/lab5/part2/*.c` | 26 letters, one lock | change case, swap, print, count; four programs, four primitives | readers between two writes; the SysV semaphore that works although its initialisation fails |
| **System information, SysV IPC** `SPF/lab5/part1` | record in shared memory, a mapped file or the server's memory; message queue | refresh every second or for every query; clients copy field by field, or query and wait; SIGINT removes the file | torn copies, replies without an address, peers that die |
| **System information, Unix socket** `SPF/lab5/part3` | record, backlog, socket file | accept, refresh, write the record; `unpipe` | a client that is gone kills the server; handlers installed late |
| **tee** (and xargs) `SPF/lab4` | options, open files, stdio's buffers | copy byte by byte | a signal between two writes or inside stdio, one output of several failing |
| **Linked list** `SPL/LAB4` | nodes on the heap, a text and a binary file | load, type in, map, save, serialise, free; run again over its own files | input that is no number, saves cut off in the middle of a number, memory that nobody frees, early ends |
| **Primes** (and scalar product) `SPL/LAB3` | number, divisor | check the input, trial division | `int` overflow ends the loop |
| **BMP rotation** `SPL/LAB5` | picture in a file | read, rotate, write; run over its own output | row padding, sizes in the header |
| Assembly library and dictionary `SPL/LAB1`, `SPL/LAB2` | buffers, linked dictionary | number and word parsing, `find_word` | 64-bit limits, buffer limits |
| **Forth** `System-Level-Software-Coursework` | two stacks, dictionary, compiled cells, program counter | inner and outer interpreter, compiler words | redefined names, a word under compilation, words run inside a definition |
| Perl versions, shell exercises, macros, generated benchmark tables, heap dump, PDFs | | | |

Properties that make the modelled parts correct:

* **Directory server**: a descriptor has one owner and is open while it has one;
  none leaks; the handover through the two fields loses nothing; a client gets
  the answers to its own paths, in order, all of them; the pool loses slots to
  misbehaving clients only, as long as there are descriptors enough; every other
  client is served in the end.
* **Task processor**: a task that was read is in one place until it is logged;
  the log keeps the order of each type, with every record but the last complete; the value logged is the task's result;
  no pipe blocks for good.
* **Heap allocator**: chunks tile the heap; blocks in use are disjoint, large
  enough, and stay; the heap grows only when it must; calls return.
* **Alphabet**: one thread inside; nobody reads a half changed alphabet.
* **Request**: the paths answered are the paths sent, however the bytes are cut;
  a whole request is settled.
* **System information**: how much a copy may mix, how old it may be; for every
  waiting client there is a query or a reply; clients come to an end.
* **Programs of one user**: a list survives its files; a verdict on a prime is
  right up to the overflow; a picture turned four times is itself; every file of
  `tee` has what was read; a compiled word keeps its meaning.

`PROJECT.json` lists every component with its status and, under `hazards`, each
place where the code could go wrong in a way a test would hardly reach.

## 2. Modules

| Module | Models | Extends / instantiates |
|---|---|---|
| `ConnectionService` | abstract: what a client of the directory server sees | |
| `PoolServer` | `lab6/server.c`, `client.c` | implements `ConnectionService` |
| `PoolServerProofs` | theorems about `PoolServer` | `PoolServer` |
| `TaskPipeline` | `lab5/additional/main.c` | |
| `TaskPipelineProofs` | theorems about `TaskPipeline` | `TaskPipeline` |
| `Allocator` | abstract: what a caller of the allocator relies on | |
| `MemAlloc` | `LAB6/mem_alloc.c` | implements `Allocator` |
| `MemAllocProofs` | theorems about `MemAlloc` | `MemAlloc` |
| `RequestService` | abstract: a connection as `PoolServer` takes it | |
| `RequestFraming` | the bytes of one connection, `lab6` | implements `RequestService` |
| `RequestFramingProofs` | theorems about `RequestFraming` | `RequestFraming` |
| `SystemInfo` | `lab5/part1` and `part3`, servers and clients | |
| `AlphabetLocks` | `lab5/part2`, all four programs | |
| `AlphabetLocksProofs` | theorems about `AlphabetLocks` | `AlphabetLocks` |
| `SystemInfoProofs` | theorems about `SystemInfo` | `SystemInfo` |
| `IntSequence` | abstract: the list `linked_list.h` promises | |
| `LinkedList` | `LAB4`, all files | implements `IntSequence` |
| `LinkedListProofs` | theorems about `LinkedList` | `LinkedList` |
| `PrimeCheck` | `LAB3/main.c`, input and primality | |
| `BmpRotation` | `LAB5` | |
| `Tee` | `lab4/tee.c` | |
| `UserPrograms` | these three side by side | `PrimeCheck`, `BmpRotation`, `Tee` |
| `UserProgramsProofs` | theorems about them | `UserPrograms` |
| `ForthNatives` | what native words do to the stack; the number parser | |
| `ForthWords` | abstract: a word is a list of native words | `ForthNatives` |
| `Forth` | `main.asm`, `native_words.inc`, `colon.inc` | `ForthNatives`, implements `ForthWords` |
| `MCPrograms` | one of the five programs above chosen and run alone | `LinkedList`, `UserPrograms`, `Forth` |
| `MC...` | constants of the TLC instances | the module of that name |

Definitions marked `\* Fault:` are not part of any specification. Each is an
action as a plausible slip would have left it (a line missing, an off-by-one);
substituted for the action after it, it makes a property fail, which shows that
the property depends on that line of the code.

### PoolServer

`busy` and `client_fd` are the slots' shared fields. `mpc`, `slot`, `accepted`
are main's position and locals (lines 170-177 with `get_free_thread` inlined);
`wpc`, `wfd`, `dir`, `request`, `next` are each worker's. `sock` and `dirs` are the
kernel's table: the peer of every descriptor that is a connection, and the
descriptors of open directories. `backlog` is the listen queue.

Each load and each store of a shared field is an action: the test of line 57 is
`PollBusy` then `PollFd`, line 61 is `Take`, lines 117 and 118 are `ScanSlot`
and `Claim`, lines 102, 103, 104 are `CloseClient`, `ClearFd`, `ClearBusy`. The
fields are plain `int`s and the accesses race. The Makefile sets no
optimisation level, so the compiler emits every access in program order, and
the stores of one thread reach others in order on x86; the model takes the
interleavings of those accesses. Compiled with optimisation, line 57 could be
hoisted out of its loop, and the model would not apply.

A request is the number of its paths. `read_request` is one step that is
enabled when the whole request has been sent, or must be refused. A round of the
loop of lines 75-100 is `OpenDir`, which takes any free descriptor, and `ListDir`,
which answers and gives it back; or `OpenDirFails`, for a path that cannot be opened
or a table that is full. `AcceptNoDescriptor` is `accept` with the table full of
connections and directories, at any moment of the call. Linux looks for a descriptor
once, before it waits for a connection, and holds on to it; what that allows is among
what the model allows, since `opendir` may fail there at any time. `AcceptAborted` is a connection reset in the queue. A client that is in `Quitters` may
leave at any moment, or go on, or fall silent. A write to a client that left may
kill the process (SIGPIPE).

### RequestFraming

`PoolServer` reads a request in one step and answers path by path. That this is
right is `RequestSpec`: `unsent` are the writes of `client.c` (lines 40-44), of
which the server may read any part; `request` the joined bytes; `Verdict` the
tests of lines 36-45. `path_start` and `path_end` are the two pointers of the
splitting loop as indices from 1, one round of which, up to the next `'\r'`, is
`AnswerPath`. Line 75 adds one after lines 83 or 97 added two, so the first byte
of a path is never compared with `'\r'`; the paths have no `'\r'` in them.

### SystemInfo

`channel` is the option the server was started with, or `part3`. What a client may
see depends on the order in which the fields are stored (the ids once, then the time
and the three loads, one by one) and read (time, ids, the three loads), so each is a
step. `rec.time` and the loads are the number of the refresh that stored them.
`Readers` are the clients that may map a shared record; one is enough, because
readers neither write nor meet. `Interrupt` is SIGINT, handled or not yet handled by
`part3`; `Kill` every other end. `queries` are a number, as they have no content;
`replies` a queue, as the receiver does not say whose it wants. `lost` counts clients
that were killed while they waited.

A copy out of shared memory may mix refreshes any number apart: a client may sleep
between two reads for as long as it likes. What `OneMoment` claims is the other
direction. A field read later is at most one refresh older than one read earlier,
and a time never comes without ids.

### LinkedList, PrimeCheck, BmpRotation, Tee, Forth

* `LinkedList`: `element` and `succ` are the nodes malloc has given out, `cursor`
  and `built` the loops' pointers. A step is one round of a loop. `buffer` is
  what stdio holds back. It is written out when it is full, whenever that is
  (`Flush`), which may be in the middle of a number: `cut` is the part of the last
  number that is in the file, its first digits (`Parts`, in base `Base`) or its sign
  only (`Sign`). After `^C` the next run loads that part as a number of its own, or,
  if it is a sign, as something that is no number. The binary file grows by blocks
  (`SerializeBlock`). malloc has `MaxNodes` nodes; it may fail in every place that
  asks for one, which are loading, typing, `map` and `iterate` and with them
  `serialize` (`OutOfMemory`), and the program crashes. Nobody frees the lists of
  `map` and `iterate`. Reading operations have no step. Integers wrap at `MaxInt`.
  `e` is uninitialised until a number was read, and takes any value then
  (`ReadInto`). Ending the typed list with `^D` is `InputEnds`; the menu that follows
  can only be answered with a libc whose end of file is not sticky.
* `PrimeCheck`: the two conversions of line 41 in parameterised widths.
* `BmpRotation`: the file is a function from offsets to pixels, so that padding
  matters; what was not loaded is `Garbage`. Reader and writer compute the padding in
  two places (`ReadPadding`, line 51, and `WritePadding`, line 67).
* `Tee`: `pending` is stdio's buffer for each file. stdio writes it out (`WriteBlock`)
  and then resets its pointers (`ResetBuffer`), in `fputc`, `fclose` or `exit`; `writing`
  is the file between the two. The SIGINT handler calls `exit` wherever main is, in
  between too, and then the block is written again; a file that `fclose` has taken off
  stdio's list (`unlisted`) is not written out by `exit` at all. `torn` is the one file
  to which either may have happened. Line 47 allocates 4 bytes for every pointer of
  8; malloc's smallest block hides that for up to three files, and more are not
  modelled.
* `Forth`: a cell of `user_dict` is a number, `Back` stands for the cell after
  `execute` in `forth-interpret`, and `pc = Outer` for the loop of
  `forth-interpret-fd`. `next` is `Fetch`; the native that it jumps to is the next
  step. Once the program jumps to where no code is (`Wild`) nothing more is said,
  and `ForthWords` gives up as well (`Lose`), but only after a misuse of the
  stacks. The refinement reads the list of a word off its cells (`Listed`) and
  what is still to be done off `pc`, `w` and the return stack (`Todo`).

### TaskPipeline

A task is its index in the input. `msg` is the reader's local variable; a
thread created under `PER_THREAD` holds its address and reads it in
`StartThread`. `Seen` gives what it may find: the store of line 210 is not
atomic, and after the reader's return the frame may hold anything. `cell[e]` is
the local `result` of executor `e` whose address is sent (lines 129, 138); a
later call may leave `Junk` there. The data of a sort are on the heap. A pipe
holds `PipeCap` messages and `write` blocks when it is full. `ReadResult` is the
writer's read; `WriteType`, `WriteSize`, `WriteData` are its three writes of a record,
and the pointer is followed in the last. `pieces` is how many of the three are in the
log, so a signal may leave a record cut off. `Cancel`, `ClosePipes`, `Exit` are `goodbye`; cancelled threads
may still run to their next cancellation point.

### MemAlloc

A chunk is named by its address; `next`, `capacity`, `is_free` are functions on
the set of headers. One round of each loop is a step. `live` is the callers'
side: which blocks they hold and how much they asked for. Addresses and sizes
are numbers, and line 32 computes modulo `SizeMod`. Callers free only what they
hold. The model goes no further once the kernel maps a page somewhere else
(`GrowElsewhere`) or not at all (`GrowFails`).

### AlphabetLocks

`program` chooses one of the four files; `value` is its mutex, rwlock or
semaphore. The loops of `alphabet.c` run letter by letter, the exchange of two
letters in two steps. `sem_sysv.c` passes 1 to `SETALL` where an array is
expected; the call fails and the semaphore stays 0, which is the value its
`lock` waits for.

## 3. Runs

| Run | Instance | Shows |
|---|---|---|
| `pool_safety` | 2 threads, 3 clients (one may quit), 3 descriptors for connections and directories | all safety properties and `ServiceSpec`: the server implements the connection service |
| `pool_liveness` | 2 threads, 3 clients, one sends an empty request, falls silent or leaves, 3 descriptors, backlog 1 | a worker that is lost, or held for good, does not keep the others from being served |
| `pool_descriptors` | 2 threads, 1 descriptor | neither do a failed `opendir` and a failed `accept` |
| `pipeline` | 3 strategies, 2 inputs of 3 tasks, pipes of 1 message, signals | conservation, order, intact sorts, progress |
| `per_thread_lost_task` | `PER_THREAD` | **violation**: a task logged twice |
| `per_task_dangling_result` | `PER_TASK` | **violation**: a value that is not the task's result |
| `allocator` | header 6, alignment 2, page 20, 2 pages, queries 0, 3, 15, `SizeMod`-1 | all properties and `AllocatorSpec` |
| `alphabet` | 5 letters, four programs | exclusion, whole alphabets, progress |
| `request_framing` | up to 3 paths of 1 or 2 bytes, reads of 1 to 4 bytes | paths answered are paths sent; `RequestSpec`; whole requests are settled |
| `empty_request` | one empty path | **violation**: neither answered nor refused |
| `system_info` | 4 channels, 2 clients of which one may be killed and one maps the record, 4 refreshes, 6 runs of the client | mixtures, age, balance of queries and replies, clients come to an end |
| `programs` | list in 2 runs with 11 nodes, 6-bit primes, pictures to 5 by 5, tee with 2 files, Forth sessions | the properties of the five programs, `ListSpec` and `ForthSpec` |

**Why the bounds are enough.** Two threads are the server's default and give
every race between main, a worker and another worker; three clients make a slot
or a descriptor be reused while another is in use. Three descriptors for two workers
are the fewest with which `accept` cannot fail (`EnoughFds`), and `opendir` still can;
`accept` may reuse a number or not. The liveness run has a backlog of one: a client
that waits to get into it is treated like one that waits in it. `c2` sends two paths, so answers
interleave. Three tasks of one type are more than a pipe and its handler hold, so
the reader blocks; the mixed input lets types overtake each other. A page of 20
holds one block of 3 with a rest that can be split, or a run that must be merged
with the next page for a query of 15; `SizeMod`-1 wraps in the rounding. Five
letters are two exchanges and a middle; nothing depends on how many there are.
A request of at most eleven bytes is cut in every place, with the end
in one, two or four reads. Killed clients leave queries behind, whose replies the
next clients get. Four refreshes are three more than the one a client may find, so a
copy can mix records three apart. Eleven nodes are a list of three numbers, its squares, its cubes and the two powers:
nothing is left for `serialize`, and with four numbers `map` or `iterate` runs out of
memory before that. Numbers are printed in base 2, in which those of
the instance have up to three digits to be cut between. Five turns of all shapes up to 5 by 5 meet every padding and go
round once. Ints of 6 bits wrap at 36, well within the numbers tested, and at the
limit of the unsigned type. Two runs of the list write a file and load what is
left of it. A Forth session defines `a`, `b` from `a`, and a new `a` from the old
one, with every combination of bodies listed in `MCPrograms`, and uses them. A
branch in a definition is always followed by a number, as `forth-follows-branch`
assumes.

The bounds are `Backlog`, `PipeCap`, `MaxPages`, `SizeMod`, `MaxTime`, `MaxAsks`, `Readers`,
`MaxNodes`, `MaxTyped`, `MaxRuns`, `MaxTurns` and the finite inputs;
there is no state constraint.

**Symmetry** is used for descriptors, and in the safety run only.

**Deadlock** is checked for the alphabet. The others stop for good: the server
idles when all its clients are served or SIGPIPE ends it, the pipeline waits
for a signal, the heap is exhausted, a connection is closed, programs end.

**Fairness.** Weak fairness for each thread: the operating system runs a
runnable thread, and a thread that polls is runnable. The calls modelled as
guards (`read`, `accept`, `write` on a full pipe) return once they can. Clients
in `Quitters` get no fairness, and neither does a worker that answers one of them
(`Stuck`), since a write may wait for ever for a reader; so in `pool_liveness` such a
client may hold its worker for good, with a directory open. `opendir` may fail every
time. A lock promises no order among its waiters, so `KeepsGoing` says that some thread
enters again and again, not that each does.
The allocator's `Step` is fair: a call that has started goes on. In
`RequestFraming` the worker and the client's writes are fair, leaving is not. In
`SystemInfo` the server is, until it is stopped, and so is a client that has
begun and can go on; nobody must run the client, and no client must be killed.
`MCPrograms` states no fairness and no liveness.

## 4. Proofs

Checked by TLAPS for every value of the constants, under the assumptions of the
models (`PoolAssumption`, `PipelineAssumption`, `HeapAssumption`,
`AlignAssumption`, `AlphabetAssumption`, `FramingAssumption`,
`SystemInfoAssumption`, `ListAssumption`; TLC evaluates them in the runs) and these hypotheses,
which stand in the theorems:

* `NonEmptyPaths` (`RequestFraming`): the client has no empty argument. Without it
  the theorems are false: an empty path is the line that ends a request (run
  `empty_request`).
* `Widths` (`PrimeCheck`): an unsigned long has at least the bits of an `int`.
* `FileCount \in 0..3` (`Tee`): the model is faithful up to three files only (section 2).
* `Shapes` (`BmpRotation`): a picture has a pixel. Sizes are not cut to 32 bits, so
  the theorem is about pictures whose size fits in the header.

`RoundTripCorrect` needs no hypothesis about the memory: it says for every `MaxNodes`
when the nodes may run out. `CapacityAccounted` has its own (`EnoughFds`), see below.

No theorem assumes that the clients, the descriptors or the inputs are finite,
where the model does not.

| Module | Theorem | Property |
|---|---|---|
| `PoolServerProofs` | `TypeCorrect`, `ProtocolCorrect`, `ExclusiveDescriptors`, `NoLeak`, `HandoverSafe` | `TypeOK`, `SlotProtocol`, `OneHolder`, `NoDescriptorLeak`, `HandoverKept` |
| | `AnswersCorrect`, `CapacityCorrect`, `Refinement` | `AnsweredInFull`, `CapacityAccounted`, `ServiceSpec` |
| `TaskPipelineProofs` | `TypeCorrect`, `ConservationCorrect`, `OrderCorrect`, `SortsCorrect` | `TypeOK`, `TaskConserved`, `LoggedInOrder`, `SortedArraysIntact` |
| `MemAllocProofs` | `TypeCorrect`, `TilingCorrect`, `BlocksCorrect`, `BlocksKept`, `GrowthJustified`, `Refinement` | `TypeOK`, `Tiling`, `LiveMatches`, `BlocksStay`, `GrowsOnlyIfFull`, `AllocatorSpec` |
| `AlphabetLocksProofs` | `TypeCorrect`, `ExclusionCorrect`, `WholeFree`, `ShownCorrect` | `TypeOK`, `MutualExclusion`, `WholeWhenFree`, `ShownWhole` |
| `RequestFramingProofs` | `AnswersCorrect`, `Refinement` | `AnswersThePaths`, `RequestSpec` |
| `SystemInfoProofs` | `CopiesCorrect`, `AccountCorrect`, `AgeCorrect` | `OneMoment`, `RepliesAccounted`, `LagBounded` |
| `UserProgramsProofs` | `VerdictCorrect`, `TeeCorrect`, `PictureCorrect` | `PrimeVerdict`, `TeeCopies`, `TurnedPicture` |
| `LinkedListProofs` | `RoundTripCorrect`, `NodesCorrect`, `Refinement` | `FilesRoundTrip`, no use of a freed node, `ListSpec` |

Each follows from an inductive invariant, which is a theorem of its own where it
is of interest (`Invariance`, and `DataInvariance`, `AgeInvariance`,
`ServiceInvariance` for those that build on an earlier one).

**PoolServerProofs.** `IInv == TypeOK /\ SlotProtocol /\ OneHolder /\ NoDescriptorLeak`.
None of the parts is inductive alone:

* `SlotProtocol` ties `busy` and `client_fd` to the positions of main and the
  worker. It needs types only. It is what a reviewer would draw on paper: an
  unmarked slot is empty and its worker polls; the slot main has claimed is
  marked, empty, and its worker still polls; a worker beyond the loop sees its
  own descriptor in the slot until it clears it.
* `OneHolder` needs `SlotProtocol`: the store of line 174 adds a holder only
  because the slot was empty, and the stale number of a closed descriptor
  (lines 102-103) makes no holder because its worker is past `Serving`.
* `TypeOK` needs `OneHolder`: the peer a worker answers or closes is a client
  only because the descriptor it holds is open (`PeerIsClient`).

`SameHolders` and `ClosingStep` are the two ways a step may change the holders:
not at all, or by giving up a descriptor as it is closed.

The second half is about the clients. `PlaceInv` says where a connection is: in
the queue once, or behind one descriptor, or closed. `UntouchedInv`: until a
worker has read its request, nothing was written to it. `ServeInv`: a worker
answers the client whose request it read, and `next` is one more than its
answers; `AnswerInv` follows for those that are through. `CapacityInv` counts: a
slot that holds -1 is paid for by a client that was closed while misbehaving, one
each. The count needs that a failed `accept` with enough descriptors was an
aborted connection, not a full table: `HeldByOthers` maps the open connections, and
`DirsOfOthers` the open directories, into the threads other than the one main claims
for, which has neither. So `2 * (ThreadCount - 1)` descriptors are taken at most, and
one more is enough (`EnoughFds`). With fewer, clients that behave may cost slots, when
the others have their directories open; `CapacityAccounted` says nothing then, and
`PoliteServed` only that clients are served as long as nobody misbehaves. That no more
connections are held than there are threads, which the refinement needs, follows from
`HeldByOthers` too.

**TaskPipelineProofs.** `Typed` and `Bounded` hold under every strategy. The rest is
about `PER_TASK`, the only strategy under which it is true (run
`per_thread_lost_task` and section 5). `Once`: a task is in one place, and none is
lost while the pipes are open. `InOrder`: of two tasks of one type, wherever the
later one is, the earlier one has come at least as far; this speaks of every
place, because an order in the log alone says nothing about what comes next.
`HandlersOwn` keeps types apart, and `OnHeap` gives that nobody but the task's own
handler has the array (`NotSortedByTwo`). `Bounded` has the one fact about cut-off
records: a record with less than three pieces is the last one, and the writer is
between two of its writes. `TaskConserved` and `LoggedInOrder` are
counts, and follow from `Once` and `InOrder` (`CountOnce`).

**MemAllocProofs.** `IInv == TypeOK /\ Tiling /\ Bounds /\ Aligned /\ LiveMatches /\
CallInv /\ WalkInv`. `Bounds` keeps each chunk inside the heap, so that growth cannot
overlap one; `Aligned` speaks of free chunks too, as they become blocks; `CallInv`
carries the rounded size from the start of a call to its end. `WalkInv` is what
`GrowsOnlyIfFull` needs: the chunks that the walk has passed are in use, or too
small and already merged with what is free behind them. Splitting, merging and
growing each get a lemma about the chunks, and a step is one of: no block moved,
one was added, one was given back. That classification gives both `BlocksStay` and
the refinement of `Allocator`.

**AlphabetLocksProofs.** `TypeOK /\ LoopInv /\ MutualExclusion` first. `Unlock` keeps
`value` in `{0, 1}` only because of `MutualExclusion`: whoever unlocks is inside, so
the lock is not free. `DataInv` then says of every letter where it is: the thread
inside found a whole alphabet, and has changed exactly the part its loop has
covered (`CaseHalf`, `SwapHalf`, and `SwapMiddle` between the two halves of an
exchange). `ShownInv` says that what a reader has seen so far is still there.

**RequestFramingProofs.** `Cut(pos)` says where in the stream each of the client's
writes begins. `pos` is existentially quantified: there is one at first, and each
write adds a place. So the invariant needs no sum over the lengths of the writes,
and the proof no induction over them. `Pointers` puts `path_start` at the beginning
of the next line. A CR occurs only as the first byte of a line end, and two line
ends are adjacent only at the end of the stream, which is where `read_request`
looks; both need `NonEmptyPaths`.

**SystemInfoProofs.** For `OneMoment`:

* `RecordInv`: the fields of the shared record are stored in the order time, 1, 5 and 15
  minutes, so none is ahead of one before it, and the last is behind the first by one
  at most; the ids are there before a time is.
* `CopyInv`: what a copy under way has read is not ahead of the record. The record only
  grows, and its fields are within one of each other, so what is read next is at most
  one behind what was read before. Nothing bounds it from above.
* `TypeInv` says that every queued reply is a whole record: a reply is built when
  the server is between refreshes (`GiveStep`, `AnswerStep`).

For the queue, `Accounted` balances queries, replies and the one in the server's
hands against the clients that wait and those that were lost. `OrderInv` bounds the
age of reply `i` from the front by the clients that can take a reply before it: a
client that dies makes every later reply one refresh older for its taker, which is
why `lost` is in the bound. `SocketInv` and `SharedInv` do the same for the other
channels, where the record is refreshed after the client came, or read directly.

**UserProgramsProofs.** `PrimeCheck`: while the square of the divisor fits in an `int`, the
comparison of line 41 is the one that was meant; the first square that does not fit
becomes negative, hence an unsigned long above every number considered, and the
loop ends (`FirstWrap`). `Tee`: `TeeLoops` says for every place of main which files have
the byte under way; `Keeps`, what stdio may have for a file: the file has the bytes before
those in the buffer, or, between `WriteBlock` and `ResetBuffer`, those in the buffer as
well. `Tears` is the same for the file the handler broke off: its last block is still to
be written again, was written twice, or is lost because the file is no longer on
stdio's list. `BmpRotation`: what a run leaves is `Turned(n)`, the
picture after `n` turns computed from the first one; writing and reading it back is
the identity (`RoundTrip`, since the offsets of different pixels differ), and
`rotation.c` leads from `Turned(n)` to `Turned(n + 1)` (`RotateTurns`).

**LinkedListProofs.** `Linked(f, s, p)` says without walking that the links `f` join the
nodes of `s` from `p` on: no node twice, null after the last. `WalkIsLinked` shows that
`Chain`, the recursive walk of `list_length` and `list_node_at`, then gives `s`. That is
an induction over the nodes; it is stated for a set of numbers (`SetInduction`: the
numbers for which the claim fails have no least member, by `WFMin`), as the library's
schemes take an operator and no prover instantiates them. `list_add_front` and
`list_add_back` each get a lemma about the links (`LinkedFront`, `LinkedBack`).
`Heap` keeps main's list and the one that `map` builds linked and apart, so adding to
one leaves the other. `WalkInv` says at which node a loop stands, and what it has
replaced or written; `ReadInv` which part of the file has been taken; `SaveInv` that a
file being written was emptied for the list in memory. `Refinement` needs nothing
more: a step changes the sequence as one of the lemmas says. `FreeInv` follows the
rest of a list that is being freed, which gives `NodesInUse`: every node a loop reads
or frees is allocated (TLC stops where a function is applied outside its domain, so the
run `programs` checks that, too).

`MemoryInv` counts the nodes in use (`Used`) for each place of main: those of the list,
of the lists that `map` made before and the one it makes, and of the powers, which is
`3 * n + PowerCount` for a list of `n`. So if none is free, either the input has
something that is no number, which is added until nothing is left, or the four lists
do not fit (`CrashInv`).

**Model-checked only.** Liveness (`WF_` and ENABLED are beyond these provers), and
`ForthSpec`, which is not proved yet: its refinement mapping unfolds words within
words (`Listed`) and folds the return stack (`Callers`), so it needs inductions like
the one above over the dictionary and the stack.

## 5. Disagreements between code and documents

`SPF/lab5/additional/task.pdf` describes the three strategies; the code does
something else in each of them: under `per_thread` the new thread may read the
next task instead of its own; under `per_task` results of `FIBONACCI` and `POW`
are read from a dead stack frame (both under `findings`); under `thread_pool`
every task is dropped, as the case is empty (`DropTask`).

The server asks for a request that ends with an empty line (`lab6/server.c:16`);
one empty path does, and is waited for (run `empty_request`).

Seen while modelling, and part of the models, without a run of their own:

* `LAB3/main.c:76` says "is prime!" of products of two primes above 46340:
  `i * i` overflows first. `PrimeVerdict` says exactly when the verdict is right.
* `LAB4/main.c:72` says all values are absolute; `INT_MIN` stays as it is
  (`NumbersInRange`). `linked_list.h:46` promises null for an index out of bounds;
  `list_node_at` follows a null list.
* `part3/client.c:29` prints "Data received:" whether or not anything was.
  `part1/server.c` never removes its segment or queue.
* `native_words.inc:3` calls the byte after a name the immediate flag, and
  `forth-xt-is-immediate` reads that byte; `IMMEDIATE` (lines 301-305) sets the one
  before the name. So the words that `forth_lib.frt` declares immediate are
  compiled like any other. `ForthWords` has the defect built in (`PerformNothing`), so
  `ForthSpec` does not show it; no document of the repository says what the word should do.
* `'` (`colon.inc:593`) tests the address of the state where it means the state,
  and compiles a literal outside definitions, too. A first character that is no
  digit, plus or minus counts as a minus, so `x3` is -3; `12ab` is 12. A token that
  follows a branch loses its `lit`. `:` at the end of the input reads for ever.

## 6. Not modelled

* **Assembly library and dictionary** (`LAB1`, `LAB2`) and the **Perl versions**: in
  the plan below, or second implementations of what is modelled.
* **xargs**: it concatenates to memory that it has not initialised, so its first
  step has no defined outcome to build on.
* **Arguments**: `parse_ushort`, `getaddrinfo`, usage messages. `unpipe.c` removes a
  file. The **scalar product** is computed for constant arrays.
* **Forth**: of the native words `.`, `.S`, `/`, `%`, `and`, `or`, `land`, `lor`, `@`,
  `!`, `c@`, `c!`, `syscall`, `sp`, `here` and `docol` typed as a word; of the colon words
  all that the outer interpreter is made of, as words to be typed (`bye`, `2dup`,
  `forth-create` and the like); `exit` inside a definition; branches whose target is
  typed in as a valid address.
* By choice: wording and layout of output, the arithmetic of the tasks, how long
  threads sleep, shell exercises, generated tables, macros, the heap dump, PDFs.
* The heap after a page was mapped elsewhere, and a process after a crash.

## 7. Plan

1. `ForthSpec` for every session, with `SetInduction` as in `LinkedListProofs`: `Listed`
   by induction over the addresses, `Callers` over the return stack.
2. `MemAlloc` over several regions, for a page that is mapped elsewhere.
3. The number and word parsers of the assembly library.
