# A TLA+ verification project for tintype

tintype captures the call stacks of a Python program, and the objects its local
variables lead to, into a `.pytb` file that a debugger can open later.  This
directory holds TLA+ models of the capture, of the Python code that uses it, and
of the debug adapter and the terminal viewer that show its files; TLC
configurations that check them on small instances; and TLAPS proofs for
instances of every size.

## The system

| Component | State it keeps | Operations | Interacts with |
|---|---|---|---|
| **SnapshotWriter** (`src/snapshot_lib/SnapshotWriter.*`) | a growing memory mapping: header, snapshot records, gap, object heap; positions in it; the maps `objectIdToOffset_` and `globalObjectCache_`; `mutex_` | `initialize`, `finalize`, `begin/endSnapshot`, `begin/endStacktrace`, `writeFrameRecord`, `write*` of objects, `rollbackWriteOffset`, the `discard` functions | SnapshotCapture calls it; a borrowed SnapshotReader reads the same mapping; `finalize` runs Python's `linecache` |
| **SnapshotCapture** (`SnapshotCapture.*`) | the claim `snapshotInProgress_`, `cancelRequested_`, the timer thread, the sampling thread, filters | `takeSnapshot`, `takeSnapshotFromException`, `snapshotAllThreads`, `takeSnapshotFromFrame`, `requestCancel`, `enable/disableSampling`, `finalize` | the interpreter lock (GIL); the program, whose `repr()` it runs |
| **SnapshotReader** (`SnapshotReader.*`, `SnapshotTypes.h`) | a mapping of its own, or a borrowed one; a cache of the objects it has made | open, first/next/previous/at index, stacktraces, frames, objects | reads what the writer writes while it writes it |
| **SnapshotStats** | counters and timers | collect, reset | everybody; influences nothing |
| **Python bindings** (`src/_snapshot.cpp`) | `borrowedReaderObj` | the module's functions and classes; wiring of frames, causes and contexts | all of the above |
| **Sampling context manager** (`src/_sampling.py`) | none | initialize, sample, finalize | the bindings |
| **Exception hook** (`src/_exception_hook.py`) | `sys.excepthook`, the previous one | install, uninstall, context manager | the bindings |
| **Reconstruction** (`src/_exception.py`, `src/_traceback.py`) | none | rebuild an exception with its chain, a traceback | the reader's objects |
| **Debug adapter: session** (`src/dap/session.py`) | the reader, the cursor, ids of frames, filters | DAP requests; stepping through snapshots; thread and stopped events | the reader; the registries below |
| **Debug adapter: registries and renderers** (`src/dap/variables.py`, `sources.py`, `exceptions.py`, `evaluate.py`) | references to values, scopes and sources | expand a value, find a source, describe a chain, evaluate an expression | the session |
| **Debug adapter: process** (`src/dap/server.py`, `transport.py`, `dispatcher.py`, `cli.py`) | sequence numbers, a read buffer, a socket | wait for a client, cut the stream into messages, dispatch, answer | a client over a stream; the session's handlers |
| **VS Code bridge** (`src/vscode.py`) | event sequence, lock | `capture`, `finalize`, snappoints | the bindings; the extension |
| **VS Code extension** (`src/vscode/`) | viewers, launches in flight, snappoints | captures and refreshes through asynchronous requests | debug sessions |
| **Terminal viewer** (`src/utils/tintype_viewer.py`) | a stack of views, cursor, scroll offset, open rows, the text on show | keys, drawing, a prompt for a path, extraction of files | the reader; curses |
| **Utilities, packaging** (`src/utils/tintype_dump.py`, `src/demo/`, `src/setup.py`) | none | print, exercise, build | the reader |

What is hard in it, and what makes each part correct:

* **Writer.**  Records and heap share one mapping.  When the records reach the
  heap, the heap is moved in the middle of a write; when a frame is cancelled,
  the records go back; when `finalize()` is called by another thread, a capture
  goes on with positions of a file that is gone.  Correct means: nothing leaves
  the mapping or overlaps, what has been committed stays readable through the
  chain, the counts, the object maps and the heap position, and the output file,
  when it can be written, says the same as the mapping.
* **Coordination.**  Four capture functions, a sampling thread that claims
  before it has the GIL, a timer thread, cancellation from anywhere, and
  `finalize()` from anywhere.  Correct means: one capture at a time, no timer
  or request strikes another capture, every call returns its own snapshot, and
  every call returns.
* **Traversal.**  Objects are walked breadth first, with a depth limit and two
  tables of what is written already, while the program may change and free
  them.  Correct means: what is kept is closed, written once, current, and cut
  off exactly where the limit says.
* **Stacktraces.**  Filters, `max_frames`, cancellation and exception chains
  each leave something out.  Correct means: what is there is right and without
  gaps, and what is not there is flagged.
* **Clients of the capture.**  The hook, the sampling block and the bridge each
  make several calls, any of which may fail or be refused, and share one working
  file.  Correct means: a snapshot stays in the working file until one `finalize()`
  takes it, a block is sampled to its end, and the hooks that were there before
  still run.
* **Chains of exceptions.**  Five loops over causes and contexts, each with its
  own guard against cycles, limit, reversal and filter.  Correct means: they
  tell of the same exceptions in the same order.
* **Debug session.**  Numbers given out for one snapshot come back after another
  was loaded; a move of the cursor may fail half way; the file grows meanwhile.
  Correct means: every answer belongs to the snapshot on show, every number
  stands for one thing, and the client's threads are those there are.
* **Adapter process.**  Bytes arrive in pieces, handlers send events before
  they answer or fail, clients go away.  Correct means: each request is answered
  once and in order, nobody waits forever, and the exit code is true.
* **Terminal viewer.**  A cursor, a scroll offset and a stack of saved views
  over rows that open and close, in a terminal that is resized.  Correct means:
  the cursor is on the screen, and going back leads to where one came from.

`PROJECT.json` lists the components, the hazards by line, and which lines every
definition stands for.

## Modules

| Module | Models | Checked by | Proved in |
|---|---|---|---|
| `SnapshotWriter` | the file layout and the capture session | `writer` | `SnapshotWriter_proof` |
| `SnapshotService` | abstract: one snapshot at a time, and what becomes of requests to cancel | | |
| `SnapshotCapture` | threads, GIL, claim, timer, sampling, `mutex_`; implements `SnapshotService` | `capture`, `capture_live` | `SnapshotCapture_proof` |
| `ObjectGraph` | `processFrameObjects`, `processObject`, both tables, a program that runs on | `graph`, `graph_cache` | `ObjectGraph_proof` |
| `Stacktraces` | the four capture functions, filters, limits, flags, exception chains, `reconstruct_exception()` | `stacks` | `Stacktraces_proof` |
| `CaptureClients` | hook, sampling block and bridge over one capture and one working file | `clients` | `CaptureClients_proof` |
| `ExceptionChains` | operators: what each renderer makes of the chains of a snapshot | (its users) | |
| `ExceptionView` | a client that reads the virtual thread in pages | `view` | `DebugSession_proof` |
| `DebugVariables`, `DebugSources` | operators on the two registries of the adapter | (their user) | (its proof) |
| `DebugSession` | the requests of a debug session; uses the three modules above | `session` | `DebugSession_proof` |
| `AdapterService` | abstract: requests are answered in order, each once, as the command demands | | |
| `DebugServer` | process, transport and dispatcher; implements `AdapterService` | `server` | `DebugServer_proof` |
| `LineEditor` | operators: the prompt's line | (its user) | |
| `SnapshotViewer` | the terminal viewer; uses `LineEditor` and `ExceptionChains` | `viewer` | `SnapshotViewer_proof` |
| `Evaluate` | the evaluator on shared values | `evaluate` | |

The first four and `CaptureClients` meet at the capture session.
`SnapshotCapture` says who runs it, and has one step for a call of the writer;
`SnapshotWriter` says what these calls do to the file, and lets `finalize()`
happen between any two of them, which is what `SnapshotCapture` shows to be
possible; `ObjectGraph` and `Stacktraces` refine the part of the session between
two calls in which objects and frames are chosen, and need of the writer only
that records are appended and taken back; `CaptureClients` uses captures as
`SnapshotService` promises them, refused, discarded or written.  On the other
side of the file, `DebugServer` has a handler as some events and an outcome, and
`DebugSession` says what the handlers do.

### SnapshotWriter

Every public method of the writer is one action, since it runs under `mutex_`;
the field names are those of the class.  The mapping is an array of cells
rather than bytes: a record header is one cell, frames, objects and object maps
have a few, and a cell tells whose it is.  So a move that forgets the heap, or a
write at a stale position, really destroys something, and the properties read
the file the way the reader does: by the counts, by `prevSnapshotPos`, by the
heap position in the header.  `phase` is the point the calling function of
`SnapshotCapture.cpp` has reached and so fixes the order of the calls, with all
its ways out: no frame, no stacktrace, not a traceback, cancelled, thrown.
`stale` says that another thread has called `finalize()` since the capture
began.  `committed` and `objects` are history variables.  The record and heap
regions may run out of space in every write (`RecordSpaceRunsOut`,
`HeapSpaceRunsOut`): the exception either reaches a handler that discards, or
leaves the capture where it is.

`finalize()` may fail to write its output, which it does silently: it writes
nothing then, or something that cannot be read, and deletes the mapping all the
same (`writes` of `Finalize`; a finding below).

Left out: the bytes of the records, compression, the sections that
`finalize()` appends (they are one trailer of some size), file names.

### SnapshotCapture

Actors are the Python threads, the sampling thread and the timer thread.
`pc` is the point each of them has reached.  A thread gives up the GIL only
where Python code runs: in the program, in `repr()` during a capture, and in
`linecache` during `finalize()`.  Everything between two such points that
touches only what the GIL protects is one step; what the sampling and timer
threads do without the GIL has a step for every access to shared state.
`claim` is `snapshotInProgress_`; its `compare_exchange` is one step.
`holder` and `timerOwner` are history variables.

Decisions:

* The bindings initialize the module before they capture, with the GIL, so a
  call and its `initialize()` are one step; only the sampling thread can find
  the writer closed.
* `samplingShouldStop_` is a plain `bool` that is read without
  `samplingMutex_` twice.  That is a data race; the model lets each such read
  miss the update.
* Two simultaneous calls of `disable_sampling()` would join one `std::thread`
  twice, which is undefined; in the model the second waits for the first.
* Sampling is of all threads.  Sampling of a single thread, and the free-threaded
  build, are not modelled.

### ObjectGraph

One record per address: type, kids, text (what `repr()` or the value shows) and,
as history, how often the address has been used again.  The queue, the frames,
`objectMap` (`objectIdToOffset_`) and `cache` (`globalObjectCache_`) are the
code's.  `CallRepr` and `ReprReturns` are two steps, because other threads run
between them; there, and between snapshots, the program changes objects, assigns
to variables, and gets new objects at addresses that nothing refers to.

Types stand for the branches of `processObject`: `leaf` (int, float), `string`
(str, bytes), `unwritable` (a str without a UTF-8 form, an int with more digits
than `str()` gives out), `list` (list, tuple, dict, set), `sub` (an instance of a
subclass of these), `opaque` (modules, types, functions, ...: their `repr()` only)
and `custom` (any other).  None and bools,
which get magic offsets, are only in `SnapshotWriter`.  The identity hash is
taken to be injective on what it is given; what it is *not* given (the middle of
long containers, the `repr()`) is modelled.  Attributes of instances of
subclasses are left out: their elements are their kids.

`truth` and `missing` are history variables: what this snapshot found at each
address, in which frame and at which depth, and where it met an object that it
could not write.  Such an object is on no record, so `Closed` and `CutAtDepth`
allow for it; and since nothing keeps it alive, its address may go to another
object before the snapshot ends.  Then an id in the file that stood for the
first leads to the other.  The two properties say what holds until that
happens (`NoneReplaced`).

### Stacktraces

One snapshot, by any of the four functions.  A frame is filtered, has no
locals, or has objects to process; `cancel` may be set before the call, and at
any point during it.  `cut`, `omitted` and `anyCut` are the code's variables
`wasCancelled`, `anyStacktraceOmitted` and `anyStacktraceTruncated` (or their
counterparts in the other three functions).  Exceptions have causes, contexts
and `__suppress_context__` in every combination, except that a cause comes with
suppression, as Python sets it.  They do not change during the capture.
`skip_frames`, and the names of threads, are left out.

### CaptureClients

Threads of a program, the sampling thread, and the main thread in which
`sys.excepthook` runs.  `pc` is the next call of each.  A capture is the steps
`BeginCapture` and `Written`, `Discarded` or `Failed`, because other threads
call `finalize()` between them; `lost` says that one has.  `hooks` is the chain
of functions that call each other, as each remembers the one before it; an
exception walks down `rest`.  Each call in the hook may raise, the callback
too.  Programs that call `enable_sampling()` or `disable_sampling()` themselves
beside a `sampling()` block are left out: the block would then lose its samples,
and nothing says otherwise.  The output file of each working file is a new one.

`Save` is `finalize()` by any of them: with a path that can be written, with one
that cannot, or without a path, which is the default of `sampling()` too.  In each
case the working file is gone, with the snapshots of everybody; `outputs` records
what was in it, and whether it was `written`.

### ExceptionChains and ExceptionView

A snapshot is a function from ids to stacktraces with `cause` and `context` ids,
as the reader links them (a link to itself or to what is not in the snapshot is
none).  Each renderer is its loop: the virtual thread with reversal,
separators, pruning and pages; the nested details, the text and its notes;
`reconstruct_exception()`; the viewer's tree and its text.  Words and types are
left out.  The limit of 10 is the constant `MaxDepth`.  `ExceptionView` is the
client: `StackTracePage` asks for the next rows of the virtual thread, at most
`MaxLevels` or all of them.

### DebugSession, DebugVariables, DebugSources

One action per request.  A request is atomic, because the server reads the next
one when it has answered; `Capture`, another process that adds a snapshot, comes
in between.  A snapshot that cannot be read makes a load fail after the request
has begun.  `Launch` comes once, as it does from a client: `handle_launch` itself
would take a second one.  `known`, `stoppedOn`, `seenFrames` and `seenRefs` are what the
client knows from the events and the answers, and it asks with numbers from
there.  Frames with no embedded source, files with the same name, and the
staging directory are in `DebugSources`, where a path is a sequence of names.
Left out: the list of snapshots and its texts, metadata, how a value is
formatted.

### DebugServer and AdapterService

The byte stream is cut at `HeadLen` and `BodyLen`; `Receive` moves any part of
what is under way, `ReadHead` and `ReadBody` take from the buffer as the
transport does, and `Eof` and `Reset` end it at any byte.  A handler sends
events, each of which may fail to be written, and then returns, refuses or
fails.  An event or an answer with a lone surrogate cannot be encoded, with the
client connected (`EventEncodes`, `ResponseEncodes`): an event's failure is the
handler's, an answer's ends the process, and a request whose command has one is
such a case, because its name is part of the answer.  Both transports, the timeout
of `accept()`, a keyboard interrupt and the exit codes of `cli.py` are there.
`asked` and `answered` are history variables: the requests that are complete at
the client, and the responses, each with the message it answers.

### SnapshotViewer and LineEditor

One step is a key and the drawing that follows it, which clamps the cursor and
the scroll offset.  A text is what it shows and how many lines it has.  The
terminal has another height whenever it likes.  A file that is not embedded is
read from disk, by `ViewFile` or while a traceback is drawn; one that is no UTF-8
text (`NotText`) ends the viewer (`ViewFileFails`, `Undrawable`).  While the
prompt is open the keys go to `LineEditor`.  Terminals of fewer than three rows
are in the model and not in the instance.

### Evaluate

The heap is the reader's `objectCache_`: all answers for a file share the
values.  Expressions are trees; an outcome is a value, `EvaluateError`, or an
exception that leaves the evaluator.  Left out: comprehensions, slices,
f-strings, and of the binary operators all but one; of the methods and builtins
there are a few of each kind.  The module is recursive over expressions, so it
is out of reach of the proofs.

## Runs

Every run that passes is complete: TLC visits all states of the instance.

| Run | What it shows | Bounds, and why they suffice |
|---|---|---|
| `writer` | layout; committed snapshots parse, are chained, frozen and contiguous; objects and object maps resolve (`ObjectsReadable`); the output, if it can be written, is written and faithful (`OutputComplete`) | 12 cells, two object ids, objects of 1 or 2 cells: room for two snapshots, one relocation, one extension and one failure to extend, in all orders with cancellation and a `finalize()` whose output may fail |
| `capture` | timers within claims; no request lost; own snapshot; refinement of `SnapshotService`, in which one capture runs at a time | two callers, the sampling thread, the timer: every pair of actors that can meet; failures and source files on |
| `capture_live` | every call returns; the claim is always given back | one caller (who waits for the sampling thread and the timer); no failures and no source files, because of the two findings below |
| `graph` | what is kept is closed, written once, cut off at the limit, and flagged | all graphs of three addresses with one kid, two frames with up to two locals, depth limit 1, two changes by the program (the second may use the address again that the first gave up), cancellation anywhere |
| `graph_cache` | a cache hit has the present type, kids and value | all graphs of two addresses, all types but `unwritable`, two texts, two snapshots, two changes, `finalize()` between; a hash that sees all kids |
| `stacks` | stacktraces are innermost-first without gaps, what is missing is flagged, and `reconstruct_exception()` walks exactly the captured chain | four functions, three sources with all links, cycles included, up to two frames of three kinds, `max_frames` 0 to 2 or none, cancellation anywhere; a chain limit of 2 instead of 10, so that it is reached |
| `clients` | every hook runs; a block is sampled to its end; a snapshot stays in the working file until exactly one `finalize()` takes it | two threads and the sampling thread; two snapshots, two working files, any `finalize()` with or without an output, three hooks (the interpreter's, tintype's, another library's in both orders) |
| `view` | pages add up to the stack; the stack has the rows of the chain, innermost first, separators between groups; the renderers agree | chains of up to four exceptions in every combination of cause, context, both and back links, with and without traceback, hidden or not; a limit of 2, so that a chain can exceed it by one hop and more; pages of none to two rows, of which none means all |
| `session` | the cursor and the snapshot agree; numbers mean what they were given for, and one thing each; the source is the right file's, where the adapter has no file of that path; the thread events of the launch, a step and a jump are exact | two files: one that grows, and one with a chain of exceptions, a snapshot that cannot be read and an empty one; three frame ids and three references per stop; a list that contains itself; two files of the same name |
| `server` | sequence numbers; exit codes; refinement of `AdapterService`; nobody waits forever | two messages of four bytes, in pieces of up to three; commands whose handlers send up to two events and return, refuse, fail, send what cannot be encoded or return it; commands that cannot be encoded or are unknown; all ends of the connection |
| `viewer` | the cursor is on the screen; the way back; a file opens at its line; the prompt edits at its cursor; the viewer ends only where it must | three snapshot files, one of them empty; chains of two exceptions, an embedded file, one on disk, one on disk that is no text and one of no frame; heights 4 and 5, below the length of every list that is open; a prompt of two characters in a window of two |
| `evaluate` | violation: evaluating an expression changes a captured value | a list, a dict and an object that have it, expressions of up to two operators |

Deadlock is checked in `writer` and `capture_live`.  It is off where the model
may stop: the program, the session or the process ends, a bound is reached, or,
in `capture`, `finalize()` blocks every thread (a finding below).

Each property is also known to be able to fail: `PROJECT.json` names, for every
property, a plausible bug (a definition marked *Faulty*) that breaks it.  The
type invariants, `OneCapture`, and the parts that `ObjectsReadable`,
`OutputComplete`, `StackOfChain` and `RenderersAgree` are made of, are stated in
the modules and checked through these, or proved.

### Fairness

`SnapshotCapture` and `DebugServer` have liveness properties.  `Fairness` of
the first says:

* some thread that runs Python code gives up the GIL again and again (the
  interpreter's switch interval), and each thread that waits for it gets it in
  time (strong fairness of `TakeGil`: it is enabled only while the GIL is free);
* a capture goes on and ends (strong fairness of `CallWriter` and
  `CaptureEnds`: the queue holds finitely many objects, and both are disabled
  while another thread has the GIL or `mutex_`);
* a step that nobody else can disable is taken (weak fairness: `Finish`, the
  timer, the sampling thread, the rest of a call).

No fairness is assumed of calls: nobody has to call anything, and the
sampling thread may lose the race for the claim for ever.

`DebugServer` assumes weak fairness of `Serve`, the steps of one process with
one thread that is never disabled by its client, the timeout of `accept()` among
them.  Nothing is assumed of the client: it may send half a message and wait.

## Proofs

TLAPS checks the following for all values of the constants that satisfy the
`ASSUME`s of the modules: positive sizes and an initial file that fits
(`SizesAssumption`, `DataAssumption`), pairwise different actors
(`ActorsAssumption`, `ClientsAssumption`), and any choice of the operations that
are called and, in `SnapshotCapture`, of whether space may run out
(`OfferedAssumption`, `EnvironmentAssumption`).

`SnapshotWriter_proof`: `Invariance` is `Spec => []IInv`.  `LayoutOK` and
`Contiguous` are not inductive alone: whether a rollback or a discard lands
below the heap depends on where the capture began, which depends on the phase,
and on whether the file is still the one the capture began in.  `IInv` adds
`HeapInv` (order of the regions), `CaptureInv` (what each phase, with `stale`,
says of the positions; a stale capture never counts as in progress) and
`CommittedInv` (committed snapshots are contiguous and end at `Frontier`).
Lemmas about `AlignToBlock`, `Put`, `Move` and `EnsureRecordSpace` come first,
then one lemma per action.  From `IInv` follow `TypeCorrect`, `LayoutCorrect`,
`ContiguousCorrect` and, with a lemma that every action writes at or behind
`Frontier` or moves only the heap, `CommittedFrozenCorrect`.

What the cells say needs a second invariant, `ReadInv`.  `ListInv`: the file
header, the writer's own fields and the snapshot being captured agree which
snapshot is the newest.  `ObjectInv`: objects are where the heap begins now,
and the map being built leads to them.  `StackInv`: the headers and counts of
the snapshot being captured are right up to `Top`, where its open stacktrace
begins, and the frames behind are those `frameCount` counts, one less up to
`savedOffset` while a frame is written.  The counts are those of cells within
bounds, so `ReadInv` is about a capture that is in progress: one whose file
`finalize()` has taken away may put its offset anywhere, but then no snapshot
is committed either.  The proofs are per action again, over lemmas about the
number of stacktraces, frames and map records between two positions when a
record is appended, closed, rolled back or moved.  From it follow
`ChainCorrect`, `ParsesCorrect`, `ReadableCorrect` and `OutputCorrect`: every
property of the runs of `SnapshotWriter` is proved.  `OutputCorrect` is about an
output that can be written; of one that cannot, it says that the guard before the
copies is not the reason (`GuardHarmless`).

`SnapshotCapture_proof`: `Invariance` again.  `OneCapture` needs to know who
has the claim at each point (`ClaimInv`, with the points at which the sampling
thread has it without capturing), where the GIL is kept (`GilInv`), that the
timer belongs to the claim (`TimerInv`), that a sampling thread runs only
while sampling is active (`SamplerInv`), and that whoever wrote a snapshot wrote
the latest until it gives up the GIL (`LatestInv`).  From it follow
`TypeCorrect`, `OneCaptureCorrect`, `TimerWithinClaimCorrect`,
`CancelNotStolenCorrect`, `OwnSnapshotCorrect`, and `Implementation`: every
step is a step of `SnapshotService`, with `running` as the holder of the claim,
or a stutter.

`CaptureClients_proof`: for any number of threads, hooks, files and snapshots.
`BlockSampled` becomes inductive when it also covers a thread that is about to
call `disable_sampling()`: it is the one that enabled sampling, so it stops
nobody else.  `HooksAllRun` needs that the hooks called and the hooks still to
be called make up `sys.excepthook`'s chain, which nobody changes meanwhile, and
that the chain ends in the interpreter's hook, so that tintype's always has one
to call; two lemmas about sequences carry it.  `LostOnlyByFinalize` needs that a
capture has its working file until a `finalize()` takes it away
(`CaptureInv`), and that what is in the file and what each `finalize()` took is
disjoint, bounded by the number of snapshots taken, and complete (`KeptInv`).  It
holds for any ends of `finalize()`; that the snapshots are then in an output is
no theorem, and false (findings below).  What `initialize()`, a capture and `finalize()` do to
these is proved once and used for every caller.

`ObjectGraph_proof`: for any program, graph, limit and number of snapshots.
`TablesInvariance` has what does not depend on the order of the walk: which
phase has which frames (`PhaseInv`), that the object whose `repr()` runs is not
written yet whatever the program does meanwhile (`ReprInv`), that an entry of the
cache leads to a full record with that hash (`CacheInv`), and that what is
written is counted, what is cut off is flagged, and was found at the limit
(`CountInv`, `FlagInv`, `CutInv`).  From it follow `WrittenOnceCorrect` and
`FlagAgreesCorrect`.  `Invariance` adds the walk: the queue is sorted by depth and
spans two depths at most; each id in it is a variable or a kid of a record one
depth above; and every variable and every kid of a record is on record, missing
or in the queue, at the depth it should have (`Walk`, and `Expanding` for an
object that is taken from the queue but not written).  A frame whose queue has
run empty is `Finished`, and stays so.  `Closed` is then the reader's reachability
within a closed set; `CutAtDepth` is an induction on the distance, in both
directions.  Seven lemmas reduce the actions to two: an object is written
(`WritesObject`), or passed over (`PassesObject`).  `CacheKeepsStructureCorrect`,
`ClosedCorrect` and `CutAtDepthCorrect` have one hypothesis, `WindowCovers`: no
object has more kids than the identity hash mixes in, 40.  It is needed:
`MCObjectGraphMiddle.cfg` is what happens beyond (a finding below).

`Stacktraces_proof`: for any stacks, filters, limits, chains and moments of
cancellation.  `KeptInv` says which frames of the stack the trace being written
has, `TraceInv` what the flags of a written one mean, `ChainInv` and `LinkInv`
that the chain follows the causes and contexts without a repetition and that the
links that were written are those within it.  From these follow
`TracesFaithfulCorrect` and `UnflaggedCompleteCorrect`, and `ChainRebuiltCorrect`
by induction on the length of the walk.

`DebugServer_proof`: for any commands, messages, cuts of the stream and ends of
the connection.  `IInv` says where the reader is: the bytes in the buffer and on
the wire are those of the messages from number m on, as far as they were sent
(`ReadsMessage`); the requests before m, and no others, are answered
(`AnsweredUpTo`); and the numbers of the messages are below the next one and in
the order of the requests (`SeqInv`).  What is being handled is then message number m
(`HandledMessage`), so that an answer that cannot be encoded is the answer to
something that the client sent.  From it follow `SeqOnceCorrect`,
`ExitTellsCorrect` and `Implementation`: each step of the server is a step of
`AdapterService` or a stutter.

`DebugSession_proof`: for any files, snapshots, values, filters and bounds, and
any requests that a client makes with the numbers it was given.
`SessionAssumption` and `ValuesAssumption` say no more than that snapshots,
values and source files are finite sequences with what the reader gives out in
them.  `IInv` has five parts.  `CursorInv`: the snapshot on show is the one at the
index, and the thread stopped on is one of its own.  `FrameInv`: the table of
frames and its inverse are bijections between ids below the next one and frames of
the snapshot on show; the ids of separators are others.  `RegistryInv`: a value has
one reference, a scope has one, and each entry is what was registered under it;
only the attributes of a value may be registered twice.  `ViewInv`: what the client
was shown is known and the same; it is only claimed while frames are not hidden
(a finding below).  `SourceInv`: a reference to a source stands for one file, and
every embedded file that was shown has one.  `OneNumberEach` is not inductive
without the inverse tables, and `AnswersMatchView` not without `FrameInv`, because
an answer about a scope goes through the table of frames again.
Each answer is a fold that registers as it goes, so the lemmas are about one step
of a fold and what it keeps (`Grows`: the registry only gains entries), and an
unfolding of the fold into the sequence of its intermediate results (`FoldOf`)
carries them to the answer.  `NavigationCorrect` is about a step of a client
that knew the threads; `ThreadsKnown` draws the conclusion for a session in which
nobody restarts: the client knows the threads of the snapshot on show at all times.
The walk along causes and contexts, and the flattened
stack of a chain, are recursive functions; `WalkOf` and `FlatOf` show that they
exist and have the rows they should.  From `IInv` follow `CursorCorrect`,
`NavigationCorrect`, `OneNumberCorrect`, `AnswersCorrect` and `SourceCorrect`: every
property of the run `session` is proved.

The same module proves what `ExceptionView` says, for any snapshots, patterns, cap
and pages.  `ViewAssumption` is what the reader gives out: finitely many stacktraces
with positive ids, whose frames are finite sequences; how they are linked is free,
cycles and links that lead to what is left out among them.  `PagesInv`, that the
snapshot is one of those and `PagesAddUp`, is inductive.  `StackOfChain` and
`RenderersAgree` are about a snapshot and no step changes it, so the work is in the
loops.  Each of the renderers is a recursive function or a fold of its own, with its
own set of what it has seen and its own place where it looks at the cap.  The proof
first says what the walk is: a sequence without repetition (`IsWay`) that goes where
its last exception links to (`Goes`), up to the cap or a link that leads back or nowhere
(`Stops`); a shorter cap gives a prefix of it.  Each loop is then
unfolded step by step, by the least step at which it differs, into the walk:
the nested details and `reconstruct_exception()` hop by hop, the text into one
traceback for each exception with something else between (`Tells`), the viewer's
tree into a sequence that starts with the walk.  What a reader finds in a text is then
unique, because a set of numbers has one ascending order (`AscendingOnly`).  For the
virtual thread, flattening puts a separator only behind all rows of an exception
(`FlatGood`, `Separates`); pruning keeps a separator exactly between two frames that
are kept, and those are then of different exceptions.  From these follow
`PagesCorrect`, `StackCorrect` and `RenderersCorrect`: every property of the run
`view` is proved.

`SnapshotViewer_proof`: for any snapshot files, terminals, texts and keys.
`ViewerAssumption` says no more than that what the reader gives out are finite
sequences, with positive thread ids and natural line numbers and line counts.
`IInv` has two parts.  `ViewerInv` says which views were opened from which
(`TrailOK`), that the rows at which they were left are those of what is shown now
(`PlaceOK`), that the cursor is negative only in a list without rows (`CursorOK`),
and what the text on show is (`TextOK`); none of `OnScreen`, `BackToOrigin` and
`OpensAtLine` is inductive without it, because going back restores a cursor that
was valid for what was open then.  The same predicate, `ViewerOK`, holds of the
viewer before it is drawn: each key makes a good state (`Leads`), and drawing a
good state that can be drawn gives a good one whose cursor is on the screen
(`DrawIs`), so drawing
and clamping are proved once and resizing is a case of them.  `PromptInv` says that
the prompt's cursor is in the text and in the window; `EditsAtCursor` follows from
what each edit does, which is to cut and join the text at one place.  From these
follow `OnScreenCorrect`, `BackToOriginCorrect`, `OpensAtLineCorrect` and
`EditsAtCursorCorrect`: every property of the run `viewer` is proved.

Induction over data.  The provers cannot use the library's induction rules,
whose parameter is an operator.  Where a proof needs one, over the length of a
walk or a distance, it is by the least element of a set of numbers, which follows
from the well-foundedness of `<` (`NatMin`, `NatInd`).

Only model-checked: liveness (TLAPS proves no `ENABLED`); `Evaluate`, which is
recursive.

## Findings

Where the code does something else than a comment, a document or its own
structure says.  The first has a run, those with the name of a configuration are
shown by TLC with that file on request, and the others are read off the model.

* `evaluate`: methods of lists, dicts and sets can be called, `append()` and
  `clear()` included, on the value that the reader caches, so that evaluating an
  expression changes what is shown from then on.  `dap/evaluate.py:535-536` says
  that "a snapshot is supposed to be a read-only view."
* `MCSnapshotCaptureThrow.cfg`: `takeSnapshot()` and
  `takeSnapshotFromException()` have no handler.  An exception of the writer
  leaves claim and timer behind, and every later capture is refused.
* `MCSnapshotCaptureBlock.cfg`: `finalize()` holds `mutex_` while it runs
  `linecache`; if that gives up the GIL, a capture takes it and waits for
  `mutex_`.
* `MCObjectGraphFindings.cfg` (`CacheFresh`): an object whose `repr()` has changed, but not its
  attributes (a `deque`, a `bytearray`), is shown with the `repr()` of an
  earlier snapshot.
* `MCObjectGraphFindings.cfg` (`SameObject`): objects already written are not kept alive during a
  snapshot; one that gets the address of a freed one is taken for it.
* `MCStacktracesFindings.cfg` (`FlagOfSnapshot`): `snapshot_all_threads(max_frames=...)` does not flag
  the snapshot whose stacktraces it truncates; `PYTHON_API.md:378` says it does.
* `MCSnapshotWriterFindings.cfg` (`NoEmptyStacktrace`): `take_snapshot()` of something that is not a
  traceback raises, and leaves a snapshot with an empty stacktrace.
* `MCSnapshotWriterFindings.cfg` (`CommittedReachOutput`): when the output cannot be opened, sized,
  mapped or compressed, `finalize()` says nothing (`SnapshotWriter.cpp:776-926`) and
  deletes the working file (`SnapshotWriter.cpp:1054-1059`), so that the snapshots are lost.
* `finalize()` without a path discards the snapshots, as documented
  (`PYTHON_API.md:172`).  That is the default of `sampling()` (`_sampling.py:44`), whose
  end so discards also what other threads and the hook have captured meanwhile.
* A string without a UTF-8 form and an int that is too long for `str()` are
  missing from the snapshot, although ids lead to them
  (`SnapshotCapture.cpp:1169-1175`, `1193-1201`).
* `MCObjectGraphMiddle.cfg`: changes of a container between its 32nd and its
  8th last child are not noticed by the cache.
* `MCObjectGraphFindings.cfg` (`LocalsFull`): a local variable is cut off if an earlier frame
  reached its object at the depth limit (`PYTHON_API.md:152`).
* `MCObjectGraphFindings.cfg` (`FlagComplete`): a stacktrace that refers to an object that another
  stacktrace cut off is not flagged (`PYTHON_API.md:402`).
* `MCStacktracesFindings.cfg` (`FullChain`): an exception whose traceback exceeds `max_frames`
  ends the chain (`PYTHON_API.md:150-151`).
* `MCStacktracesFindings.cfg` (`FiltersSetNoFlag`): an exception all of whose frames are filtered flags
  the snapshot (`PYTHON_API.md:136`).

* `MCCaptureClientsFindings.cfg` (`CallbackTruthful`): the hook's callback says that the exception was
  written to the output file (`_exception_hook.py:20`) although the capture was
  refused or cancelled, or the file could not be written.
* `MCCaptureClientsFindings.cfg` (`EventNamesItsFile`): `vscode.capture()` returns "the updated working
  file" (`vscode.py:68`), which is another one if a `finalize()` came between.
* `MCExceptionViewText.cfg`: the text of `exceptionInfo` is "a pre-rendered
  CPython-style multi-line string" (`dap/exceptions.py:53`), but starts with the
  outermost exception, where CPython prints the one that was raised first.
  "Truncated" is also said of a chain that has exactly as many links as the
  limit.
* `MCDebugSessionHide.cfg`: with `hideFilteredFrames`, a frame's id holds its
  index among the frames shown, and `_lookup_frame` uses it as one into all
  frames (`dap/session.py:1181-1182`): the variables are those of another frame.
* `MCDebugServerFindings.cfg` (`CleanExit`): the end of the stream between the head and the body
  of a message counts as a clean end (`dap/transport.py:75`).
* `MCDebugServerFindings.cfg` (`ServerSurvives`): "Unhandled exceptions shouldn't kill the server"
  (`dap/dispatcher.py:109`), but an answer that cannot be encoded in UTF-8
  (`dap/transport.py:56`) does; a lone surrogate in the command is enough, since the
  answer repeats it.
* `MCSnapshotViewerExtract.cfg`: "extract current file" writes the file that is
  selected in the list, not the one that is shown: a file on disk that is shown
  does not become the selected one.
* `handle_restart` loads the first snapshot and sends no thread events, so the
  client keeps the threads of the snapshot it left (`dap/session.py:335-348`).
* A frame whose file is not embedded gets the source of another file, if that is
  the only embedded one with its name.
* The thread that a stop falls back on may be one that the filter hides from the
  list of threads.
* A frame's file that is on disk and is not UTF-8 ends the viewer with a
  `UnicodeDecodeError`, when it is opened (`tintype_viewer.py:1060-1067`) and when a
  traceback shows its lines (`tintype_viewer.py:541-548`): only `OSError` is caught.
* `PageDown` in a list without rows and then `Enter` ends the viewer with an
  `IndexError`; a frame's line is at the tenth row, which is not visible in a
  terminal with fewer.
* A call of a builtin ignores a local variable with the same name; an exception
  of a unary operator or a comparison leaves the evaluator as it is, instead of
  an `EvaluateError`.

A request to cancel that is made before `take_snapshot()` cancels it; that is
intended (`tests/test_cancellation.py:82`), and the models have it.  A response
that has a lower number than the events sent before it is as the dispatcher
means it.

## Plan

Done: 1. `SnapshotWriter` and its proof; 2. `SnapshotService`,
`SnapshotCapture` and its proof; 3. `ObjectGraph` and its proof;
4. `Stacktraces` and its proof; 5. `CaptureClients` and its proof; 6. `ExceptionChains`, `ExceptionView` and its proof;
7. `DebugSession` with its registries and its proof; 8. `AdapterService`, `DebugServer` and its proof;
9. `SnapshotViewer` and its proof; 10. `Evaluate`.

Left: nothing of the safety properties that the runs check.  Liveness and
`ReadOnly`, which the code violates, stay with TLC.

## Not modelled

* The reader's own code: it has no state but a cache and a mapping.  What it
  may find in the file is `SnapshotWriter`'s properties, what it shares is
  `Evaluate`'s heap, and how it links exceptions is in `Stacktraces` and
  `ExceptionChains`.
* The VS Code extension (`src/vscode/core`, `src/vscode/src`): whether an answer
  can arrive after the session it was for is gone depends on what VS Code
  promises about its callbacks, which the repository does not say; a model of it
  would be a model of guesses.
* Statistics (no influence on the result), `_traceback.py` (it executes
  generated code objects), the dump utility and the demonstrations (output, and
  programs that exercise the capture), packaging.
* Sampling of a single thread, the free-threaded build, compression and the
  other sections of the file, and how values are formatted.
