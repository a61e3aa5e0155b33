--------------------------- MODULE SnapshotWriter ---------------------------
(***************************************************************************)
(* The file that snapshot_lib/SnapshotWriter.cpp builds in a memory        *)
(* mapping, and the capture session that drives it.                        *)
(*                                                                         *)
(*   0         RecordsStart      writeOffset   heapStart     +heapOffset   *)
(*   | header  | snapshot records ->   | gap   | object heap ->  | unused  *)
(*                                                                         *)
(* Records grow towards the heap.  When they reach it the record region is *)
(* doubled, the heap is moved up with memmove, and the mapping is extended *)
(* if it has to be.  The mapping is modelled cell by cell, so that a write *)
(* or a move that lands on the wrong bytes destroys what was there.        *)
(*                                                                         *)
(* Every public method of the writer runs under mutex_, and is one action. *)
(* The order of the calls is that of the capture functions in              *)
(* SnapshotCapture.cpp: `phase` is the point a capture has reached.  At    *)
(* most one capture runs (snapshotInProgress_, see SnapshotCapture.tla),   *)
(* but finalize() and initialize() do not ask for that claim: another      *)
(* thread may call them whenever the capture gives up the interpreter lock *)
(* (it runs repr() of user objects), which leaves the capture `stale`.     *)
(***************************************************************************)
EXTENDS Integers, Sequences, FiniteSets

CONSTANTS
  HeaderSize,         \* sizeof(FileHeader)
  BlockSize,          \* kBlockSize
  InitialRecordsSize, \* kInitialSnapshotRecordsSize
  InitialFileSize,    \* kInitialFileSize
  MaxFileSize,        \* kMaxFileSize
  FrameSizes,         \* sizes a frame record may have
  ObjectSizes,        \* sizes an object in the heap may have
  TrailerSizes,       \* sizes of what finalize() appends after the heap
  ObjectIds           \* Python object ids (addresses)

\* One cell holds the fixed header of a snapshot or of a stacktrace, or one
\* ObjectMapRecord.
SnapHeader == 1
StackHeader == 1
MapRecord == 1

AlignToBlock(offset) == offset + ((BlockSize - (offset % BlockSize)) % BlockSize)

RecordsStart == AlignToBlock(HeaderSize)
InitialHeapStart == AlignToBlock(RecordsStart + InitialRecordsSize)

ASSUME SizesAssumption ==
  /\ HeaderSize \in Nat \ {0}
  /\ BlockSize \in Nat \ {0}
  /\ InitialRecordsSize \in Nat \ {0}
  /\ InitialFileSize \in Nat
  /\ MaxFileSize \in Nat
  /\ InitialHeapStart <= InitialFileSize
  /\ InitialFileSize <= MaxFileSize

ASSUME DataAssumption ==
  /\ FrameSizes \subseteq Nat \ {0}
  /\ ObjectSizes \subseteq Nat \ {0}
  /\ TrailerSizes \subseteq Nat
  /\ IsFiniteSet(ObjectIds)

VARIABLES
  initialized,      \* initialized_
  fileSize,         \* currentFileSize_: the bytes that are mapped
  file,             \* the mapping, cell by cell
  header,           \* the FileHeader at the start of the mapping
  writeOffset,      \* writeOffset_
  heapStart,        \* objectHeapStart_
  heapOffset,       \* objectHeapOffset_, relative to heapStart
  lastSnapshotPos,  \* lastSnapshotPos_
  snapshotCount,    \* snapshotCount_
  inProgress,       \* snapshotInProgress_ of the writer
  snapshotPos,      \* currentSnapshotPos_
  stacktraceCount,  \* currentStacktraceCount_
  stacktraceOpen,   \* stacktraceInProgress_
  stacktracePos,    \* currentStacktracePos_
  frameCount,       \* currentFrameCount_
  objectMap,        \* objectIdToOffset_
  phase,            \* the point the running capture has reached
  stale,            \* finalize() ran since that capture began
  savedOffset,      \* savedWriteOffset, a local of the frame being captured
  committed,        \* history: the snapshots ended in this file, in order
  objects,          \* history: the objects written to this file's heap
  output            \* the file finalize() wrote, if it wrote one

layoutVars == <<fileSize, file, header, writeOffset, heapStart, heapOffset>>
recordVars == <<lastSnapshotPos, snapshotCount, inProgress, snapshotPos,
                stacktraceCount, stacktraceOpen, stacktracePos, frameCount>>
captureVars == <<phase, stale, savedOffset>>
vars == <<initialized, layoutVars, recordVars, objectMap, captureVars,
          committed, objects, output>>

(***************************************************************************)
(* Cells.  A record's cells carry what its reader would find there: the    *)
(* header of a snapshot its stacktrace count (n) and previous position     *)
(* (m), the header of a stacktrace its frame count, the first cell of a    *)
(* frame only its kind; an object's cells its number (n) and the index of  *)
(* the cell within it (m).                                                 *)
(***************************************************************************)
Kinds == {"free", "snap", "stack", "frame", "cont", "map", "obj", "tail"}
CellOf(kind, n, m) == [kind |-> kind, n |-> n, m |-> m]
FreeCell == CellOf("free", 0, 0)

\* The cells of one record, or of one object.
SnapCells(prev) == [k \in 0..(SnapHeader - 1) |-> CellOf("snap", 0, prev)]
StackCells == [k \in 0..(StackHeader - 1) |-> CellOf("stack", 0, 0)]
FrameCells(size) == [k \in 0..(size - 1) |-> CellOf(IF k = 0 THEN "frame" ELSE "cont", 0, 0)]
MapCells(size) == [k \in 0..(size - 1) |-> CellOf("map", 0, k)]
ObjectCells(number, size) == [k \in 0..(size - 1) |-> CellOf("obj", number, k)]
TailCells(size) == [k \in 0..(size - 1) |-> CellOf("tail", 0, k)]

\* memcpy of `size` cells to position pos.
Put(f, pos, size, cells) ==
  [p \in DOMAIN f |-> IF pos <= p /\ p < pos + size THEN cells[p - pos] ELSE f[p]]

\* Faulty: the heap is not moved with its start.
MoveNothing(f, from, to, size) == f

\* memmove of `size` cells from one position to another.
Move(f, from, to, size) ==
  [p \in DOMAIN f |-> IF to <= p /\ p < to + size THEN f[from + (p - to)] ELSE f[p]]

NoOutput == [written |-> FALSE]
EmptyHeader == [last |-> 0, count |-> 0, heapPos |-> 0]
Positions == 0..(MaxFileSize - 1)
EmptyFile == [p \in Positions |-> FreeCell]

\* kNoneOffset and its like stand for singletons that have no heap record.
MagicOffset == MaxFileSize
Unmapped == MaxFileSize + 1
Offsets == 0..Unmapped
EmptyMap == [id \in ObjectIds |-> Unmapped]
Mapped(map) == {id \in ObjectIds : map[id] # Unmapped}

(***************************************************************************)
(* Space.                                                                  *)
(***************************************************************************)

\* What a loop that doubles size until it reaches need ends with.
Doubled(size, need) ==
  {s \in size..(size + 2 * need) :
     \E k \in 0..need : /\ s = size * 2^k
                        /\ s >= need
                        /\ k > 0 => size * 2^(k - 1) < need}

\* extendToFitUnlocked.  It fails when the file would pass kMaxFileSize, or
\* when ftruncate or mremap does: see SpaceRunsOut.
ExtendToFit(required) ==
  \/ required <= fileSize /\ fileSize' = fileSize
  \/ /\ required > fileSize
     /\ required <= MaxFileSize
     /\ \E s \in Doubled(fileSize, required) :
          fileSize' = IF s > MaxFileSize THEN MaxFileSize ELSE s

HeaderNow == [last |-> lastSnapshotPos, count |-> snapshotCount, heapPos |-> heapStart]

\* Faulty: the size of the heap is left out of what the file must hold.
EnsureRecordSpaceOnly(n) ==
  IF writeOffset + n <= heapStart
    THEN UNCHANGED <<heapStart, fileSize>>
    ELSE /\ \E s \in Doubled(heapStart - RecordsStart, writeOffset + n - RecordsStart) :
              heapStart' = AlignToBlock(RecordsStart + s)
         /\ ExtendToFit(heapStart')

\* ensureSnapshotRecordSpaceUnlocked: room for n more bytes of records.  The
\* region is doubled, the heap moves, and updateHeader() tells the readers.
EnsureRecordSpace(n) ==
  IF writeOffset + n <= heapStart
    THEN UNCHANGED <<heapStart, fileSize>>
    ELSE /\ \E s \in Doubled(heapStart - RecordsStart, writeOffset + n - RecordsStart) :
              heapStart' = AlignToBlock(RecordsStart + s)
         /\ ExtendToFit(heapStart' + heapOffset)

\* The mapping after EnsureRecordSpace, and the header readers see in it.
Relocated == Move(file, heapStart, heapStart', heapOffset)
RelocatedHeader ==
  IF heapStart' = heapStart THEN header ELSE [HeaderNow EXCEPT !.heapPos = heapStart']

\* A record of n cells appended at writeOffset.
AppendRecord(n, cells) ==
  /\ EnsureRecordSpace(n)
  /\ file' = Put(Relocated, writeOffset, n, cells)
  /\ header' = RelocatedHeader
  /\ writeOffset' = writeOffset + n
  /\ UNCHANGED heapOffset

\* An object of n cells appended to the heap: ensureHeapSpaceUnlocked, then
\* writeObjectHeaderUnlocked and the writes of its contents.
AppendObject(n) ==
  /\ ExtendToFit(heapStart + heapOffset + n)
  /\ file' = Put(file, heapStart + heapOffset, n, ObjectCells(Len(objects) + 1, n))
  /\ heapOffset' = heapOffset + n
  /\ objects' = Append(objects, [off |-> heapOffset, size |-> n])
  /\ UNCHANGED <<header, writeOffset, heapStart>>

(***************************************************************************)
(* initialize() and finalize().                                            *)
(***************************************************************************)
Init ==
  /\ initialized = FALSE
  /\ fileSize = 0 /\ file = EmptyFile /\ header = EmptyHeader
  /\ writeOffset = 0 /\ heapStart = 0 /\ heapOffset = 0
  /\ lastSnapshotPos = 0 /\ snapshotCount = 0
  /\ inProgress = FALSE /\ snapshotPos = 0 /\ stacktraceCount = 0
  /\ stacktraceOpen = FALSE /\ stacktracePos = 0 /\ frameCount = 0
  /\ objectMap = EmptyMap
  /\ phase = "idle" /\ stale = FALSE /\ savedOffset = 0
  /\ committed = <<>> /\ objects = <<>>
  /\ output = NoOutput

\* The history of the last file ends here; the record state that finalize()
\* does not reset is still there.
Initialize ==
  /\ ~initialized
  /\ initialized' = TRUE
  /\ fileSize' = InitialFileSize
  /\ file' = EmptyFile
  /\ header' = EmptyHeader
  /\ writeOffset' = RecordsStart
  /\ heapStart' = InitialHeapStart
  /\ heapOffset' = 0
  /\ lastSnapshotPos' = 0
  /\ snapshotCount' = 0
  /\ output' = NoOutput
  /\ UNCHANGED <<inProgress, snapshotPos, stacktraceCount, stacktraceOpen,
                 stacktracePos, frameCount, objectMap, captureVars, committed, objects>>

\* Faulty: the header is copied as it stands in the mapping.
UnadjustedHeader(gap) == [last |-> lastSnapshotPos, count |-> header.count, heapPos |-> heapStart]

\* The copy of the header that goes into the output.
AdjustedHeader(gap) ==
  [last |-> lastSnapshotPos, count |-> header.count, heapPos |-> heapStart - gap]

\* writeOutputFileUnlocked: the gap between the records and the heap is left
\* out, and the positions behind it move down by its size.
CompactOutput(f, total) ==
  LET gap == IF writeOffset < heapStart THEN heapStart - writeOffset ELSE 0
  IN  [written |-> TRUE,
       cells |-> [p \in 0..(total - gap - 1) |->
                    IF gap > 0 /\ p >= writeOffset THEN f[p + gap] ELSE f[p]],
       header |-> AdjustedHeader(gap),
       tailPos |-> heapStart + heapOffset - gap]

\* Faulty: off by one.
RecordsReachEnd(total) == writeOffset >= total

\* The defensive check before the copies.
RecordsBehindData(total) == writeOffset > total

\* Faulty: the objects of one snapshot are still known to the next.
KeepObjects == UNCHANGED objectMap

\* objectIdToOffset_.clear()
ForgetObjects == objectMap' = EmptyMap

\* cleanupUnlocked.  It leaves the count, the position and the in-progress
\* flag of the stacktrace as they are.
Cleanup ==
  /\ initialized' = FALSE
  /\ fileSize' = 0 /\ file' = EmptyFile /\ header' = EmptyHeader
  /\ writeOffset' = 0 /\ heapStart' = 0 /\ heapOffset' = 0
  /\ lastSnapshotPos' = 0
  /\ ForgetObjects
  /\ snapshotPos' = 0 /\ frameCount' = 0 /\ inProgress' = FALSE
  /\ committed' = <<>> /\ objects' = <<>>
  /\ stale' = (phase \notin {"idle", "leaked"})
  /\ UNCHANGED <<snapshotCount, stacktraceCount, stacktraceOpen, stacktracePos,
                 phase, savedOffset>>

\* finalize() without a path throws the file away.
FinalizeDiscard ==
  /\ initialized
  /\ Cleanup
  /\ output' = NoOutput

\* finalize(path): the file table and the trailing sections go behind the
\* heap, as far as they fit, then the output is written.  Nothing is written
\* when the records seem to end behind the data, and nothing that can be read
\* when the file cannot be opened, sized or mapped or the compression fails;
\* the working file is thrown away all the same, and nobody is told.
Finalize ==
  /\ initialized
  /\ \E n \in TrailerSizes \cup {0}, writes \in BOOLEAN :
       LET heapEnd == heapStart + heapOffset
           total == heapEnd + n
           f == Put(file, heapEnd, n, TailCells(n))
       IN  /\ total <= MaxFileSize
           /\ output' = IF writes /\ ~RecordsBehindData(total)
                          THEN CompactOutput(f, total)
                          ELSE NoOutput
  /\ Cleanup

(***************************************************************************)
(* A capture.                                                              *)
(***************************************************************************)

\* beginSnapshot
BeginSnapshot ==
  /\ phase = "idle"
  /\ initialized /\ ~inProgress
  /\ AppendRecord(SnapHeader, SnapCells(lastSnapshotPos))
  /\ inProgress' = TRUE
  /\ snapshotPos' = writeOffset
  /\ stacktraceCount' = 0 /\ frameCount' = 0 /\ stacktraceOpen' = FALSE
  /\ phase' = "snapshot"
  /\ UNCHANGED <<initialized, lastSnapshotPos, snapshotCount, stacktracePos, objectMap,
                 stale, savedOffset, committed, objects, output>>

\* beginStacktrace
BeginStacktrace ==
  /\ phase = "snapshot"
  /\ initialized /\ inProgress /\ ~stacktraceOpen
  /\ AppendRecord(StackHeader, StackCells)
  /\ stacktracePos' = writeOffset
  /\ frameCount' = 0
  /\ stacktraceOpen' = TRUE
  /\ phase' = "stack"
  /\ UNCHANGED <<initialized, lastSnapshotPos, snapshotCount, inProgress, snapshotPos,
                 stacktraceCount, objectMap, stale, savedOffset, committed, objects, output>>

\* getWriteOffset, then writeFrameRecord
WriteFrameRecord ==
  /\ phase = "stack"
  /\ initialized /\ inProgress /\ stacktraceOpen
  /\ savedOffset' = writeOffset
  /\ \E n \in FrameSizes : AppendRecord(n, FrameCells(n))
  /\ frameCount' = frameCount + 1
  /\ phase' = "frame"
  /\ UNCHANGED <<initialized, lastSnapshotPos, snapshotCount, inProgress, snapshotPos,
                 stacktraceCount, stacktraceOpen, stacktracePos, objectMap, stale,
                 committed, objects, output>>

\* A write of a new object and registerObject.  Objects are written while a
\* frame is captured, and for an exception before its stacktrace begins.
WriteObject(id) ==
  /\ phase \in {"snapshot", "frame"}
  /\ initialized
  /\ id \notin Mapped(objectMap)
  /\ \E n \in ObjectSizes : AppendObject(n)
  /\ objectMap' = [objectMap EXCEPT ![id] = heapOffset]
  /\ UNCHANGED <<initialized, recordVars, captureVars, committed, output>>

\* registerObject of a singleton, or of an object an earlier snapshot wrote.
\* It takes no lock and checks nothing.
RegisterObject(id) ==
  /\ phase \in {"snapshot", "frame"}
  /\ id \notin Mapped(objectMap)
  /\ \E off \in {objects[k].off : k \in DOMAIN objects} \cup {MagicOffset} :
       objectMap' = [objectMap EXCEPT ![id] = off]
  /\ UNCHANGED <<initialized, layoutVars, recordVars, captureVars, committed, objects, output>>

\* processFrameObjects returns true: the frame stays.
FrameDone ==
  /\ phase = "frame"
  /\ phase' = "stack" /\ savedOffset' = 0
  /\ UNCHANGED <<initialized, layoutVars, recordVars, objectMap, stale,
                 committed, objects, output>>

\* Faulty: nothing is rolled back; and the position is read after its reset.
StayPut(pos) == UNCHANGED writeOffset
RollBackAfterReset(pos) == writeOffset' = 0

RollBackTo(pos) == writeOffset' = pos

\* Faulty: the frame stays counted; and the counter, unsigned, wraps below 0.
KeepFrame == frameCount' = frameCount
DropFrameUnchecked == frameCount' = frameCount - 1

DropFrame == frameCount' = IF frameCount > 0 THEN frameCount - 1 ELSE frameCount

\* A cancelled frame is taken back; no further frame is captured.  The writer
\* does not ask whether a stacktrace, or a file, is still there.
RollbackWriteOffset ==
  /\ phase = "frame"
  /\ RollBackTo(savedOffset)
  /\ DropFrame
  /\ phase' = "closing" /\ savedOffset' = 0
  /\ UNCHANGED <<initialized, fileSize, file, header, heapStart, heapOffset,
                 lastSnapshotPos, snapshotCount, inProgress, snapshotPos, stacktraceCount,
                 stacktraceOpen, stacktracePos, objectMap, stale,
                 committed, objects, output>>

AfterStacktrace == phase' = IF phase = "closing" THEN "done" ELSE "snapshot"

\* endStacktrace: the frame count goes into the header written earlier.
CloseStacktrace ==
  /\ initialized /\ inProgress /\ stacktraceOpen
  /\ file' = [file EXCEPT ![stacktracePos].n = frameCount]
  /\ stacktraceCount' = stacktraceCount + 1
  /\ stacktracePos' = 0 /\ frameCount' = 0 /\ stacktraceOpen' = FALSE
  /\ UNCHANGED <<initialized, fileSize, header, writeOffset, heapStart, heapOffset,
                 lastSnapshotPos, snapshotCount, inProgress, snapshotPos, objectMap,
                 stale, savedOffset, committed, objects, output>>

EndStacktrace ==
  /\ phase \in {"stack", "closing"}
  /\ frameCount > 0
  /\ CloseStacktrace
  /\ AfterStacktrace

\* take_snapshot() of something that is not a traceback: the stacktrace, begun
\* before the check, is ended without a frame, and so is the snapshot.
EndEmptyStacktrace ==
  /\ phase = "stack"
  /\ stacktraceCount = 0 /\ frameCount = 0
  /\ CloseStacktrace
  /\ phase' = "done"

\* discardCurrentStacktrace
DiscardCurrentStacktrace ==
  /\ phase \in {"stack", "closing"}
  /\ frameCount = 0
  /\ IF stacktraceOpen
       THEN /\ RollBackTo(stacktracePos)
            /\ stacktracePos' = 0 /\ frameCount' = 0 /\ stacktraceOpen' = FALSE
       ELSE UNCHANGED <<writeOffset, stacktracePos, frameCount, stacktraceOpen>>
  /\ AfterStacktrace
  /\ UNCHANGED <<initialized, fileSize, file, header, heapStart, heapOffset,
                 lastSnapshotPos, snapshotCount, inProgress, snapshotPos,
                 stacktraceCount, objectMap, stale, savedOffset, committed, objects, output>>

\* Faulty: the file header is brought up to date before lastSnapshotPos_ is.
HeaderBeforeEnd == [HeaderNow EXCEPT !.heapPos = heapStart']

\* What updateHeader() writes at the end of a snapshot.
HeaderAtEnd == [last |-> snapshotPos, count |-> snapshotCount + 1, heapPos |-> heapStart']

\* endSnapshot: the object map follows the stacktraces, the snapshot's header
\* is completed, and the file header leads to it.
EndSnapshot ==
  /\ phase \in {"snapshot", "done"}
  /\ stacktraceCount > 0
  /\ initialized /\ inProgress /\ ~stacktraceOpen
  /\ LET n == MapRecord * Cardinality(Mapped(objectMap))
     IN  /\ EnsureRecordSpace(n)
         /\ file' = [Put(Relocated, writeOffset, n, MapCells(n))
                       EXCEPT ![snapshotPos].n = stacktraceCount]
         /\ writeOffset' = writeOffset + n
  /\ header' = HeaderAtEnd
  /\ lastSnapshotPos' = snapshotPos
  /\ snapshotCount' = snapshotCount + 1
  /\ committed' = Append(committed, [pos |-> snapshotPos, end |-> writeOffset', map |-> objectMap])
  /\ snapshotPos' = 0 /\ stacktraceCount' = 0 /\ frameCount' = 0
  /\ stacktraceOpen' = FALSE /\ inProgress' = FALSE
  /\ ForgetObjects
  /\ phase' = "idle" /\ stale' = FALSE
  /\ UNCHANGED <<initialized, heapOffset, stacktracePos, savedOffset, objects, output>>

\* discardCurrentSnapshot; what the heap got stays there for later snapshots.
DiscardEffect ==
  IF inProgress
    THEN /\ RollBackTo(snapshotPos)
         /\ snapshotPos' = 0 /\ stacktraceCount' = 0 /\ frameCount' = 0
         /\ stacktraceOpen' = FALSE /\ inProgress' = FALSE
         /\ ForgetObjects
    ELSE UNCHANGED <<writeOffset, snapshotPos, stacktraceCount, frameCount,
                     stacktraceOpen, inProgress, objectMap>>

DiscardCurrentSnapshot ==
  /\ phase \in {"snapshot", "done"}
  /\ stacktraceCount = 0
  /\ DiscardEffect
  /\ phase' = "idle" /\ stale' = FALSE
  /\ UNCHANGED <<initialized, fileSize, file, header, heapStart, heapOffset, lastSnapshotPos,
                 snapshotCount, stacktracePos, savedOffset, committed, objects, output>>

(***************************************************************************)
(* Failures.  A method throws when the file cannot grow, or when it finds  *)
(* no file or no snapshot any more; it has changed nothing by then.        *)
(***************************************************************************)
RecordSpaceRunsOut(n) ==
  /\ writeOffset + n > heapStart
  /\ \E s \in Doubled(heapStart - RecordsStart, writeOffset + n - RecordsStart) :
       AlignToBlock(RecordsStart + s) + heapOffset > fileSize

HeapSpaceRunsOut(n) == heapStart + heapOffset + n > fileSize

NextRecordSizes ==
  CASE phase = "idle"     -> {SnapHeader}
    [] phase = "snapshot" -> {StackHeader, MapRecord * Cardinality(Mapped(objectMap))}
    [] phase = "stack"    -> FrameSizes
    [] phase = "done"     -> {MapRecord * Cardinality(Mapped(objectMap))}
    [] OTHER              -> {}

\* snapshotAllThreads and takeSnapshotFromFrame catch the exception.  Out of
\* takeSnapshot and takeSnapshotFromException it escapes: the claim on
\* snapshotInProgress_ is never given back, and nothing is captured any more.
Throws ==
  /\ \/ initialized /\ (phase = "idle" \/ inProgress)
        /\ \E n \in NextRecordSizes : RecordSpaceRunsOut(n)
     \/ initialized /\ phase \in {"snapshot", "frame"}
        /\ \E n \in ObjectSizes : HeapSpaceRunsOut(n)
     \/ stale /\ phase \in {"snapshot", "stack"}
     \/ stale /\ phase = "done" /\ stacktraceCount > 0
     \/ stale /\ phase = "frame" /\ ~initialized
  /\ phase' \in {"throwing", "leaked"} /\ savedOffset' = 0
  /\ UNCHANGED <<initialized, layoutVars, recordVars, objectMap, stale,
                 committed, objects, output>>

\* The handler discards the snapshot, if the writer is still initialized.
Catch ==
  /\ phase = "throwing"
  /\ IF initialized
       THEN DiscardEffect
       ELSE UNCHANGED <<writeOffset, snapshotPos, stacktraceCount, frameCount,
                        stacktraceOpen, inProgress, objectMap>>
  /\ phase' = "idle" /\ stale' = FALSE
  /\ UNCHANGED <<initialized, fileSize, file, header, heapStart, heapOffset, lastSnapshotPos,
                 snapshotCount, stacktracePos, savedOffset, committed, objects, output>>

Next ==
  \/ Initialize
  \/ FinalizeDiscard
  \/ Finalize
  \/ BeginSnapshot
  \/ BeginStacktrace
  \/ WriteFrameRecord
  \/ \E id \in ObjectIds : WriteObject(id)
  \/ \E id \in ObjectIds : RegisterObject(id)
  \/ FrameDone
  \/ RollbackWriteOffset
  \/ EndStacktrace
  \/ EndEmptyStacktrace
  \/ DiscardCurrentStacktrace
  \/ EndSnapshot
  \/ DiscardCurrentSnapshot
  \/ Throws
  \/ Catch

Spec == Init /\ [][Next]_vars

(***************************************************************************)
(* Properties.                                                             *)
(***************************************************************************)
Cells == [kind : Kinds, n : Nat, m : Nat]
Mapping == [Positions -> Cells]
ObjectMaps == [ObjectIds -> Offsets]
Snapshots == [pos : Nat, end : Nat, map : ObjectMaps]
HeapObjects == [off : Nat, size : Nat]
Phases == {"idle", "snapshot", "stack", "frame", "closing", "done", "throwing", "leaked"}

LayoutTypes ==
  /\ fileSize \in 0..MaxFileSize
  /\ file \in Mapping
  /\ header \in [last : Nat, count : Nat, heapPos : Nat]
  /\ writeOffset \in Nat /\ heapStart \in Nat /\ heapOffset \in Nat

RecordTypes ==
  /\ lastSnapshotPos \in Nat /\ snapshotCount \in Nat
  /\ snapshotPos \in Nat /\ stacktraceCount \in Nat
  /\ stacktracePos \in Nat /\ frameCount \in Nat
  /\ savedOffset \in Nat

FlagTypes ==
  /\ initialized \in BOOLEAN /\ inProgress \in BOOLEAN
  /\ stacktraceOpen \in BOOLEAN /\ stale \in BOOLEAN

CaptureTypes ==
  /\ objectMap \in ObjectMaps
  /\ phase \in Phases

HistoryTypes ==
  /\ committed \in Seq(Snapshots)
  /\ objects \in Seq(HeapObjects)
  /\ output.written \in BOOLEAN

\* The types of the writer's fields and of the capture's locals; the unsigned
\* frame counter never wraps.
TypeOK == LayoutTypes /\ RecordTypes /\ FlagTypes /\ CaptureTypes /\ HistoryTypes

\* No write of a record or of an object can leave the mapping, and a running
\* capture's records stay below the heap, wherever relocation put it.
LayoutOK ==
  initialized =>
    /\ RecordsStart <= writeOffset
    /\ heapStart + heapOffset <= fileSize
    /\ (inProgress => snapshotPos + SnapHeader <= writeOffset /\ writeOffset <= heapStart)

\* What a reader that walks the region from..to by the counts in the headers
\* finds: as many stacktraces as the snapshot says, each with as many frames
\* as it says.
StacksIn(from, to) == {p \in from..(to - 1) : file[p].kind = "stack"}
FramesOf(p, to) ==
  {q \in (p + 1)..(to - 1) :
     file[q].kind = "frame" /\ \A r \in (p + 1)..q : file[r].kind \in {"frame", "cont"}}
CountsAgree(from, to) == \A p \in StacksIn(from, to) : file[p].n = Cardinality(FramesOf(p, to))

\* Every committed snapshot can be parsed by its counts, whatever was rolled
\* back, discarded or relocated while it was captured and since.
CommittedParses ==
  \A i \in DOMAIN committed :
    LET s == committed[i]
    IN  /\ file[s.pos].kind = "snap"
        /\ file[s.pos].n = Cardinality(StacksIn(s.pos, s.end))
        /\ CountsAgree(s.pos, s.end)
        /\ Cardinality({p \in s.pos..(s.end - 1) : file[p].kind = "map"})
             = Cardinality(Mapped(s.map))

\* The chain of prevSnapshotPos from the file header leads through exactly
\* the committed snapshots, newest first, and the header counts them.
ChainOK ==
  initialized =>
    /\ header.count = Len(committed)
    /\ header.last = IF committed = <<>> THEN 0 ELSE committed[Len(committed)].pos
    /\ \A i \in DOMAIN committed :
         file[committed[i].pos].m = IF i = 1 THEN 0 ELSE committed[i - 1].pos

\* A reader that shares the mapping finds every object through the heap
\* position in the file header and the offset in the object map, also between
\* a relocation of the heap and the end of the snapshot that caused it.
HeapReadable ==
  committed # <<>> =>
    \A k \in DOMAIN objects : \A j \in 0..(objects[k].size - 1) :
      file[header.heapPos + objects[k].off + j] = CellOf("obj", k, j)

\* The object map of a committed snapshot leads to the start of an object or
\* to a singleton, never into a discarded or an earlier file.
MapsResolve ==
  \A i \in DOMAIN committed : \A id \in Mapped(committed[i].map) :
    committed[i].map[id] \in {objects[k].off : k \in DOMAIN objects} \cup {MagicOffset}

\* What a client reads of committed snapshots, before and after any relocation,
\* rollback or new file: the values in their maps are objects, and objects are
\* where they are expected.
ObjectsReadable == HeapReadable /\ MapsResolve

\* A capture that failed, was cancelled or was discarded leaves no bytes
\* between two snapshots, nor behind the last one.
Contiguous ==
  /\ \A i \in DOMAIN committed : i > 1 => committed[i].pos = committed[i - 1].end
  /\ phase = "idle" /\ committed # <<>> => writeOffset = committed[Len(committed)].end

\* While its file lasts, a committed snapshot is never overwritten, moved or
\* taken back.
CommittedFrozen ==
  [][initialized' =>
       /\ Len(committed') >= Len(committed)
       /\ \A i \in DOMAIN committed :
            /\ committed'[i] = committed[i]
            /\ \A p \in committed[i].pos..(committed[i].end - 1) : file'[p] = file[p]
    ]_vars

CellAt(cells, p) == IF p \in DOMAIN cells THEN cells[p] ELSE FreeCell

\* The file finalize() writes holds every committed snapshot where it was and
\* every object behind the heap position its header gives, without the gap.
OutputFaithful ==
  output'.written /\ ~output.written =>
    /\ output'.header.last = lastSnapshotPos
    /\ output'.header.count = Len(committed)
    /\ \A i \in DOMAIN committed :
         \A p \in committed[i].pos..(committed[i].end - 1) : CellAt(output'.cells, p) = file[p]
    /\ \A k \in DOMAIN objects : \A j \in 0..(objects[k].size - 1) :
         CellAt(output'.cells, output'.header.heapPos + objects[k].off + j) = CellOf("obj", k, j)

\* The check that guards the copies never finds the records of a committed
\* snapshot behind the data, whatever is appended to the heap: it is not what
\* keeps an output from being written.
GuardHarmless ==
  initialized /\ committed # <<>> =>
    \A n \in TrailerSizes \cup {0} : ~RecordsBehindData(heapStart + heapOffset + n)

\* An output file that can be written is written, with all that was committed.
OutputComplete == [][OutputFaithful /\ GuardHarmless]_vars

\* finalize() returns without an exception.  Then what was committed is in an
\* output file.
CommittedReachOutput ==
  [][Finalize /\ committed # <<>> => output'.written]_vars

\* SnapshotStats.h counts a snapshot that has no frames as discarded.  No
\* stacktrace of a committed snapshot is without frames.
NoEmptyStacktrace ==
  \A i \in DOMAIN committed :
    \A p \in StacksIn(committed[i].pos, committed[i].end) : file[p].n > 0

=============================================================================
