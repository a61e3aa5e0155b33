------------------------ MODULE SnapshotWriter_proof ------------------------
(***************************************************************************)
(* Proofs about SnapshotWriter, for files, blocks, records and objects of  *)
(* every size.                                                             *)
(***************************************************************************)
EXTENDS SnapshotWriter, FiniteSetTheorems, TLAPS

USE DEF SnapHeader, StackHeader, MapRecord, TypeOK

(***************************************************************************)
(* The inductive invariant.                                                *)
(***************************************************************************)
Capturing == {"snapshot", "stack", "frame", "closing", "done"}

\* Where the records of the snapshots that have ended stop.
Frontier == IF inProgress THEN snapshotPos ELSE writeOffset

HeapInv ==
  /\ initialized => /\ RecordsStart <= writeOffset
                    /\ RecordsStart < heapStart
                    /\ heapStart + heapOffset <= fileSize
  /\ \A k \in DOMAIN objects : objects[k].off + objects[k].size <= heapOffset
  /\ ~initialized => committed = <<>> /\ objects = <<>> /\ ~inProgress

CaptureInv ==
  /\ phase = "idle" => ~inProgress /\ ~stale
  /\ inProgress => /\ ~stale
                   /\ RecordsStart <= snapshotPos
                   /\ snapshotPos + SnapHeader <= writeOffset
                   /\ writeOffset <= heapStart
  /\ inProgress /\ stacktraceOpen => /\ snapshotPos + SnapHeader <= stacktracePos
                                     /\ stacktracePos + StackHeader <= writeOffset
  /\ stacktraceOpen => RecordsStart <= stacktracePos
  /\ phase \in Capturing /\ ~stale => inProgress
  /\ phase \in {"stack", "frame", "closing"} /\ ~stale => stacktraceOpen
  /\ phase \in {"snapshot", "done"} /\ ~stale => ~stacktraceOpen
  /\ phase = "frame" => RecordsStart <= savedOffset
  /\ phase = "frame" /\ ~stale => /\ stacktracePos + StackHeader <= savedOffset
                                  /\ savedOffset <= writeOffset

CommittedInv ==
  /\ stale => committed = <<>>
  /\ \A i \in DOMAIN committed : /\ RecordsStart <= committed[i].pos
                                 /\ committed[i].pos < committed[i].end
                                 /\ committed[i].end <= Frontier
                                 /\ committed[i].end <= heapStart
  /\ \A i \in DOMAIN committed : i > 1 => committed[i].pos = committed[i - 1].end
  /\ committed # <<>> => Frontier = committed[Len(committed)].end

IInv == TypeOK /\ HeapInv /\ CaptureInv /\ CommittedInv

(***************************************************************************)
(* Lemmas about the operators.                                             *)
(***************************************************************************)

\* Rounding up to a block never goes down.
LEMMA AlignUp ==
  ASSUME NEW x \in Nat
  PROVE  AlignToBlock(x) \in Nat /\ AlignToBlock(x) >= x
<1>1. BlockSize \in Nat \ {0}
  BY SizesAssumption
<1>2. x % BlockSize \in 0..(BlockSize - 1)
  BY <1>1
<1> DEFINE gap == BlockSize - (x % BlockSize)
<1>3. gap \in Nat
  BY <1>1, <1>2
<1>4. gap % BlockSize \in 0..(BlockSize - 1)
  BY <1>1, <1>3
<1>5. AlignToBlock(x) = x + (gap % BlockSize)
  BY DEF AlignToBlock
<1> HIDE DEF gap
<1> QED
  BY <1>1, <1>4, <1>5

\* The header block is not empty, and the heap begins behind it.
LEMMA Starts ==
  /\ RecordsStart \in Nat /\ RecordsStart > 0
  /\ InitialHeapStart \in Nat /\ InitialHeapStart > RecordsStart
<1>1. HeaderSize \in Nat /\ HeaderSize > 0 /\ InitialRecordsSize \in Nat /\ InitialRecordsSize > 0
  BY SizesAssumption
<1>2. RecordsStart \in Nat /\ RecordsStart >= HeaderSize
  BY <1>1, AlignUp DEF RecordsStart
<1>3. RecordsStart + InitialRecordsSize \in Nat
  BY <1>1, <1>2
<1>4. InitialHeapStart \in Nat /\ InitialHeapStart >= RecordsStart + InitialRecordsSize
  BY <1>3, AlignUp DEF InitialHeapStart
<1> QED
  BY <1>1, <1>2, <1>4

\* The doubling loops end with at least what they were asked for, and never
\* shrink what they began with.
LEMMA DoublingFits ==
  ASSUME NEW size \in Nat, NEW need \in Int, NEW s \in Doubled(size, need)
  PROVE  s \in Nat /\ s >= need /\ s >= size
BY DEF Doubled

\* What is in a sequence after an Append.
LEMMA Appending ==
  ASSUME NEW S, NEW s \in Seq(S), NEW x \in S
  PROVE  /\ Append(s, x) \in Seq(S)
         /\ Append(s, x) # <<>>
         /\ Len(Append(s, x)) = Len(s) + 1
         /\ Append(s, x)[Len(s) + 1] = x
         /\ \A k \in DOMAIN s : k \in DOMAIN Append(s, x) /\ Append(s, x)[k] = s[k]
         /\ \A k \in DOMAIN Append(s, x) : k \in DOMAIN s \/ k = Len(s) + 1
OBVIOUS

\* A write changes the cells it covers and no other.
LEMMA PutCells ==
  ASSUME NEW f \in Mapping, NEW pos \in Nat, NEW size \in Nat,
         NEW cells \in [0..(size - 1) -> Cells]
  PROVE  /\ Put(f, pos, size, cells) \in Mapping
         /\ \A p \in Positions : p < pos \/ p >= pos + size =>
              Put(f, pos, size, cells)[p] = f[p]
         /\ \A p \in Positions : pos <= p /\ p < pos + size =>
              Put(f, pos, size, cells)[p] = cells[p - pos]
<1>1. MaxFileSize \in Nat
  BY SizesAssumption
<1>2. \A p \in Positions : pos <= p /\ p < pos + size => cells[p - pos] \in Cells
  BY <1>1 DEF Positions
<1> QED
  BY <1>1, <1>2 DEF Put, Mapping, Positions

\* A move within the mapping brings every cell it covers to its new place.
LEMMA MoveCells ==
  ASSUME NEW f \in Mapping, NEW from \in Nat, NEW to \in Nat,
         NEW size \in Nat, from + size <= MaxFileSize, from <= to
  PROVE  /\ Move(f, from, to, size) \in Mapping
         /\ \A p \in Positions : p < to => Move(f, from, to, size)[p] = f[p]
         /\ \A k \in 0..(size - 1) : to + k < MaxFileSize =>
              Move(f, from, to, size)[to + k] = f[from + k]
<1>1. MaxFileSize \in Nat
  BY SizesAssumption
<1>2. \A p \in Positions : to <= p /\ p < to + size => f[from + (p - to)] \in Cells
  BY <1>1 DEF Mapping, Positions
<1>3. Move(f, from, to, size) \in Mapping
  BY <1>1, <1>2 DEF Move, Mapping, Positions
<1>4. \A k \in 0..(size - 1) : from + ((to + k) - to) = from + k
  OBVIOUS
<1> QED
  BY <1>1, <1>3, <1>4 DEF Move, Mapping, Positions

\* extendToFitUnlocked never shrinks the mapping nor passes the largest size.
LEMMA Extension ==
  ASSUME fileSize \in 0..MaxFileSize, NEW required \in Nat, ExtendToFit(required)
  PROVE  \E f \in 0..MaxFileSize : fileSize' = f /\ f >= fileSize /\ f >= required
<1>1. MaxFileSize \in Nat
  BY SizesAssumption
<1>2. CASE required <= fileSize /\ fileSize' = fileSize
  BY <1>1, <1>2
<1>3. CASE required > fileSize /\ required <= MaxFileSize
  <2>1. PICK s \in Doubled(fileSize, required) :
          fileSize' = IF s > MaxFileSize THEN MaxFileSize ELSE s
    BY <1>3 DEF ExtendToFit
  <2>2. s \in Nat /\ s >= required /\ s >= fileSize
    BY <2>1, DoublingFits
  <2> DEFINE f == IF s > MaxFileSize THEN MaxFileSize ELSE s
  <2>3. f \in 0..MaxFileSize /\ f >= fileSize /\ f >= required
    BY <1>1, <1>3, <2>2
  <2>4. fileSize' = f
    BY <2>1
  <2> HIDE DEF f
  <2> QED
    BY <2>3, <2>4
<1> QED
  BY <1>2, <1>3 DEF ExtendToFit

\* After ensureSnapshotRecordSpaceUnlocked the record fits below the heap, and
\* the heap fits into the mapping.
LEMMA RecordSpace ==
  ASSUME TypeOK, HeapInv, initialized, NEW n \in Nat, EnsureRecordSpace(n)
  PROVE  \E h \in Nat, f \in 0..MaxFileSize :
           /\ heapStart' = h /\ fileSize' = f
           /\ h >= heapStart
           /\ writeOffset + n <= h
           /\ h + heapOffset <= f
<1>1. MaxFileSize \in Nat
  BY SizesAssumption
<1>2. /\ writeOffset \in Nat /\ heapStart \in Nat /\ heapOffset \in Nat
      /\ fileSize \in 0..MaxFileSize
      /\ heapStart > RecordsStart /\ heapStart + heapOffset <= fileSize
  BY DEF LayoutTypes, HeapInv
<1>3. CASE writeOffset + n <= heapStart
  BY <1>1, <1>2, <1>3 DEF EnsureRecordSpace
<1>4. CASE ~(writeOffset + n <= heapStart)
  <2>1. PICK s \in Doubled(heapStart - RecordsStart, writeOffset + n - RecordsStart) :
          heapStart' = AlignToBlock(RecordsStart + s)
    BY <1>4 DEF EnsureRecordSpace
  <2>2. heapStart - RecordsStart \in Nat /\ writeOffset + n - RecordsStart \in Int
    BY <1>2, Starts
  <2>3. s \in Nat /\ s >= writeOffset + n - RecordsStart
    BY <2>1, <2>2, DoublingFits
  <2>4. RecordsStart + s \in Nat /\ RecordsStart + s >= writeOffset + n
    BY <1>2, <2>3, Starts
  <2> DEFINE h == AlignToBlock(RecordsStart + s)
  <2>5. heapStart' = h
    BY <2>1
  <2>6. h \in Nat /\ h >= writeOffset + n
    BY <1>2, <2>4, AlignUp
  <2> HIDE DEF h
  <2>7. h + heapOffset \in Nat
    BY <1>2, <2>6
  <2>8. ExtendToFit(h + heapOffset)
    BY <1>4, <2>5 DEF EnsureRecordSpace, ExtendToFit
  <2>9. PICK f \in 0..MaxFileSize : fileSize' = f /\ f >= h + heapOffset
    BY <1>2, <2>7, <2>8, Extension
  <2> QED
    BY <1>1, <1>2, <1>4, <2>5, <2>6, <2>9
<1> QED
  BY <1>3, <1>4

\* Appending a record leaves the cells below writeOffset alone, and moves the
\* heap, if it moves, with all it holds.
LEMMA AppendedRecord ==
  ASSUME TypeOK, HeapInv, initialized, NEW n \in Nat, NEW cells \in [0..(n - 1) -> Cells],
         NEW h \in Nat, heapStart' = h, h >= heapStart, writeOffset + n <= h,
         h + heapOffset <= MaxFileSize
  PROVE  /\ Put(Relocated, writeOffset, n, cells) \in Mapping
         /\ \A p \in Positions : p < writeOffset /\ p < heapStart =>
              Put(Relocated, writeOffset, n, cells)[p] = file[p]
         /\ \A k \in 0..(heapOffset - 1) :
              Put(Relocated, writeOffset, n, cells)[h + k] = file[heapStart + k]
<1>1. MaxFileSize \in Nat
  BY SizesAssumption
<1>2. /\ writeOffset \in Nat /\ heapStart \in Nat /\ heapOffset \in Nat
      /\ heapStart + heapOffset <= MaxFileSize /\ heapStart <= h
      /\ file \in Mapping
  BY <1>1 DEF LayoutTypes, HeapInv
<1> DEFINE moved == Move(file, heapStart, h, heapOffset)
<1>3. Relocated = moved
  BY DEF Relocated
<1>4. /\ moved \in Mapping
      /\ \A p \in Positions : p < h => moved[p] = file[p]
      /\ \A k \in 0..(heapOffset - 1) : h + k < MaxFileSize => moved[h + k] = file[heapStart + k]
  <2>1. moved \in Mapping
    BY <1>2, MoveCells
  <2>2. \A p \in Positions : p < h => moved[p] = file[p]
    BY <1>2, MoveCells
  <2>3. \A k \in 0..(heapOffset - 1) : h + k < MaxFileSize => moved[h + k] = file[heapStart + k]
    BY <1>2, MoveCells
  <2> QED
    BY <2>1, <2>2, <2>3
<1> HIDE DEF moved
<1> DEFINE f == Put(moved, writeOffset, n, cells)
<1>5. /\ f \in Mapping
      /\ \A p \in Positions : p < writeOffset \/ p >= writeOffset + n =>
           f[p] = moved[p]
  BY <1>1, <1>2, <1>4, PutCells
<1> HIDE DEF f
<1>6. \A p \in Positions : p < writeOffset /\ p < heapStart => f[p] = file[p]
  BY <1>1, <1>2, <1>4, <1>5 DEF Positions
<1>7. ASSUME NEW k \in 0..(heapOffset - 1)
      PROVE  f[h + k] = file[heapStart + k]
  <2>1. h + k \in Positions /\ h + k >= writeOffset + n /\ h + k < MaxFileSize
    BY <1>1, <1>2 DEF Positions
  <2>2. f[h + k] = moved[h + k]
    BY <1>2, <1>5, <2>1
  <2> QED
    BY <1>1, <1>4, <2>1, <2>2
<1>8. f = Put(Relocated, writeOffset, n, cells)
  BY <1>3 DEF f
<1> QED
  BY <1>5, <1>6, <1>7, <1>8

\* What initialize() and cleanupUnlocked() start from.
LEMMA Blank ==
  /\ EmptyFile \in Mapping
  /\ EmptyHeader \in [last : Nat, count : Nat, heapPos : Nat]
  /\ EmptyMap \in ObjectMaps
  /\ <<>> \in Seq(Snapshots)
  /\ <<>> \in Seq(HeapObjects)
<1>1. MaxFileSize \in Nat
  BY SizesAssumption
<1>2. EmptyFile \in Mapping
  BY DEF EmptyFile, Mapping, FreeCell, CellOf, Cells, Kinds
<1>3. EmptyHeader \in [last : Nat, count : Nat, heapPos : Nat]
  BY DEF EmptyHeader
<1>4. EmptyMap \in ObjectMaps
  BY <1>1 DEF EmptyMap, ObjectMaps, Offsets, Unmapped
<1>5. <<>> \in Seq(Snapshots) /\ <<>> \in Seq(HeapObjects)
  OBVIOUS
<1> QED
  BY <1>2, <1>3, <1>4, <1>5

\* The cells of a record are cells.
LEMMA RecordCells ==
  /\ \A prev \in Nat : SnapCells(prev) \in [0..(SnapHeader - 1) -> Cells]
  /\ StackCells \in [0..(StackHeader - 1) -> Cells]
  /\ \A n \in Nat : /\ FrameCells(n) \in [0..(n - 1) -> Cells]
                    /\ MapCells(n) \in [0..(n - 1) -> Cells]
                    /\ TailCells(n) \in [0..(n - 1) -> Cells]
  /\ \A number, n \in Nat : ObjectCells(number, n) \in [0..(n - 1) -> Cells]
BY DEF SnapCells, StackCells, FrameCells, MapCells, TailCells, ObjectCells, CellOf, Cells, Kinds

\* The state after a record of n cells has been appended.
Grown(h, f, n) ==
  /\ heapStart' = h /\ fileSize' = f
  /\ h >= heapStart
  /\ writeOffset + n <= h
  /\ h + heapOffset <= f
  /\ file' \in Mapping
  /\ header' \in [last : Nat, count : Nat, heapPos : Nat]
  /\ writeOffset' = writeOffset + n
  /\ heapOffset' = heapOffset

LEMMA Appended ==
  ASSUME TypeOK, HeapInv, initialized, NEW n \in Nat, NEW cells \in [0..(n - 1) -> Cells],
         AppendRecord(n, cells)
  PROVE  \E h \in Nat, f \in 0..MaxFileSize : Grown(h, f, n)
<1>1. MaxFileSize \in Nat
  BY SizesAssumption
<1>2. EnsureRecordSpace(n)
  BY DEF AppendRecord
<1>3. PICK h \in Nat, f \in 0..MaxFileSize :
           /\ heapStart' = h /\ fileSize' = f
           /\ h >= heapStart
           /\ writeOffset + n <= h
           /\ h + heapOffset <= f
  BY <1>2, RecordSpace
<1>4. h + heapOffset <= MaxFileSize
  BY <1>1, <1>3 DEF LayoutTypes
<1>5. file' \in Mapping
  BY <1>3, <1>4, AppendedRecord DEF AppendRecord
<1>6. header' \in [last : Nat, count : Nat, heapPos : Nat]
  BY <1>3 DEF AppendRecord, RelocatedHeader, HeaderNow, LayoutTypes, RecordTypes
<1>7. writeOffset' = writeOffset + n /\ heapOffset' = heapOffset
  BY DEF AppendRecord
<1> QED
  BY <1>3, <1>5, <1>6, <1>7 DEF Grown

(***************************************************************************)
(* Every action preserves the invariant.                                   *)
(***************************************************************************)
LEMMA InitInv == Init => IInv
<1> SUFFICES ASSUME Init
             PROVE  IInv
  OBVIOUS
<1>1. MaxFileSize \in Nat
  BY SizesAssumption
<1>5. FlagTypes
  BY DEF Init, FlagTypes
<1>2. LayoutTypes /\ RecordTypes
  BY <1>1, Blank DEF Init, LayoutTypes, RecordTypes
<1>3. CaptureTypes /\ HistoryTypes
  BY Blank DEF Init, CaptureTypes, HistoryTypes, Phases, NoOutput
<1>4. HeapInv /\ CaptureInv /\ CommittedInv
  BY DEF Init, HeapInv, CaptureInv, CommittedInv, Capturing
<1> QED
  BY <1>2, <1>3, <1>4, <1>5 DEF IInv

LEMMA InitializeStep ==
  ASSUME IInv, Initialize
  PROVE  IInv'
<1> USE DEF IInv, Initialize, captureVars
<1>1. MaxFileSize \in Nat /\ InitialFileSize \in 0..MaxFileSize /\ InitialHeapStart <= InitialFileSize
  BY SizesAssumption
<1>f. FlagTypes'
  BY DEF FlagTypes
<1>2. LayoutTypes' /\ RecordTypes'
  BY <1>1, Starts, Blank DEF LayoutTypes, RecordTypes
<1>3. CaptureTypes' /\ HistoryTypes'
  BY DEF CaptureTypes, HistoryTypes, NoOutput
<1>4. HeapInv'
  BY <1>1, Starts DEF HeapInv
<1>5. CaptureInv'
  BY DEF HeapInv, CaptureInv, Capturing
<1>6. CommittedInv'
  BY DEF HeapInv, CommittedInv
<1> QED
  BY <1>f, <1>2, <1>3, <1>4, <1>5, <1>6

LEMMA CleanupStep ==
  ASSUME IInv, Cleanup, (output.written \in BOOLEAN)'
  PROVE  IInv'
<1> USE DEF IInv, Cleanup, ForgetObjects
<1>1. MaxFileSize \in Nat
  BY SizesAssumption
<1>f. FlagTypes'
  BY DEF FlagTypes
<1>2. LayoutTypes' /\ RecordTypes'
  BY <1>1, Blank DEF LayoutTypes, RecordTypes
<1>3. CaptureTypes' /\ HistoryTypes'
  BY Blank DEF CaptureTypes, HistoryTypes
<1>4. HeapInv'
  BY DEF HeapInv
<1>5. CaptureInv'
  BY DEF CaptureInv, Capturing, CaptureTypes, Phases
<1>6. CommittedInv'
  BY DEF CommittedInv
<1> QED
  BY <1>f, <1>2, <1>3, <1>4, <1>5, <1>6

LEMMA BeginSnapshotStep ==
  ASSUME IInv, BeginSnapshot
  PROVE  IInv'
<1> USE DEF IInv, BeginSnapshot, Grown
<1>1. MaxFileSize \in Nat /\ RecordsStart \in Nat
  BY SizesAssumption, Starts
<1>2. PICK h \in Nat, f \in 0..MaxFileSize : Grown(h, f, SnapHeader)
  BY Appended, RecordCells DEF RecordTypes
<1>f. FlagTypes'
  BY DEF FlagTypes
<1>3. LayoutTypes' /\ RecordTypes'
  BY <1>1, <1>2 DEF LayoutTypes, RecordTypes
<1>4. CaptureTypes' /\ HistoryTypes'
  BY DEF CaptureTypes, HistoryTypes, Phases
<1>5. HeapInv'
  BY <1>1, <1>2 DEF LayoutTypes, HeapInv
<1>6. CaptureInv'
  BY <1>1, <1>2 DEF LayoutTypes, HeapInv, CaptureInv, Capturing
<1>7. CommittedInv'
  <2>1. \A i \in DOMAIN committed : committed[i] \in Snapshots
    BY DEF HistoryTypes
  <2> QED
    BY <1>1, <1>2, <2>1 DEF LayoutTypes, CaptureInv, CommittedInv, Frontier, Snapshots
<1> QED
  BY <1>f, <1>3, <1>4, <1>5, <1>6, <1>7

LEMMA BeginStacktraceStep ==
  ASSUME IInv, BeginStacktrace
  PROVE  IInv'
<1> USE DEF IInv, BeginStacktrace, Grown
<1>1. MaxFileSize \in Nat /\ RecordsStart \in Nat
  BY SizesAssumption, Starts
<1>2. PICK h \in Nat, f \in 0..MaxFileSize : Grown(h, f, StackHeader)
  BY Appended, RecordCells
<1>3. LayoutTypes' /\ RecordTypes'
  BY <1>1, <1>2 DEF LayoutTypes, RecordTypes
<1>4. FlagTypes'
  BY DEF FlagTypes
<1>5. CaptureTypes' /\ HistoryTypes'
  BY DEF CaptureTypes, HistoryTypes, Phases
<1>6. HeapInv'
  BY <1>1, <1>2 DEF LayoutTypes, HeapInv
<1>7. CaptureInv'
  BY <1>1, <1>2 DEF LayoutTypes, RecordTypes, HeapInv, CaptureInv, Capturing
<1>8. CommittedInv'
  <2>1. \A i \in DOMAIN committed : committed[i] \in Snapshots
    BY DEF HistoryTypes
  <2> QED
    BY <1>1, <1>2, <2>1 DEF LayoutTypes, CaptureInv, CommittedInv, Frontier, Snapshots
<1> QED
  BY <1>3, <1>4, <1>5, <1>6, <1>7, <1>8

LEMMA WriteFrameRecordStep ==
  ASSUME IInv, WriteFrameRecord
  PROVE  IInv'
<1> USE DEF IInv, WriteFrameRecord, Grown
<1>1. MaxFileSize \in Nat /\ RecordsStart \in Nat
  BY SizesAssumption, Starts
<1>2. PICK n \in FrameSizes : AppendRecord(n, FrameCells(n))
  OBVIOUS
<1>3. n \in Nat
  BY <1>2, DataAssumption
<1>4. PICK h \in Nat, f \in 0..MaxFileSize : Grown(h, f, n)
  BY <1>2, <1>3, Appended, RecordCells
<1>5. LayoutTypes' /\ RecordTypes'
  BY <1>1, <1>3, <1>4 DEF LayoutTypes, RecordTypes
<1>6. FlagTypes'
  BY DEF FlagTypes
<1>7. CaptureTypes' /\ HistoryTypes'
  BY DEF CaptureTypes, HistoryTypes, Phases
<1>8. HeapInv'
  BY <1>1, <1>3, <1>4 DEF LayoutTypes, HeapInv
<1>9. CaptureInv'
  BY <1>1, <1>3, <1>4 DEF LayoutTypes, RecordTypes, HeapInv, CaptureInv, Capturing
<1>10. CommittedInv'
  <2>1. \A i \in DOMAIN committed : committed[i] \in Snapshots
    BY DEF HistoryTypes
  <2>2. committed' = committed /\ stale' = stale /\ Frontier' = Frontier
    BY DEF Frontier
  <2> QED
    BY <1>4, <2>1, <2>2 DEF LayoutTypes, CommittedInv, Snapshots
<1> QED
  BY <1>5, <1>6, <1>7, <1>8, <1>9, <1>10

LEMMA WriteObjectStep ==
  ASSUME IInv, NEW id \in ObjectIds, WriteObject(id)
  PROVE  IInv'
<1> USE DEF IInv, WriteObject
<1>1. MaxFileSize \in Nat /\ RecordsStart \in Nat
  BY SizesAssumption, Starts
<1>2. PICK n \in ObjectSizes : AppendObject(n)
  OBVIOUS
<1>3. n \in Nat
  BY <1>2, DataAssumption
<1>4. heapStart + heapOffset + n \in Nat
  BY <1>3 DEF LayoutTypes
<1>5. PICK f \in 0..MaxFileSize : fileSize' = f /\ f >= fileSize /\ f >= heapStart + heapOffset + n
  BY <1>2, <1>4, Extension DEF AppendObject, LayoutTypes
<1>6. file' \in Mapping
  <2>1. heapStart + heapOffset \in Nat /\ Len(objects) + 1 \in Nat
    BY DEF LayoutTypes, HistoryTypes
  <2>2. ObjectCells(Len(objects) + 1, n) \in [0..(n - 1) -> Cells]
    BY <1>3, <2>1, RecordCells
  <2> QED
    BY <1>2, <1>3, <2>1, <2>2, PutCells DEF AppendObject, LayoutTypes
<1>7. heapOffset' = heapOffset + n
  BY <1>2 DEF AppendObject
<1>8. LayoutTypes' /\ RecordTypes'
  BY <1>1, <1>2, <1>3, <1>5, <1>6 DEF LayoutTypes, RecordTypes, AppendObject, recordVars, captureVars
<1>9. FlagTypes'
  BY DEF FlagTypes, recordVars, captureVars
<1>10. CaptureTypes'
  <2>1. heapOffset \in Offsets
    BY <1>1 DEF LayoutTypes, HeapInv, Offsets, Unmapped
  <2> QED
    BY <2>1 DEF CaptureTypes, captureVars, ObjectMaps
<1>11. HistoryTypes'
  <2>1. [off |-> heapOffset, size |-> n] \in HeapObjects
    BY <1>3 DEF LayoutTypes, HeapObjects
  <2> QED
    BY <1>2, <2>1, Appending DEF HistoryTypes, AppendObject
<1>12. HeapInv'
  <2>1. \A k \in DOMAIN objects : objects[k] \in HeapObjects
    BY DEF HistoryTypes
  <2>2. \A k \in DOMAIN objects' : objects'[k].off + objects'[k].size <= heapOffset + n
    <3> DEFINE x == [off |-> heapOffset, size |-> n]
    <3>1. /\ x \in HeapObjects /\ objects' = Append(objects, x)
          /\ x.off = heapOffset /\ x.size = n
      BY <1>2, <1>3 DEF LayoutTypes, AppendObject, HeapObjects
    <3> HIDE DEF x
    <3>2. \A k \in DOMAIN objects' : \/ k \in DOMAIN objects /\ objects'[k] = objects[k]
                                     \/ objects'[k] = x
      BY <3>1, Appending DEF HistoryTypes
    <3>3. heapOffset \in Nat /\ n \in Nat
      BY <1>3 DEF LayoutTypes
    <3>4. \A k \in DOMAIN objects : objects[k].off + objects[k].size <= heapOffset + n
      <4> SUFFICES ASSUME NEW k \in DOMAIN objects
                   PROVE  objects[k].off + objects[k].size <= heapOffset + n
        OBVIOUS
      <4>1. objects[k].off \in Nat /\ objects[k].size \in Nat
        BY <2>1 DEF HeapObjects
      <4>2. objects[k].off + objects[k].size <= heapOffset
        BY DEF HeapInv
      <4> QED
        BY <3>3, <4>1, <4>2
    <3>5. x.off + x.size <= heapOffset + n
      BY <3>1, <3>3
    <3> QED
      BY <3>2, <3>4, <3>5
  <2>3. initialized /\ UNCHANGED <<initialized, writeOffset, heapStart>>
    BY <1>2 DEF AppendObject
  <2>4. RecordsStart <= writeOffset /\ RecordsStart < heapStart
    BY <2>3 DEF HeapInv
  <2>5. heapStart' + heapOffset' <= fileSize'
    <3>1. heapStart \in Nat /\ heapOffset \in Nat
      BY DEF LayoutTypes
    <3> QED
      BY <1>3, <1>5, <1>7, <2>3, <3>1
  <2> QED
    BY <1>7, <2>2, <2>3, <2>4, <2>5 DEF HeapInv
<1>13. CaptureInv'
  BY <1>2 DEF CaptureInv, AppendObject, recordVars, captureVars
<1>14. CommittedInv'
  BY <1>2 DEF CommittedInv, Frontier, AppendObject, recordVars, captureVars
<1> QED
  BY <1>8, <1>9, <1>10, <1>11, <1>12, <1>13, <1>14

LEMMA RegisterObjectStep ==
  ASSUME IInv, NEW id \in ObjectIds, RegisterObject(id)
  PROVE  IInv'
<1> USE DEF IInv, RegisterObject, layoutVars, recordVars, captureVars
<1>1. MaxFileSize \in Nat
  BY SizesAssumption
<1>2. PICK off \in {objects[k].off : k \in DOMAIN objects} \cup {MagicOffset} :
        objectMap' = [objectMap EXCEPT ![id] = off]
  OBVIOUS
<1>3. \A k \in DOMAIN objects : objects[k] \in HeapObjects
  BY DEF HistoryTypes
<1>4. heapOffset <= MaxFileSize \/ objects = <<>>
  BY <1>1 DEF LayoutTypes, HeapInv
<1>5. off \in Offsets
  BY <1>1, <1>2, <1>3, <1>4 DEF LayoutTypes, HeapInv, Offsets, Unmapped, MagicOffset, HeapObjects
<1>6. CaptureTypes'
  BY <1>2, <1>5 DEF CaptureTypes, ObjectMaps
<1> QED
  BY <1>6 DEF LayoutTypes, RecordTypes, FlagTypes, HistoryTypes, HeapInv, CaptureInv, CommittedInv, Frontier

LEMMA FrameDoneStep ==
  ASSUME IInv, FrameDone
  PROVE  IInv'
<1> USE DEF IInv, FrameDone, layoutVars, recordVars
<1>1. CaptureTypes' /\ RecordTypes'
  BY DEF CaptureTypes, RecordTypes, Phases
<1>2. HeapInv'
  BY DEF HeapInv
<1>3. CaptureInv'
  BY DEF CaptureInv, Capturing
<1>4. CommittedInv'
  BY DEF CommittedInv, Frontier
<1> QED
  BY <1>1, <1>2, <1>3, <1>4 DEF LayoutTypes, FlagTypes, HistoryTypes

LEMMA RollbackWriteOffsetStep ==
  ASSUME IInv, RollbackWriteOffset
  PROVE  IInv'
<1> USE DEF IInv, RollbackWriteOffset, RollBackTo, DropFrame
<1>1. RecordsStart \in Nat
  BY Starts
<1>2. LayoutTypes' /\ RecordTypes'
  BY DEF LayoutTypes, RecordTypes
<1>3. FlagTypes' /\ HistoryTypes'
  BY DEF FlagTypes, HistoryTypes
<1>4. CaptureTypes'
  BY DEF CaptureTypes, Phases
<1>5. HeapInv'
  BY DEF HeapInv, CaptureInv
<1>6. CaptureInv'
  BY <1>1 DEF LayoutTypes, RecordTypes, CaptureInv, Capturing
<1>7. CommittedInv'
  BY DEF CaptureInv, CommittedInv, Frontier, Capturing
<1> QED
  BY <1>2, <1>3, <1>4, <1>5, <1>6, <1>7

\* Changing one field of the header of a snapshot or stacktrace in place.
LEMMA HeaderCell ==
  ASSUME NEW f \in Mapping, NEW pos \in Nat, NEW count \in Nat
  PROVE  [f EXCEPT ![pos].n = count] \in Mapping
BY DEF Mapping, Cells

LEMMA CloseStacktraceStep ==
  ASSUME IInv, CloseStacktrace,
         phase \in {"stack", "closing"}, phase' \in {"snapshot", "done"}
  PROVE  IInv'
<1> USE DEF IInv, CloseStacktrace
<1>1. LayoutTypes'
  BY HeaderCell DEF LayoutTypes, RecordTypes
<1>2. RecordTypes'
  BY DEF RecordTypes
<1>3. FlagTypes' /\ HistoryTypes'
  BY DEF FlagTypes, HistoryTypes
<1>4. CaptureTypes'
  BY DEF CaptureTypes, Phases
<1>5. HeapInv'
  BY DEF HeapInv
<1>6. CaptureInv'
  BY DEF CaptureInv, Capturing
<1>7. CommittedInv'
  BY DEF CommittedInv, Frontier
<1> QED
  BY <1>1, <1>2, <1>3, <1>4, <1>5, <1>6, <1>7

LEMMA DiscardCurrentStacktraceStep ==
  ASSUME IInv, DiscardCurrentStacktrace
  PROVE  IInv'
<1> USE DEF IInv, DiscardCurrentStacktrace, AfterStacktrace, RollBackTo
<1>1. RecordsStart \in Nat
  BY Starts
<1>2. LayoutTypes' /\ RecordTypes'
  BY DEF LayoutTypes, RecordTypes
<1>3. FlagTypes' /\ HistoryTypes'
  BY DEF FlagTypes, HistoryTypes
<1>4. CaptureTypes'
  BY DEF CaptureTypes, Phases
<1>5. HeapInv'
  BY DEF HeapInv, CaptureInv
<1>6. CaptureInv'
  BY <1>1 DEF LayoutTypes, RecordTypes, CaptureInv, Capturing
<1>7. CommittedInv'
  BY DEF CaptureInv, CommittedInv, Frontier, Capturing
<1> QED
  BY <1>2, <1>3, <1>4, <1>5, <1>6, <1>7

LEMMA DiscardStep ==
  ASSUME IInv, DiscardEffect, stale' = FALSE, phase' = "idle",
         UNCHANGED <<initialized, fileSize, file, header, heapStart, heapOffset, lastSnapshotPos,
                     snapshotCount, stacktracePos, savedOffset, committed, objects, output>>
  PROVE  IInv'
<1> USE DEF IInv, DiscardEffect, RollBackTo, ForgetObjects
<1>1. LayoutTypes' /\ RecordTypes'
  BY DEF LayoutTypes, RecordTypes
<1>2. FlagTypes' /\ HistoryTypes'
  BY DEF FlagTypes, HistoryTypes
<1>3. CaptureTypes'
  BY Blank DEF CaptureTypes, Phases
<1>4. HeapInv'
  BY DEF HeapInv, CaptureInv
<1>5. CaptureInv'
  BY DEF CaptureInv, Capturing
<1>6. CommittedInv'
  BY DEF CommittedInv, Frontier
<1> QED
  BY <1>1, <1>2, <1>3, <1>4, <1>5, <1>6

LEMMA EndSnapshotStep ==
  ASSUME IInv, EndSnapshot
  PROVE  IInv'
<1> USE DEF IInv
<1>1. MaxFileSize \in Nat /\ RecordsStart \in Nat
  BY SizesAssumption, Starts
<1> DEFINE n == MapRecord * Cardinality(Mapped(objectMap))
<1>2. n \in Nat
  <2>1. IsFiniteSet(Mapped(objectMap))
    BY DataAssumption, FS_Subset DEF Mapped
  <2> QED
    BY <2>1, FS_CardinalityType
<1>3. /\ initialized /\ EnsureRecordSpace(n)
      /\ file' = [Put(Relocated, writeOffset, n, MapCells(n)) EXCEPT ![snapshotPos].n = stacktraceCount]
      /\ writeOffset' = writeOffset + n
  BY DEF EndSnapshot
<1> HIDE DEF n
<1>4. PICK h \in Nat, f \in 0..MaxFileSize :
           /\ heapStart' = h /\ fileSize' = f
           /\ h >= heapStart
           /\ writeOffset + n <= h
           /\ h + heapOffset <= f
  BY <1>2, <1>3, RecordSpace
<1>5. h + heapOffset <= MaxFileSize
  BY <1>1, <1>4 DEF LayoutTypes
<1>6. Put(Relocated, writeOffset, n, MapCells(n)) \in Mapping
  BY <1>2, <1>3, <1>4, <1>5, AppendedRecord, RecordCells
<1>7. LayoutTypes'
  <2>1. file' \in Mapping
    BY <1>3, <1>6, HeaderCell DEF RecordTypes
  <2>2. header' \in [last : Nat, count : Nat, heapPos : Nat]
    BY <1>4 DEF HeaderAtEnd, RecordTypes, EndSnapshot
  <2>3. fileSize' \in 0..MaxFileSize /\ heapStart' \in Nat
    BY <1>4
  <2>4. writeOffset' \in Nat
    <3>1. writeOffset' = writeOffset + n /\ writeOffset \in Nat
      BY <1>3 DEF LayoutTypes
    <3> QED
      BY <1>2, <3>1
  <2>5. heapOffset' \in Nat
    BY DEF LayoutTypes, EndSnapshot
  <2> QED
    BY <2>1, <2>2, <2>3, <2>4, <2>5 DEF LayoutTypes
<1>8. RecordTypes'
  BY DEF RecordTypes, EndSnapshot
<1>9. FlagTypes'
  BY DEF FlagTypes, EndSnapshot
<1>10. CaptureTypes'
  BY Blank DEF CaptureTypes, Phases, ForgetObjects, EndSnapshot
<1> DEFINE x == [pos |-> snapshotPos, end |-> writeOffset + n, map |-> objectMap]
<1>11. /\ x \in Snapshots
       /\ x.pos = snapshotPos /\ x.end = writeOffset + n
       /\ committed' = Append(committed, x)
  <2>1. x \in Snapshots /\ x.pos = snapshotPos /\ x.end = writeOffset + n
    <3>1. snapshotPos \in Nat /\ writeOffset + n \in Nat
      BY <1>1, <1>2 DEF LayoutTypes, RecordTypes
    <3>2. objectMap \in ObjectMaps
      BY DEF CaptureTypes
    <3> QED
      BY <3>1, <3>2 DEF Snapshots
  <2>2. x = [pos |-> snapshotPos, end |-> writeOffset', map |-> objectMap]
    BY <1>3
  <2>3. committed' = Append(committed, x)
    BY <2>2 DEF EndSnapshot
  <2> QED
    BY <2>1, <2>3
<1> HIDE DEF x
<1>12. HistoryTypes'
  BY <1>11, Appending DEF HistoryTypes, EndSnapshot
<1>13. HeapInv'
  BY <1>1, <1>2, <1>3, <1>4 DEF LayoutTypes, HeapInv, EndSnapshot
<1>14. CaptureInv'
  BY DEF CaptureInv, Capturing, EndSnapshot
<1>15. CommittedInv'
  <2>1. /\ Len(committed) \in Nat
        /\ \A i \in DOMAIN committed : committed[i] \in Snapshots
        /\ \A i \in DOMAIN committed : committed'[i] = committed[i]
        /\ \A i \in DOMAIN committed' : i \in DOMAIN committed \/ i = Len(committed) + 1
        /\ committed'[Len(committed) + 1] = x
        /\ Len(committed') = Len(committed) + 1
        /\ committed' # <<>>
    BY <1>11, Appending DEF HistoryTypes
  <2>2. /\ inProgress /\ ~stale'
        /\ RecordsStart <= snapshotPos /\ snapshotPos < writeOffset
        /\ snapshotPos \in Nat /\ writeOffset \in Nat /\ heapStart \in Nat
    BY DEF CaptureInv, LayoutTypes, RecordTypes, EndSnapshot
  <2>3. Frontier = snapshotPos /\ Frontier' = writeOffset + n
    BY <1>3, <2>2 DEF Frontier, EndSnapshot
  <2>4. ASSUME NEW i \in DOMAIN committed
        PROVE  /\ RecordsStart <= committed[i].pos
               /\ committed[i].pos < committed[i].end
               /\ committed[i].end <= writeOffset + n
               /\ committed[i].end <= h
    BY <1>1, <1>2, <1>4, <2>1, <2>2, <2>3 DEF CommittedInv, Snapshots
  <2>5. /\ RecordsStart <= x.pos
        /\ x.pos < x.end
        /\ x.end <= h
    BY <1>1, <1>2, <1>4, <1>11, <2>2
  <2>6. \A i \in DOMAIN committed' : /\ RecordsStart <= committed'[i].pos
                                     /\ committed'[i].pos < committed'[i].end
                                     /\ committed'[i].end <= writeOffset + n
                                     /\ committed'[i].end <= h
    BY <1>2, <1>11, <2>1, <2>2, <2>4, <2>5
  <2>7. \A i \in DOMAIN committed' : i > 1 => committed'[i].pos = committed'[i - 1].end
    <3>1. ASSUME NEW i \in DOMAIN committed, i > 1
          PROVE  committed'[i].pos = committed'[i - 1].end
      <4>1. i - 1 \in DOMAIN committed
        BY <3>1 DEF HistoryTypes
      <4> QED
        BY <2>1, <3>1, <4>1 DEF CommittedInv
    <3>2. ASSUME Len(committed) + 1 > 1
          PROVE  committed'[Len(committed) + 1].pos = committed'[Len(committed) + 1 - 1].end
      <4>1. committed # <<>> /\ Len(committed) \in DOMAIN committed
        BY <2>1, <3>2 DEF HistoryTypes
      <4>2. committed[Len(committed)].end = snapshotPos
        BY <2>3, <4>1 DEF CommittedInv
      <4> QED
        BY <1>11, <2>1, <4>1, <4>2
    <3> QED
      BY <2>1, <3>1, <3>2
  <2>8. Frontier' = committed'[Len(committed')].end
    BY <1>11, <2>1, <2>3
  <2> QED
    BY <1>4, <2>2, <2>3, <2>6, <2>7, <2>8 DEF CommittedInv
<1> QED
  BY <1>7, <1>8, <1>9, <1>10, <1>12, <1>13, <1>14, <1>15

LEMMA ThrowsStep ==
  ASSUME IInv, Throws
  PROVE  IInv'
<1> USE DEF IInv, Throws, layoutVars, recordVars
<1>1. CaptureTypes' /\ RecordTypes'
  BY DEF CaptureTypes, RecordTypes, Phases
<1>2. HeapInv'
  BY DEF HeapInv
<1>3. CaptureInv'
  BY DEF CaptureInv, Capturing
<1>4. CommittedInv'
  BY DEF CommittedInv, Frontier
<1> QED
  BY <1>1, <1>2, <1>3, <1>4 DEF LayoutTypes, FlagTypes, HistoryTypes

LEMMA CatchStep ==
  ASSUME IInv, Catch
  PROVE  IInv'
<1>1. CASE initialized
  BY <1>1, DiscardStep DEF Catch
<1>2. CASE ~initialized
  <2> USE DEF IInv, Catch
  <2>1. ~inProgress
    BY <1>2 DEF HeapInv
  <2>2. DiscardEffect
    BY <1>2, <2>1 DEF DiscardEffect
  <2> QED
    BY <2>2, DiscardStep
<1> QED
  BY <1>1, <1>2

LEMMA StutterStep ==
  ASSUME IInv, UNCHANGED vars
  PROVE  IInv'
BY DEF vars, layoutVars, recordVars, captureVars, IInv, LayoutTypes, RecordTypes, FlagTypes,
   CaptureTypes, HistoryTypes, HeapInv, CaptureInv, CommittedInv, Frontier

LEMMA NextInv == IInv /\ [Next]_vars => IInv'
<1> SUFFICES ASSUME IInv, [Next]_vars
             PROVE  IInv'
  OBVIOUS
<1>1. CASE Initialize
  BY <1>1, InitializeStep
<1>2. CASE FinalizeDiscard
  BY <1>2, CleanupStep DEF FinalizeDiscard, NoOutput
<1>3. CASE Finalize
  <2>1. (output.written \in BOOLEAN)'
    BY <1>3 DEF Finalize, NoOutput, CompactOutput
  <2> QED
    BY <1>3, <2>1, CleanupStep DEF Finalize
<1>4. CASE BeginSnapshot
  BY <1>4, BeginSnapshotStep
<1>5. CASE BeginStacktrace
  BY <1>5, BeginStacktraceStep
<1>6. CASE WriteFrameRecord
  BY <1>6, WriteFrameRecordStep
<1>7. CASE \E id \in ObjectIds : WriteObject(id)
  BY <1>7, WriteObjectStep
<1>8. CASE \E id \in ObjectIds : RegisterObject(id)
  BY <1>8, RegisterObjectStep
<1>9. CASE FrameDone
  BY <1>9, FrameDoneStep
<1>10. CASE RollbackWriteOffset
  BY <1>10, RollbackWriteOffsetStep
<1>11. CASE EndStacktrace
  BY <1>11, CloseStacktraceStep DEF EndStacktrace, AfterStacktrace
<1>12. CASE EndEmptyStacktrace
  BY <1>12, CloseStacktraceStep DEF EndEmptyStacktrace
<1>13. CASE DiscardCurrentStacktrace
  BY <1>13, DiscardCurrentStacktraceStep
<1>14. CASE EndSnapshot
  BY <1>14, EndSnapshotStep
<1>15. CASE DiscardCurrentSnapshot
  BY <1>15, DiscardStep DEF DiscardCurrentSnapshot
<1>16. CASE Throws
  BY <1>16, ThrowsStep
<1>17. CASE Catch
  BY <1>17, CatchStep
<1>18. CASE UNCHANGED vars
  BY <1>18, StutterStep
<1> QED
  BY <1>1, <1>2, <1>3, <1>4, <1>5, <1>6, <1>7, <1>8, <1>9, <1>10, <1>11, <1>12, <1>13, <1>14,
     <1>15, <1>16, <1>17, <1>18 DEF Next

\* In every reachable state of the writer, for files, records and objects of
\* every size, the inductive invariant holds.
THEOREM Invariance == Spec => []IInv
BY InitInv, NextInv, PTL DEF Spec

\* Every operation of the writer works on fields of the right type, and the
\* unsigned frame counter never wraps below zero.
THEOREM TypeCorrect == Spec => []TypeOK
<1>1. IInv => TypeOK
  BY DEF IInv
<1> QED
  BY <1>1, Invariance, PTL

\* No write of a record or of an object leaves the mapping, and a running
\* capture's records stay below the heap.
THEOREM LayoutCorrect == Spec => []LayoutOK
<1>1. IInv => LayoutOK
  BY DEF IInv, HeapInv, CaptureInv, LayoutOK
<1> QED
  BY <1>1, Invariance, PTL

\* Cancelled, failed and discarded captures leave nothing between the
\* snapshots of a file, nor behind the last one.
THEOREM ContiguousCorrect == Spec => []Contiguous
<1>1. IInv => Contiguous
  BY DEF IInv, CaptureInv, CommittedInv, Frontier, Contiguous
<1> QED
  BY <1>1, Invariance, PTL

(***************************************************************************)
(* Committed snapshots are never touched again.                            *)
(***************************************************************************)

\* While there is a committed snapshot there is a file, whose records have
\* not reached below that snapshot's end.
LEMMA FrontierBound ==
  ASSUME IInv, committed # <<>>
  PROVE  /\ initialized /\ ~stale
         /\ Frontier \in Nat /\ Frontier <= writeOffset
         /\ heapStart \in Nat /\ heapStart <= MaxFileSize
<1>1. initialized /\ ~stale
  BY DEF IInv, HeapInv, CommittedInv
<1>2. Frontier \in Nat /\ Frontier <= writeOffset
  BY DEF IInv, CaptureInv, LayoutTypes, RecordTypes, Frontier
<1>3. MaxFileSize \in Nat
  BY SizesAssumption
<1>4. heapStart \in Nat /\ heapStart <= MaxFileSize
  BY <1>1, <1>3 DEF IInv, HeapInv, LayoutTypes
<1> QED
  BY <1>1, <1>2, <1>4

\* Appending a record changes no cell below the frontier.
LEMMA AppendKeeps ==
  ASSUME IInv, committed # <<>>, NEW n \in Nat, NEW cells \in [0..(n - 1) -> Cells],
         EnsureRecordSpace(n), NEW p \in Nat, p < Frontier, p < heapStart
  PROVE  Put(Relocated, writeOffset, n, cells)[p] = file[p]
<1>1. MaxFileSize \in Nat
  BY SizesAssumption
<1>2. /\ initialized
      /\ Frontier \in Nat /\ Frontier <= writeOffset
      /\ heapStart \in Nat /\ heapStart <= MaxFileSize
  BY FrontierBound
<1>3. TypeOK /\ HeapInv /\ writeOffset \in Nat /\ heapOffset \in Nat
  BY DEF IInv, LayoutTypes
<1>4. PICK h \in Nat, f \in 0..MaxFileSize :
           /\ heapStart' = h /\ fileSize' = f
           /\ h >= heapStart
           /\ writeOffset + n <= h
           /\ h + heapOffset <= f
  BY <1>2, <1>3, RecordSpace
<1>5. h + heapOffset <= MaxFileSize
  BY <1>1, <1>3, <1>4
<1>6. p \in Positions /\ p < writeOffset
  BY <1>1, <1>2, <1>3 DEF Positions
<1> QED
  BY <1>2, <1>3, <1>4, <1>5, <1>6, AppendedRecord

\* No step that keeps the file changes a cell below the frontier.
LEMMA KeptCells ==
  ASSUME IInv, Next, initialized', committed # <<>>,
         NEW p \in Nat, p < Frontier, p < heapStart
  PROVE  file'[p] = file[p]
<1>1. MaxFileSize \in Nat
  BY SizesAssumption
<1>2. /\ initialized /\ ~stale
      /\ Frontier \in Nat /\ Frontier <= writeOffset
      /\ heapStart \in Nat /\ heapStart <= MaxFileSize
  BY FrontierBound
<1>3. p \in Positions
  BY <1>1, <1>2 DEF Positions
<1>4. /\ file \in Mapping /\ heapOffset \in Nat /\ snapshotPos \in Nat /\ stacktracePos \in Nat
      /\ inProgress => Frontier = snapshotPos
  BY DEF IInv, LayoutTypes, RecordTypes, Frontier
<1>5. CASE BeginSnapshot
  <2>1. lastSnapshotPos \in Nat
    BY DEF IInv, RecordTypes
  <2>2. SnapCells(lastSnapshotPos) \in [0..(SnapHeader - 1) -> Cells]
    BY <2>1, RecordCells
  <2>3. /\ EnsureRecordSpace(SnapHeader)
        /\ file' = Put(Relocated, writeOffset, SnapHeader, SnapCells(lastSnapshotPos))
    BY <1>5 DEF BeginSnapshot, AppendRecord
  <2> QED
    BY <2>2, <2>3, AppendKeeps
<1>6. CASE BeginStacktrace
  BY <1>6, AppendKeeps, RecordCells DEF BeginStacktrace, AppendRecord
<1>7. CASE WriteFrameRecord
  <2>1. PICK n \in FrameSizes : AppendRecord(n, FrameCells(n))
    BY <1>7 DEF WriteFrameRecord
  <2>2. n \in Nat
    BY DataAssumption
  <2> QED
    BY <2>1, <2>2, AppendKeeps, RecordCells DEF AppendRecord
<1>8. CASE \E id \in ObjectIds : WriteObject(id)
  <2>1. PICK n \in ObjectSizes : AppendObject(n)
    BY <1>8 DEF WriteObject
  <2>2. n \in Nat /\ heapStart + heapOffset \in Nat /\ Len(objects) + 1 \in Nat
    BY <1>2, <1>4, DataAssumption DEF IInv, HistoryTypes
  <2>3. ObjectCells(Len(objects) + 1, n) \in [0..(n - 1) -> Cells]
    BY <2>2, RecordCells
  <2>4. p < heapStart + heapOffset
    BY <1>2, <1>4
  <2> QED
    BY <1>3, <1>4, <2>1, <2>2, <2>3, <2>4, PutCells DEF AppendObject
<1>9. CASE CloseStacktrace
  <2>1. p # stacktracePos
    BY <1>2, <1>4, <1>9 DEF CloseStacktrace, IInv, CaptureInv
  <2> QED
    BY <1>3, <1>4, <1>9, <2>1 DEF CloseStacktrace, Mapping
<1>10. CASE EndSnapshot
  <2> DEFINE n == MapRecord * Cardinality(Mapped(objectMap))
  <2>1. n \in Nat
    <3>1. IsFiniteSet(Mapped(objectMap))
      BY DataAssumption, FS_Subset DEF Mapped
    <3> QED
      BY <3>1, FS_CardinalityType
  <2> DEFINE g == Put(Relocated, writeOffset, n, MapCells(n))
  <2>2. /\ inProgress /\ EnsureRecordSpace(n)
        /\ file' = [g EXCEPT ![snapshotPos].n = stacktraceCount]
    BY <1>10 DEF EndSnapshot
  <2>3. g[p] = file[p]
    BY <2>1, <2>2, AppendKeeps, RecordCells
  <2> HIDE DEF g
  <2>4. p # snapshotPos
    BY <1>2, <1>4, <2>2
  <2> QED
    BY <2>2, <2>3, <2>4
<1>11. CASE UNCHANGED file
  BY <1>11
<1> QED
  BY <1>2, <1>5, <1>6, <1>7, <1>8, <1>9, <1>10, <1>11
  DEF Next, Initialize, FinalizeDiscard, Finalize, Cleanup, RegisterObject, layoutVars, FrameDone,
      RollbackWriteOffset, EndStacktrace, EndEmptyStacktrace, DiscardCurrentStacktrace,
      DiscardCurrentSnapshot, Throws, Catch

\* A step that keeps the file keeps the list of committed snapshots, or adds
\* the snapshot that it ends.
LEMMA KeptList ==
  ASSUME IInv, Next, initialized', initialized
  PROVE  \/ committed' = committed
         \/ /\ EndSnapshot
            /\ \E x \in Snapshots : x.pos = snapshotPos /\ committed' = Append(committed, x)
<1>1. CASE EndSnapshot
  <2> DEFINE x == [pos |-> snapshotPos, end |-> writeOffset', map |-> objectMap]
  <2>1. committed' = Append(committed, x)
    BY <1>1 DEF EndSnapshot
  <2>2. IInv'
    BY NextInv
  <2>3. x \in Snapshots /\ x.pos = snapshotPos
    <3>1. writeOffset' \in Nat
      BY <2>2 DEF IInv, LayoutTypes
    <3>2. snapshotPos \in Nat /\ objectMap \in ObjectMaps
      BY DEF IInv, RecordTypes, CaptureTypes
    <3> QED
      BY <3>1, <3>2 DEF Snapshots
  <2> QED
    BY <1>1, <2>1, <2>3
<1>2. CASE \E id \in ObjectIds : WriteObject(id)
  BY <1>2 DEF WriteObject
<1>3. CASE UNCHANGED committed
  BY <1>3
<1> QED
  BY <1>1, <1>2, <1>3
  DEF Next, Initialize, FinalizeDiscard, Finalize, Cleanup, BeginSnapshot, BeginStacktrace,
      WriteFrameRecord, RegisterObject, FrameDone, RollbackWriteOffset, EndStacktrace,
      EndEmptyStacktrace, CloseStacktrace, DiscardCurrentStacktrace, DiscardCurrentSnapshot, Throws, Catch

\* A committed snapshot lies below the frontier and below the heap.
LEMMA CommittedBelow ==
  ASSUME IInv, NEW i \in DOMAIN committed
  PROVE  /\ committed # <<>>
         /\ committed[i].pos \in Nat /\ committed[i].end \in Nat
         /\ committed[i].pos < committed[i].end
         /\ committed[i].end <= Frontier /\ committed[i].end <= heapStart
         /\ Frontier \in Nat /\ heapStart \in Nat
<1>1. committed \in Seq(Snapshots) /\ committed[i] \in Snapshots
  BY DEF IInv, HistoryTypes
<1>2. committed # <<>>
  BY <1>1
<1>3. committed[i].pos \in Nat /\ committed[i].end \in Nat
  BY <1>1 DEF Snapshots
<1>4. Frontier \in Nat /\ heapStart \in Nat
  BY <1>2, FrontierBound
<1>5. /\ committed[i].pos < committed[i].end
      /\ committed[i].end <= Frontier /\ committed[i].end <= heapStart
  BY DEF IInv, CommittedInv
<1> QED
  BY <1>2, <1>3, <1>4, <1>5

LEMMA FrozenStep ==
  ASSUME IInv, Next, initialized'
  PROVE  /\ Len(committed') >= Len(committed)
         /\ \A i \in DOMAIN committed :
              /\ committed'[i] = committed[i]
              /\ \A p \in committed[i].pos..(committed[i].end - 1) : file'[p] = file[p]
<1>1. committed \in Seq(Snapshots)
  BY DEF IInv, HistoryTypes
<1>2. CASE committed = <<>>
  <2>1. IInv'
    BY NextInv
  <2>2. Len(committed') >= 0
    BY <2>1 DEF IInv, HistoryTypes
  <2> QED
    BY <1>2, <2>2
<1>3. CASE committed # <<>>
  <2>1. initialized
    BY <1>3, FrontierBound
  <2>2. /\ Len(committed') >= Len(committed)
        /\ \A i \in DOMAIN committed : committed'[i] = committed[i]
    <3>1. CASE committed' = committed
      BY <1>1, <3>1
    <3>2. CASE \E x \in Snapshots : committed' = Append(committed, x)
      <4>1. PICK x \in Snapshots : committed' = Append(committed, x)
        BY <3>2
      <4>2. Len(committed) \in Nat
        BY <1>1
      <4> QED
        BY <1>1, <4>1, <4>2, Appending
    <3> QED
      BY <2>1, <3>1, <3>2, KeptList
  <2>3. ASSUME NEW i \in DOMAIN committed, NEW p \in committed[i].pos..(committed[i].end - 1)
        PROVE  file'[p] = file[p]
    <3>1. p \in Nat /\ p < Frontier /\ p < heapStart
      BY <2>3, CommittedBelow
    <3> QED
      BY <1>3, <3>1, KeptCells
  <2> QED
    BY <2>2, <2>3
<1> QED
  BY <1>2, <1>3

\* Once ended, a snapshot stays in its file, unchanged, until finalize():
\* later captures, relocations of the heap, rollbacks, failures and discards
\* touch none of its bytes.
THEOREM CommittedFrozenCorrect == Spec => CommittedFrozen
<1>1. IInv /\ [Next]_vars =>
        [initialized' =>
           /\ Len(committed') >= Len(committed)
           /\ \A i \in DOMAIN committed :
                /\ committed'[i] = committed[i]
                /\ \A p \in committed[i].pos..(committed[i].end - 1) : file'[p] = file[p]
        ]_vars
  BY FrozenStep
<1> QED
  BY <1>1, Invariance, PTL DEF Spec, CommittedFrozen

(***************************************************************************)
(* What a reader finds.                                                    *)
(***************************************************************************)

\* The operators of CommittedParses, over any contents of the mapping.
StackCellsIn(f, from, to) == {p \in from..(to - 1) : f[p].kind = "stack"}
FrameCellsOf(f, p, to) ==
  {q \in (p + 1)..(to - 1) :
     f[q].kind = "frame" /\ \A r \in (p + 1)..q : f[r].kind \in {"frame", "cont"}}
CountsOK(f, from, to) ==
  \A p \in StackCellsIn(f, from, to) : f[p].n = Cardinality(FrameCellsOf(f, p, to))
MapCellsIn(f, from, to) == {p \in from..(to - 1) : f[p].kind = "map"}
Parses(f, s) ==
  /\ f[s.pos].kind = "snap"
  /\ f[s.pos].n = Cardinality(StackCellsIn(f, s.pos, s.end))
  /\ CountsOK(f, s.pos, s.end)
  /\ Cardinality(MapCellsIn(f, s.pos, s.end)) = Cardinality(Mapped(s.map))

\* The file header and the writer's fields know the same newest snapshot, and
\* the snapshot being captured leads to it.
NewestPos == IF committed = <<>> THEN 0 ELSE committed[Len(committed)].pos
ListInv ==
  /\ initialized => /\ header.count = Len(committed) /\ snapshotCount = Len(committed)
                    /\ header.last = NewestPos /\ lastSnapshotPos = NewestPos
  /\ committed # <<>> => header.heapPos = heapStart
  /\ inProgress => file[snapshotPos].kind = "snap" /\ file[snapshotPos].m = NewestPos
  /\ \A i \in DOMAIN committed :
       file[committed[i].pos].m = IF i = 1 THEN 0 ELSE committed[i - 1].pos

\* Where an object's offset may lead.
Targets == {objects[k].off : k \in DOMAIN objects} \cup {MagicOffset}
ObjectInv ==
  /\ \A k \in DOMAIN objects : \A j \in 0..(objects[k].size - 1) :
       file[heapStart + objects[k].off + j] = CellOf("obj", k, j)
  /\ \A id \in Mapped(objectMap) : objectMap[id] \in Targets
  /\ MapsResolve

\* The closed stacktraces of the snapshot being captured end here.
Top == IF stacktraceOpen THEN stacktracePos ELSE writeOffset
OpenFrames(to) == FrameCellsOf(file, stacktracePos, to)
StackInv ==
  /\ inProgress =>
       /\ \A p \in (snapshotPos + 1)..(writeOffset - 1) : file[p].kind \in {"stack", "frame", "cont"}
       /\ stacktraceCount = Cardinality(StackCellsIn(file, snapshotPos, Top))
       /\ CountsOK(file, snapshotPos, Top)
  /\ inProgress /\ stacktraceOpen =>
       /\ file[stacktracePos].kind = "stack"
       /\ \A p \in (stacktracePos + 1)..(writeOffset - 1) : file[p].kind \in {"frame", "cont"}
       /\ frameCount = Cardinality(OpenFrames(writeOffset))
  /\ inProgress /\ phase = "frame" => frameCount = Cardinality(OpenFrames(savedOffset)) + 1

ReadInv ==
  /\ ListInv /\ ObjectInv /\ StackInv
  /\ \A i \in DOMAIN committed : Parses(file, committed[i])

\* What the counts between two positions say depends on no other cell, and on
\* nothing but the kinds of the cells and the counts of the stacktraces.
LEMMA SameStacks ==
  ASSUME NEW f, NEW g, NEW from, NEW to,
         \A p \in from..(to - 1) : g[p].kind = f[p].kind
  PROVE  StackCellsIn(g, from, to) = StackCellsIn(f, from, to)
BY DEF StackCellsIn

LEMMA SameFrames ==
  ASSUME NEW f, NEW g, NEW p \in Nat, NEW to \in Nat,
         \A q \in (p + 1)..(to - 1) : g[q].kind = f[q].kind
  PROVE  FrameCellsOf(g, p, to) = FrameCellsOf(f, p, to)
<1>1. ASSUME NEW q \in (p + 1)..(to - 1)
      PROVE  \A r \in (p + 1)..q : g[r].kind = f[r].kind
  OBVIOUS
<1> QED
  BY <1>1 DEF FrameCellsOf

LEMMA SameCounts ==
  ASSUME NEW f, NEW g, NEW from \in Nat, NEW to \in Nat,
         \A p \in from..(to - 1) : g[p].kind = f[p].kind /\ (f[p].kind = "stack" => g[p].n = f[p].n)
  PROVE  CountsOK(f, from, to) => CountsOK(g, from, to)
<1>1. StackCellsIn(g, from, to) = StackCellsIn(f, from, to)
  BY SameStacks
<1>2. ASSUME NEW p \in StackCellsIn(f, from, to)
      PROVE  g[p].n = f[p].n /\ FrameCellsOf(g, p, to) = FrameCellsOf(f, p, to)
  <2>1. p \in from..(to - 1) /\ p \in Nat /\ f[p].kind = "stack"
    BY DEF StackCellsIn
  <2>2. \A q \in (p + 1)..(to - 1) : g[q].kind = f[q].kind
    BY <2>1
  <2> QED
    BY <2>1, <2>2, SameFrames
<1> QED
  BY <1>1, <1>2 DEF CountsOK

LEMMA SameParse ==
  ASSUME NEW f, NEW g, NEW s \in Snapshots, s.pos < s.end,
         \A p \in s.pos..(s.end - 1) : g[p] = f[p], Parses(f, s)
  PROVE  Parses(g, s)
<1>1. s.pos \in Nat /\ s.end \in Nat
  BY DEF Snapshots
<1>2. g[s.pos] = f[s.pos]
  BY <1>1
<1>3. CountsOK(g, s.pos, s.end)
  BY <1>1, SameCounts DEF Parses
<1>4. StackCellsIn(g, s.pos, s.end) = StackCellsIn(f, s.pos, s.end)
  BY SameStacks
<1>5. MapCellsIn(g, s.pos, s.end) = MapCellsIn(f, s.pos, s.end)
  BY DEF MapCellsIn
<1> QED
  BY <1>2, <1>3, <1>4, <1>5 DEF Parses

\* Records that begin with another kind of cell end the frames before them.
LEMMA FramesEnd ==
  ASSUME NEW f, NEW p \in Nat, NEW to \in Nat, NEW end \in Nat, p < to, to <= end,
         to < end => f[to].kind \notin {"frame", "cont"}
  PROVE  FrameCellsOf(f, p, end) = FrameCellsOf(f, p, to)
<1>1. ASSUME NEW q \in FrameCellsOf(f, p, end)
      PROVE  q \in FrameCellsOf(f, p, to)
  <2>1. q \in (p + 1)..(end - 1) /\ f[q].kind = "frame" /\ \A r \in (p + 1)..q : f[r].kind \in {"frame", "cont"}
    BY DEF FrameCellsOf
  <2>2. q < to
    <3> SUFFICES ASSUME q >= to PROVE FALSE
      BY <2>1
    <3>1. to \in (p + 1)..q /\ to < end
      BY <2>1
    <3> QED
      BY <2>1, <3>1
  <2>3. q \in (p + 1)..(to - 1)
    BY <2>1, <2>2
  <2> QED
    BY <2>1, <2>3 DEF FrameCellsOf
<1>2. ASSUME NEW q \in FrameCellsOf(f, p, to)
      PROVE  q \in FrameCellsOf(f, p, end)
  BY DEF FrameCellsOf
<1> QED
  BY <1>1, <1>2

\* Records that hold no stacktrace add none.
LEMMA StacksEnd ==
  ASSUME NEW f, NEW from \in Nat, NEW to \in Nat, NEW end \in Nat, from <= to, to <= end,
         \A p \in to..(end - 1) : f[p].kind # "stack"
  PROVE  StackCellsIn(f, from, end) = StackCellsIn(f, from, to)
BY DEF StackCellsIn

\* The sets the counts are of are finite.
LEMMA Finite ==
  ASSUME NEW f, NEW from \in Nat, NEW to \in Nat
  PROVE  /\ IsFiniteSet(StackCellsIn(f, from, to)) /\ Cardinality(StackCellsIn(f, from, to)) \in Nat
         /\ IsFiniteSet(FrameCellsOf(f, from, to)) /\ Cardinality(FrameCellsOf(f, from, to)) \in Nat
<1>1. IsFiniteSet(from..(to - 1)) /\ IsFiniteSet((from + 1)..(to - 1))
  BY FS_Interval
<1>2. StackCellsIn(f, from, to) \subseteq from..(to - 1)
  BY DEF StackCellsIn
<1>3. FrameCellsOf(f, from, to) \subseteq (from + 1)..(to - 1)
  BY DEF FrameCellsOf
<1>4. IsFiniteSet(StackCellsIn(f, from, to)) /\ IsFiniteSet(FrameCellsOf(f, from, to))
  BY <1>1, <1>2, <1>3, FS_Subset
<1> QED
  BY <1>4, FS_CardinalityType

\* A frame that is appended to frames counts once.
LEMMA FrameCounts ==
  ASSUME NEW f, NEW p \in Nat, NEW to \in Nat, NEW end \in Nat, p < to, to < end,
         \A r \in (p + 1)..(to - 1) : f[r].kind \in {"frame", "cont"},
         f[to].kind = "frame", \A r \in (to + 1)..(end - 1) : f[r].kind = "cont"
  PROVE  Cardinality(FrameCellsOf(f, p, end)) = Cardinality(FrameCellsOf(f, p, to)) + 1
<1>1. FrameCellsOf(f, p, end) = FrameCellsOf(f, p, to) \cup {to}
  <2>1. ASSUME NEW q \in FrameCellsOf(f, p, end)
        PROVE  q \in FrameCellsOf(f, p, to) \cup {to}
    <3>1. q \in (p + 1)..(end - 1) /\ f[q].kind = "frame" /\ \A r \in (p + 1)..q : f[r].kind \in {"frame", "cont"}
      BY DEF FrameCellsOf
    <3>2. q <= to
      BY <3>1
    <3>3. CASE q = to
      BY <3>3
    <3>4. CASE q # to
      <4>1. q \in (p + 1)..(to - 1)
        BY <3>1, <3>2, <3>4
      <4> QED
        BY <3>1, <4>1 DEF FrameCellsOf
    <3> QED
      BY <3>3, <3>4
  <2>2. ASSUME NEW q \in FrameCellsOf(f, p, to)
        PROVE  q \in FrameCellsOf(f, p, end)
    BY DEF FrameCellsOf
  <2>3. to \in FrameCellsOf(f, p, end)
    <3>1. to \in (p + 1)..(end - 1)
      OBVIOUS
    <3>2. \A r \in (p + 1)..to : f[r].kind \in {"frame", "cont"}
      <4>1. \A r \in (p + 1)..to : r = to \/ r \in (p + 1)..(to - 1)
        OBVIOUS
      <4> QED
        BY <4>1
    <3> QED
      BY <3>1, <3>2 DEF FrameCellsOf
  <2> QED
    BY <2>1, <2>2, <2>3
<1>2. to \notin FrameCellsOf(f, p, to)
  BY DEF FrameCellsOf
<1>3. IsFiniteSet(FrameCellsOf(f, p, to))
  BY Finite
<1> QED
  BY <1>1, <1>2, <1>3, FS_AddElement

\* A stacktrace that is closed counts once, and the others keep their frames.
LEMMA StackCounts ==
  ASSUME NEW f, NEW from \in Nat, NEW to \in Nat, NEW end \in Nat, from <= to, to < end,
         f[to].kind = "stack", \A p \in (to + 1)..(end - 1) : f[p].kind # "stack"
  PROVE  /\ StackCellsIn(f, from, end) = StackCellsIn(f, from, to) \cup {to}
         /\ Cardinality(StackCellsIn(f, from, end)) = Cardinality(StackCellsIn(f, from, to)) + 1
<1>1. StackCellsIn(f, from, end) = StackCellsIn(f, from, to) \cup {to}
  <2>1. \A p \in from..(end - 1) : p \in from..(to - 1) \/ p = to \/ p \in (to + 1)..(end - 1)
    OBVIOUS
  <2> QED
    BY <2>1 DEF StackCellsIn
<1>2. to \notin StackCellsIn(f, from, to)
  BY DEF StackCellsIn
<1>3. IsFiniteSet(StackCellsIn(f, from, to))
  BY Finite
<1> QED
  BY <1>1, <1>2, <1>3, FS_AddElement

LEMMA CountsClosed ==
  ASSUME NEW f, NEW from \in Nat, NEW to \in Nat, NEW end \in Nat, from <= to, to < end,
         f[to].kind = "stack", \A p \in (to + 1)..(end - 1) : f[p].kind # "stack",
         f[to].n = Cardinality(FrameCellsOf(f, to, end)), CountsOK(f, from, to)
  PROVE  CountsOK(f, from, end)
<1>1. StackCellsIn(f, from, end) = StackCellsIn(f, from, to) \cup {to}
  BY StackCounts
<1>2. ASSUME NEW p \in StackCellsIn(f, from, to)
      PROVE  f[p].n = Cardinality(FrameCellsOf(f, p, end))
  <2>1. p \in Nat /\ p < to
    BY DEF StackCellsIn
  <2>2. FrameCellsOf(f, p, end) = FrameCellsOf(f, p, to)
    BY <2>1, FramesEnd
  <2> QED
    BY <2>2 DEF CountsOK
<1> QED
  BY <1>1, <1>2 DEF CountsOK

\* What ends a snapshot adds neither stacktraces nor frames.
LEMMA CountsEnd ==
  ASSUME NEW f, NEW from \in Nat, NEW to \in Nat, NEW end \in Nat, from <= to, to <= end,
         \A p \in to..(end - 1) : f[p].kind \notin {"stack", "frame", "cont"}, CountsOK(f, from, to)
  PROVE  CountsOK(f, from, end)
<1>1. StackCellsIn(f, from, end) = StackCellsIn(f, from, to)
  BY StacksEnd
<1>2. ASSUME NEW p \in StackCellsIn(f, from, to)
      PROVE  FrameCellsOf(f, p, end) = FrameCellsOf(f, p, to)
  <2>1. p \in Nat /\ p < to
    BY DEF StackCellsIn
  <2>2. to < end => f[to].kind \notin {"frame", "cont"}
    OBVIOUS
  <2> QED
    BY <2>1, <2>2, FramesEnd
<1> QED
  BY <1>1, <1>2 DEF CountsOK

\* What ensureSnapshotRecordSpaceUnlocked and the copy of n cells do to the
\* mapping: g is its new contents.
RecordStep(n, cells, g) ==
  /\ g \in Mapping
  /\ writeOffset \in Nat /\ heapStart \in Nat /\ heapOffset \in Nat
  /\ heapStart' \in Nat /\ heapStart' >= heapStart /\ writeOffset + n <= heapStart'
  /\ heapStart' + heapOffset <= MaxFileSize
  /\ \A p \in Nat : p < writeOffset /\ p < heapStart => g[p] = file[p]
  /\ \A k \in 0..(n - 1) : g[writeOffset + k] = cells[k]
  /\ \A k \in 0..(heapOffset - 1) : g[heapStart' + k] = file[heapStart + k]

LEMMA RecordStepIs ==
  ASSUME IInv, initialized, NEW n \in Nat, NEW cells \in [0..(n - 1) -> Cells], EnsureRecordSpace(n)
  PROVE  RecordStep(n, cells, Put(Relocated, writeOffset, n, cells))
<1>1. MaxFileSize \in Nat
  BY SizesAssumption
<1>2. TypeOK /\ HeapInv /\ writeOffset \in Nat /\ heapOffset \in Nat /\ heapStart \in Nat
      /\ heapStart + heapOffset <= MaxFileSize /\ file \in Mapping
  BY <1>1 DEF IInv, LayoutTypes, HeapInv
<1>3. PICK h \in Nat, f \in 0..MaxFileSize :
           /\ heapStart' = h /\ fileSize' = f
           /\ h >= heapStart
           /\ writeOffset + n <= h
           /\ h + heapOffset <= f
  BY <1>2, RecordSpace
<1>4. h + heapOffset <= MaxFileSize
  BY <1>1, <1>2, <1>3
<1> DEFINE g == Put(Relocated, writeOffset, n, cells)
<1>5. /\ g \in Mapping
      /\ \A p \in Positions : p < writeOffset /\ p < heapStart => g[p] = file[p]
      /\ \A k \in 0..(heapOffset - 1) : g[h + k] = file[heapStart + k]
  BY <1>2, <1>3, <1>4, AppendedRecord
<1>6. Relocated \in Mapping
  BY <1>2, <1>3, MoveCells DEF Relocated
<1>7. \A p \in Positions : writeOffset <= p /\ p < writeOffset + n => g[p] = cells[p - writeOffset]
  BY <1>2, <1>6, PutCells
<1> HIDE DEF g
<1>8. ASSUME NEW k \in 0..(n - 1)
      PROVE  g[writeOffset + k] = cells[k]
  <2>1. writeOffset + k \in Positions /\ writeOffset <= writeOffset + k /\ writeOffset + k < writeOffset + n
    BY <1>1, <1>2, <1>3, <1>4 DEF Positions
  <2>2. (writeOffset + k) - writeOffset = k
    BY <1>2
  <2> QED
    BY <1>7, <2>1, <2>2
<1>9. ASSUME NEW p \in Nat, p < writeOffset, p < heapStart
      PROVE  g[p] = file[p]
  BY <1>1, <1>2, <1>5, <1>9 DEF Positions
<1>10. RecordStep(n, cells, g)
  BY <1>2, <1>3, <1>4, <1>5, <1>8, <1>9 DEF RecordStep
<1> QED
  BY <1>10 DEF g

\* A step that appends a record, as a whole.
AppendStep(n, cells) ==
  /\ n \in Nat /\ RecordStep(n, cells, file')
  /\ header' = RelocatedHeader
  /\ writeOffset' = writeOffset + n /\ heapOffset' = heapOffset

LEMMA AppendStepIs ==
  ASSUME IInv, initialized, NEW n \in Nat, NEW cells \in [0..(n - 1) -> Cells], AppendRecord(n, cells)
  PROVE  AppendStep(n, cells)
<1>1. EnsureRecordSpace(n) /\ file' = Put(Relocated, writeOffset, n, cells)
  BY DEF AppendRecord
<1>2. RecordStep(n, cells, Put(Relocated, writeOffset, n, cells))
  BY <1>1, RecordStepIs
<1> QED
  BY <1>1, <1>2 DEF AppendRecord, AppendStep

LEMMA BeginSnapshotIs ==
  ASSUME IInv, BeginSnapshot
  PROVE  AppendStep(1, SnapCells(lastSnapshotPos))
<1>1. lastSnapshotPos \in Nat /\ 1 \in Nat
  BY DEF IInv, RecordTypes
<1>2. SnapCells(lastSnapshotPos) \in [0..(1 - 1) -> Cells]
  BY <1>1, RecordCells
<1> QED
  BY <1>1, <1>2, AppendStepIs DEF BeginSnapshot

LEMMA BeginStacktraceIs ==
  ASSUME IInv, BeginStacktrace
  PROVE  AppendStep(1, StackCells)
<1>1. StackCells \in [0..(1 - 1) -> Cells]
  BY RecordCells
<1> QED
  BY <1>1, AppendStepIs DEF BeginStacktrace

LEMMA WriteFrameRecordIs ==
  ASSUME IInv, WriteFrameRecord
  PROVE  \E n \in FrameSizes : n \in Nat \ {0} /\ AppendStep(n, FrameCells(n))
<1>1. PICK n \in FrameSizes : AppendRecord(n, FrameCells(n))
  BY DEF WriteFrameRecord
<1>2. n \in Nat \ {0}
  BY DataAssumption
<1>3. FrameCells(n) \in [0..(n - 1) -> Cells]
  BY <1>2, RecordCells
<1> QED
  BY <1>1, <1>2, <1>3, AppendStepIs DEF WriteFrameRecord

\* A write of an object, as a whole.
ObjectStep(n) ==
  /\ n \in Nat \ {0} /\ Len(objects) + 1 \in Nat
  /\ file' \in Mapping
  /\ \A p \in Nat : p < heapStart + heapOffset => file'[p] = file[p]
  /\ \A j \in 0..(n - 1) : file'[heapStart + heapOffset + j] = CellOf("obj", Len(objects) + 1, j)
  /\ heapOffset' = heapOffset + n
  /\ objects' = Append(objects, [off |-> heapOffset, size |-> n])
  /\ UNCHANGED <<header, writeOffset, heapStart, initialized, recordVars, captureVars, committed>>

LEMMA WriteObjectIs ==
  ASSUME IInv, NEW id \in ObjectIds, WriteObject(id)
  PROVE  \E n \in ObjectSizes : ObjectStep(n)
<1>1. PICK n \in ObjectSizes : AppendObject(n)
  BY DEF WriteObject
<1>2. n \in Nat \ {0} /\ MaxFileSize \in Nat
  BY DataAssumption, SizesAssumption
<1>3. heapStart \in Nat /\ heapOffset \in Nat /\ fileSize \in 0..MaxFileSize /\ file \in Mapping
  BY DEF IInv, LayoutTypes
<1>4. Len(objects) + 1 \in Nat
  BY DEF IInv, HistoryTypes
<1> DEFINE at == heapStart + heapOffset
           cells == ObjectCells(Len(objects) + 1, n)
<1>5. at \in Nat /\ at + n \in Nat
  BY <1>2, <1>3
<1>6. at + n <= MaxFileSize
  <2>1. PICK f \in 0..MaxFileSize : f >= at + n
    BY <1>1, <1>3, <1>5, Extension DEF AppendObject
  <2> HIDE DEF at
  <2> QED
    BY <1>2, <1>5, <2>1
<1>7. cells \in [0..(n - 1) -> Cells]
  BY <1>2, <1>4, RecordCells
<1>8. file' = Put(file, at, n, cells)
  BY <1>1 DEF AppendObject
<1>9. \A j \in 0..(n - 1) : cells[j] = CellOf("obj", Len(objects) + 1, j)
  BY DEF ObjectCells
<1> HIDE DEF cells, at
<1>10. /\ file' \in Mapping
       /\ \A p \in Positions : p < at => file'[p] = file[p]
       /\ \A p \in Positions : at <= p /\ p < at + n => file'[p] = cells[p - at]
  <2> DEFINE g == Put(file, at, n, cells)
  <2>1. n \in Nat
    BY <1>2
  <2>2. g \in Mapping
    BY <1>3, <1>5, <1>7, <2>1, PutCells
  <2>3. \A p \in Positions : p < at \/ p >= at + n => g[p] = file[p]
    BY <1>3, <1>5, <1>7, <2>1, PutCells
  <2>4. \A p \in Positions : at <= p /\ p < at + n => g[p] = cells[p - at]
    BY <1>3, <1>5, <1>7, <2>1, PutCells
  <2> HIDE DEF g
  <2>5. file' = g
    BY <1>8 DEF g
  <2> QED
    BY <2>2, <2>3, <2>4, <2>5
<1>11. ASSUME NEW p \in Nat, p < at
       PROVE  file'[p] = file[p]
  BY <1>2, <1>5, <1>6, <1>10, <1>11 DEF Positions
<1>12. ASSUME NEW j \in 0..(n - 1)
       PROVE  file'[at + j] = CellOf("obj", Len(objects) + 1, j)
  <2>1. at + j \in Positions /\ at <= at + j /\ at + j < at + n /\ (at + j) - at = j
    BY <1>2, <1>5, <1>6 DEF Positions
  <2> QED
    BY <1>9, <1>10, <2>1
<1>13. ObjectStep(n)
  <2>1. /\ heapOffset' = heapOffset + n
        /\ objects' = Append(objects, [off |-> heapOffset, size |-> n])
        /\ UNCHANGED <<header, writeOffset, heapStart, initialized, recordVars, captureVars, committed>>
    BY <1>1 DEF AppendObject, WriteObject
  <2> QED
    BY <1>2, <1>4, <1>10, <1>11, <1>12, <2>1 DEF ObjectStep, at
<1> QED
  BY <1>13

\* The end of a snapshot, as a whole: g is the mapping between the append of
\* the object map and the completion of the snapshot's header.
EndStep(n, g) ==
  /\ n \in Nat /\ n = Cardinality(Mapped(objectMap))
  /\ RecordStep(n, MapCells(n), g)
  /\ file' = [g EXCEPT ![snapshotPos].n = stacktraceCount]
  /\ writeOffset' = writeOffset + n
  /\ committed' = Append(committed, [pos |-> snapshotPos, end |-> writeOffset + n, map |-> objectMap])

LEMMA EndSnapshotIs ==
  ASSUME IInv, EndSnapshot
  PROVE  \E n, g : EndStep(n, g)
<1> DEFINE n == MapRecord * Cardinality(Mapped(objectMap))
<1>1. n \in Nat /\ n = Cardinality(Mapped(objectMap))
  <2>1. IsFiniteSet(Mapped(objectMap))
    BY DataAssumption, FS_Subset DEF Mapped
  <2>2. Cardinality(Mapped(objectMap)) \in Nat
    BY <2>1, FS_CardinalityType
  <2> QED
    BY <2>2
<1>2. /\ initialized /\ EnsureRecordSpace(n)
      /\ file' = [Put(Relocated, writeOffset, n, MapCells(n)) EXCEPT ![snapshotPos].n = stacktraceCount]
      /\ writeOffset' = writeOffset + n
      /\ committed' = Append(committed, [pos |-> snapshotPos, end |-> writeOffset', map |-> objectMap])
  BY DEF EndSnapshot
<1> HIDE DEF n
<1>3. MapCells(n) \in [0..(n - 1) -> Cells]
  BY <1>1, RecordCells
<1>4. RecordStep(n, MapCells(n), Put(Relocated, writeOffset, n, MapCells(n)))
  BY <1>1, <1>2, <1>3, RecordStepIs
<1> QED
  BY <1>1, <1>2, <1>4 DEF EndStep

\* The snapshot that is committed is one.
LEMMA EndedSnapshot ==
  ASSUME IInv, NEW n, NEW g, EndStep(n, g)
  PROVE  /\ snapshotPos \in Nat /\ writeOffset + n \in Nat
         /\ [pos |-> snapshotPos, end |-> writeOffset + n, map |-> objectMap] \in Snapshots
<1>1. n \in Nat /\ writeOffset \in Nat
  BY DEF EndStep, RecordStep
<1>2. snapshotPos \in Nat
  BY DEF IInv, RecordTypes
<1>3. objectMap \in ObjectMaps
  BY DEF IInv, CaptureTypes
<1>4. writeOffset + n \in Nat
  BY <1>1
<1> QED
  BY <1>2, <1>3, <1>4 DEF Snapshots

\* Where the parts of the running capture lie.
LEMMA Places ==
  ASSUME IInv, inProgress
  PROVE  /\ snapshotPos \in Nat /\ stacktracePos \in Nat /\ savedOffset \in Nat
         /\ writeOffset \in Nat /\ heapStart \in Nat /\ heapOffset \in Nat
         /\ frameCount \in Nat /\ stacktraceCount \in Nat
         /\ snapshotPos < writeOffset /\ writeOffset <= heapStart
         /\ stacktraceOpen => snapshotPos < stacktracePos /\ stacktracePos < writeOffset
         /\ phase = "frame" => stacktracePos < savedOffset /\ savedOffset <= writeOffset
         /\ Top \in Nat /\ snapshotPos < Top /\ Top <= writeOffset
<1>1. /\ snapshotPos \in Nat /\ stacktracePos \in Nat /\ savedOffset \in Nat
      /\ writeOffset \in Nat /\ heapStart \in Nat /\ heapOffset \in Nat
      /\ frameCount \in Nat /\ stacktraceCount \in Nat
  BY DEF IInv, LayoutTypes, RecordTypes
<1>2. /\ snapshotPos < writeOffset /\ writeOffset <= heapStart
      /\ stacktraceOpen => snapshotPos < stacktracePos /\ stacktracePos < writeOffset
  BY <1>1 DEF IInv, CaptureInv
<1>3. phase = "frame" => stacktracePos < savedOffset /\ savedOffset <= writeOffset
  BY <1>1 DEF IInv, CaptureInv
<1>4. Top \in Nat /\ snapshotPos < Top /\ Top <= writeOffset
  BY <1>1, <1>2 DEF Top
<1> QED
  BY <1>1, <1>2, <1>3, <1>4

\* The steps that change neither the list of snapshots nor what leads to it.
SameList ==
  /\ UNCHANGED <<initialized, header, heapStart, lastSnapshotPos, snapshotCount, committed>>
  /\ inProgress' => inProgress /\ snapshotPos' = snapshotPos /\ file'[snapshotPos].kind = file[snapshotPos].kind
                               /\ file'[snapshotPos].m = file[snapshotPos].m

LEMMA SameListIs ==
  ASSUME IInv, Next, initialized',
         ~Initialize, ~BeginSnapshot, ~BeginStacktrace, ~WriteFrameRecord, ~EndSnapshot
  PROVE  SameList
<1>1. /\ file \in Mapping /\ snapshotPos \in Nat /\ writeOffset \in Nat /\ heapStart \in Nat /\ heapOffset \in Nat
      /\ inProgress => snapshotPos < writeOffset /\ writeOffset <= heapStart
  BY DEF IInv, LayoutTypes, RecordTypes, CaptureInv
<1>2. ASSUME NEW id \in ObjectIds, WriteObject(id)
      PROVE  SameList
  <2>1. PICK n \in ObjectSizes : ObjectStep(n)
    BY <1>2, WriteObjectIs
  <2>2. inProgress => file'[snapshotPos] = file[snapshotPos]
    BY <1>1, <2>1 DEF ObjectStep
  <2> QED
    BY <2>1, <2>2 DEF ObjectStep, SameList, recordVars
<1>3. CASE CloseStacktrace
  <2>1. stacktracePos # snapshotPos \/ ~inProgress
    BY <1>1, <1>3 DEF IInv, CaptureInv, CloseStacktrace
  <2> QED
    BY <1>1, <1>3, <2>1 DEF CloseStacktrace, SameList
<1>4. CASE Catch \/ DiscardCurrentSnapshot
  <2>1. ~inProgress'
    BY <1>4 DEF Catch, DiscardCurrentSnapshot, DiscardEffect, IInv, HeapInv
  <2> QED
    BY <1>4, <2>1 DEF Catch, DiscardCurrentSnapshot, SameList
<1>5. ASSUME NEW id \in ObjectIds, RegisterObject(id)
      PROVE  SameList
  BY <1>5 DEF RegisterObject, SameList, layoutVars, recordVars
<1>6. CASE FrameDone \/ RollbackWriteOffset \/ DiscardCurrentStacktrace \/ Throws
  <2>1. CASE FrameDone \/ Throws
    <3>1. UNCHANGED <<initialized, layoutVars, recordVars, committed>>
      BY <2>1 DEF FrameDone, Throws
    <3> QED
      BY <3>1 DEF SameList, layoutVars, recordVars
  <2>2. CASE RollbackWriteOffset
    BY <2>2 DEF RollbackWriteOffset, SameList
  <2>3. CASE DiscardCurrentStacktrace
    BY <2>3 DEF DiscardCurrentStacktrace, SameList
  <2> QED
    BY <1>6, <2>1, <2>2, <2>3
<1> QED
  BY <1>2, <1>3, <1>4, <1>5, <1>6
  DEF Next, FinalizeDiscard, Finalize, Cleanup, EndStacktrace, EndEmptyStacktrace

\* What appending a record leaves of the list: the header, if it is written,
\* names the same newest snapshot.
LEMMA AppendHeader ==
  ASSUME IInv, ListInv, initialized, NEW n, NEW cells, AppendStep(n, cells)
  PROVE  /\ header'.count = Len(committed) /\ header'.last = NewestPos
         /\ committed # <<>> => header'.heapPos = heapStart'
<1>1. header' = IF heapStart' = heapStart THEN header ELSE [HeaderNow EXCEPT !.heapPos = heapStart']
  BY DEF AppendStep, RelocatedHeader
<1> QED
  BY <1>1 DEF ListInv, HeaderNow

\* A record appended during a capture leaves the header of its snapshot.
LEMMA AppendKeepsCapture ==
  ASSUME IInv, inProgress, NEW n, NEW cells, AppendStep(n, cells)
  PROVE  \A p \in Nat : p < writeOffset => file'[p] = file[p]
<1>1. writeOffset \in Nat /\ heapStart \in Nat /\ writeOffset <= heapStart
  BY DEF IInv, LayoutTypes, CaptureInv
<1> QED
  BY <1>1 DEF AppendStep, RecordStep

\* The entries of the list keep their place, and the last one is the newest.
LEMMA NewestKept == committed' = committed => NewestPos' = NewestPos
BY DEF NewestPos

\* Each entry leads to the one before it.
PrevOK == \A i \in DOMAIN committed :
            file[committed[i].pos].m = IF i = 1 THEN 0 ELSE committed[i - 1].pos

LEMMA PrevStep ==
  ASSUME IInv, ListInv, Next, initialized', committed' = committed
  PROVE  PrevOK'
<1>1. ASSUME NEW i \in DOMAIN committed
      PROVE  file'[committed[i].pos].m = IF i = 1 THEN 0 ELSE committed[i - 1].pos
  <2>1. committed[i].pos \in committed[i].pos..(committed[i].end - 1)
    BY CommittedBelow
  <2>2. file'[committed[i].pos] = file[committed[i].pos]
    BY <2>1, FrozenStep
  <2> QED
    BY <2>2 DEF ListInv
<1> QED
  BY <1>1 DEF PrevOK

LEMMA EndSnapshotList ==
  ASSUME IInv, ListInv, EndSnapshot
  PROVE  ListInv'
<1>1. PICK n, g : EndStep(n, g)
  BY EndSnapshotIs
<1>2. /\ inProgress /\ initialized /\ ~inProgress' /\ initialized'
      /\ lastSnapshotPos' = snapshotPos /\ snapshotCount' = snapshotCount + 1
      /\ header' = [last |-> snapshotPos, count |-> snapshotCount + 1, heapPos |-> heapStart']
  BY DEF EndSnapshot, HeaderAtEnd
<1>3. /\ snapshotPos \in Nat /\ snapshotPos < writeOffset /\ writeOffset <= heapStart
      /\ writeOffset \in Nat /\ heapStart \in Nat
  <2>1. snapshotPos < writeOffset /\ writeOffset <= heapStart
    BY <1>2, Places
  <2> QED
    BY <1>1, <2>1, EndedSnapshot DEF EndStep, RecordStep
<1> DEFINE x == [pos |-> snapshotPos, end |-> writeOffset + n, map |-> objectMap]
<1>4. x \in Snapshots /\ x.pos = snapshotPos /\ committed' = Append(committed, x)
  BY <1>1, EndedSnapshot DEF EndStep
<1> HIDE DEF x
<1>5. committed \in Seq(Snapshots)
  BY DEF IInv, HistoryTypes
<1>6. /\ committed' # <<>> /\ Len(committed') = Len(committed) + 1
      /\ committed'[Len(committed) + 1] = x
      /\ \A i \in DOMAIN committed : committed'[i] = committed[i]
      /\ \A i \in DOMAIN committed' : i \in DOMAIN committed \/ i = Len(committed) + 1
  BY <1>4, <1>5, Appending
<1>7. Len(committed) \in Nat /\ DOMAIN committed = 1..Len(committed)
  BY <1>5
<1>8. NewestPos' = snapshotPos
  BY <1>4, <1>6 DEF NewestPos
<1>9. /\ header'.count = Len(committed') /\ snapshotCount' = Len(committed')
      /\ header'.last = NewestPos' /\ lastSnapshotPos' = NewestPos' /\ header'.heapPos = heapStart'
  BY <1>2, <1>6, <1>8 DEF ListInv
<1>10. file'[snapshotPos].m = NewestPos
  <2>1. g[snapshotPos] = file[snapshotPos] /\ g \in Mapping
    BY <1>1, <1>3 DEF EndStep, RecordStep
  <2>2. file'[snapshotPos].m = g[snapshotPos].m
    <3>1. snapshotPos \in Positions
      <4>1. heapStart \in Nat /\ heapStart + heapOffset <= MaxFileSize /\ heapOffset \in Nat /\ MaxFileSize \in Nat
        BY <1>2, SizesAssumption DEF IInv, HeapInv, LayoutTypes
      <4> QED
        BY <1>3, <4>1 DEF Positions
    <3>2. g[snapshotPos] \in Cells /\ file' = [g EXCEPT ![snapshotPos].n = stacktraceCount]
      BY <1>1, <2>1, <3>1 DEF EndStep, Mapping
    <3> QED
      BY <2>1, <3>1, <3>2 DEF Mapping, Cells
  <2> QED
    BY <1>2, <2>1, <2>2 DEF ListInv
<1>11. ASSUME NEW i \in DOMAIN committed'
       PROVE  file'[committed'[i].pos].m = IF i = 1 THEN 0 ELSE committed'[i - 1].pos
  <2>1. CASE i \in DOMAIN committed
    <3>1. committed'[i] = committed[i]
      BY <1>6, <2>1
    <3>2. committed[i].pos \in committed[i].pos..(committed[i].end - 1)
      BY <2>1, CommittedBelow
    <3>3. file'[committed[i].pos] = file[committed[i].pos]
      BY <1>2, <2>1, <3>2, FrozenStep DEF Next
    <3>4. i # 1 => i - 1 \in DOMAIN committed
      BY <1>7, <2>1
    <3>5. i # 1 => committed'[i - 1].pos = committed[i - 1].pos
      BY <1>6, <3>4
    <3> QED
      BY <2>1, <3>1, <3>3, <3>5 DEF ListInv
  <2>2. CASE i = Len(committed) + 1
    <3>1. file'[committed'[i].pos].m = NewestPos
      BY <1>4, <1>6, <1>10, <2>2
    <3>2. CASE committed = <<>>
      BY <3>1, <3>2, <2>2 DEF NewestPos
    <3>3. CASE committed # <<>>
      <4>1. Len(committed) \in DOMAIN committed /\ i - 1 = Len(committed) /\ i # 1
        BY <1>5, <1>7, <2>2, <3>3
      <4>2. committed'[i - 1] = committed[Len(committed)]
        BY <1>6, <4>1
      <4> QED
        BY <3>1, <3>3, <4>1, <4>2 DEF NewestPos
    <3> QED
      BY <3>2, <3>3
  <2> QED
    BY <1>6, <2>1, <2>2
<1> QED
  BY <1>2, <1>9, <1>11 DEF ListInv

LEMMA ListStep ==
  ASSUME IInv, ListInv, [Next]_vars
  PROVE  ListInv'
<1>1. IInv'
  BY NextInv
<1>2. CASE ~initialized'
  <2>1. committed' = <<>> /\ ~inProgress'
    BY <1>1, <1>2 DEF IInv, HeapInv
  <2> QED
    BY <1>2, <2>1 DEF ListInv
<1>3. CASE Initialize
  <2>1. committed = <<>> /\ ~inProgress /\ committed' = committed /\ inProgress' = inProgress
        /\ header' = EmptyHeader /\ snapshotCount' = 0 /\ lastSnapshotPos' = 0
    BY <1>3 DEF Initialize, IInv, HeapInv
  <2> QED
    BY <2>1 DEF ListInv, NewestPos, EmptyHeader
<1>4. CASE BeginSnapshot
  <2>1. AppendStep(1, SnapCells(lastSnapshotPos))
    BY <1>4, BeginSnapshotIs
  <2>2. /\ initialized /\ initialized' /\ committed' = committed /\ snapshotPos' = writeOffset
        /\ snapshotCount' = snapshotCount /\ lastSnapshotPos' = lastSnapshotPos
    BY <1>4 DEF BeginSnapshot
  <2>3. file'[writeOffset] = CellOf("snap", 0, lastSnapshotPos)
    <3>1. SnapCells(lastSnapshotPos)[0] = CellOf("snap", 0, lastSnapshotPos)
      BY DEF SnapCells
    <3>2. writeOffset + 0 = writeOffset /\ 0 \in 0..(1 - 1)
      BY <2>1 DEF AppendStep, RecordStep
    <3>3. file'[writeOffset + 0] = SnapCells(lastSnapshotPos)[0]
      BY <2>1, <3>2 DEF AppendStep, RecordStep
    <3> QED
      BY <3>1, <3>2, <3>3
  <2>4. PrevOK'
    BY <1>4, <2>2, PrevStep DEF Next
  <2>5. /\ header'.count = Len(committed) /\ header'.last = NewestPos
        /\ committed # <<>> => header'.heapPos = heapStart'
    BY <2>1, <2>2, AppendHeader
  <2>6. NewestPos' = NewestPos
    BY <2>2, NewestKept
  <2> QED
    BY <2>2, <2>3, <2>4, <2>5, <2>6 DEF ListInv, PrevOK, CellOf
<1>5. ASSUME NEW n, NEW cells, AppendStep(n, cells), inProgress, BeginStacktrace \/ WriteFrameRecord
      PROVE  ListInv'
  <2>1. /\ initialized /\ initialized' /\ committed' = committed /\ snapshotPos' = snapshotPos
        /\ snapshotCount' = snapshotCount /\ lastSnapshotPos' = lastSnapshotPos
    <3>1. CASE BeginStacktrace
      BY <3>1 DEF BeginStacktrace
    <3>2. CASE WriteFrameRecord
      BY <3>2 DEF WriteFrameRecord
    <3> QED
      BY <1>5, <3>1, <3>2
  <2>2. snapshotPos \in Nat /\ snapshotPos < writeOffset
    BY <1>5 DEF IInv, RecordTypes, LayoutTypes, CaptureInv
  <2>3. file'[snapshotPos] = file[snapshotPos]
    BY <1>5, <2>2, AppendKeepsCapture
  <2>4. PrevOK'
    BY <1>5, <2>1, PrevStep DEF Next
  <2>5. /\ header'.count = Len(committed) /\ header'.last = NewestPos
        /\ committed # <<>> => header'.heapPos = heapStart'
    BY <1>5, <2>1, AppendHeader
  <2>6. NewestPos' = NewestPos
    BY <2>1, NewestKept
  <2> QED
    BY <1>5, <2>1, <2>3, <2>4, <2>5, <2>6 DEF ListInv, PrevOK
<1>6. CASE BeginStacktrace
  BY <1>5, <1>6, BeginStacktraceIs DEF BeginStacktrace
<1>7. CASE WriteFrameRecord
  BY <1>5, <1>7, WriteFrameRecordIs DEF WriteFrameRecord
<1>8. CASE EndSnapshot
  BY <1>8, EndSnapshotList
<1>9. CASE SameList /\ Next /\ initialized'
  <2>1. PrevOK'
    BY <1>9, PrevStep DEF SameList
  <2>2. NewestPos' = NewestPos
    BY <1>9, NewestKept DEF SameList
  <2> QED
    BY <1>9, <2>1, <2>2 DEF SameList, ListInv, PrevOK
<1>10. CASE UNCHANGED vars
  BY <1>10 DEF vars, layoutVars, recordVars, ListInv, NewestPos
<1> QED
  BY <1>2, <1>3, <1>4, <1>6, <1>7, <1>8, <1>9, <1>10, SameListIs

(***************************************************************************)
(* The objects in the heap.                                                *)
(***************************************************************************)

\* An object's cells lie within the heap.
LEMMA ObjectWithin ==
  ASSUME IInv, NEW k \in DOMAIN objects, NEW j \in 0..(objects[k].size - 1)
  PROVE  /\ heapStart \in Nat /\ heapOffset \in Nat /\ objects[k].off \in Nat
         /\ objects[k].off + j \in 0..(heapOffset - 1)
         /\ heapStart + objects[k].off + j = heapStart + (objects[k].off + j)
<1>1. heapStart \in Nat /\ heapOffset \in Nat
  BY DEF IInv, LayoutTypes
<1>2. objects[k].off \in Nat /\ objects[k].size \in Nat
  <2>1. objects \in Seq(HeapObjects)
    BY DEF IInv, HistoryTypes
  <2>2. objects[k] \in HeapObjects
    BY <2>1
  <2> QED
    BY <2>2 DEF HeapObjects
<1>3. objects[k].off + objects[k].size <= heapOffset
  BY DEF IInv, HeapInv
<1> QED
  BY <1>1, <1>2, <1>3

\* The heap holds every object at its offset.
InHeap(f, at, objs) ==
  \A k \in DOMAIN objs : \A j \in 0..(objs[k].size - 1) :
    f[at + objs[k].off + j] = CellOf("obj", k, j)

\* It still does when every cell of the heap is found at its new place.
LEMMA HeapMoved ==
  ASSUME IInv, InHeap(file, heapStart, objects), NEW g, NEW to \in Nat,
         \A k \in 0..(heapOffset - 1) : g[to + k] = file[heapStart + k]
  PROVE  InHeap(g, to, objects)
<1>1. ASSUME NEW k \in DOMAIN objects, NEW j \in 0..(objects[k].size - 1)
      PROVE  g[to + objects[k].off + j] = CellOf("obj", k, j)
  <2>1. PICK d \in 0..(heapOffset - 1) : d = objects[k].off + j
    BY ObjectWithin
  <2>2. heapStart + objects[k].off + j = heapStart + d /\ to + objects[k].off + j = to + d
    BY <2>1, ObjectWithin
  <2>3. g[to + d] = file[heapStart + d]
    BY <2>1
  <2> QED
    BY <2>2, <2>3 DEF InHeap
<1> QED
  BY <1>1 DEF InHeap

\* The maps lead to objects, also when objects are added.
MapOK(map) == \A id \in Mapped(map) : map[id] \in Targets

LEMMA ObjectInvIs ==
  ObjectInv <=> /\ InHeap(file, heapStart, objects)
                /\ MapOK(objectMap)
                /\ \A i \in DOMAIN committed : MapOK(committed[i].map)
BY DEF ObjectInv, InHeap, MapOK, MapsResolve, Targets

LEMMA NothingMapped == MapOK(EmptyMap)
BY DEF MapOK, Mapped, EmptyMap

\* The steps that leave the heap and its objects where they are.
SameHeap ==
  /\ UNCHANGED <<objects, committed>>
  /\ InHeap(file', heapStart', objects)
  /\ \/ objectMap' = objectMap \/ objectMap' = EmptyMap
     \/ \E id \in ObjectIds, off \in Targets : objectMap' = [objectMap EXCEPT ![id] = off]

LEMMA SameHeapIs ==
  ASSUME IInv, ObjectInv, Next, ~EndSnapshot, ~FinalizeDiscard, ~Finalize,
         \A id \in ObjectIds : ~WriteObject(id)
  PROVE  SameHeap
<1> USE ObjectInvIs
<1>1. heapStart \in Nat /\ heapOffset \in Nat /\ stacktracePos \in Nat /\ writeOffset \in Nat
  BY DEF IInv, LayoutTypes, RecordTypes
<1>2. CASE Initialize
  <2>1. objects = <<>>
    BY <1>2 DEF Initialize, IInv, HeapInv
  <2>2. InHeap(file', heapStart', objects)
    BY <2>1 DEF InHeap
  <2> QED
    BY <1>2, <2>2 DEF Initialize, SameHeap
<1>3. ASSUME NEW n, NEW cells, AppendStep(n, cells), BeginSnapshot \/ BeginStacktrace \/ WriteFrameRecord
      PROVE  SameHeap
  <2>1. InHeap(file', heapStart', objects)
    BY <1>3, HeapMoved DEF AppendStep, RecordStep
  <2>2. UNCHANGED <<objects, committed, objectMap>>
    <3>1. CASE BeginSnapshot
      BY <3>1 DEF BeginSnapshot
    <3>2. CASE BeginStacktrace
      BY <3>2 DEF BeginStacktrace
    <3>3. CASE WriteFrameRecord
      BY <3>3 DEF WriteFrameRecord
    <3> QED
      BY <1>3, <3>1, <3>2, <3>3
  <2> QED
    BY <2>1, <2>2 DEF SameHeap
<1>4. CASE BeginSnapshot
  BY <1>3, <1>4, BeginSnapshotIs
<1>5. CASE BeginStacktrace
  BY <1>3, <1>5, BeginStacktraceIs
<1>6. CASE WriteFrameRecord
  BY <1>3, <1>6, WriteFrameRecordIs
<1>7. CASE CloseStacktrace
  <2>1. stacktracePos < heapStart
    BY <1>1, <1>7 DEF CloseStacktrace, IInv, CaptureInv
  <2>2. file' = [file EXCEPT ![stacktracePos].n = frameCount] /\ heapStart' = heapStart
        /\ UNCHANGED <<objects, committed, objectMap>>
    BY <1>7 DEF CloseStacktrace
  <2>3. \A k \in 0..(heapOffset - 1) : heapStart + k # stacktracePos
    BY <1>1, <2>1
  <2>4. \A k \in 0..(heapOffset - 1) : file'[heapStart + k] = file[heapStart + k]
    BY <2>2, <2>3 DEF IInv, LayoutTypes, Mapping
  <2>5. InHeap(file', heapStart', objects)
    BY <1>1, <2>2, <2>4, HeapMoved
  <2> QED
    BY <2>2, <2>5 DEF SameHeap
<1>8. ASSUME NEW id \in ObjectIds, RegisterObject(id)
      PROVE  SameHeap
  <2>1. UNCHANGED <<file, heapStart, objects, committed>>
    BY <1>8 DEF RegisterObject, layoutVars
  <2>2. \E off \in Targets : objectMap' = [objectMap EXCEPT ![id] = off]
    BY <1>8 DEF RegisterObject, Targets
  <2> QED
    BY <2>1, <2>2 DEF SameHeap
<1>9. ASSUME UNCHANGED <<file, heapStart, objects, committed>>, objectMap' = objectMap \/ objectMap' = EmptyMap
      PROVE  SameHeap
  BY <1>9 DEF SameHeap
<1>10. CASE FrameDone \/ Throws
  <2>1. UNCHANGED <<layoutVars, objects, committed, objectMap>>
    BY <1>10 DEF FrameDone, Throws
  <2> QED
    BY <1>9, <2>1 DEF layoutVars
<1>11. CASE RollbackWriteOffset
  BY <1>9, <1>11 DEF RollbackWriteOffset
<1>12. CASE DiscardCurrentStacktrace
  BY <1>9, <1>12 DEF DiscardCurrentStacktrace
<1>13. CASE DiscardCurrentSnapshot
  BY <1>9, <1>13 DEF DiscardCurrentSnapshot, DiscardEffect, ForgetObjects
<1>14. CASE Catch
  BY <1>9, <1>14 DEF Catch, DiscardEffect, ForgetObjects
<1> QED
  BY <1>2, <1>4, <1>5, <1>6, <1>7, <1>8, <1>10, <1>11, <1>12, <1>13, <1>14
  DEF Next, EndStacktrace, EndEmptyStacktrace

LEMMA SameHeapStep ==
  ASSUME IInv, ObjectInv, SameHeap
  PROVE  ObjectInv'
<1>1. objects' = objects /\ committed' = committed /\ Targets' = Targets
  BY DEF SameHeap, Targets
<1>2. InHeap(file', heapStart', objects')
  BY <1>1 DEF SameHeap
<1>3. MapOK(objectMap')
  <2>1. CASE objectMap' = objectMap
    BY <2>1, ObjectInvIs
  <2>2. CASE objectMap' = EmptyMap
    BY <2>2, NothingMapped
  <2>3. ASSUME NEW id \in ObjectIds, NEW off \in Targets, objectMap' = [objectMap EXCEPT ![id] = off]
        PROVE  MapOK(objectMap')
    <3>1. objectMap \in ObjectMaps /\ \A d \in Mapped(objectMap) : objectMap[d] \in Targets
      BY DEF IInv, CaptureTypes, ObjectInv
    <3>2. \A d \in ObjectIds : objectMap'[d] = objectMap[d] \/ objectMap'[d] = off
      BY <2>3, <3>1 DEF ObjectMaps
    <3> QED
      BY <3>1, <3>2 DEF MapOK, Mapped
  <2> QED
    BY <2>1, <2>2, <2>3 DEF SameHeap
<1>4. \A i \in DOMAIN committed' : MapOK(committed'[i].map)
  BY <1>1, ObjectInvIs
<1> QED
  BY <1>1, <1>2, <1>3, <1>4 DEF ObjectInv, InHeap, MapOK, MapsResolve, Targets

LEMMA WriteObjectObjects ==
  ASSUME IInv, ObjectInv, NEW id \in ObjectIds, WriteObject(id)
  PROVE  ObjectInv'
<1>1. PICK n \in ObjectSizes : ObjectStep(n)
  BY WriteObjectIs
<1> DEFINE x == [off |-> heapOffset, size |-> n]
           last == Len(objects) + 1
<1>2. /\ heapStart \in Nat /\ heapOffset \in Nat /\ objects \in Seq(HeapObjects)
      /\ Len(objects) \in Nat /\ DOMAIN objects = 1..Len(objects) /\ last \in Nat
  BY DEF IInv, LayoutTypes, HistoryTypes
<1>3. /\ x \in HeapObjects /\ x.off = heapOffset /\ x.size = n
      /\ objects' = Append(objects, x) /\ n \in Nat
  BY <1>1, <1>2 DEF ObjectStep, HeapObjects
<1> HIDE DEF x
<1>4. /\ objects'[last] = x
      /\ \A k \in DOMAIN objects : objects'[k] = objects[k]
      /\ \A k \in DOMAIN objects' : k \in DOMAIN objects \/ k = last
      /\ DOMAIN objects' = 1..last
  BY <1>2, <1>3, Appending
<1>5. InHeap(file', heapStart', objects')
  <2>1. heapStart' = heapStart
    BY <1>1 DEF ObjectStep
  <2>2. ASSUME NEW k \in DOMAIN objects, NEW j \in 0..(objects[k].size - 1)
        PROVE  file'[heapStart + objects[k].off + j] = CellOf("obj", k, j)
    <3>1. PICK d \in 0..(heapOffset - 1) : heapStart + objects[k].off + j = heapStart + d
      BY ObjectWithin
    <3>2. heapStart + d \in Nat /\ heapStart + d < heapStart + heapOffset
      BY <1>2
    <3>3. file'[heapStart + d] = file[heapStart + d]
      BY <1>1, <3>2 DEF ObjectStep
    <3> QED
      BY <3>1, <3>3 DEF ObjectInv
  <2>3. \A j \in 0..(n - 1) : file'[heapStart + heapOffset + j] = CellOf("obj", last, j)
    BY <1>1 DEF ObjectStep
  <2>4. ASSUME NEW k \in DOMAIN objects', NEW j \in 0..(objects'[k].size - 1)
        PROVE  file'[heapStart + objects'[k].off + j] = CellOf("obj", k, j)
    <3> HIDE DEF last
    <3>1. CASE k \in DOMAIN objects
      BY <1>4, <2>2, <3>1
    <3>2. CASE k = last
      BY <1>3, <1>4, <2>3, <3>2
    <3> QED
      BY <1>4, <3>1, <3>2
  <2> QED
    BY <2>1, <2>4 DEF InHeap
<1>6. Targets \subseteq Targets' /\ heapOffset \in Targets'
  <2>1. \A k \in DOMAIN objects : k \in DOMAIN objects'
    BY <1>2, <1>4
  <2>2. last \in DOMAIN objects'
    BY <1>2, <1>4
  <2> HIDE DEF last
  <2> QED
    BY <1>3, <1>4, <2>1, <2>2 DEF Targets
<1>7. \A d \in Mapped(objectMap') : objectMap'[d] \in Targets'
  <2>1. objectMap \in ObjectMaps /\ objectMap' = [objectMap EXCEPT ![id] = heapOffset]
    BY DEF IInv, CaptureTypes, WriteObject
  <2>2. \A d \in ObjectIds : objectMap'[d] = objectMap[d] \/ objectMap'[d] = heapOffset
    BY <2>1 DEF ObjectMaps
  <2>3. \A d \in Mapped(objectMap) : objectMap[d] \in Targets
    BY DEF ObjectInv
  <2> QED
    BY <1>6, <2>2, <2>3 DEF Mapped
<1>8. committed' = committed
  BY <1>1 DEF ObjectStep
<1>9. \A i \in DOMAIN committed : \A d \in Mapped(committed[i].map) : committed[i].map[d] \in Targets'
  BY <1>6 DEF ObjectInv, MapsResolve, Targets
<1> QED
  BY <1>5, <1>7, <1>8, <1>9 DEF ObjectInv, InHeap, MapsResolve, Targets

LEMMA EndSnapshotObjects ==
  ASSUME IInv, ObjectInv, EndSnapshot
  PROVE  ObjectInv'
<1>1. PICK n, g : EndStep(n, g)
  BY EndSnapshotIs
<1>2. objects' = objects /\ objectMap' = EmptyMap
  BY DEF EndSnapshot, ForgetObjects
<1>3. /\ inProgress /\ snapshotPos \in Nat /\ snapshotPos < heapStart /\ heapStart \in Nat /\ heapOffset \in Nat
      /\ heapStart' \in Nat /\ heapStart' >= heapStart
  <2>1. inProgress
    BY DEF EndSnapshot
  <2>2. snapshotPos < heapStart
    BY <2>1, Places
  <2>3. snapshotPos \in Nat
    BY <1>1, EndedSnapshot
  <2> QED
    BY <1>1, <2>1, <2>2, <2>3 DEF EndStep, RecordStep
<1>4. \A k \in 0..(heapOffset - 1) : file'[heapStart' + k] = file[heapStart + k]
  <2>1. \A k \in 0..(heapOffset - 1) : heapStart' + k # snapshotPos
    <3>1. PICK h \in Nat : h = heapStart'
      BY <1>3
    <3>2. snapshotPos \in Nat /\ h \in Nat /\ heapOffset \in Nat /\ h > snapshotPos
      BY <1>3, <3>1
    <3>3. ASSUME NEW k \in 0..(heapOffset - 1)
          PROVE  h + k # snapshotPos
      BY <3>2
    <3> QED
      BY <3>1, <3>3
  <2>2. file' = [g EXCEPT ![snapshotPos].n = stacktraceCount]
    BY <1>1 DEF EndStep
  <2>3. \A k \in 0..(heapOffset - 1) : file'[heapStart' + k] = g[heapStart' + k]
    BY <1>1, <2>1, <2>2 DEF EndStep, RecordStep, Mapping
  <2> QED
    BY <1>1, <2>3 DEF EndStep, RecordStep
<1>5. InHeap(file', heapStart', objects')
  BY <1>2, <1>3, <1>4, HeapMoved, ObjectInvIs
<1>6. Targets' = Targets
  BY <1>2 DEF Targets
<1> DEFINE x == [pos |-> snapshotPos, end |-> writeOffset + n, map |-> objectMap]
<1>7. x \in Snapshots /\ x.map = objectMap /\ committed' = Append(committed, x)
  BY <1>1, EndedSnapshot DEF EndStep
<1> HIDE DEF x
<1>8. committed \in Seq(Snapshots)
  BY DEF IInv, HistoryTypes
<1>9. \A i \in DOMAIN committed' : (i \in DOMAIN committed /\ committed'[i] = committed[i]) \/ committed'[i] = x
  BY <1>7, <1>8, Appending
<1>10. \A i \in DOMAIN committed' : MapOK(committed'[i].map)
  BY <1>7, <1>9, ObjectInvIs
<1> QED
  BY <1>2, <1>5, <1>6, <1>10, NothingMapped DEF ObjectInv, InHeap, MapOK, MapsResolve, Targets

LEMMA ObjectStepInv ==
  ASSUME IInv, ObjectInv, [Next]_vars
  PROVE  ObjectInv'
<1>1. CASE FinalizeDiscard \/ Finalize
  <2>1. objects' = <<>> /\ committed' = <<>> /\ objectMap' = EmptyMap
    BY <1>1 DEF FinalizeDiscard, Finalize, Cleanup, ForgetObjects
  <2>2. Mapped(EmptyMap) = {}
    BY DEF Mapped, EmptyMap
  <2> QED
    BY <2>1, <2>2 DEF ObjectInv, MapsResolve
<1>2. CASE UNCHANGED vars
  BY <1>2 DEF vars, layoutVars, ObjectInv, MapsResolve, Targets
<1> QED
  BY <1>1, <1>2, WriteObjectObjects, EndSnapshotObjects, SameHeapIs, SameHeapStep

(***************************************************************************)
(* The records of the snapshot being captured.                             *)
(***************************************************************************)

\* The three parts of StackInv, for a mapping f.
Records(f, from, to) ==
  \A p \in (from + 1)..(to - 1) : f[p].kind \in {"stack", "frame", "cont"}
Closed(f, from, to, count) ==
  count = Cardinality(StackCellsIn(f, from, to)) /\ CountsOK(f, from, to)
Open(f, at, to, count) ==
  /\ f[at].kind = "stack"
  /\ \A p \in (at + 1)..(to - 1) : f[p].kind \in {"frame", "cont"}
  /\ count = Cardinality(FrameCellsOf(f, at, to))

LEMMA StackInvIs ==
  StackInv <=>
    /\ inProgress => /\ Records(file, snapshotPos, writeOffset)
                     /\ Closed(file, snapshotPos, Top, stacktraceCount)
    /\ inProgress /\ stacktraceOpen => Open(file, stacktracePos, writeOffset, frameCount)
    /\ inProgress /\ phase = "frame" =>
         frameCount = Cardinality(FrameCellsOf(file, stacktracePos, savedOffset)) + 1
BY DEF StackInv, Records, Closed, Open, OpenFrames

\* Cells with the same kinds and counts.
Alike(f, g, from, to) ==
  \A p \in from..(to - 1) : g[p].kind = f[p].kind /\ (f[p].kind = "stack" => g[p].n = f[p].n)

LEMMA ClosedKept ==
  ASSUME NEW f, NEW g, NEW from \in Nat, NEW to \in Nat, NEW count,
         Alike(f, g, from, to), Closed(f, from, to, count)
  PROVE  Closed(g, from, to, count)
<1>1. StackCellsIn(g, from, to) = StackCellsIn(f, from, to)
  BY SameStacks DEF Alike
<1>2. CountsOK(g, from, to)
  BY SameCounts DEF Alike, Closed
<1> QED
  BY <1>1, <1>2 DEF Closed

LEMMA OpenKept ==
  ASSUME NEW f, NEW g, NEW at \in Nat, NEW to \in Nat, at < to, NEW count,
         \A p \in at..(to - 1) : g[p].kind = f[p].kind, Open(f, at, to, count)
  PROVE  Open(g, at, to, count)
<1>1. FrameCellsOf(g, at, to) = FrameCellsOf(f, at, to)
  <2>1. \A q \in (at + 1)..(to - 1) : g[q].kind = f[q].kind
    OBVIOUS
  <2> QED
    BY <2>1, SameFrames
<1>2. at \in at..(to - 1)
  OBVIOUS
<1> QED
  BY <1>1, <1>2 DEF Open

\* A stacktrace that is taken back was not closed; an open one that is closed
\* has the count of its frames, which is one more closed stacktrace.
LEMMA ClosedMore ==
  ASSUME NEW f, NEW g, NEW from \in Nat, NEW at \in Nat, NEW to \in Nat, from < at, at < to,
         NEW count \in Nat, NEW frames, Closed(f, from, at, count), Open(f, at, to, frames),
         Alike(f, g, from, at), \A p \in at..(to - 1) : g[p].kind = f[p].kind, g[at].n = frames
  PROVE  Closed(g, from, to, count + 1)
<1>1. Closed(g, from, at, count)
  BY ClosedKept
<1>2. Open(g, at, to, frames)
  BY OpenKept
<1>3. g[at].kind = "stack" /\ \A p \in (at + 1)..(to - 1) : g[p].kind # "stack"
  BY <1>2 DEF Open
<1>4. Cardinality(StackCellsIn(g, from, to)) = count + 1
  BY <1>1, <1>3, StackCounts DEF Closed
<1>5. CountsOK(g, from, to)
  BY <1>1, <1>2, <1>3, CountsClosed DEF Closed, Open
<1> QED
  BY <1>4, <1>5 DEF Closed

LEMMA BeginSnapshotStacks ==
  ASSUME IInv, BeginSnapshot
  PROVE  StackInv'
<1>1. AppendStep(1, SnapCells(lastSnapshotPos))
  BY BeginSnapshotIs
<1>2. /\ snapshotPos' = writeOffset /\ writeOffset' = writeOffset + 1 /\ writeOffset \in Nat
      /\ stacktraceOpen' = FALSE /\ stacktraceCount' = 0 /\ phase' = "snapshot"
  BY <1>1 DEF BeginSnapshot, AppendStep, RecordStep
<1>3. file'[writeOffset].kind = "snap"
  <2>1. SnapCells(lastSnapshotPos)[0] = CellOf("snap", 0, lastSnapshotPos)
    BY DEF SnapCells
  <2>2. writeOffset + 0 = writeOffset /\ 0 \in 0..(1 - 1)
    BY <1>2
  <2>3. file'[writeOffset + 0] = SnapCells(lastSnapshotPos)[0]
    BY <1>1, <2>2 DEF AppendStep, RecordStep
  <2> QED
    BY <2>1, <2>2, <2>3 DEF CellOf
<1>4. Top' = writeOffset + 1
  BY <1>2 DEF Top
<1>5. Records(file', writeOffset, writeOffset + 1)
  BY <1>2 DEF Records
<1>6. StackCellsIn(file', writeOffset, writeOffset + 1) = {}
  BY <1>2, <1>3 DEF StackCellsIn
<1>7. Closed(file', writeOffset, writeOffset + 1, 0)
  BY <1>6, FS_EmptySet DEF Closed, CountsOK
<1> QED
  BY <1>2, <1>4, <1>5, <1>7 DEF StackInv, Records, Closed, OpenFrames

LEMMA BeginStacktraceStacks ==
  ASSUME IInv, StackInv, BeginStacktrace
  PROVE  StackInv'
<1>1. AppendStep(1, StackCells)
  BY BeginStacktraceIs
<1>2. /\ inProgress /\ snapshotPos' = snapshotPos /\ stacktraceCount' = stacktraceCount
      /\ stacktracePos' = writeOffset /\ writeOffset' = writeOffset + 1
      /\ ~stacktraceOpen /\ stacktraceOpen' = TRUE /\ frameCount' = 0 /\ phase' = "stack"
  BY <1>1 DEF BeginStacktrace, AppendStep
<1>3. snapshotPos \in Nat /\ writeOffset \in Nat /\ snapshotPos < writeOffset
  BY <1>2, Places
<1>4. file'[writeOffset].kind = "stack"
  <2>1. StackCells[0] = CellOf("stack", 0, 0)
    BY DEF StackCells
  <2>2. writeOffset + 0 = writeOffset /\ 0 \in 0..(1 - 1)
    BY <1>3
  <2>3. file'[writeOffset + 0] = StackCells[0]
    BY <1>1, <2>2 DEF AppendStep, RecordStep
  <2> QED
    BY <2>1, <2>2, <2>3 DEF CellOf
<1>5. \A p \in Nat : p < writeOffset => file'[p] = file[p]
  BY <1>1, <1>2, AppendKeepsCapture
<1>6. Top = writeOffset /\ Top' = writeOffset
  BY <1>2 DEF Top
<1>7. Closed(file', snapshotPos, writeOffset, stacktraceCount)
  <2>1. Alike(file, file', snapshotPos, writeOffset)
    BY <1>3, <1>5 DEF Alike
  <2> QED
    BY <1>2, <1>3, <1>6, <2>1, ClosedKept, StackInvIs
<1>8. Records(file', snapshotPos, writeOffset + 1)
  <2>1. \A p \in (snapshotPos + 1)..((writeOffset + 1) - 1) :
          p = writeOffset \/ (p \in Nat /\ p < writeOffset /\ p \in (snapshotPos + 1)..(writeOffset - 1))
    <3>1. ASSUME NEW p \in (snapshotPos + 1)..((writeOffset + 1) - 1), p # writeOffset
          PROVE  p \in Nat /\ p < writeOffset /\ p \in (snapshotPos + 1)..(writeOffset - 1)
      BY <1>3, <3>1
    <3> QED
      BY <3>1
  <2>2. Records(file, snapshotPos, writeOffset)
    BY <1>2, StackInvIs
  <2> QED
    BY <1>4, <1>5, <2>1, <2>2 DEF Records
<1>9. Open(file', writeOffset, writeOffset + 1, 0)
  <2>1. (writeOffset + 1)..((writeOffset + 1) - 1) = {}
    BY <1>3
  <2>2. FrameCellsOf(file', writeOffset, writeOffset + 1) = {}
    BY <2>1 DEF FrameCellsOf
  <2> QED
    BY <1>4, <2>1, <2>2, FS_EmptySet DEF Open
<1> QED
  BY <1>2, <1>6, <1>7, <1>8, <1>9 DEF StackInv, Records, Closed, Open, OpenFrames

LEMMA WriteFrameRecordStacks ==
  ASSUME IInv, StackInv, WriteFrameRecord
  PROVE  StackInv'
<1>1. PICK n \in FrameSizes : n \in Nat \ {0} /\ AppendStep(n, FrameCells(n))
  BY WriteFrameRecordIs
<1>2. /\ inProgress /\ snapshotPos' = snapshotPos /\ stacktraceCount' = stacktraceCount
      /\ stacktracePos' = stacktracePos /\ writeOffset' = writeOffset + n
      /\ stacktraceOpen /\ stacktraceOpen' = TRUE /\ frameCount' = frameCount + 1
      /\ savedOffset' = writeOffset
  BY <1>1 DEF WriteFrameRecord, AppendStep
<1>3. /\ snapshotPos \in Nat /\ writeOffset \in Nat /\ stacktracePos \in Nat /\ frameCount \in Nat
      /\ snapshotPos < stacktracePos /\ stacktracePos < writeOffset
  BY <1>2, Places
<1>4. /\ file'[writeOffset].kind = "frame"
      /\ \A p \in (writeOffset + 1)..((writeOffset + n) - 1) : file'[p].kind = "cont"
  <2>1. \A k \in 0..(n - 1) : FrameCells(n)[k].kind = IF k = 0 THEN "frame" ELSE "cont"
    BY DEF FrameCells, CellOf
  <2>2. \A k \in 0..(n - 1) : file'[writeOffset + k].kind = IF k = 0 THEN "frame" ELSE "cont"
    BY <1>1, <2>1 DEF AppendStep, RecordStep
  <2>3. 0 \in 0..(n - 1) /\ writeOffset + 0 = writeOffset
    BY <1>1, <1>3
  <2>4. ASSUME NEW p \in (writeOffset + 1)..((writeOffset + n) - 1)
        PROVE  file'[p].kind = "cont"
    <3>1. p - writeOffset \in 0..(n - 1) /\ writeOffset + (p - writeOffset) = p /\ p - writeOffset # 0
      BY <1>1, <1>3
    <3> QED
      BY <2>2, <3>1
  <2> QED
    BY <2>2, <2>3, <2>4
<1>5. \A p \in Nat : p < writeOffset => file'[p] = file[p]
  BY <1>1, <1>2, AppendKeepsCapture
<1>6. Top = stacktracePos /\ Top' = stacktracePos
  BY <1>2 DEF Top
<1>7. Closed(file', snapshotPos, stacktracePos, stacktraceCount)
  <2>1. Alike(file, file', snapshotPos, stacktracePos)
    BY <1>3, <1>5 DEF Alike
  <2> QED
    BY <1>2, <1>3, <1>6, <2>1, ClosedKept, StackInvIs
<1>8. Open(file', stacktracePos, writeOffset, frameCount)
  <2>1. \A p \in stacktracePos..(writeOffset - 1) : file'[p].kind = file[p].kind
    BY <1>3, <1>5
  <2> QED
    BY <1>2, <1>3, <2>1, OpenKept, StackInvIs
<1>9. frameCount + 1 = Cardinality(FrameCellsOf(file', stacktracePos, writeOffset + n))
  <2>1. writeOffset + n \in Nat /\ writeOffset < writeOffset + n
    BY <1>1, <1>3
  <2> QED
    BY <1>3, <1>4, <1>8, <2>1, FrameCounts DEF Open
<1>10. \A p \in (snapshotPos + 1)..((writeOffset + n) - 1) :
         \/ p \in (snapshotPos + 1)..(writeOffset - 1) /\ file'[p] = file[p]
         \/ p = writeOffset
         \/ p \in (writeOffset + 1)..((writeOffset + n) - 1)
  <2>1. \A p \in (snapshotPos + 1)..((writeOffset + n) - 1) :
         \/ p \in (snapshotPos + 1)..(writeOffset - 1) /\ p \in Nat /\ p < writeOffset
         \/ p = writeOffset
         \/ p \in (writeOffset + 1)..((writeOffset + n) - 1)
    BY <1>1, <1>3
  <2> QED
    BY <1>5, <2>1
<1>11. Records(file', snapshotPos, writeOffset + n)
  <2>1. Records(file, snapshotPos, writeOffset)
    BY <1>2, StackInvIs
  <2> QED
    BY <1>4, <1>10, <2>1 DEF Records
<1>12. Open(file', stacktracePos, writeOffset + n, frameCount + 1)
  <2>1. \A p \in (stacktracePos + 1)..((writeOffset + n) - 1) :
         \/ p \in (stacktracePos + 1)..(writeOffset - 1)
         \/ p = writeOffset
         \/ p \in (writeOffset + 1)..((writeOffset + n) - 1)
    BY <1>1, <1>3
  <2> QED
    BY <1>4, <1>8, <1>9, <2>1 DEF Open
<1> QED
  BY <1>2, <1>6, <1>7, <1>8, <1>11, <1>12 DEF StackInv, Records, Closed, Open, OpenFrames

LEMMA CloseStacktraceStacks ==
  ASSUME IInv, StackInv, CloseStacktrace, phase' # "frame"
  PROVE  StackInv'
<1>1. /\ inProgress /\ snapshotPos' = snapshotPos /\ stacktraceCount' = stacktraceCount + 1
      /\ writeOffset' = writeOffset
      /\ stacktraceOpen /\ stacktraceOpen' = FALSE
      /\ file' = [file EXCEPT ![stacktracePos].n = frameCount]
  BY DEF CloseStacktrace
<1>2. /\ snapshotPos \in Nat /\ writeOffset \in Nat /\ stacktracePos \in Nat /\ stacktraceCount \in Nat
      /\ snapshotPos < stacktracePos /\ stacktracePos < writeOffset /\ writeOffset <= heapStart /\ heapStart \in Nat
  BY <1>1, Places
<1>3. /\ \A p \in Nat : p < writeOffset => file'[p].kind = file[p].kind
      /\ \A p \in Nat : p < writeOffset /\ p # stacktracePos => file'[p] = file[p]
      /\ file'[stacktracePos].n = frameCount
  <2>1. \A p \in Nat : p < writeOffset => p \in Positions
    <3>1. heapOffset \in Nat /\ heapStart + heapOffset <= MaxFileSize /\ MaxFileSize \in Nat
      BY <1>1, SizesAssumption DEF IInv, HeapInv, LayoutTypes
    <3> QED
      BY <1>2, <3>1 DEF Positions
  <2>2. file \in [Positions -> Cells]
    BY DEF IInv, LayoutTypes, Mapping
  <2>3. stacktracePos \in Positions
    BY <1>2, <2>1
  <2> QED
    BY <1>1, <2>1, <2>2, <2>3 DEF Cells
<1>4. Top = stacktracePos /\ Top' = writeOffset
  BY <1>1 DEF Top
<1>5. Records(file', snapshotPos, writeOffset)
  <2>1. Records(file, snapshotPos, writeOffset)
    BY <1>1, StackInvIs
  <2> QED
    BY <1>2, <1>3, <2>1 DEF Records
<1>6. Closed(file', snapshotPos, writeOffset, stacktraceCount + 1)
  <2>1. Closed(file, snapshotPos, stacktracePos, stacktraceCount) /\ Open(file, stacktracePos, writeOffset, frameCount)
    BY <1>1, <1>4, StackInvIs
  <2>2. Alike(file, file', snapshotPos, stacktracePos)
    BY <1>2, <1>3 DEF Alike
  <2>3. \A p \in stacktracePos..(writeOffset - 1) : file'[p].kind = file[p].kind
    BY <1>2, <1>3
  <2> QED
    BY <1>2, <1>3, <2>1, <2>2, <2>3, ClosedMore
<1> QED
  BY <1>1, <1>4, <1>5, <1>6 DEF StackInv, Records, Closed, OpenFrames

\* Taking back the newest frame, or the stacktrace as a whole.
LEMMA RollbackStacks ==
  ASSUME IInv, StackInv, inProgress, RollbackWriteOffset
  PROVE  StackInv'
<1>1. /\ phase = "frame" /\ phase' = "closing" /\ writeOffset' = savedOffset
      /\ frameCount' = IF frameCount > 0 THEN frameCount - 1 ELSE frameCount
      /\ UNCHANGED <<file, snapshotPos, stacktraceCount, stacktraceOpen, stacktracePos>>
  BY DEF RollbackWriteOffset, RollBackTo, DropFrame
<1>2. stacktraceOpen
  BY <1>1 DEF IInv, CaptureInv
<1>3. /\ snapshotPos \in Nat /\ writeOffset \in Nat /\ stacktracePos \in Nat /\ savedOffset \in Nat
      /\ snapshotPos < stacktracePos /\ stacktracePos < savedOffset /\ savedOffset <= writeOffset
  BY <1>1, <1>2, Places
<1>4. Top = stacktracePos /\ Top' = stacktracePos
  BY <1>1, <1>2 DEF Top
<1>5. frameCount' = Cardinality(FrameCellsOf(file, stacktracePos, savedOffset))
  <2>1. frameCount = Cardinality(FrameCellsOf(file, stacktracePos, savedOffset)) + 1
    BY <1>1, StackInvIs
  <2>2. Cardinality(FrameCellsOf(file, stacktracePos, savedOffset)) \in Nat
    BY <1>3, Finite
  <2> QED
    BY <1>1, <2>1, <2>2
<1>6. Records(file, snapshotPos, savedOffset)
  <2>1. Records(file, snapshotPos, writeOffset)
    BY StackInvIs
  <2> QED
    BY <1>3, <2>1 DEF Records
<1>7. Open(file, stacktracePos, savedOffset, frameCount')
  <2>1. Open(file, stacktracePos, writeOffset, frameCount)
    BY <1>2, StackInvIs
  <2> QED
    BY <1>3, <1>5, <2>1 DEF Open
<1>8. Closed(file, snapshotPos, stacktracePos, stacktraceCount)
  BY <1>4, StackInvIs
<1> QED
  BY <1>1, <1>4, <1>6, <1>7, <1>8 DEF StackInv, Records, Closed, Open, OpenFrames

LEMMA DiscardStacktraceStacks ==
  ASSUME IInv, StackInv, inProgress, DiscardCurrentStacktrace
  PROVE  StackInv'
<1>1. stacktraceOpen
  BY DEF DiscardCurrentStacktrace, IInv, CaptureInv
<1>2. /\ writeOffset' = stacktracePos /\ stacktraceOpen' = FALSE /\ phase' # "frame"
      /\ UNCHANGED <<file, snapshotPos, stacktraceCount>>
  BY <1>1 DEF DiscardCurrentStacktrace, RollBackTo, AfterStacktrace
<1>3. snapshotPos \in Nat /\ writeOffset \in Nat /\ stacktracePos \in Nat
      /\ snapshotPos < stacktracePos /\ stacktracePos < writeOffset
  BY <1>1, Places
<1>4. Top = stacktracePos /\ Top' = stacktracePos
  BY <1>1, <1>2 DEF Top
<1>5. Records(file, snapshotPos, stacktracePos)
  <2>1. Records(file, snapshotPos, writeOffset)
    BY StackInvIs
  <2> QED
    BY <1>3, <2>1 DEF Records
<1>6. Closed(file, snapshotPos, stacktracePos, stacktraceCount)
  BY <1>4, StackInvIs
<1> QED
  BY <1>2, <1>4, <1>5, <1>6 DEF StackInv, Records, Closed, OpenFrames

\* The steps that leave the records as they are.
SameRecords ==
  /\ UNCHANGED recordVars /\ UNCHANGED writeOffset
  /\ \A p \in Nat : p < writeOffset => file'[p] = file[p]
  /\ phase' = "frame" => phase = "frame" /\ savedOffset' = savedOffset

LEMMA SameRecordsStacks ==
  ASSUME IInv, StackInv, inProgress, SameRecords
  PROVE  StackInv'
<1>1. /\ UNCHANGED <<inProgress, snapshotPos, stacktraceCount, stacktraceOpen, stacktracePos, frameCount, writeOffset>>
      /\ \A p \in Nat : p < writeOffset => file'[p] = file[p]
  BY DEF SameRecords, recordVars
<1>2. /\ snapshotPos \in Nat /\ writeOffset \in Nat /\ stacktracePos \in Nat /\ savedOffset \in Nat
      /\ snapshotPos < writeOffset /\ Top \in Nat /\ Top <= writeOffset
      /\ stacktraceOpen => stacktracePos < writeOffset
      /\ phase = "frame" => savedOffset <= writeOffset
  BY Places
<1>3. Top' = Top
  BY <1>1 DEF Top
<1>4. Records(file', snapshotPos, writeOffset)
  <2>1. Records(file, snapshotPos, writeOffset)
    BY StackInvIs
  <2> QED
    BY <1>1, <1>2, <2>1 DEF Records
<1>5. Closed(file', snapshotPos, Top, stacktraceCount)
  <2>1. Alike(file, file', snapshotPos, Top)
    BY <1>1, <1>2 DEF Alike
  <2> QED
    BY <1>2, <2>1, ClosedKept, StackInvIs
<1>6. stacktraceOpen => Open(file', stacktracePos, writeOffset, frameCount)
  <2>1. \A p \in stacktracePos..(writeOffset - 1) : file'[p].kind = file[p].kind
    BY <1>1, <1>2
  <2> QED
    BY <1>2, <2>1, OpenKept, StackInvIs
<1>7. phase' = "frame" => frameCount' = Cardinality(FrameCellsOf(file', stacktracePos', savedOffset')) + 1
  <2> SUFFICES ASSUME phase' = "frame"
               PROVE  frameCount = Cardinality(FrameCellsOf(file', stacktracePos, savedOffset)) + 1
    BY <1>1 DEF SameRecords
  <2>1. phase = "frame"
    BY DEF SameRecords
  <2>2. \A p \in (stacktracePos + 1)..(savedOffset - 1) : file'[p].kind = file[p].kind
    BY <1>1, <1>2, <2>1
  <2>3. FrameCellsOf(file', stacktracePos, savedOffset) = FrameCellsOf(file, stacktracePos, savedOffset)
    BY <1>2, <2>2, SameFrames
  <2> QED
    BY <2>1, <2>3, StackInvIs
<1> QED
  BY <1>1, <1>3, <1>4, <1>5, <1>6, <1>7 DEF StackInv, Records, Closed, Open, OpenFrames

LEMMA StackStep ==
  ASSUME IInv, StackInv, [Next]_vars
  PROVE  StackInv'
<1>1. CASE ~inProgress'
  BY <1>1 DEF StackInv
<1>2. CASE ~inProgress /\ ~BeginSnapshot
  <2>1. ~inProgress'
    <3>1. CASE Initialize \/ FinalizeDiscard \/ Finalize
      BY <1>2, <3>1 DEF Initialize, FinalizeDiscard, Finalize, Cleanup
    <3>3. ~BeginStacktrace /\ ~WriteFrameRecord /\ ~EndStacktrace /\ ~EndEmptyStacktrace /\ ~EndSnapshot
      BY <1>2 DEF BeginStacktrace, WriteFrameRecord, EndStacktrace, EndEmptyStacktrace, CloseStacktrace, EndSnapshot
    <3>4. ASSUME NEW id \in ObjectIds, WriteObject(id) \/ RegisterObject(id) PROVE ~inProgress'
      BY <1>2, <3>4 DEF WriteObject, RegisterObject, recordVars
    <3>5. CASE FrameDone \/ Throws
      BY <1>2, <3>5 DEF FrameDone, Throws, recordVars
    <3>6. CASE RollbackWriteOffset \/ DiscardCurrentStacktrace
      BY <1>2, <3>6 DEF RollbackWriteOffset, DiscardCurrentStacktrace
    <3>7. CASE DiscardCurrentSnapshot \/ Catch
      BY <1>2, <3>7 DEF DiscardCurrentSnapshot, DiscardEffect, Catch
    <3>2. CASE UNCHANGED vars
      BY <1>2, <3>2 DEF vars, recordVars
    <3> QED
      BY <1>2, <3>1, <3>2, <3>3, <3>4, <3>5, <3>6, <3>7 DEF Next
  <2> QED
    BY <1>1, <1>2, <2>1
<1>3. CASE inProgress /\ inProgress'
  <2>1. initialized /\ writeOffset \in Nat /\ heapStart \in Nat /\ heapOffset \in Nat /\ writeOffset <= heapStart
    BY <1>3, Places DEF IInv, HeapInv
  <2>2. ~Initialize /\ ~FinalizeDiscard /\ ~Finalize /\ ~BeginSnapshot /\ ~EndSnapshot
        /\ ~DiscardCurrentSnapshot /\ ~Catch
    BY <1>3, <2>1 DEF Initialize, FinalizeDiscard, Finalize, Cleanup, BeginSnapshot, EndSnapshot,
       DiscardCurrentSnapshot, Catch, DiscardEffect
  <2>3. ASSUME NEW id \in ObjectIds, WriteObject(id) PROVE SameRecords
    <3>1. PICK n \in ObjectSizes : ObjectStep(n)
      BY <2>3, WriteObjectIs
    <3> QED
      BY <2>1, <3>1 DEF ObjectStep, SameRecords, captureVars
  <2>4. ASSUME NEW id \in ObjectIds, RegisterObject(id) PROVE SameRecords
    BY <2>4 DEF RegisterObject, SameRecords, layoutVars, captureVars
  <2>5. ASSUME FrameDone \/ Throws PROVE SameRecords
    <3>1. UNCHANGED layoutVars /\ UNCHANGED recordVars /\ phase' # "frame"
      BY <2>5 DEF FrameDone, Throws
    <3>2. file' = file /\ writeOffset' = writeOffset
      BY <3>1 DEF layoutVars
    <3> QED
      BY <3>1, <3>2 DEF SameRecords, recordVars
  <2>7. ASSUME UNCHANGED vars PROVE SameRecords
    <3>1. UNCHANGED layoutVars /\ UNCHANGED recordVars /\ UNCHANGED captureVars
      BY <2>7 DEF vars
    <3>2. file' = file /\ writeOffset' = writeOffset
      BY <3>1 DEF layoutVars
    <3>3. phase' = phase /\ savedOffset' = savedOffset
      BY <3>1 DEF captureVars
    <3> QED
      BY <3>1, <3>2, <3>3 DEF SameRecords, recordVars
  <2>8. CASE EndStacktrace \/ EndEmptyStacktrace
    <3>1. CloseStacktrace /\ phase' # "frame"
      BY <2>8 DEF EndStacktrace, EndEmptyStacktrace, AfterStacktrace
    <3> QED
      BY <3>1, CloseStacktraceStacks
  <2> QED
    BY <1>3, <2>2, <2>3, <2>4, <2>5, <2>7, <2>8, SameRecordsStacks, BeginStacktraceStacks,
       WriteFrameRecordStacks, RollbackStacks, DiscardStacktraceStacks DEF Next
<1>4. CASE BeginSnapshot
  BY <1>4, BeginSnapshotStacks
<1> QED
  BY <1>1, <1>2, <1>3, <1>4

(***************************************************************************)
(* The snapshots that have ended can be parsed.                            *)
(***************************************************************************)
LEMMA MapCounts ==
  ASSUME NEW f, NEW from \in Nat, NEW to \in Nat, NEW n \in Nat, from <= to,
         \A p \in from..(to - 1) : f[p].kind # "map",
         \A p \in to..(to + n - 1) : f[p].kind = "map"
  PROVE  Cardinality(MapCellsIn(f, from, to + n)) = n
<1>1. \A p \in from..(to + n - 1) : p \in from..(to - 1) \/ p \in to..(to + n - 1)
  OBVIOUS
<1>2. to..(to + n - 1) \subseteq from..(to + n - 1)
  OBVIOUS
<1>3. MapCellsIn(f, from, to + n) = to..(to + n - 1)
  BY <1>1, <1>2 DEF MapCellsIn
<1>4. Cardinality(to..(to + n - 1)) = n
  BY FS_Interval
<1> QED
  BY <1>3, <1>4

\* The snapshot that ends parses.
LEMMA EndSnapshotParses ==
  ASSUME IInv, ListInv, StackInv, EndSnapshot, NEW n, NEW g, EndStep(n, g)
  PROVE  Parses(file', [pos |-> snapshotPos, end |-> writeOffset + n, map |-> objectMap])
<1> DEFINE s == snapshotPos
           w == writeOffset
           e == writeOffset + n
<1>1. inProgress /\ ~stacktraceOpen
  BY DEF EndSnapshot
<1>2. s \in Nat /\ w \in Nat /\ s < w /\ w <= heapStart /\ heapStart \in Nat /\ n \in Nat /\ Top = w
  BY <1>1, Places DEF EndStep, Top
<1>3. /\ \A p \in Nat : p < w => g[p] = file[p]
      /\ \A p \in w..(e - 1) : g[p].kind = "map"
  <2>1. \A p \in Nat : p < w => g[p] = file[p]
    BY <1>2 DEF EndStep, RecordStep
  <2>2. \A k \in 0..(n - 1) : g[w + k].kind = "map"
    <3>1. \A k \in 0..(n - 1) : g[writeOffset + k] = MapCells(n)[k]
      BY DEF EndStep, RecordStep
    <3>2. \A k \in 0..(n - 1) : MapCells(n)[k].kind = "map"
      BY DEF MapCells, CellOf
    <3> QED
      BY <3>1, <3>2
  <2>3. ASSUME NEW p \in w..(e - 1)
        PROVE  g[p].kind = "map"
    <3>1. p - w \in 0..(n - 1) /\ w + (p - w) = p
      BY <1>2
    <3> QED
      BY <2>2, <3>1
  <2> QED
    BY <2>1, <2>3
<1>4. /\ \A p \in s..(e - 1) : file'[p].kind = g[p].kind
      /\ \A p \in s..(e - 1) : p # s => file'[p] = g[p]
      /\ file'[s].n = stacktraceCount
  <2>1. \A p \in s..(e - 1) : p \in Positions
    <3>1. e \in Nat /\ e <= MaxFileSize /\ MaxFileSize \in Nat
      <4>1. heapStart' \in Nat /\ heapOffset \in Nat /\ e <= heapStart' /\ heapStart' + heapOffset <= MaxFileSize
        BY DEF EndStep, RecordStep
      <4>2. PICK h \in Nat : h = heapStart'
        BY <4>1
      <4>3. MaxFileSize \in Nat /\ e \in Nat
        BY <1>2, SizesAssumption
      <4>4. e <= h /\ h + heapOffset <= MaxFileSize /\ heapOffset \in Nat
        BY <4>1, <4>2
      <4> HIDE DEF e
      <4> QED
        BY <4>3, <4>4
    <3> QED
      BY <1>2, <3>1 DEF Positions
  <2>2. g \in [Positions -> Cells] /\ file' = [g EXCEPT ![s].n = stacktraceCount]
    BY DEF EndStep, RecordStep, Mapping
  <2>3. s \in s..(e - 1)
    BY <1>2
  <2> HIDE DEF s, e
  <2> QED
    BY <2>1, <2>2, <2>3 DEF Cells
<1>5. /\ Records(file, s, w) /\ Closed(file, s, w, stacktraceCount) /\ file[s].kind = "snap"
  BY <1>1, <1>2, StackInvIs DEF ListInv
<1>6. \A p \in s..(w - 1) : p \in s..(e - 1) /\ p \in Nat /\ p < w
  BY <1>2
<1>7. \A p \in w..(e - 1) : p \in s..(e - 1)
  BY <1>2
<1> HIDE DEF s, w, e
<1>8. \A p \in s..(w - 1) : file'[p].kind = file[p].kind
  BY <1>3, <1>4, <1>6
<1>9. \A p \in w..(e - 1) : file'[p].kind = "map"
  BY <1>3, <1>4, <1>7
<1>10. Closed(file', s, w, stacktraceCount)
  <2>1. Alike(file, file', s, w)
    <3>1. \A p \in s..(w - 1) : file[p].kind = "stack" => file'[p].n = file[p].n
      BY <1>3, <1>4, <1>5, <1>6
    <3> QED
      BY <1>8, <3>1 DEF Alike
  <2> QED
    BY <1>2, <1>5, <2>1, ClosedKept
<1>11. e \in Nat /\ w <= e /\ s <= w /\ e = w + n
  BY <1>2 DEF e, w
<1>12. CountsOK(file', s, e)
  BY <1>2, <1>9, <1>10, <1>11, CountsEnd DEF Closed
<1>13. file'[s].n = Cardinality(StackCellsIn(file', s, e))
  <2>1. StackCellsIn(file', s, e) = StackCellsIn(file', s, w)
    BY <1>2, <1>9, <1>11, StacksEnd
  <2> QED
    BY <1>4, <1>10, <2>1 DEF Closed
<1>14. file'[s].kind = "snap"
  <2>1. s \in s..(w - 1)
    BY <1>2
  <2> QED
    BY <1>5, <1>8, <2>1
<1>15. Cardinality(MapCellsIn(file', s, e)) = Cardinality(Mapped(objectMap))
  <2>1. \A p \in s..(w - 1) : file'[p].kind # "map"
    <3>1. \A p \in s..(w - 1) : p = s \/ p \in (s + 1)..(w - 1)
      BY <1>2
    <3> QED
      BY <1>5, <1>8, <1>14, <3>1 DEF Records
  <2>2. Cardinality(MapCellsIn(file', s, w + n)) = n
    <3>1. w + n - 1 = e - 1
      BY <1>2, <1>11
    <3>2. \A p \in w..(w + n - 1) : file'[p].kind = "map"
      BY <1>9, <3>1
    <3>3. s \in Nat /\ w \in Nat /\ n \in Nat /\ s <= w
      BY <1>2, <1>11
    <3> QED
      BY <2>1, <3>2, <3>3, MapCounts
  <2> QED
    BY <1>11, <2>2 DEF EndStep
<1> QED
  BY <1>12, <1>13, <1>14, <1>15 DEF Parses, s, e

AllParse == \A i \in DOMAIN committed : Parses(file, committed[i])

LEMMA ParseStep ==
  ASSUME IInv, ListInv, StackInv, AllParse, [Next]_vars
  PROVE  AllParse'
<1>1. IInv'
  BY NextInv
<1>2. CASE UNCHANGED vars
  BY <1>2 DEF vars, layoutVars, AllParse
<1>3. CASE Next /\ ~initialized'
  <2>1. committed' = <<>>
    BY <1>1, <1>3 DEF IInv, HeapInv
  <2> QED
    BY <2>1 DEF AllParse
<1>4. CASE Next /\ initialized' /\ ~initialized
  <2>1. committed = <<>>
    BY <1>4 DEF IInv, HeapInv
  <2>2. committed' = committed
    <3>1. Initialize \/ ~initialized'
      BY <1>4 DEF Next, BeginSnapshot, BeginStacktrace, WriteFrameRecord, WriteObject, RegisterObject,
         FrameDone, RollbackWriteOffset, EndStacktrace, EndEmptyStacktrace, CloseStacktrace,
         DiscardCurrentStacktrace, EndSnapshot, DiscardCurrentSnapshot, Throws, Catch, FinalizeDiscard, Finalize
    <3> QED
      BY <1>4, <3>1 DEF Initialize
  <2> QED
    BY <2>1, <2>2 DEF AllParse
<1>5. CASE Next /\ initialized' /\ initialized
  <2>1. ASSUME NEW i \in DOMAIN committed
        PROVE  Parses(file', committed[i])
    <3>1. committed[i] \in Snapshots
      BY DEF IInv, HistoryTypes
    <3>2. committed[i].pos < committed[i].end
      BY CommittedBelow
    <3>3. \A p \in committed[i].pos..(committed[i].end - 1) : file'[p] = file[p]
      BY <1>5, FrozenStep
    <3> QED
      BY <3>1, <3>2, <3>3, SameParse DEF AllParse
  <2>2. CASE committed' = committed
    BY <2>1, <2>2 DEF AllParse
  <2>3. CASE EndSnapshot
    <3>1. PICK n, g : EndStep(n, g)
      BY <2>3, EndSnapshotIs
    <3> DEFINE x == [pos |-> snapshotPos, end |-> writeOffset + n, map |-> objectMap]
    <3>2. Parses(file', x)
      BY <2>3, <3>1, EndSnapshotParses
    <3>3. x \in Snapshots /\ committed' = Append(committed, x)
      BY <3>1, EndedSnapshot DEF EndStep
    <3> HIDE DEF x
    <3>4. committed \in Seq(Snapshots)
      BY DEF IInv, HistoryTypes
    <3>5. \A i \in DOMAIN committed' : (i \in DOMAIN committed /\ committed'[i] = committed[i]) \/ committed'[i] = x
      BY <3>3, <3>4, Appending
    <3> QED
      BY <2>1, <3>2, <3>5 DEF AllParse
  <2> QED
    BY <1>5, <2>2, <2>3, KeptList
<1> QED
  BY <1>2, <1>3, <1>4, <1>5

LEMMA ReadInit == Init => ReadInv
<1> SUFFICES ASSUME Init
             PROVE  ReadInv
  OBVIOUS
<1>1. /\ ~initialized /\ ~inProgress /\ committed = <<>> /\ objects = <<>> /\ objectMap = EmptyMap
  BY DEF Init
<1>2. Mapped(EmptyMap) = {}
  BY DEF Mapped, EmptyMap
<1> QED
  BY <1>1, <1>2 DEF ReadInv, ListInv, ObjectInv, StackInv, MapsResolve

LEMMA ReadStep == IInv /\ ReadInv /\ [Next]_vars => ReadInv'
BY ListStep, ObjectStepInv, StackStep, ParseStep DEF ReadInv, AllParse

\* In every reachable state of the writer what a reader finds is in order.
THEOREM ReadInvariance == Spec => []ReadInv
BY ReadInit, ReadStep, Invariance, PTL DEF Spec

\* A reader that follows the previous positions from the file header, in the
\* mapping or in the file, comes by every snapshot that has ended, newest
\* first, and by nothing else; the header counts them.
THEOREM ChainCorrect == Spec => []ChainOK
<1>1. ReadInv => ChainOK
  BY DEF ReadInv, ListInv, NewestPos, ChainOK
<1> QED
  BY <1>1, ReadInvariance, PTL

\* A reader that goes by the counts in the headers finds the stacktraces, the
\* frames and the object map of every snapshot that has ended, whatever was
\* cancelled, failed or discarded while it was captured.
THEOREM ParsesCorrect == Spec => []CommittedParses
<1>1. ReadInv => CommittedParses
  BY DEF ReadInv, Parses, CommittedParses, CountsOK, CountsAgree, StackCellsIn, StacksIn,
     FrameCellsOf, FramesOf, MapCellsIn
<1> QED
  BY <1>1, ReadInvariance, PTL

\* A reader finds every object at the heap position of the file header plus
\* the offset an object map gives, however often the heap was moved.
THEOREM ReadableCorrect == Spec => []ObjectsReadable
<1>1. ReadInv => ObjectsReadable
  BY DEF ReadInv, ListInv, ObjectInv, ObjectsReadable, HeapReadable
<1> QED
  BY <1>1, ReadInvariance, PTL

(***************************************************************************)
(* The output file.                                                        *)
(***************************************************************************)

\* Which steps write an output.
LEMMA OutputStep ==
  ASSUME [Next]_vars, output'.written, ~output.written
  PROVE  Finalize
<1>1. output' = output \/ output' = NoOutput \/ Finalize
  BY DEF Next, Initialize, FinalizeDiscard, BeginSnapshot, BeginStacktrace, WriteFrameRecord,
     WriteObject, RegisterObject, FrameDone, RollbackWriteOffset, EndStacktrace, EndEmptyStacktrace,
     CloseStacktrace, DiscardCurrentStacktrace, EndSnapshot, DiscardCurrentSnapshot, Throws, Catch, vars
<1> QED
  BY <1>1 DEF NoOutput

\* What finalize(path) writes, with n cells behind the heap.
Trailed(n) == Put(file, heapStart + heapOffset, n, TailCells(n))
Written(n) == CompactOutput(Trailed(n), heapStart + heapOffset + n)
LEMMA FinalizeIs ==
  ASSUME Finalize
  PROVE  /\ initialized
         /\ \E n \in Nat, writes \in BOOLEAN :
              /\ heapStart + heapOffset + n <= MaxFileSize
              /\ output' = IF writes /\ ~(writeOffset > heapStart + heapOffset + n)
                             THEN Written(n) ELSE NoOutput
<1>1. \A n \in TrailerSizes \cup {0} : n \in Nat
  BY DataAssumption
<1> QED
  BY <1>1 DEF Finalize, Written, Trailed, RecordsBehindData

\* The trailing sections go behind all that was there.
LEMMA TrailedKeeps ==
  ASSUME IInv, NEW n \in Nat
  PROVE  \A p \in Positions : p < heapStart + heapOffset => Trailed(n)[p] = file[p]
<1>1. file \in Mapping /\ heapStart + heapOffset \in Nat
  BY DEF IInv, LayoutTypes
<1>2. TailCells(n) \in [0..(n - 1) -> Cells]
  BY RecordCells
<1> QED
  BY <1>1, <1>2, PutCells DEF Trailed

\* Where the cells of the mapping are in the output.
LEMMA OutputCells ==
  ASSUME IInv, initialized, NEW n \in Nat, heapStart + heapOffset + n <= MaxFileSize,
         writeOffset <= heapStart + heapOffset + n
  PROVE  /\ \A p \in Nat : p < writeOffset /\ p < heapStart => CellAt(Written(n).cells, p) = file[p]
         /\ \A k \in 0..(heapOffset - 1) :
              CellAt(Written(n).cells, Written(n).header.heapPos + k) = file[heapStart + k]
<1> DEFINE total == heapStart + heapOffset + n
           gap == IF writeOffset < heapStart THEN heapStart - writeOffset ELSE 0
           f == Trailed(n)
           cells == [p \in 0..(total - gap - 1) |-> IF gap > 0 /\ p >= writeOffset THEN f[p + gap] ELSE f[p]]
<1>1. /\ writeOffset \in Nat /\ heapStart \in Nat /\ heapOffset \in Nat /\ MaxFileSize \in Nat
  BY SizesAssumption DEF IInv, LayoutTypes
<1>2. Written(n).cells = cells /\ Written(n).header.heapPos = heapStart - gap
  BY DEF Written, CompactOutput, AdjustedHeader
<1>3. gap \in Nat /\ (gap > 0 => writeOffset + gap = heapStart) /\ (gap = 0 => heapStart <= writeOffset)
  BY <1>1
<1>4. \A p \in Positions : p < heapStart + heapOffset => f[p] = file[p]
  BY TrailedKeeps
<1> HIDE DEF f, gap
<1>5. ASSUME NEW p \in Nat, p < writeOffset, p < heapStart
      PROVE  CellAt(cells, p) = file[p]
  <2>1. p \in 0..(total - gap - 1)
    BY <1>1, <1>3, <1>5
  <2>2. p \in Positions /\ p < heapStart + heapOffset
    BY <1>1, <1>5 DEF Positions
  <2>3. cells[p] = f[p]
    BY <1>1, <1>5, <2>1
  <2> QED
    BY <1>4, <2>1, <2>2, <2>3 DEF CellAt
<1>6. ASSUME NEW k \in 0..(heapOffset - 1)
      PROVE  CellAt(cells, (heapStart - gap) + k) = file[heapStart + k]
  <2>1. (heapStart - gap) + k \in 0..(total - gap - 1)
    BY <1>1, <1>3
  <2>2. heapStart + k \in Positions /\ heapStart + k < heapStart + heapOffset
    BY <1>1 DEF Positions
  <2>3. f[heapStart + k] = file[heapStart + k]
    BY <1>4, <2>2
  <2>4. cells[(heapStart - gap) + k] = f[heapStart + k]
    <3>1. CASE gap > 0
      <4>1. (heapStart - gap) + k >= writeOffset /\ ((heapStart - gap) + k) + gap = heapStart + k
        BY <1>1, <1>3, <3>1
      <4> QED
        BY <2>1, <3>1, <4>1
    <3>2. CASE gap = 0
      <4>1. (heapStart - gap) + k = heapStart + k
        BY <1>1, <3>2
      <4> QED
        BY <2>1, <3>2, <4>1
    <3> QED
      BY <1>3, <3>1, <3>2
  <2> QED
    BY <2>1, <2>3, <2>4 DEF CellAt
<1> HIDE DEF cells
<1> QED
  BY <1>2, <1>5, <1>6

LEMMA FaithfulStep ==
  ASSUME IInv, ReadInv, [Next]_vars, output'.written, ~output.written
  PROVE  /\ output'.header.last = lastSnapshotPos
         /\ output'.header.count = Len(committed)
         /\ \A i \in DOMAIN committed :
              \A p \in committed[i].pos..(committed[i].end - 1) : CellAt(output'.cells, p) = file[p]
         /\ \A k \in DOMAIN objects : \A j \in 0..(objects[k].size - 1) :
              CellAt(output'.cells, output'.header.heapPos + objects[k].off + j) = CellOf("obj", k, j)
<1>1. initialized
  BY OutputStep, FinalizeIs
<1>2. PICK n \in Nat, writes \in BOOLEAN :
        /\ heapStart + heapOffset + n <= MaxFileSize
        /\ output' = IF writes /\ ~(writeOffset > heapStart + heapOffset + n)
                       THEN Written(n) ELSE NoOutput
  BY OutputStep, FinalizeIs
<1>3. writeOffset \in Nat /\ heapStart \in Nat /\ heapOffset \in Nat
  BY DEF IInv, LayoutTypes
<1>4. output' = Written(n) /\ writeOffset <= heapStart + heapOffset + n
  <2>1. writes /\ ~(writeOffset > heapStart + heapOffset + n)
    BY <1>2 DEF NoOutput
  <2> QED
    BY <1>2, <1>3, <2>1
<1>5. /\ \A p \in Nat : p < writeOffset /\ p < heapStart => CellAt(Written(n).cells, p) = file[p]
      /\ \A k \in 0..(heapOffset - 1) :
           CellAt(Written(n).cells, Written(n).header.heapPos + k) = file[heapStart + k]
  BY <1>1, <1>2, <1>4, OutputCells
<1>6. /\ Written(n).header.last = lastSnapshotPos /\ Written(n).header.count = Len(committed)
  BY <1>1 DEF Written, CompactOutput, AdjustedHeader, ReadInv, ListInv
<1>7. ASSUME NEW i \in DOMAIN committed, NEW p \in committed[i].pos..(committed[i].end - 1)
      PROVE  CellAt(Written(n).cells, p) = file[p]
  <2>1. p \in Nat /\ p < Frontier /\ p < heapStart /\ Frontier \in Nat /\ committed # <<>>
    BY CommittedBelow
  <2>2. Frontier <= writeOffset
    BY <2>1, FrontierBound
  <2> QED
    BY <1>3, <1>5, <2>1, <2>2
<1>8. ASSUME NEW k \in DOMAIN objects, NEW j \in 0..(objects[k].size - 1)
      PROVE  CellAt(Written(n).cells, Written(n).header.heapPos + objects[k].off + j) = CellOf("obj", k, j)
  <2>1. PICK d \in 0..(heapOffset - 1) : d = objects[k].off + j
    BY ObjectWithin
  <2>2. heapStart + objects[k].off + j = heapStart + d
    BY <2>1, ObjectWithin
  <2>3. Written(n).header.heapPos + objects[k].off + j = Written(n).header.heapPos + d
    <3>1. Written(n).header.heapPos \in Int
      BY <1>3 DEF Written, CompactOutput, AdjustedHeader
    <3>2. objects[k].off \in Nat /\ j \in Nat
      BY ObjectWithin
    <3> QED
      BY <2>1, <3>1, <3>2
  <2>4. file[heapStart + d] = CellOf("obj", k, j)
    BY <2>2 DEF ReadInv, ObjectInv
  <2> QED
    BY <1>5, <2>3, <2>4
<1> QED
  BY <1>4, <1>6, <1>7, <1>8

\* The records of a committed snapshot end where the heap begins, or before.
LEMMA GuardHarmlessNow ==
  ASSUME IInv, initialized, committed # <<>>, NEW n \in TrailerSizes \cup {0}
  PROVE  ~RecordsBehindData(heapStart + heapOffset + n)
<1>1. n \in Nat
  BY DataAssumption
<1>2. writeOffset \in Nat /\ heapStart \in Nat /\ heapOffset \in Nat
  BY DEF IInv, LayoutTypes
<1>3. writeOffset <= heapStart
  <2>1. CASE inProgress
    BY <2>1, Places
  <2>2. CASE ~inProgress
    <3>1. Len(committed) \in DOMAIN committed
      BY DEF IInv, HistoryTypes
    <3>2. writeOffset = committed[Len(committed)].end /\ committed[Len(committed)].end <= heapStart
      BY <2>2, <3>1 DEF IInv, CommittedInv, Frontier
    <3> QED
      BY <3>2
  <2> QED
    BY <2>1, <2>2
<1> QED
  BY <1>1, <1>2, <1>3 DEF RecordsBehindData

\* What finalize(path) writes, when it can write, holds every snapshot that has
\* ended and every object where its header says, without the gap between the
\* records and the heap; and its own check does not keep it from writing.
THEOREM OutputCorrect == Spec => OutputComplete
<1>1. IInv /\ ReadInv /\ [Next]_vars => [OutputFaithful]_vars
  BY FaithfulStep DEF OutputFaithful
<1>2. IInv => GuardHarmless
  BY GuardHarmlessNow DEF GuardHarmless
<1>3. IInv /\ ReadInv /\ [Next]_vars => [OutputFaithful /\ GuardHarmless]_vars
  BY <1>1, <1>2
<1> QED
  BY <1>3, Invariance, ReadInvariance, PTL DEF Spec, OutputComplete

=============================================================================
