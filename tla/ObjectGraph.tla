---------------------------- MODULE ObjectGraph ----------------------------
(***************************************************************************)
(* How a capture walks the objects of a running Python program: the queue  *)
(* of SnapshotCapture::processFrameObjects, the cases of processObject,    *)
(* and the two tables of SnapshotWriter that keep an object from being     *)
(* written twice, in one snapshot (objectIdToOffset_) and in one file      *)
(* (globalObjectCache_).                                                   *)
(*                                                                         *)
(* An object is known by its address, and the program goes on between      *)
(* snapshots, and also within one, whenever repr() of an object lets       *)
(* another thread run: it changes objects, drops them, and gets new ones   *)
(* at the addresses of those nobody refers to any more.                    *)
(*                                                                         *)
(* The attributes or elements of an object are its kids.  What else it     *)
(* shows (its value, or what its repr() says) is its text.                 *)
(***************************************************************************)
EXTENDS Integers, Sequences, FiniteSets

CONSTANTS
  Ids,          \* addresses
  Types,        \* those of the types below that occur
  Texts,        \* what an object shows
  MaxKids,      \* bound: kids of an object
  MaxLocals,    \* bound: local variables of a frame
  MaxDepth,     \* max_object_depth
  HashHead,     \* 32: kids that the identity hash mixes in
  HashTail,     \* 8: kids that it mixes in from the end, if there are more
  FrameCount,   \* frames to capture
  FirstStack,   \* how many of them are of the first stacktrace
  MaxChanges,   \* bound: what the program does meanwhile
  MaxSnapshots  \* bound: snapshots

\* leaf: None, bool, int, float.  string: str, bytes.  unwritable: a str that has
\* no UTF-8 form, or an int with more digits than str() gives out.  list: list,
\* tuple, dict, set, frozenset.  sub: an instance of a subclass of one of these.
\* opaque: module, type, function, generator, ...  custom: an instance of any
\* other type.
Primitive == {"leaf", "string", "unwritable"}
Containers == {"list", "sub", "custom"}

\* Whose repr() is asked for, and may let other threads run.
Shown == {"sub", "opaque", "custom"}

ASSUME TypesAssumption ==
  Types \subseteq Primitive \cup Containers \cup {"opaque"} /\ Texts # {}
ASSUME BoundsAssumption ==
  /\ {MaxKids, MaxLocals, MaxDepth, HashHead, HashTail} \subseteq Nat
  /\ HashTail <= HashHead
  /\ {FrameCount, FirstStack, MaxChanges, MaxSnapshots} \subseteq Nat

VARIABLES
  obj,          \* the object at each address
  locals,       \* the local variables of each frame
  changes,      \* how many changes the program has made
  phase,        \* "idle", "frame", "objects", "repr" or "ended"
  cancel,       \* cancelRequested_
  frame,        \* the frame to capture, or being captured
  written,      \* the frame records in the file
  queue,        \* processingQueue: objects and their depths
  current,      \* the object whose repr() runs
  depthHit,     \* objectDepthHit of each stacktrace
  objectMap,    \* objectIdToOffset_
  cache,        \* globalObjectCache_
  heap,         \* the objects written to the file
  mark,         \* history: the size of the heap when the snapshot began
  truth,        \* history: what this snapshot found at each address, and where
  missing,      \* history: where it found a string or an int that it could not write
  snapshots     \* snapshots begun

programVars == <<obj, locals, changes>>
frameVars == <<frame, written, queue, depthHit>>
tableVars == <<objectMap, cache, heap, truth, missing>>
vars == <<programVars, phase, cancel, frameVars, current, tableVars, mark, snapshots>>

SeqsUpTo(S, n) == UNION {[1..k -> S] : k \in 0..n}
Elements(s) == {s[k] : k \in DOMAIN s}

Stack(f) == IF f <= FirstStack THEN 1 ELSE 2

(***************************************************************************)
(* The program.                                                            *)
(***************************************************************************)
Plain == CHOOSE t \in Texts : TRUE

\* The kids, and the texts, that an object of a type may have.
KidsOf(type) == IF type \in Containers THEN SeqsUpTo(Ids, MaxKids) ELSE {<<>>}
TextsOf(type) == IF type \in {"list", "unwritable"} THEN {Plain} ELSE Texts

ObjectsOf(type, life) ==
  {[type |-> type, kids |-> k, text |-> t, life |-> life] : k \in KidsOf(type), t \in TextsOf(type)}

\* What the frames and the capture refer to, and what can be reached from it.
Held ==
  (UNION {Elements(locals[f]) : f \in 1..FrameCount})
    \cup {queue[k].id : k \in DOMAIN queue}
    \cup (IF phase = "repr" THEN {current.id} ELSE {})
Live ==
  LET held == Held
  IN  {id \in Ids : \A S \in SUBSET Ids :
         held \subseteq S /\ (\A x \in S : Elements(obj[x].kids) \subseteq S) => id \in S}

\* The program runs between snapshots, and while a repr() does.
Running == phase \in {"idle", "repr"} /\ changes < MaxChanges

\* Objects referred to that nobody did refer to are new ones.
NewObjects == {o \in UNION {ObjectsOf(type, 0) : type \in Types} : o.kids = <<>>}
Allocate(base, news) ==
  [id \in Ids |-> IF id \in DOMAIN news THEN [news[id] EXCEPT !.life = obj[id].life + 1]
                                        ELSE base[id]]

Change(id) ==
  /\ Running
  /\ id \in Live /\ obj[id].type \in Containers
  /\ \E o \in ObjectsOf(obj[id].type, obj[id].life) :
       /\ o # obj[id]
       /\ \E news \in [Elements(o.kids) \ Live -> NewObjects] :
            obj' = Allocate([obj EXCEPT ![id] = o], news)
  /\ changes' = changes + 1
  /\ UNCHANGED <<locals, phase, cancel, frameVars, current, tableVars, mark, snapshots>>

Rebind(f) ==
  /\ Running
  /\ \E k \in DOMAIN locals[f], id \in Live :
       /\ id # locals[f][k]
       /\ locals' = [locals EXCEPT ![f][k] = id]
  /\ changes' = changes + 1
  /\ UNCHANGED <<obj, phase, cancel, frameVars, current, tableVars, mark, snapshots>>

\* Another thread, or the timer, cancels.
Cancel ==
  /\ phase # "idle"
  /\ cancel' = TRUE
  /\ UNCHANGED <<programVars, phase, frameVars, current, tableVars, mark, snapshots>>

(***************************************************************************)
(* The tables of the writer.                                               *)
(***************************************************************************)
Unmapped == -1
Mapped == {id \in Ids : objectMap[id] # Unmapped}
NoEntry == [off |-> 0, hash |-> <<>>]
Nothing == [rec |-> <<>>, life |-> 0, frame |-> 0, depth |-> 0]

\* The record of an object in the heap.
Record(type, kids, text, full) == [type |-> type, kids |-> kids, text |-> text, full |-> full]
Recorded(id) == heap[objectMap[id] + 1]

\* What computeIdentityHash sees of the kids.  It is taken for injective.
Window(kids) ==
  IF Len(kids) <= HashHead
    THEN kids
    ELSE SubSeq(kids, 1, HashHead) \o SubSeq(kids, Len(kids) - HashTail + 1, Len(kids))

\* Faulty: the type is left out.
UntypedHash(o, kids) == IF o.type = "string" THEN <<o.text>> ELSE <<Len(kids), Window(kids)>>

\* A string has the hash of its text; any other object that of its type, its
\* size and its kids.
IdentityHash(o, kids) ==
  IF o.type = "string" THEN <<o.type, o.text>> ELSE <<o.type, Len(kids), Window(kids)>>

\* tryLookupObject; and, faulty, without it.
NeverMapped(id) == FALSE

AlreadyMapped(id) == objectMap[id] # Unmapped

\* lookupObjectWithHash: 0 stands for not found, also at offset 0.
Cached(id, hash) == cache[id].hash = hash /\ cache[id].off # 0

\* What the snapshot found is on record once, for the properties.
Found(e, rec) ==
  /\ truth' = [truth EXCEPT ![e.id] =
                 [rec |-> rec, life |-> obj[e.id].life, frame |-> frame, depth |-> e.depth]]
  /\ UNCHANGED missing

\* A write to the heap and registerObject.
Write(e, rec) ==
  /\ heap' = Append(heap, rec)
  /\ objectMap' = [objectMap EXCEPT ![e.id] = Len(heap)]
  /\ Found(e, rec)

\* The same with the cache: registerObjectWithBothCaches.
WriteCached(e, rec, hash) ==
  IF Cached(e.id, hash)
    THEN /\ objectMap' = [objectMap EXCEPT ![e.id] = cache[e.id].off]
         /\ Found(e, rec)
         /\ UNCHANGED <<heap, cache>>
    ELSE /\ Write(e, rec)
         /\ cache' = [cache EXCEPT ![e.id] = [off |-> Len(heap), hash |-> hash]]

(***************************************************************************)
(* A capture.                                                              *)
(***************************************************************************)
Init ==
  /\ obj \in [Ids -> UNION {ObjectsOf(type, 0) : type \in Types}]
  /\ locals \in [1..FrameCount -> SeqsUpTo(Ids, MaxLocals) \ {<<>>}]
  /\ changes = 0
  /\ phase = "idle" /\ cancel = FALSE /\ frame = 0
  /\ written = <<>> /\ queue = <<>> /\ current = NoEntry
  /\ depthHit = <<FALSE, FALSE>>
  /\ objectMap = [id \in Ids |-> Unmapped]
  /\ cache = [id \in Ids |-> NoEntry]
  /\ heap = <<>> /\ mark = 0
  /\ truth = [id \in Ids |-> Nothing] /\ missing = {}
  /\ snapshots = 0

BeginSnapshot ==
  /\ phase = "idle" /\ snapshots < MaxSnapshots
  /\ phase' = "frame" /\ frame' = 1
  /\ mark' = Len(heap)
  /\ snapshots' = snapshots + 1
  /\ UNCHANGED <<programVars, cancel, written, queue, depthHit, current, tableVars>>

\* The next frame, or the end: extractLocalVars and writeFrameRecord.
BeginFrame ==
  /\ phase = "frame"
  /\ IF cancel \/ frame > FrameCount
       THEN phase' = "ended" /\ UNCHANGED <<written, queue>>
       ELSE /\ phase' = "objects"
            /\ written' = Append(written, [stack |-> Stack(frame), ids |-> locals[frame]])
            /\ queue' = [k \in DOMAIN locals[frame] |-> [id |-> locals[frame][k], depth |-> 0]]
  /\ UNCHANGED <<programVars, cancel, frame, depthHit, current, tableVars, mark, snapshots>>

\* Faulty: the frame stays.
KeepFrame == UNCHANGED written

\* rollbackWriteOffset
DropFrame == written' = SubSeq(written, 1, Len(written) - 1)

\* An object is done: a cancellation takes the frame back, and ends the capture.
Proceed(rest) ==
  IF cancel
    THEN phase' = "ended" /\ queue' = <<>> /\ DropFrame
    ELSE phase' = "objects" /\ queue' = rest /\ UNCHANGED written

\* Faulty: the queue is a stack.
Pushed(rest, kids, depth) == [k \in DOMAIN kids |-> [id |-> kids[k], depth |-> depth]] \o rest

Queued(rest, kids, depth) == rest \o [k \in DOMAIN kids |-> [id |-> kids[k], depth |-> depth]]

First == Head(queue)
AtLimit(e) == obj[e.id].type \notin Primitive /\ e.depth >= MaxDepth
Processing == phase = "objects" /\ queue # <<>>

Skip ==
  /\ Processing /\ AlreadyMapped(First.id)
  /\ Proceed(Tail(queue))
  /\ UNCHANGED <<programVars, cancel, frame, depthHit, current, tableVars, mark, snapshots>>

\* Nothing is written, and nothing registered, for a string that cannot be encoded
\* and for an int whose str() raises.
ProcessUnwritable ==
  /\ Processing /\ ~AlreadyMapped(First.id)
  /\ obj[First.id].type = "unwritable"
  /\ missing' = missing \cup {First.id}
  /\ Proceed(Tail(queue))
  /\ UNCHANGED <<programVars, cancel, frame, depthHit, current, objectMap, cache, heap, truth>>
  /\ UNCHANGED <<mark, snapshots>>

ProcessLeaf ==
  /\ Processing /\ ~AlreadyMapped(First.id)
  /\ obj[First.id].type = "leaf"
  /\ Write(First, Record("leaf", <<>>, obj[First.id].text, TRUE))
  /\ Proceed(Tail(queue))
  /\ UNCHANGED <<programVars, cancel, frame, depthHit, current, cache, mark, snapshots>>

\* A string, or a container that needs no repr().
ProcessCached ==
  /\ Processing /\ ~AlreadyMapped(First.id)
  /\ ~AtLimit(First)
  /\ LET o == obj[First.id]
     IN  /\ o.type \in {"string", "list"}
         /\ WriteCached(First, Record(o.type, o.kids, o.text, TRUE), IdentityHash(o, o.kids))
         /\ Proceed(Queued(Tail(queue), o.kids, First.depth + 1))
  /\ UNCHANGED <<programVars, cancel, frame, depthHit, current, mark, snapshots>>

\* repr() is called.  The elements of an instance of a subclass have been read,
\* and queued, before; the attributes of any other instance are read after it.
CallRepr ==
  /\ Processing /\ ~AlreadyMapped(First.id)
  /\ LET e == First
         o == obj[e.id]
         early == IF o.type = "sub" /\ ~AtLimit(e) THEN o.kids ELSE <<>>
     IN  /\ AtLimit(e) \/ o.type \in Shown
         /\ current' = [id |-> e.id, depth |-> e.depth, limited |-> AtLimit(e), kids |-> early]
         /\ queue' = Queued(Tail(queue), early, e.depth + 1)
  /\ phase' = "repr"
  /\ UNCHANGED <<programVars, cancel, frame, written, depthHit, tableVars, mark, snapshots>>

\* Faulty: the last object is what counts.
LastHit(s) == depthHit' = [depthHit EXCEPT ![s] = current.limited]

NoteHit(s) == depthHit' = [depthHit EXCEPT ![s] = depthHit[s] \/ current.limited]

\* At the depth limit an object is written without its kids, and not cached;
\* so is, as a string, an opaque one.
ReprReturns ==
  /\ phase = "repr"
  /\ LET c == current
         o == obj[c.id]
         kids == IF o.type = "sub" THEN c.kids ELSE o.kids
     IN  IF c.limited
           THEN /\ Write(c, Record(o.type, <<>>, o.text, FALSE))
                /\ Proceed(queue) /\ UNCHANGED cache
         ELSE IF o.type = "opaque"
           THEN /\ Write(c, Record("string", <<>>, o.text, TRUE))
                /\ Proceed(queue) /\ UNCHANGED cache
         ELSE /\ WriteCached(c, Record(o.type, kids, o.text, TRUE), IdentityHash(o, kids))
              /\ Proceed(IF o.type = "sub" THEN queue ELSE Queued(queue, kids, c.depth + 1))
  /\ NoteHit(Stack(frame))
  /\ current' = NoEntry
  /\ UNCHANGED <<programVars, cancel, frame, mark, snapshots>>

FrameDone ==
  /\ phase = "objects" /\ queue = <<>>
  /\ phase' = "frame" /\ frame' = frame + 1
  /\ UNCHANGED <<programVars, cancel, written, queue, depthHit, current, tableVars, mark, snapshots>>

\* The snapshot is ended or, without a frame, discarded: the heap stays, and
\* the map is cleared.
EndSnapshot ==
  /\ phase = "ended"
  /\ phase' = "idle" /\ cancel' = FALSE /\ frame' = 0
  /\ written' = <<>> /\ depthHit' = <<FALSE, FALSE>>
  /\ objectMap' = [id \in Ids |-> Unmapped]
  /\ truth' = [id \in Ids |-> Nothing] /\ missing' = {}
  /\ UNCHANGED <<programVars, queue, current, cache, heap, mark, snapshots>>

\* Faulty: the cache survives its file.
KeepCache == UNCHANGED cache

ClearCache == cache' = [id \in Ids |-> NoEntry]

\* finalize(), and a new file.
Finalize ==
  /\ phase = "idle" /\ heap # <<>>
  /\ heap' = <<>> /\ mark' = 0
  /\ ClearCache
  /\ UNCHANGED <<programVars, phase, cancel, frameVars, current, objectMap, truth, missing>>
  /\ UNCHANGED snapshots

Next ==
  \/ \E id \in Ids : Change(id)
  \/ \E f \in 1..FrameCount : Rebind(f)
  \/ Cancel
  \/ BeginSnapshot \/ BeginFrame
  \/ Skip \/ ProcessUnwritable \/ ProcessLeaf \/ ProcessCached \/ CallRepr \/ ReprReturns
  \/ FrameDone \/ EndSnapshot \/ Finalize

Spec == Init /\ [][Next]_vars

(***************************************************************************)
(* Properties.  They are about a snapshot when it ends, before its map is  *)
(* cleared, and about the frames that it keeps.                            *)
(***************************************************************************)
Objects == UNION {ObjectsOf(type, life) : type \in Types, life \in Nat}
Records == [type : Types \cup {"string"}, kids : SeqsUpTo(Ids, MaxKids), text : Texts, full : BOOLEAN]

ProgramTypes ==
  /\ obj \in [Ids -> Objects]
  /\ locals \in [1..FrameCount -> SeqsUpTo(Ids, MaxLocals)]
WalkTypes ==
  /\ phase \in {"idle", "frame", "objects", "repr", "ended"}
  /\ cancel \in BOOLEAN /\ frame \in 0..(FrameCount + 1)
  /\ written \in Seq([stack : {1, 2}, ids : Seq(Ids)])
  /\ queue \in Seq([id : Ids, depth : Nat])
  /\ phase = "repr" => current \in [id : Ids, depth : Nat, limited : BOOLEAN, kids : SeqsUpTo(Ids, MaxKids)]
TableTypes ==
  /\ heap \in Seq(Records) /\ mark \in 0..Len(heap)
  /\ objectMap \in [Ids -> 0..(Len(heap) - 1) \cup {Unmapped}]
  /\ cache \in [Ids -> [off : Nat, hash : {<<>>} \cup {IdentityHash(r, r.kids) : r \in Records}]]
  /\ \A id \in Ids : cache[id] # NoEntry => cache[id].off < Len(heap)
HistoryTypes ==
  /\ truth \in [Ids -> [rec : Records \cup {<<>>}, life : Nat, frame : Nat, depth : Nat]]
  /\ missing \in SUBSET Ids

\* The types of the program's objects, of the queue and of the tables; every
\* offset in them is one of the heap.
TypeOK == ProgramTypes /\ WalkTypes /\ depthHit \in [1..2 -> BOOLEAN] /\ TableTypes /\ HistoryTypes

\* What a reader of the snapshot reaches from some ids.
Kids(id) == IF id \in Mapped THEN Elements(Recorded(id).kids) ELSE {}
Reached(ids) ==
  {id \in Ids : \A S \in SUBSET Ids :
     ids \subseteq S /\ (\A x \in S : Kids(x) \subseteq S) => id \in S}

StackIds(s) == UNION {Elements(written[k].ids) : k \in {j \in DOMAIN written : written[j].stack = s}}

\* Nothing that could not be written has left its address to another object that
\* this snapshot then wrote: a repr() let the program run in between.
NoneReplaced == Mapped \cap missing = {}

\* Every variable of a frame that is kept, and everything a reader reaches from
\* it, leads to an object, whatever was cancelled and whatever the program did
\* meanwhile; only a string that cannot be encoded, or an int that is
\* too long for str(), may be missing.
Closed ==
  phase = "ended" /\ NoneReplaced =>
    \A s \in {1, 2} : Reached(StackIds(s)) \subseteq Mapped \cup missing

\* In one snapshot no object is written twice, in any graph: the walk of a
\* cycle ends.
WrittenOnce == phase # "idle" => Len(heap) - mark <= Cardinality(Mapped)

\* What is reached from a frame in fewer than n steps.
Near(ids, n) ==
  LET near[k \in 0..n] ==
        IF k = 0 THEN {} ELSE IF k = 1 THEN ids
        ELSE near[k - 1] \cup UNION {Kids(x) : x \in near[k - 1]}
  IN  near[n]

\* An object is cut off at the depth limit exactly if the frame that reached it
\* first has no shorter way to it.
CutAtDepth ==
  phase = "ended" /\ NoneReplaced =>
    \A id \in Mapped :
      LET f == truth[id].frame
      IN  f <= Len(written) /\ Recorded(id).type \notin Primitive =>
            (Recorded(id).full <=> id \in Near(Elements(written[f].ids), MaxDepth))

\* A stacktrace is flagged exactly if an object was cut off in it first.
FlagAgrees ==
  phase = "ended" =>
    \A s \in {1, 2} :
      depthHit[s] <=> \E id \in Mapped : Stack(truth[id].frame) = s /\ ~Recorded(id).full

\* An object found in the cache of an earlier snapshot has the type, the kids
\* and, if it is a primitive, the value that it has now: although the program
\* has changed objects and used addresses again, and the file may be another.
SameStructure(r, q) ==
  /\ r.type = q.type /\ r.kids = q.kids /\ r.full = q.full
  /\ r.type \in Primitive => r.text = q.text

CacheKeepsStructure == \A id \in Mapped : SameStructure(Recorded(id), truth[id].rec)

\* The comment on globalObjectCache_ says that the identity hash detects whether
\* a mutable object has changed between snapshots: its repr() is in the record.
CacheFresh == \A id \in Mapped : Recorded(id) = truth[id].rec

\* PYTHON_API.md says of max_object_depth that depth 0 is the frame's local
\* variables: with a limit above 0 none of them is cut off.
LocalsFull ==
  phase = "ended" /\ MaxDepth > 0 =>
    \A k \in DOMAIN written : \A id \in Elements(written[k].ids) : id \in Mapped => Recorded(id).full

\* PYTHON_API.md says that object_depth_truncated is True if any objects in the
\* stacktrace were depth-limited.
FlagComplete ==
  phase = "ended" =>
    \A s \in {1, 2} :
      (\E id \in Reached(StackIds(s)) : id \in Mapped /\ ~Recorded(id).full) => depthHit[s]

\* PYTHON_API.md promises a consistent snapshot: an object that is not written
\* again is the one that was written under its id.
SameObject ==
  [][Skip => truth[First.id].life = obj[First.id].life]_vars

=============================================================================
