---------------------------- MODULE DebugSession ----------------------------
(***************************************************************************)
(* SnapshotDebugSession (dap/session.py): the requests of a debug adapter  *)
(* client that looks at the snapshots of one file, and the state they      *)
(* share.  A request is one step, for the server reads the next one only   *)
(* when it has answered; another program may add snapshots to the file in  *)
(* between.  A request that is refused changes nothing and is no step      *)
(* unless it has had an effect before.                                     *)
(*                                                                         *)
(* The last four variables are what the client knows: it forgets its       *)
(* frames and variables when it is told that the program has stopped.      *)
(***************************************************************************)
EXTENDS DebugVariables, DebugSources, ExceptionChains

CONSTANTS
  Files,        \* the .pytb files
  SnapshotsOf,  \* of each file: its snapshots, Corrupt for one that cannot be read
  Embedded,     \* of each file: the <<path, content>> pairs of its source files
  Extracted,    \* those that its reader has extracted to the staging directory
  Filters,      \* the sets of paths that the launch arguments may exclude
  Hiding,       \* the values of hideFilteredFrames
  Starts,       \* the values of the launch argument snapshotIndex
  MaxIds,       \* bound: frame ids of one stop
  MaxRefs,      \* bound: variable references of one stop
  NoFile, NoSnapshot, Corrupt

\* A snapshot is a function from the numbers of its stacktraces; each frame has
\* the <<name, value>> pairs of its local variables in their order.
IsFrame(frame) ==
  /\ IsSequence(frame.locals)
  /\ \A i \in DOMAIN frame.locals : frame.locals[i][2] \in Objects
IsSnapshot(snap) ==
  /\ IsFiniteSet(DOMAIN snap) /\ DOMAIN snap \subseteq Nat \ {0}
  /\ \A t \in DOMAIN snap :
       IsSequence(snap[t].frames) /\ \A i \in DOMAIN snap[t].frames : IsFrame(snap[t].frames[i])

ASSUME SessionAssumption ==
  /\ NoFile \notin Files /\ Corrupt # NoSnapshot /\ Starts \subseteq Int
  /\ \A file \in Files :
       /\ IsSequence(SnapshotsOf[file])
       /\ \A i \in DOMAIN SnapshotsOf[file] :
            /\ SnapshotsOf[file][i] # NoSnapshot
            /\ SnapshotsOf[file][i] # Corrupt => IsSnapshot(SnapshotsOf[file][i])
       /\ IsSequence(Embedded[file]) /\ IsSequence(Extracted[file])

VARIABLES
  reader,       \* _reader
  count,        \* reader.snapshot_count()
  index,        \* _snapshot_index
  current,      \* _current_snapshot
  excluded, hide,
  frames,       \* _frames: the <<stacktrace, index>> of a frame id
  frameIds,     \* _frame_ids, its inverse
  separators,   \* the ids in _separator_frames
  nextFrameId,
  scopes,       \* _frame_scopes: the reference of a frame id
  registry,     \* _variables
  sources,      \* _sources
  preferred,    \* _preferred_thread_name
  known,        \* client: threads that have started and not exited
  stoppedOn,    \* client: the thread of the last stopped event
  seenFrames,   \* client: the frame that each frame id was shown for
  seenRefs      \* client: what each reference was shown for

cursorVars == <<reader, count, index, current>>
filterVars == <<excluded, hide>>
frameVars == <<frames, frameIds, separators, nextFrameId, scopes>>
clientVars == <<known, stoppedOn, seenFrames, seenRefs>>
vars == <<cursorVars, filterVars, frameVars, registry, sources, preferred, clientVars>>

ChainThread == -1
NoThread == 0
ChainName == "<<exception-chain>>"
NoPreference == ""

Snapshot(i) == SnapshotsOf[reader][i + 1]

\* _current_thread_ids, for any snapshot.
ThreadIds(snap) == IF snap = NoSnapshot THEN {} ELSE DOMAIN snap

(***************************************************************************)
(* Which thread a stopped event names: the virtual one if the user looked  *)
(* at that, the first of the name the user looked at, else the virtual     *)
(* one, else the first.                                                    *)
(***************************************************************************)
HasChain(snap, filter) == Exceptions(snap, filter) # {}

\* Faulty: the virtual thread is kept although its exceptions are gone.
PickChainKept(snap, name, filter) ==
  IF name = ChainName THEN ChainThread
  ELSE IF ThreadIds(snap) = {} THEN NoThread ELSE Min(ThreadIds(snap))

PickStopThread(snap, name, filter) ==
  LET named == {t \in ThreadIds(snap) : snap[t].name = name}
  IN  IF HasChain(snap, filter) /\ name = ChainName THEN ChainThread
      ELSE IF named # {} THEN Min(named)
      ELSE IF HasChain(snap, filter) THEN ChainThread
      ELSE IF ThreadIds(snap) = {} THEN NoThread
      ELSE Min(ThreadIds(snap))

(***************************************************************************)
(* Parts of several requests.                                              *)
(***************************************************************************)
\* Faulty: the index from frames to ids survives.
ResetAllButIds ==
  /\ frames' = <<>> /\ separators' = {} /\ nextFrameId' = 1 /\ scopes' = <<>>
  /\ registry' = Clear(registry) /\ UNCHANGED frameIds

\* Faulty: the references of the scopes survive.
ResetAllButScopes ==
  /\ frames' = <<>> /\ frameIds' = <<>> /\ separators' = {} /\ nextFrameId' = 1
  /\ registry' = Clear(registry) /\ UNCHANGED scopes

RefreshStopState ==
  /\ frames' = <<>> /\ frameIds' = <<>> /\ separators' = {} /\ nextFrameId' = 1
  /\ scopes' = <<>>
  /\ registry' = Clear(registry)

\* Faulty: the cursor stays.
LoadOnly(i) ==
  /\ Snapshot(i) # Corrupt
  /\ current' = Snapshot(i) /\ UNCHANGED index
  /\ RefreshStopState

\* _load_snapshot; a snapshot that cannot be read changes nothing.
LoadSnapshot(i) ==
  /\ Snapshot(i) # Corrupt
  /\ index' = i /\ current' = Snapshot(i)
  /\ RefreshStopState

\* _send_stopped_event for the snapshot that is then current.  Without a
\* thread there is no event, only a message.
SendStopped(snap, filter) ==
  LET t == PickStopThread(snap, preferred, filter)
  IN  IF t = NoThread THEN UNCHANGED <<stoppedOn, seenFrames, seenRefs>>
      ELSE stoppedOn' = t /\ seenFrames' = <<>> /\ seenRefs' = <<>>

\* Faulty: the threads that are gone are not reported.
ReconcileStarted(new) ==
  known' = known \cup (ThreadIds(new) \ ThreadIds(current))

\* _reconcile_thread_events, from the current snapshot to a new one.
Reconcile(new) ==
  known' = (known \ (ThreadIds(current) \ ThreadIds(new)))
           \cup (ThreadIds(new) \ ThreadIds(current))

MoveTo(i) ==
  /\ LoadSnapshot(i)
  /\ Reconcile(Snapshot(i))
  /\ SendStopped(Snapshot(i), excluded)
  /\ UNCHANGED <<reader, count, filterVars, sources, preferred>>

(***************************************************************************)
(* Launch and navigation.                                                  *)
(***************************************************************************)
Init ==
  /\ reader = NoFile /\ count \in 0..2 /\ index = 0 /\ current = NoSnapshot
  /\ excluded = {} /\ hide = FALSE
  /\ frames = <<>> /\ frameIds = <<>> /\ separators = {} /\ nextFrameId = 1 /\ scopes = <<>>
  /\ registry = EmptyRegistry /\ sources = NoSources /\ preferred = NoPreference
  /\ known = {} /\ stoppedOn = NoThread /\ seenFrames = <<>> /\ seenRefs = <<>>

\* The program that is watched writes another snapshot.
Capture ==
  /\ reader # NoFile /\ count < Len(SnapshotsOf[reader])
  /\ count' = count + 1
  /\ UNCHANGED <<reader, index, current, filterVars, frameVars, registry, sources,
                 preferred, clientVars>>

\* snapshotIndex counts from the end if it is negative, and is clamped.
ResolveStartIndex(raw, n) == Max({0, Min({IF raw < 0 THEN raw + n ELSE raw, n - 1})})

\* A file without snapshots is waited for.  The effects of a launch stay if
\* its snapshot cannot be read.  The client sends it (or attach) once: a debug
\* adapter serves one session, and the code does not look whether it has a file.
Launch(file, start, filter, hiding) ==
  LET i == ResolveStartIndex(start, count)
      snap == SnapshotsOf[file][i + 1]
  IN  /\ reader = NoFile /\ count <= Len(SnapshotsOf[file])
      /\ reader' = file
      /\ sources' = LoadFromReader(sources, Embedded[file], Extracted[file])
      /\ excluded' = filter /\ hide' = hiding
      /\ IF count = 0 \/ snap = Corrupt
         THEN UNCHANGED <<index, current, frameVars, registry, clientVars>>
         ELSE /\ index' = i /\ current' = snap
              /\ RefreshStopState
              /\ known' = known \cup ThreadIds(snap)
              /\ SendStopped(snap, filter)
      /\ UNCHANGED <<count, preferred>>

\* continue, next, stepIn and stepOut go forward, stepBack and
\* reverseContinue backward.  At an edge the client is stopped again.
Advance(direction) ==
  /\ reader # NoFile
  /\ IF index + direction \in 0..count - 1
     THEN MoveTo(index + direction)
     ELSE /\ RefreshStopState
          /\ IF current = NoSnapshot THEN UNCHANGED <<stoppedOn, seenFrames, seenRefs>>
             ELSE SendStopped(current, excluded)
          /\ UNCHANGED <<cursorVars, filterVars, sources, preferred, known>>

JumpToSnapshot(i) == reader # NoFile /\ i < count /\ MoveTo(i)

\* No thread events are sent.
Restart ==
  /\ reader # NoFile /\ count > 0
  /\ LoadSnapshot(0)
  /\ SendStopped(Snapshot(0), excluded)
  /\ UNCHANGED <<reader, count, filterVars, sources, preferred, known>>

(***************************************************************************)
(* The call stack.                                                         *)
(***************************************************************************)
\* The threads answer: one entry for all exceptions, and the threads that do
\* not consist of excluded frames only.
ListedThreads(snap, filter) ==
  (IF HasChain(snap, filter) THEN {ChainThread} ELSE {})
  \cup {t \in ThreadIds(snap) : ~snap[t].exc /\ ~IsFilteredThread(snap[t], filter)}

\* Faulty: a frame has a new id in each answer.
RegisterAnew(acc, key) ==
  [acc EXCEPT !.frames = With(@, acc.next, key), !.ids = With(@, key, acc.next), !.next = @ + 1]

\* _register_frame
RegisterFrame(acc, key) ==
  IF key \in DOMAIN acc.ids THEN acc
  ELSE [acc EXCEPT !.frames = With(@, acc.next, key), !.ids = With(@, key, acc.next),
                   !.next = @ + 1]

\* A row of the answer: its frame gets an id, and its source a reference; a
\* separator always gets a new id.
AddRow(acc, row) ==
  IF row.kind = "separator"
  THEN [acc EXCEPT !.separators = @ \cup {acc.next}, !.next = @ + 1]
  ELSE LET key == <<row.stack, row.index>>
           reg == RegisterFrame(acc, key)
       IN  [reg EXCEPT !.sources = Describe(@, row.frame.path),
                       !.seen = With(@, reg.ids[key], row.frame)]

ThreadRows(t) ==
  LET shown == ShownFrames(current[t], excluded, hide)
  IN  [i \in DOMAIN shown |-> FrameRow(t, i, shown[i])]

\* stackTrace: the frames that are shown, or the flattened chain; the index
\* of a frame is the one in the answer.
StackTrace(t, start, levels) ==
  /\ current # NoSnapshot
  /\ IF t = ChainThread THEN HasChain(current, excluded) ELSE t \in ThreadIds(current)
  /\ LET rows == IF t = ChainThread THEN ChainRows(current, excluded, hide)
                 ELSE ThreadRows(t)
         acc == FoldLeft(AddRow,
                         [frames |-> frames, ids |-> frameIds, next |-> nextFrameId,
                          separators |-> separators, sources |-> sources, seen |-> seenFrames],
                         Page(rows, start, levels))
     IN  /\ acc.next <= MaxIds + 1
         /\ frames' = acc.frames /\ frameIds' = acc.ids /\ nextFrameId' = acc.next
         /\ separators' = acc.separators /\ sources' = acc.sources /\ seenFrames' = acc.seen
  /\ preferred' = IF t = ChainThread THEN ChainName ELSE current[t].name
  /\ UNCHANGED <<cursorVars, filterVars, scopes, registry, known, stoppedOn, seenRefs>>

(***************************************************************************)
(* Frames and variables.                                                   *)
(***************************************************************************)
\* Faulty: frames are stored outermost first.
LookupReversed(id) ==
  LET key == frames[id]
      all == current[key[1]].frames
  IN  all[Len(all) + 1 - key[2]]

\* _lookup_frame takes the index as one in the frames of the stacktrace.
LookupFrame(id) == current[frames[id][1]].frames[frames[id][2]]

\* scopes; a separator has none.
Scopes(id) ==
  LET ref == IF id \in DOMAIN scopes THEN scopes[id] ELSE registry.next
  IN  /\ id \in DOMAIN frames
      /\ ref <= MaxRefs
      /\ scopes' = With(scopes, id, ref)
      /\ registry' = IF id \in DOMAIN scopes THEN registry ELSE Allot(registry, ScopeEntry(id))
      /\ seenRefs' = IF id \notin DOMAIN seenFrames THEN seenRefs
                     ELSE With(seenRefs, ref, ScopeEntry(seenFrames[id]))
      /\ UNCHANGED <<cursorVars, filterVars, frames, frameIds, separators, nextFrameId,
                     sources, preferred, known, stoppedOn, seenFrames>>

\* The answer to variables; the local variables are listed in their order.
Locals(frame) ==
  [i \in DOMAIN frame.locals |-> Child(frame.locals[i][1], frame.locals[i][2], <<frame.locals[i][1]>>)]

Answer(ref) ==
  LET entry == registry.entries[ref]
  IN  CASE entry.kind = "scope" -> MakeVariables(registry, Locals(LookupFrame(entry.frame)))
        [] entry.kind = "object" -> Expand(registry, entry.value, entry.name)
        [] entry.kind = "attrs" -> ExpandAttrs(registry, entry.value, entry.name)

\* What the client sees in the rows of an answer: the values and, in one row,
\* the attributes of the value that has been expanded.
SeenRow(row, owner) ==
  IF row.kind = "attrs" THEN BundleEntry(owner, NoName) ELSE ObjectEntry(row.value, NoName)

Seen(rows, owner) ==
  LET at(ref) == {i \in DOMAIN rows : rows[i].ref = ref}
      given == {rows[i].ref : i \in DOMAIN rows} \ {0}
  IN  [ref \in DOMAIN seenRefs \cup given |->
         IF ref \in given THEN SeenRow(rows[Max(at(ref))], owner) ELSE seenRefs[ref]]

Variables(ref) ==
  /\ ref \in DOMAIN registry.entries
  /\ Answer(ref).reg.next <= MaxRefs + 1
  /\ registry' = Answer(ref).reg
  /\ seenRefs' = Seen(Answer(ref).rows,
                      IF registry.entries[ref].kind = "scope" THEN "" ELSE registry.entries[ref].value)
  /\ UNCHANGED <<cursorVars, filterVars, frameVars, sources, preferred, known, stoppedOn,
                 seenFrames>>

\* evaluate, of a name that an answer gave: its value becomes a variable.
Evaluate(id, name) ==
  /\ id \in DOMAIN frames
  /\ LET value == Evaluated(LookupFrame(id).locals, name)
         answer == MakeVariables(registry, <<Child(name, value, name)>>)
     IN  /\ value \in Objects
         /\ answer.reg.next <= MaxRefs + 1
         /\ registry' = answer.reg
         /\ seenRefs' = Seen(answer.rows, "")
  /\ UNCHANGED <<cursorVars, filterVars, frameVars, sources, preferred, known, stoppedOn,
                 seenFrames>>

GivenNames ==
  {registry.entries[r].name : r \in {q \in DOMAIN registry.entries :
                                       registry.entries[q].kind = "object"}}

Next ==
  \/ Capture
  \/ \E file \in Files, start \in Starts, filter \in Filters, hiding \in Hiding :
       Launch(file, start, filter, hiding)
  \/ \E direction \in {-1, 1} : Advance(direction)
  \/ \E i \in 0..count - 1 : JumpToSnapshot(i)
  \/ Restart
  \/ \E t \in ThreadIds(current) \cup {ChainThread}, start \in 0..1, levels \in 0..1 :
       StackTrace(t, start, levels)
  \/ \E id \in DOMAIN frames : Scopes(id)
  \/ \E ref \in DOMAIN registry.entries : Variables(ref)
  \/ \E id \in DOMAIN frames, name \in GivenNames : Evaluate(id, name)

Spec == Init /\ [][Next]_vars

(***************************************************************************)
(* Properties.                                                             *)
(***************************************************************************)
\* The snapshot that is shown is the one at the cursor, also when a request
\* that moves the cursor fails because the next one cannot be read; and its
\* threads are answered for: the client was stopped on one that stackTrace
\* finds.
CursorInStep ==
  current # NoSnapshot =>
    /\ index < count /\ current = Snapshot(index)
    /\ ThreadIds(current) # {} =>
         IF stoppedOn = ChainThread THEN ChainThread \in ListedThreads(current, excluded)
         ELSE stoppedOn \in ThreadIds(current)

\* What a reference of the client stands for.
Entry(ref) ==
  LET entry == registry.entries[ref]
  IN  IF entry.kind = "scope" THEN ScopeEntry(LookupFrame(entry.frame))
      ELSE [entry EXCEPT !.name = NoName]

\* An id or a reference that the client was given since it was last stopped is
\* known, and stands for the frame or the value that it was given for: none is
\* given twice, and none of an earlier snapshot is left over.  (Unless frames
\* are hidden.)
AnswersMatchView ==
  current # NoSnapshot /\ ThreadIds(current) # {} /\ ~hide =>
    /\ \A id \in DOMAIN seenFrames : id \in DOMAIN frames /\ LookupFrame(id) = seenFrames[id]
    /\ \A ref \in DOMAIN seenRefs : Resolvable(registry, ref) /\ Entry(ref) = seenRefs[ref]

\* The same with frames that are hidden ("frame_index indexes into the raw
\* list").  It does not hold: the index is one into the frames that are shown.
HiddenMatchView ==
  \A id \in DOMAIN seenFrames : id \in DOMAIN frames => LookupFrame(id) = seenFrames[id]

\* A frame has one id, and a value or a scope one reference, from one stop to the
\* next: a client that asks again gets the numbers it has, although the client
\* asks in pages and a value can contain itself.
OneNumberEach ==
  /\ \A i, j \in DOMAIN frames : frames[i] = frames[j] => i = j
  /\ DOMAIN frames \cap separators = {}
  /\ \A q, r \in DOMAIN registry.entries :
       LET a == registry.entries[q]
           b == registry.entries[r]
       IN  /\ a.kind = "object" /\ b.kind = "object" /\ a.value = b.value => q = r
           /\ a.kind = "scope" /\ b.kind = "scope" /\ a.frame = b.frame => q = r

\* The source text that the client gets for a frame whose file is embedded is
\* the text of that file, though other files have the same name; and a
\* reference that was given is never for another file.  A path that exists where
\* the adapter runs is left out: the client reads that file, embedded or not.
SourceExact ==
  /\ \A id \in DOMAIN seenFrames :
       LET path == seenFrames[id].path
       IN  path \in DOMAIN sources.embedded /\ ~IsFile(path) =>
             ContentOf(sources, ReferenceOf(sources, path)) = sources.embedded[path]
  /\ \A m, n \in DOMAIN sources.keys : sources.keys[m] = sources.keys[n] => m = n

\* The launch, a step and a jump report exactly the threads that come and go: a
\* client that knew the threads of the snapshot it left knows those of the next.
\* (Restart reports none, so that after one the client may be wrong for good.)
Navigation ==
  \/ \E file \in Files, start \in Starts, filter \in Filters, hiding \in Hiding :
       Launch(file, start, filter, hiding)
  \/ \E direction \in {-1, 1} : Advance(direction)
  \/ \E i \in 0..count - 1 : JumpToSnapshot(i)
NavigationKeepsThreads ==
  [][Navigation => (known = ThreadIds(current) => known' = ThreadIds(current'))]_vars
=============================================================================
