---------------------------- MODULE Stacktraces ----------------------------
(***************************************************************************)
(* What a snapshot says of the stacks it was taken of: which stacktraces   *)
(* and frames it has, which of them are flagged as truncated, and how the  *)
(* exceptions of a chain are linked, in the capture functions of           *)
(* SnapshotCapture.cpp and in the reader's reconstruct_exception().        *)
(*                                                                         *)
(* One snapshot is captured.  Another thread, or the timer, may cancel it  *)
(* at any time.  What is done with the objects of a frame is in            *)
(* ObjectGraph.tla, and how records are laid out in SnapshotWriter.tla.    *)
(***************************************************************************)
EXTENDS Integers, Sequences, FiniteSets

CONSTANTS
  Ops,        \* the capture functions: some of "take", "frame", "all", "exception"
  Sources,    \* threads, or exceptions
  Root,       \* the one that a snapshot of one thread, or exception, is of
  NoSource,   \* no exception
  MaxFrames,  \* bound: frames of a stack
  Tracebacks, \* bound: the tracebacks of exceptions, some of Stacks
  Limits,     \* max_frames; NoLimit is none
  MaxChain    \* _MAX_CHAIN_DEPTH

\* A frame whose file matches a filter; one without local variables; and one
\* with objects to process.
Kinds == {"filtered", "empty", "plain"}

NoLimit == MaxFrames + 1
Stacks == UNION {[1..n -> Kinds] : n \in 0..MaxFrames}

ASSUME SourcesAssumption == Root \in Sources /\ NoSource \notin Sources /\ IsFiniteSet(Sources)
ASSUME OpsAssumption == Ops \subseteq {"take", "frame", "all", "exception"}
ASSUME TracebacksAssumption == Tracebacks \subseteq Stacks
ASSUME BoundsAssumption == MaxFrames \in Nat /\ Limits \subseteq 0..NoLimit /\ MaxChain \in Nat

VARIABLES
  op, limit,   \* the call
  stack,       \* the frames of each source, innermost first
  cause,       \* __cause__ of each exception
  context,     \* __context__
  suppressed,  \* __suppress_context__
  phase,       \* "idle", "stack", "object", "frames", "objects", "close", "end" or "done"
  cancel,      \* cancelRequested_
  asked,       \* history: the running snapshot has been asked to stop
  chain,       \* the sources to capture, in order: exceptionChain
  pos,         \* the one that is being captured
  next,        \* its next frame
  kept,        \* its frames that have been written
  cut,         \* wasCancelled
  omitted,     \* anyStacktraceOmitted
  anyCut,      \* anyStacktraceTruncated
  traces,      \* the stacktraces written
  flagged      \* the snapshot's truncated flag

callVars == <<op, limit, stack, cause, context, suppressed, chain>>
stackVars == <<pos, next, kept, cut>>
resultVars == <<omitted, anyCut, traces, flagged>>
vars == <<callVars, phase, cancel, asked, stackVars, resultVars>>

(***************************************************************************)
(* The chain of an exception.                                              *)
(***************************************************************************)

\* Faulty: the context goes before the cause.
ContextFirst(e) ==
  IF context[e] # NoSource THEN context[e] ELSE cause[e]

\* What is walked to from an exception: its cause or, if it has none, its
\* context unless that is suppressed.
Successor(e) ==
  IF cause[e] # NoSource THEN cause[e]
  ELSE IF suppressed[e] THEN NoSource ELSE context[e]

SeenIn(walk, e) == \E i \in DOMAIN walk : walk[i] = e

\* One step of the walk from the root, which ends when there is no successor or
\* it has been seen.
ExtendChain(walk, n) ==
  LET e == IF Len(walk) = n - 1 THEN Successor(walk[n - 1]) ELSE NoSource
  IN  IF e = NoSource \/ SeenIn(walk, e) THEN walk ELSE Append(walk, e)

ExceptionChain ==
  LET walk[n \in 1..Cardinality(Sources)] ==
        IF n = 1 THEN <<Root>> ELSE ExtendChain(walk[n - 1], n)
  IN  walk[Cardinality(Sources)]

\* sys._current_frames() has the threads in some order.
Orders == {s \in [1..Cardinality(Sources) -> Sources] : \A a, b \in DOMAIN s : s[a] = s[b] => a = b}

\* __cause__ is only set together with __suppress_context__.
Links == {l \in [cause : Sources \cup {NoSource}, context : Sources \cup {NoSource},
                  suppressed : BOOLEAN] : l.cause # NoSource => l.suppressed}
Unlinked == [cause |-> NoSource, context |-> NoSource, suppressed |-> FALSE]

Init ==
  /\ op \in Ops /\ limit \in Limits
  /\ stack \in [Sources -> IF op = "exception" THEN Tracebacks ELSE Stacks]
  /\ \E l \in [Sources -> IF op = "exception" THEN Links ELSE {Unlinked}] :
       /\ cause = [e \in Sources |-> l[e].cause]
       /\ context = [e \in Sources |-> l[e].context]
       /\ suppressed = [e \in Sources |-> l[e].suppressed]
  /\ chain \in (IF op = "exception" THEN {ExceptionChain}
                ELSE IF op = "all" THEN Orders ELSE {<<Root>>})
  /\ phase = "idle" /\ cancel \in BOOLEAN /\ asked = FALSE
  /\ pos = 1 /\ next = 1 /\ kept = <<>> /\ cut = FALSE
  /\ omitted = FALSE /\ anyCut = FALSE /\ traces = <<>> /\ flagged = FALSE

(***************************************************************************)
(* The capture.                                                            *)
(***************************************************************************)
Cancel ==
  /\ phase \notin {"idle", "done"}
  /\ cancel' = TRUE /\ asked' = TRUE
  /\ UNCHANGED <<callVars, phase, stackVars, resultVars>>

\* Only snapshotAllThreads forgets a request made before it.
Begin ==
  /\ phase = "idle"
  /\ phase' = "stack"
  /\ cancel' = (cancel /\ op # "all")
  /\ asked' = cancel'
  /\ UNCHANGED <<callVars, stackVars, resultVars>>

\* The functions that have several stacks look at the flag between them.
Stopped == cancel /\ op \in {"all", "exception"}

\* Faulty: nobody is told.
OmitSilently == UNCHANGED omitted

Omit == omitted' = (op = "exception")

NextStack ==
  /\ phase = "stack" /\ pos <= Len(chain)
  /\ IF Stopped
       THEN phase' = "end" /\ Omit
       ELSE phase' = (IF op = "exception" THEN "object" ELSE "frames") /\ UNCHANGED omitted
  /\ UNCHANGED <<callVars, cancel, asked, stackVars, anyCut, traces, flagged>>

NoMoreStacks ==
  /\ phase = "stack" /\ pos > Len(chain)
  /\ phase' = "end"
  /\ UNCHANGED <<callVars, cancel, asked, stackVars, resultVars>>

\* The exception object has been written, with all that it refers to.
ExceptionObject ==
  /\ phase = "object"
  /\ IF cancel
       THEN phase' = "end" /\ Omit
       ELSE phase' = "frames" /\ UNCHANGED omitted
  /\ UNCHANGED <<callVars, cancel, asked, stackVars, anyCut, traces, flagged>>

Frames == stack[chain[pos]]
MoreFrames == phase = "frames" /\ next <= Len(Frames)

\* The checks before a frame: they come before the filter.
LimitOrCancel == cancel \/ Len(kept) >= limit

CutFrames ==
  /\ MoreFrames /\ LimitOrCancel
  /\ cut' = TRUE
  /\ phase' = "close"
  /\ UNCHANGED <<callVars, cancel, asked, pos, next, kept, resultVars>>

FilterFrame ==
  /\ MoreFrames /\ ~LimitOrCancel
  /\ Frames[next] = "filtered"
  /\ next' = next + 1
  /\ UNCHANGED <<callVars, phase, cancel, asked, pos, kept, cut, resultVars>>

\* writeFrameRecord
WriteFrame ==
  /\ MoreFrames /\ ~LimitOrCancel
  /\ Frames[next] # "filtered"
  /\ kept' = Append(kept, next)
  /\ IF Frames[next] = "empty"
       THEN next' = next + 1 /\ UNCHANGED phase
       ELSE phase' = "objects" /\ UNCHANGED next
  /\ UNCHANGED <<callVars, cancel, asked, pos, cut, resultVars>>

\* Faulty: the frame is taken back, and nobody is told.
DropFrameOnly == kept' = SubSeq(kept, 1, Len(kept) - 1) /\ UNCHANGED cut

\* processFrameObjects has returned false: rollbackWriteOffset.
RollBack == kept' = SubSeq(kept, 1, Len(kept) - 1) /\ cut' = TRUE

FrameObjects ==
  /\ phase = "objects"
  /\ IF cancel
       THEN RollBack /\ phase' = "close" /\ UNCHANGED next
       ELSE phase' = "frames" /\ next' = next + 1 /\ UNCHANGED <<kept, cut>>
  /\ UNCHANGED <<callVars, cancel, asked, pos, resultVars>>

NoMoreFrames ==
  /\ phase = "frames" /\ next > Len(Frames)
  /\ phase' = "close"
  /\ UNCHANGED <<callVars, cancel, asked, stackVars, resultVars>>

\* Faulty: 0 stands for none.
ZeroForNone(e) == IF SeenIn(chain, e) THEN CHOOSE i \in DOMAIN chain : chain[i] = e ELSE 0

\* The id of the stacktrace of an exception is its place in the chain.  An
\* exception that is not in the chain is none, and so is the one itself.
IdOf(e) == IF SeenIn(chain, e) THEN CHOOSE i \in DOMAIN chain : chain[i] = e ELSE pos

Link(of) == IF op = "exception" THEN IdOf(of[chain[pos]]) ELSE pos

\* endStacktrace, or discardCurrentStacktrace if there is no frame.
CloseStack ==
  /\ phase = "close"
  /\ traces' = IF kept = <<>> THEN traces
               ELSE Append(traces, [id |-> pos, frames |-> kept, truncated |-> cut,
                                    cause |-> Link(cause), context |-> Link(context)])
  /\ anyCut' = (anyCut \/ (kept # <<>> /\ cut))
  /\ omitted' = (omitted \/ (op # "all" /\ (kept = <<>> \/ (op = "exception" /\ cut))))
  /\ phase' = IF op = "exception" /\ cut THEN "end" ELSE "stack"
  /\ pos' = pos + 1 /\ next' = 1 /\ kept' = <<>> /\ cut' = FALSE
  /\ UNCHANGED <<callVars, cancel, asked, flagged>>

\* endSnapshot, or discardCurrentSnapshot if there is no stacktrace.
EndSnapshot ==
  /\ phase = "end"
  /\ flagged' = IF op = "all" THEN cancel ELSE anyCut \/ omitted
  /\ cancel' = FALSE
  /\ phase' = "done"
  /\ UNCHANGED <<callVars, asked, stackVars, omitted, anyCut, traces>>

Next ==
  \/ Cancel \/ Begin
  \/ NextStack \/ NoMoreStacks \/ ExceptionObject
  \/ CutFrames \/ FilterFrame \/ WriteFrame \/ FrameObjects \/ NoMoreFrames
  \/ CloseStack \/ EndSnapshot

Spec == Init /\ [][Next]_vars

(***************************************************************************)
(* The reader.                                                             *)
(***************************************************************************)
Recorded(id) == \E k \in DOMAIN traces : traces[k].id = id
TraceOf(id) == traces[CHOOSE k \in DOMAIN traces : traces[k].id = id]

\* get_cause() and get_context(): 0 if there is none, or none in the snapshot.
Resolve(id, link) == IF link # id /\ Recorded(link) THEN link ELSE 0
GetCause(id) == Resolve(id, TraceOf(id).cause)
GetContext(id) == Resolve(id, TraceOf(id).context)

\* One step of the walk through the stacktraces.
ExtendRebuilt(walk, n) ==
  LET last == walk[Len(walk)]
      nxt == IF GetCause(last) # 0 THEN GetCause(last) ELSE GetContext(last)
  IN  IF Len(walk) < n - 1 \/ nxt = 0 \/ SeenIn(walk, nxt) THEN walk ELSE Append(walk, nxt)

\* reconstruct_exception(): the stacktraces it walks through.
Reconstructed(id) ==
  LET walk[n \in 1..(MaxChain + 1)] ==
        IF n = 1 THEN <<id>> ELSE ExtendRebuilt(walk[n - 1], n)
  IN  walk[MaxChain + 1]

(***************************************************************************)
(* Properties.                                                             *)
(***************************************************************************)

\* The types of the capture's state, and of the stacktraces it writes.
TypeOK ==
  /\ phase \in {"idle", "stack", "object", "frames", "objects", "close", "end", "done"}
  /\ chain \in Seq(Sources) /\ pos \in 1..(Len(chain) + 1) /\ next \in 1..(MaxFrames + 1)
  /\ kept \in Seq(1..MaxFrames)
  /\ {cancel, asked, cut, omitted, anyCut, flagged} \subseteq BOOLEAN
  /\ \A k \in DOMAIN traces : /\ traces[k].frames \in Seq(1..MaxFrames)
                              /\ {traces[k].id, traces[k].cause, traces[k].context} \subseteq DOMAIN chain

\* The frames of a stack that no filter matches, in order.
Unfiltered(s) == {n \in DOMAIN s : s[n] # "filtered"}
StackOf(t) == stack[chain[t.id]]
Complete(t) == {t.frames[k] : k \in DOMAIN t.frames} = Unfiltered(StackOf(t))

\* Every stacktrace that is written has the innermost frames of its stack, none
\* left out between two others, at least one and at most as many as allowed,
\* wherever the capture was cancelled; it is not flagged only if it has all.
TracesFaithful ==
  \A k \in DOMAIN traces :
    LET t == traces[k]
    IN  /\ t.frames # <<>> /\ Len(t.frames) <= limit
        /\ \A i \in DOMAIN t.frames : \A n \in Unfiltered(StackOf(t)) :
             n <= t.frames[i] => \E j \in 1..i : t.frames[j] = n
        /\ ~t.truncated => Complete(t)

\* A snapshot that is not flagged has a stacktrace for every source that has a
\* frame to show, in the order of the sources; and except for the one of all
\* threads, whose flag is about cancellation only, it has all their frames.
UnflaggedComplete ==
  phase = "done" /\ traces # <<>> /\ ~flagged =>
    /\ \A i \in DOMAIN chain : Unfiltered(stack[chain[i]]) # {} => Recorded(i)
    /\ \A i, j \in DOMAIN traces : i < j => traces[i].id < traces[j].id
    /\ op # "all" => \A k \in DOMAIN traces : Complete(traces[k])

\* An exception is rebuilt with exactly the chain that was captured if every
\* exception of it has a stacktrace, whatever its causes and contexts are, also
\* if they are cyclic; the length is limited.
ChainRebuilt ==
  phase = "done" /\ op = "exception" /\ (\A i \in DOMAIN chain : Recorded(i)) =>
    Reconstructed(1) =
      [i \in 1..(IF Len(chain) > MaxChain + 1 THEN MaxChain + 1 ELSE Len(chain)) |-> i]

\* PYTHON_API.md says that truncated is True if the snapshot was truncated due
\* to cancellation, max_frames, or timeout.
FlagOfSnapshot ==
  phase = "done" /\ (\E k \in DOMAIN traces : traces[k].truncated) => flagged

\* PYTHON_API.md says that the full chain is captured, and that max_frames is a
\* limit per stacktrace.
FullChain ==
  phase = "done" /\ op = "exception" /\ ~asked /\ limit > 0 =>
    \A i \in DOMAIN chain : Unfiltered(stack[chain[i]]) # {} => Recorded(i)

\* PYTHON_API.md says that filtered frames do not cause the truncated flag to be
\* set on a stacktrace or a snapshot.
FiltersSetNoFlag ==
  phase = "done" /\ ~asked /\ limit = NoLimit /\ traces # <<>>
    /\ (\A i \in DOMAIN chain : stack[chain[i]] # <<>>) => ~flagged

=============================================================================
