-------------------------- MODULE ExceptionChains --------------------------
(***************************************************************************)
(* How the exceptions of one snapshot are shown: the flattened stack of    *)
(* the debug adapter's virtual thread (dap/session.py), the exceptionInfo  *)
(* answer (dap/exceptions.py), the exception that is made again            *)
(* (_exception.py), and the tree and the traceback of the terminal viewer  *)
(* (utils/tintype_viewer.py).  Each walks __cause__ or __context__ by a    *)
(* loop of its own.                                                        *)
(*                                                                         *)
(* A snapshot is a function from the ids of its stacktraces to records,    *)
(* which the reader's dict has in ascending order.  excluded is the set of *)
(* the paths that the exclude patterns match.                              *)
(***************************************************************************)
EXTENDS Integers, Sequences, FiniteSets, SequencesExt, FiniteSetsExt

CONSTANTS
  MaxDepth  \* _MAX_EXCEPTION_CHAIN_DEPTH and _MAX_CHAIN_DEPTH

ASSUME DepthAssumption == MaxDepth \in Nat

\* The id that no stacktrace has.
None == 0

\* The numbers of a set in ascending order: the n-th has n that are not above it.
Ascending(S) ==
  [n \in 1..Cardinality(S) |-> CHOOSE k \in S : Cardinality({j \in S : j <= k}) = n]

\* The elements of a sequence at some positions, in its order.
Picked(s, S) == LET at == Ascending(S) IN [n \in DOMAIN at |-> s[at[n]]]

(***************************************************************************)
(* Links and filters.                                                      *)
(***************************************************************************)
\* get_cause() and get_context(): a link to itself, or to a stacktrace that
\* was left out of the snapshot, is none.
Linked(snap, t, to) == IF to # t /\ to \in DOMAIN snap THEN to ELSE None
Cause(snap, t) == Linked(snap, t, snap[t].cause)
Context(snap, t) == Linked(snap, t, snap[t].context)

\* The cause goes before the context.
Follow(snap, t) ==
  IF Cause(snap, t) # None THEN Cause(snap, t) ELSE Context(snap, t)
Link(snap, t) == IF Cause(snap, t) # None THEN "cause" ELSE "context"

\* A thread without frames is not filtered.
IsFilteredThread(stack, excluded) ==
  /\ stack.frames # <<>>
  /\ \A i \in DOMAIN stack.frames : stack.frames[i].path \in excluded

ShownFrames(stack, excluded, hide) ==
  IF hide THEN Picked(stack.frames, {i \in DOMAIN stack.frames : stack.frames[i].path \notin excluded})
  ELSE stack.frames

(***************************************************************************)
(* The debug adapter's virtual thread.                                     *)
(***************************************************************************)
Exceptions(snap, excluded) ==
  {t \in DOMAIN snap : snap[t].exc /\ ~IsFilteredThread(snap[t], excluded)}

\* The first exception that no other one links to, else the first one.
ChainRoot(snap, excluded) ==
  LET all == Exceptions(snap, excluded)
      inner == UNION {{Cause(snap, t), Context(snap, t)} : t \in all}
  IN  IF all = {} THEN None
      ELSE IF all \subseteq inner THEN Min(all) ELSE Min(all \ inner)

\* The stacktraces from the root inwards, over at most so many links.
WalkUpTo(snap, root, hops) ==
  LET w[n \in 0..hops] ==
        IF n = 0 THEN <<root>>
        ELSE LET next == Follow(snap, Last(w[n - 1]))
             IN  IF next = None \/ next \in ToSet(w[n - 1]) THEN w[n - 1]
                 ELSE Append(w[n - 1], next)
  IN  w[hops]
Walk(snap, root) == WalkUpTo(snap, root, MaxDepth)

\* Faulty: one hop more than the other renderer follows.
InnermostOneDeeper(snap, root) ==
  LET end == Last(Walk(snap, root))
  IN  IF Follow(snap, end) # None THEN Follow(snap, end) ELSE end

\* _pick_exception_chain_innermost: the loop on its own, with what is seen.
Innermost(snap, root) ==
  LET at[n \in 0..MaxDepth] ==
        IF n = 0 THEN [current |-> root, seen |-> {root}]
        ELSE LET next == Follow(snap, at[n - 1].current)
             IN  IF next \in at[n - 1].seen \cup {None} THEN at[n - 1]
                 ELSE [current |-> next, seen |-> at[n - 1].seen \cup {next}]
  IN  at[MaxDepth].current

FrameRow(t, i, f) == [kind |-> "frame", stack |-> t, index |-> i, frame |-> f]
SeparatorRow(label) == [kind |-> "separator", label |-> label]

\* The frames of the innermost exception come first, and behind the frames of
\* each but the outermost one, how it is linked to the next.
FlatRows(snap, root, excluded, hide) ==
  LET walk == Walk(snap, root)
      group(n) ==
        LET frames == ShownFrames(snap[walk[n]], excluded, hide)
        IN  [i \in DOMAIN frames |-> FrameRow(walk[n], i, frames[i])]
            \o (IF n = 1 THEN <<>> ELSE <<SeparatorRow(Link(snap, walk[n - 1]))>>)
  IN  FlattenSeq([n \in DOMAIN walk |-> group(Len(walk) + 1 - n)])

\* Faulty: separators are left where a group is empty.
PruneNothing(flat) == flat

\* Faulty: only the one at the end is dropped.
PruneEnd(flat) ==
  IF flat # <<>> /\ Last(flat).kind = "separator" THEN Front(flat) ELSE flat

\* A separator stays if it is right behind a frame and before one.
PruneOrphanSeparators(flat) ==
  LET isFrame(i) == flat[i].kind = "frame"
      stays(i) == \/ isFrame(i)
                  \/ /\ i > 1 /\ isFrame(i - 1)
                     /\ \E j \in i + 1..Len(flat) : isFrame(j)
  IN  Picked(flat, {i \in DOMAIN flat : stays(i)})

ChainRows(snap, excluded, hide) ==
  PruneOrphanSeparators(FlatRows(snap, ChainRoot(snap, excluded), excluded, hide))

\* Faulty: the last row of a page is left out.
PageTooShort(rows, start, levels) ==
  SubSeq(rows, start + 1,
         IF levels = 0 THEN Len(rows) ELSE Min({Len(rows), start + levels - 1}))

\* startFrame and levels of a stackTrace request; no levels is all of them.
Page(rows, start, levels) ==
  SubSeq(rows, start + 1,
         IF levels = 0 THEN Len(rows) ELSE Min({Len(rows), start + levels}))

(***************************************************************************)
(* exceptionInfo.                                                          *)
(***************************************************************************)
\* Faulty: the context is nested although there is a cause.
DetailsByContext(snap, t) ==
  LET next == IF Context(snap, t) # None THEN Context(snap, t) ELSE Cause(snap, t)
  IN  IF next = None THEN <<t>> ELSE <<t, next>>

\* The nested ExceptionDetails, outermost first: each is put into the one
\* before as its innerException, while the depth is below the cap.
Details(snap, t) ==
  LET nested[depth \in 0..MaxDepth] ==
        IF depth = 0 THEN [nodes |-> <<t>>, open |-> TRUE]
        ELSE LET before == nested[depth - 1]
                 next == Follow(snap, Last(before.nodes))
             IN  IF before.open /\ next \notin ToSet(before.nodes) \cup {None}
                 THEN [nodes |-> Append(before.nodes, next), open |-> TRUE]
                 ELSE [before EXCEPT !.open = FALSE]
  IN  nested[MaxDepth].nodes

Text(t, frames) == <<[kind |-> "traceback", stack |-> t, frames |-> frames]>>
Note(kind) == <<[kind |-> kind]>>

\* _format_chain: it starts with the exception asked for and goes inwards; the
\* depth is looked at before the links.
RenderedText(snap, t) ==
  LET one(s) == Text(s, snap[s].frames)
      step(r) ==
        LET next == Follow(snap, r.current)
        IN  IF r.done THEN r
            ELSE IF r.depth >= MaxDepth
            THEN [r EXCEPT !.done = TRUE, !.text = @ \o Note("truncated")]
            ELSE IF next = None THEN [r EXCEPT !.done = TRUE]
            ELSE IF next \in r.seen
            THEN [r EXCEPT !.done = TRUE, !.text = @ \o Note("loops back")]
            ELSE [current |-> next, seen |-> r.seen \cup {next},
                  depth |-> r.depth + 1, done |-> FALSE,
                  text |-> r.text \o Note(Link(snap, r.current)) \o one(next)]
      after[n \in 0..MaxDepth + 1] ==
        IF n = 0 THEN [current |-> t, seen |-> {t}, depth |-> 0, done |-> FALSE,
                       text |-> one(t)]
        ELSE step(after[n - 1])
  IN  after[MaxDepth + 1].text

(***************************************************************************)
(* reconstruct_exception().                                                *)
(***************************************************************************)
\* The new exceptions, outermost first, each with how it hangs on the one
\* before; none for a thread.
Reconstructed(snap, t) ==
  LET made[hops \in 0..MaxDepth] ==
        IF hops = 0 THEN [chain |-> <<[stack |-> t, link |-> "head"]>>, seen |-> {t}]
        ELSE LET before == made[hops - 1]
                 here == Last(before.chain).stack
                 next == Follow(snap, here)
             IN  IF next \in before.seen \cup {None} THEN before
                 ELSE [chain |-> Append(before.chain, [stack |-> next, link |-> Link(snap, here)]),
                       seen |-> before.seen \cup {next}]
  IN  IF ~snap[t].exc \/ snap[t].frames = <<>> THEN <<>> ELSE made[MaxDepth].chain

(***************************************************************************)
(* The terminal viewer, which has no cap.                                  *)
(***************************************************************************)
ViewerWalk(snap, t) == WalkUpTo(snap, t, Cardinality(DOMAIN snap))

\* _build_traceback_lines: the deepest cause first.
ViewerText(snap, t) ==
  LET walk == ViewerWalk(snap, t)
      part(n) == (IF n = Len(walk) THEN <<>> ELSE Note(Link(snap, walk[n])))
                 \o Text(walk[n], snap[walk[n]].frames)
  IN  FlattenSeq([n \in DOMAIN walk |-> part(Len(walk) + 1 - n)])

\* Faulty: a chain is started at every exception.
TreeOfAll(snap) ==
  LET all == Ascending({t \in DOMAIN snap : snap[t].exc})
  IN  FlattenSeq([n \in DOMAIN all |-> ViewerWalk(snap, all[n])])

\* _get_snapshot_tree_items: the chain of each exception that no other one
\* links to, then the threads.
TreeItems(snap) ==
  LET excs == {t \in DOMAIN snap : snap[t].exc}
      children == UNION {{Cause(snap, t), Context(snap, t)} : t \in excs}
      roots == Ascending(excs \ children)
  IN  FlattenSeq([n \in DOMAIN roots |-> ViewerWalk(snap, roots[n])])
      \o Ascending(DOMAIN snap \ excs)

=============================================================================
