--------------------------- MODULE ExceptionView ---------------------------
(***************************************************************************)
(* A client that reads the virtual thread of a snapshot, and what the      *)
(* renderers of ExceptionChains.tla say of that snapshot.                  *)
(***************************************************************************)
EXTENDS ExceptionChains

CONSTANTS
  Snapshots,  \* the snapshots to show
  Excluded,   \* the paths that the exclude patterns match
  MaxLevels   \* bound: rows of a page

\* The reader gives out the stacktraces by their positive ids.
IsChainSnapshot(snap) ==
  /\ IsFiniteSet(DOMAIN snap) /\ DOMAIN snap \subseteq Nat \ {0}
  /\ \A t \in DOMAIN snap : snap[t].frames \in Seq(ToSet(snap[t].frames))

ASSUME ViewAssumption == MaxLevels \in Nat /\ \A snap \in Snapshots : IsChainSnapshot(snap)

VARIABLES
  snapshot,      \* the current snapshot
  hideFiltered,  \* hideFilteredFrames
  asked,         \* the number of rows that the client has asked for
  got            \* the rows that it has

viewVars == <<snapshot, hideFiltered, asked, got>>

Root == ChainRoot(snapshot, Excluded)
Rows == IF Root = None THEN <<>> ELSE ChainRows(snapshot, Excluded, hideFiltered)

ViewInit == snapshot \in Snapshots /\ hideFiltered \in BOOLEAN /\ asked = 0 /\ got = <<>>

StackTracePage(levels) ==
  /\ Root # None /\ asked <= Len(Rows)
  /\ got' = got \o Page(Rows, asked, levels)
  /\ asked' = IF levels = 0 THEN Len(Rows) + 1 ELSE asked + levels
  /\ UNCHANGED <<snapshot, hideFiltered>>

ViewNext == \E levels \in 0..MaxLevels : StackTracePage(levels)

ViewSpec == ViewInit /\ [][ViewNext]_viewVars

(***************************************************************************)
(* Properties.                                                             *)
(***************************************************************************)
\* The client has the rows of the stack that it has asked for, each of them
\* once, however it cuts the stack into pages.
PagesAddUp == got = SubSeq(Rows, 1, Min({asked, Len(Rows)}))

\* In the stack a separator is always between the frames of two exceptions,
\* also if all frames of an exception are hidden.
SeparatorsBetweenGroups ==
  Root # None =>
    \A i \in DOMAIN Rows : Rows[i].kind = "separator" =>
      /\ i > 1 /\ i < Len(Rows)
      /\ Rows[i - 1].kind = "frame" /\ Rows[i + 1].kind = "frame"
      /\ Rows[i - 1].stack # Rows[i + 1].stack

\* The exception that exceptionInfo and the overlay of the stopped event
\* describe is the one whose frame is on top of the stack, to which the client
\* attaches them.  (Unless the frames of that exception are hidden.)
InnermostOnTop ==
  Root # None =>
    LET t == Innermost(snapshot, Root)
    IN  ShownFrames(snapshot[t], Excluded, hideFiltered) # <<>> =>
          Rows # <<>> /\ Rows[1].kind = "frame" /\ Rows[1].stack = t

Traced(text) ==
  LET t == Picked(text, {i \in DOMAIN text : text[i].kind = "traceback"})
  IN  [i \in DOMAIN t |-> t[i].stack]

Stacks(chain) == [i \in DOMAIN chain |-> chain[i].stack]

\* A chain's stack reads as the exceptions do, from the one that was raised
\* first.
StackOfChain == SeparatorsBetweenGroups /\ InnermostOnTop

\* The loops follow the same chain from the same exception: the stack, the
\* nested details, the text, the exception that is made again and, if the chain
\* is not longer than the cap, the viewer's traceback; and the text says so when
\* it ends before the chain does.
ChainsAgree ==
  \A t \in DOMAIN snapshot :
    LET walk == Walk(snapshot, t)
        text == RenderedText(snapshot, t)
    IN  /\ Details(snapshot, t) = walk
        /\ Traced(text) = walk
        /\ snapshot[t].exc /\ snapshot[t].frames # <<>> => Stacks(Reconstructed(snapshot, t)) = walk
        /\ Innermost(snapshot, t) = Last(walk)
        /\ Len(walk) <= MaxDepth => Traced(ViewerText(snapshot, t)) = Reverse(walk)
        /\ Follow(snapshot, Last(walk)) # None => Last(text).kind \in {"truncated", "loops back"}

\* The viewer's tree starts with the chain that the debug adapter shows, as far as
\* that follows it, unless every exception is one that another links to: then the
\* tree has none.
TreeStartsWithChain ==
  LET root == ChainRoot(snapshot, {})
      walk == Walk(snapshot, root)
      excs == {t \in DOMAIN snapshot : snapshot[t].exc}
  IN  root # None =>
        \/ IsPrefix(walk, TreeItems(snapshot))
        \/ \A t \in excs : \E u \in excs : t \in {Cause(snapshot, u), Context(snapshot, u)}

\* Whatever the client looks at, it is told of the same exceptions.
RenderersAgree == ChainsAgree /\ TreeStartsWithChain

\* CPython prints what an exception was caused by before the exception, the
\* sentence on how they are related between them, and the frames of each with
\* the most recent call last.
CPythonText(snap, t) ==
  LET walk == ViewerWalk(snap, t)
      part(n) == (IF n = Len(walk) THEN <<>> ELSE Note(Link(snap, walk[n])))
                 \o Text(walk[n], Reverse(snap[walk[n]].frames))
  IN  FlattenSeq([n \in DOMAIN walk |-> part(Len(walk) + 1 - n)])

\* The text of exceptionInfo is what CPython would print ("a pre-rendered
\* CPython-style multi-line string"), where neither guard cuts it off.  It is
\* not: the text starts with the outermost exception.
LikeCPython ==
  \A t \in DOMAIN snapshot :
    LET text == RenderedText(snapshot, t)
    IN  Last(text).kind = "traceback" => text = CPythonText(snapshot, t)
=============================================================================
