------------------------- MODULE Stacktraces_proof -------------------------
(***************************************************************************)
(* Proofs about Stacktraces, for any number of threads or exceptions, any  *)
(* stacks and limits, any graph of causes and contexts, and a request to   *)
(* stop at any time.                                                       *)
(***************************************************************************)
EXTENDS Stacktraces, SequenceTheorems, FiniteSetTheorems, WellFoundedInduction, TLAPS

(***************************************************************************)
(* The inductive invariant.                                                *)
(***************************************************************************)
Ids == DOMAIN chain
Traces == [id : Nat, frames : Seq(Nat), truncated : BOOLEAN, cause : Nat, context : Nat]

CallTypes ==
  /\ op \in {"take", "frame", "all", "exception"} /\ limit \in Nat
  /\ stack \in [Sources -> Stacks]
  /\ cause \in [Sources -> Sources \cup {NoSource}]
  /\ context \in [Sources -> Sources \cup {NoSource}]
  /\ chain \in Seq(Sources)
CaptureTypes ==
  /\ phase \in {"idle", "stack", "object", "frames", "objects", "close", "end", "done"}
  /\ cancel \in BOOLEAN /\ asked \in BOOLEAN
  /\ pos \in 1..Len(chain) + 1 /\ next \in Nat \ {0} /\ kept \in Seq(Nat) /\ cut \in BOOLEAN
ResultTypes ==
  /\ omitted \in BOOLEAN /\ anyCut \in BOOLEAN /\ flagged \in BOOLEAN
  /\ traces \in Seq(Traces)
Types == CallTypes /\ CaptureTypes /\ ResultTypes

\* Every source is captured once; an exception's follows it in the chain.
Distinct(walk) == \A i, j \in DOMAIN walk : walk[i] = walk[j] => i = j
Linked(walk) == \A i \in DOMAIN walk : i + 1 \in DOMAIN walk => walk[i + 1] = Successor(walk[i])
ChainInv == Distinct(chain) /\ (op = "exception" => Linked(chain) /\ Len(chain) > 0 /\ chain[1] = Root)

\* In these phases a stack is captured, in the others nothing is kept of one.
Capturing == phase \in {"frames", "objects", "close"}
PhaseInv ==
  /\ Capturing \/ phase = "object" => pos \in Ids
  /\ ~Capturing => kept = <<>> /\ next = 1 /\ ~cut
  /\ phase = "idle" => pos = 1 /\ traces = <<>>
  /\ phase = "object" => op = "exception"
  /\ op = "all" => ~omitted
  /\ phase = "end" => pos > Len(chain) \/ omitted \/ (op = "all" /\ cancel)

\* What is kept of a stack: none left out between two others.
Innermost(frames, s) ==
  \A i \in DOMAIN frames : \A n \in Unfiltered(s) : n <= frames[i] => \E j \in 1..i : frames[j] = n

\* The frames before the next one have been looked at, and kept or filtered.
KeptInv ==
  Capturing =>
    /\ Innermost(kept, Frames)
    /\ \A i \in DOMAIN kept : kept[i] \in Unfiltered(Frames)
    /\ \A n \in Unfiltered(Frames) : n < next => \E i \in DOMAIN kept : kept[i] = n
    /\ Len(kept) <= limit
    /\ phase = "objects" => kept # <<>> /\ kept[Len(kept)] = next
    /\ phase = "close" /\ ~cut => next > Len(Frames)
    /\ cut => phase = "close" /\ (cancel \/ Len(kept) >= limit)

\* The stacktraces that have been written.
TraceInv ==
  /\ TracesFaithful
  /\ \A i, j \in DOMAIN traces : i < j => traces[i].id < traces[j].id
  /\ \A k \in DOMAIN traces : traces[k].id \in Ids /\ traces[k].id < pos
  /\ \A k \in DOMAIN traces : traces[k].truncated => anyCut
  /\ \A i \in Ids : i < pos /\ Unfiltered(stack[chain[i]]) # {} =>
       \/ Recorded(i) \/ omitted \/ (op = "all" /\ limit = 0)
       \/ (op = "all" /\ IF phase = "done" THEN flagged ELSE cancel)

\* Where the links of an exception's stacktrace lead.
PlaceOf(e, self) == IF SeenIn(chain, e) THEN CHOOSE i \in Ids : chain[i] = e ELSE self
LinkInv ==
  op = "exception" => \A k \in DOMAIN traces :
    LET e == chain[traces[k].id]
    IN  /\ traces[k].cause = PlaceOf(cause[e], traces[k].id)
        /\ traces[k].context = PlaceOf(context[e], traces[k].id)

IInv ==
  Types /\ ChainInv /\ PhaseInv /\ KeptInv /\ TraceInv /\ LinkInv /\ UnflaggedComplete

(***************************************************************************)
(* Induction: a set of numbers with 0 and every successor has them all.    *)
(* (The library's rule is about a predicate, which is an operator.)        *)
(***************************************************************************)
LEMMA NatMin ==
  ASSUME NEW T \in SUBSET Nat, T # {}
  PROVE  \E m \in T : \A k \in T : m <= k
<1> DEFINE R == OpToRel(<, Nat)
<1>1. IsWellFoundedOn(R, Nat)
  BY NatLessThanWellFounded
<1>2. PICK x \in T : \A y \in T : ~(<<y, x>> \in R)
  <2> HIDE DEF R
  <2> QED
    BY <1>1, WFMin
<1>3. \A y \in T : y < x => <<y, x>> \in R
  BY DEF OpToRel
<1> HIDE DEF R
<1>4. \A y \in T : ~(y < x)
  BY <1>2, <1>3
<1> QED
  BY <1>4

LEMMA NatInd ==
  ASSUME NEW T, 0 \in T, \A n \in Nat : n \in T => n + 1 \in T
  PROVE  Nat \subseteq T
<1> SUFFICES ASSUME NEW b \in Nat, b \notin T PROVE FALSE
  OBVIOUS
<1> DEFINE U == {n \in Nat : n \notin T}
<1>1. U \in SUBSET Nat /\ U # {}
  OBVIOUS
<1>2. PICK m \in U : \A k \in U : m <= k
  <2> HIDE DEF U
  <2> QED
    BY <1>1, NatMin
<1>3. m # 0 /\ m \in Nat /\ m - 1 \in Nat /\ m - 1 \notin U
  BY <1>2
<1> QED
  BY <1>3

(***************************************************************************)
(* The chain of an exception.                                              *)
(***************************************************************************)
LEMMA SourceCount == Cardinality(Sources) \in Nat /\ Cardinality(Sources) > 0
BY SourcesAssumption, FS_CardinalityType, FS_EmptySet

\* What the walk is after n steps.
Walked(walk, n) ==
  /\ walk \in Seq(Sources) /\ Len(walk) \in 1..n
  /\ walk[1] = Root /\ Distinct(walk) /\ Linked(walk)

LEMMA ExtendWalk ==
  ASSUME cause \in [Sources -> Sources \cup {NoSource}], context \in [Sources -> Sources \cup {NoSource}],
         NEW walk, NEW n \in Nat, Walked(walk, n)
  PROVE  Walked(ExtendChain(walk, n + 1), n + 1)
<1> DEFINE e == Successor(walk[n])
<1>1. walk \in Seq(Sources) /\ Len(walk) \in 1..n /\ DOMAIN walk = 1..Len(walk)
  BY DEF Walked
<1>2. CASE Len(walk) = n /\ e # NoSource /\ ~SeenIn(walk, e)
  <2>1. ExtendChain(walk, n + 1) = Append(walk, e)
    BY <1>2 DEF ExtendChain
  <2>2. walk[n] \in Sources
    BY <1>1, <1>2
  <2>3. e \in Sources
    BY <1>2, <2>2 DEF Successor
  <2> DEFINE w == Append(walk, e)
  <2>4. /\ w \in Seq(Sources) /\ Len(w) = n + 1 /\ DOMAIN w = 1..n + 1
        /\ w[n + 1] = e /\ \A i \in 1..n : w[i] = walk[i]
    BY <1>1, <1>2, <2>3
  <2>5. \A i \in 1..n : walk[i] # e
    BY <1>1, <1>2 DEF SeenIn
  <2> HIDE DEF w, e
  <2>6. w[1] = Root /\ 1 \in 1..n
    BY <1>1, <1>2, <2>4 DEF Walked
  <2>7. Distinct(w)
    <3> SUFFICES ASSUME NEW i \in 1..n + 1, NEW j \in 1..n + 1, w[i] = w[j] PROVE i = j
      BY <2>4 DEF Distinct
    <3>1. CASE i \in 1..n /\ j \in 1..n
      BY <1>1, <1>2, <2>4, <3>1 DEF Walked, Distinct
    <3>2. CASE i = n + 1 /\ j \in 1..n
      BY <2>4, <2>5, <3>2
    <3>3. CASE i \in 1..n /\ j = n + 1
      BY <2>4, <2>5, <3>3
    <3> QED
      BY <3>1, <3>2, <3>3
  <2>8. Linked(w)
    <3> SUFFICES ASSUME NEW i \in 1..n + 1, i + 1 \in 1..n + 1 PROVE w[i + 1] = Successor(w[i])
      BY <2>4 DEF Linked
    <3>1. CASE i = n
      BY <2>4, <2>6, <3>1 DEF e
    <3>2. CASE i < n
      <4>1. i \in 1..n /\ i + 1 \in 1..n
        BY <3>2
      <4> QED
        BY <1>1, <1>2, <2>4, <4>1 DEF Walked, Linked
    <3> QED
      BY <3>1, <3>2
  <2>9. Walked(w, n + 1)
    BY <2>4, <2>6, <2>7, <2>8 DEF Walked
  <2> QED
    BY <2>1, <2>9 DEF w
<1>3. CASE ~(Len(walk) = n /\ e # NoSource /\ ~SeenIn(walk, e))
  <2>3. (n + 1) - 1 = n
    OBVIOUS
  <2>1. ExtendChain(walk, n + 1) = walk
    BY <1>3, <2>3 DEF ExtendChain
  <2>2. Len(walk) \in 1..n + 1
    BY <1>1
  <2> QED
    BY <2>1, <2>2 DEF Walked
<1> QED
  BY <1>2, <1>3

\* The function of ExceptionChain.
LEMMA WalkExists ==
  ASSUME NEW N \in Nat
  PROVE  \E f : f = [n \in 1..N |-> IF n = 1 THEN <<Root>> ELSE ExtendChain(f[n - 1], n)]
<1> DEFINE T == {m \in Nat : \E f : f = [n \in 1..m |-> IF n = 1 THEN <<Root>> ELSE ExtendChain(f[n - 1], n)]}
<1>1. 0 \in T
  <2> DEFINE f == [n \in 1..0 |-> <<Root>>]
  <2>1. f = [n \in 1..0 |-> IF n = 1 THEN <<Root>> ELSE ExtendChain(f[n - 1], n)]
    OBVIOUS
  <2> QED
    BY <2>1
<1>2. ASSUME NEW m \in Nat, m \in T PROVE m + 1 \in T
  <2>1. PICK f : f = [n \in 1..m |-> IF n = 1 THEN <<Root>> ELSE ExtendChain(f[n - 1], n)]
    BY <1>2
  <2> DEFINE g == [n \in 1..m + 1 |-> IF n = 1 THEN <<Root>> ELSE ExtendChain(f[n - 1], n)]
  <2>2. \A n \in 1..m : g[n] = f[n]
    BY <2>1
  <2>5. \A n \in 1..m + 1 : n # 1 => n - 1 \in 1..m
    OBVIOUS
  <2>3. \A n \in 1..m + 1 : n # 1 => g[n - 1] = f[n - 1]
    BY <2>2, <2>5
  <2>4. g = [n \in 1..m + 1 |-> IF n = 1 THEN <<Root>> ELSE ExtendChain(g[n - 1], n)]
    BY <2>3
  <2> HIDE DEF g
  <2> QED
    BY <2>4
<1> HIDE DEF T
<1>3. Nat \subseteq T
  BY <1>1, <1>2, NatInd
<1> QED
  BY <1>3 DEF T

LEMMA ChainWalked ==
  ASSUME cause \in [Sources -> Sources \cup {NoSource}], context \in [Sources -> Sources \cup {NoSource}]
  PROVE  Walked(ExceptionChain, Cardinality(Sources))
<1> DEFINE N == Cardinality(Sources)
           W == CHOOSE f : f = [n \in 1..N |-> IF n = 1 THEN <<Root>> ELSE ExtendChain(f[n - 1], n)]
<1>1. N \in Nat /\ N > 0
  BY SourceCount
<1>2. W = [n \in 1..N |-> IF n = 1 THEN <<Root>> ELSE ExtendChain(W[n - 1], n)]
  BY <1>1, WalkExists
<1>3. ExceptionChain = W[N]
  BY DEF ExceptionChain
<1> HIDE DEF W, N
<1> DEFINE T == {n \in Nat : n \in 1..N => Walked(W[n], n)}
<1>4. 0 \in T
  OBVIOUS
<1>5. ASSUME NEW n \in Nat, n \in T PROVE n + 1 \in T
  <2> SUFFICES ASSUME n + 1 \in 1..N PROVE Walked(W[n + 1], n + 1)
    OBVIOUS
  <2>1. CASE n = 0
    <3>1. W[n + 1] = <<Root>>
      BY <1>1, <1>2, <2>1
    <3> QED
      BY <2>1, <3>1, SourcesAssumption DEF Walked, Distinct, Linked
  <2>2. CASE n # 0
    <3>1. n \in 1..N /\ n + 1 # 1 /\ (n + 1) - 1 = n
      BY <1>1, <2>2
    <3>2. Walked(W[n], n)
      BY <1>5, <3>1
    <3>3. W[n + 1] = ExtendChain(W[n], n + 1)
      BY <1>2, <3>1
    <3> QED
      BY <3>2, <3>3, ExtendWalk
  <2> QED
    BY <2>1, <2>2
<1> HIDE DEF T
<1>6. Nat \subseteq T
  BY <1>4, <1>5, NatInd
<1>7. Walked(W[N], N)
  BY <1>1, <1>6 DEF T
<1> QED
  BY <1>3, <1>7 DEF N

(***************************************************************************)
(* Types.                                                                  *)
(***************************************************************************)
USE DEF callVars, stackVars, resultVars, CallTypes, CaptureTypes, ResultTypes

LEMMA StackType ==
  ASSUME NEW s \in Stacks
  PROVE  s \in Seq(Kinds) /\ Len(s) \in Nat /\ DOMAIN s = 1..Len(s) /\ Unfiltered(s) \subseteq 1..Len(s)
<1>1. PICK n \in 0..MaxFrames : s \in [1..n -> Kinds]
  BY DEF Stacks
<1>2. n \in Nat
  BY BoundsAssumption
<1>3. s \in Seq(Kinds) /\ Len(s) = n /\ DOMAIN s = 1..n
  BY <1>1, <1>2
<1> QED
  BY <1>2, <1>3 DEF Unfiltered

LEMMA FramesType ==
  ASSUME Types, pos \in Ids
  PROVE  /\ Frames \in Seq(Kinds) /\ Len(Frames) \in Nat /\ DOMAIN Frames = 1..Len(Frames)
         /\ Unfiltered(Frames) \subseteq 1..Len(Frames)
<1>1. chain[pos] \in Sources
  BY DEF Types, Ids
<1>2. Frames \in Stacks
  BY <1>1 DEF Types, Frames
<1> QED
  BY <1>2, StackType

\* Ids of other stacktraces are places in the chain.
LEMMA IdType ==
  ASSUME Types, NEW e, pos \in Ids
  PROVE  IdOf(e) \in Ids /\ IdOf(e) \in Nat
<1>1. Ids \subseteq Nat
  BY DEF Types, Ids
<1> QED
  BY <1>1 DEF IdOf, SeenIn, Ids

\* What is written at the end of a stack.
NewTrace == [id |-> pos, frames |-> kept, truncated |-> cut, cause |-> Link(cause), context |-> Link(context)]
LEMMA NewTraceType ==
  ASSUME Types, pos \in Ids
  PROVE  NewTrace \in Traces
<1>1. pos \in Nat /\ kept \in Seq(Nat) /\ cut \in BOOLEAN
  BY DEF Types
<1>2. Link(cause) \in Nat /\ Link(context) \in Nat
  BY <1>1, IdType DEF Link
<1> QED
  BY <1>1, <1>2 DEF NewTrace, Traces

LEMMA TypeStep ==
  ASSUME Types, PhaseInv, [Next]_vars
  PROVE  Types'
<1>1. CallTypes'
  BY DEF Types, Next, vars, Cancel, Begin, NextStack, NoMoreStacks, ExceptionObject, CutFrames,
     FilterFrame, WriteFrame, FrameObjects, NoMoreFrames, CloseStack, EndSnapshot
<1>0. next + 1 \in Nat \ {0} /\ <<>> \in Seq(Nat)
  BY DEF Types
<1>2. CASE Cancel \/ Begin
  BY <1>1, <1>2 DEF Types, Cancel, Begin
<1>3. CASE NextStack \/ NoMoreStacks \/ ExceptionObject
  BY <1>1, <1>3 DEF Types, NextStack, NoMoreStacks, ExceptionObject, Omit
<1>4. CASE CutFrames \/ FilterFrame \/ NoMoreFrames
  <2>1. next' \in Nat \ {0} /\ cut' \in BOOLEAN /\ phase' \in {"frames", "close"}
    BY <1>0, <1>4 DEF Types, CutFrames, FilterFrame, NoMoreFrames, MoreFrames
  <2>2. UNCHANGED <<callVars, cancel, asked, pos, kept, resultVars>>
    BY <1>4 DEF CutFrames, FilterFrame, NoMoreFrames
  <2> QED
    BY <1>1, <2>1, <2>2 DEF Types
<1>5. CASE WriteFrame
  <2>1. kept' \in Seq(Nat) /\ next' \in Nat \ {0} /\ phase' \in {"frames", "objects"}
    BY <1>5 DEF Types, WriteFrame, MoreFrames
  <2> QED
    BY <1>1, <1>5, <2>1 DEF Types, WriteFrame
<1>6. CASE FrameObjects
  <2>1. SubSeq(kept, 1, Len(kept) - 1) \in Seq(Nat)
    <3>1. kept \in Seq(Nat)
      BY DEF Types
    <3> QED
      BY <3>1
  <2>2. kept' \in Seq(Nat) /\ next' \in Nat \ {0} /\ phase' \in {"frames", "close"} /\ cut' \in BOOLEAN
    BY <1>0, <1>6, <2>1 DEF Types, FrameObjects, RollBack
  <2> QED
    BY <1>1, <1>6, <2>2 DEF Types, FrameObjects
<1>7. CASE CloseStack
  <2>1. pos \in Ids
    BY <1>7 DEF CloseStack, PhaseInv, Capturing
  <2>2. traces' \in Seq(Traces)
    <3>1. NewTrace \in Traces
      BY <2>1, NewTraceType
    <3>2. traces' = traces \/ traces' = Append(traces, NewTrace)
      BY <1>7 DEF CloseStack, NewTrace
    <3>3. traces \in Seq(Traces)
      BY DEF Types
    <3> QED
      BY <3>1, <3>2, <3>3
  <2>3. pos + 1 \in 1..Len(chain) + 1
    BY <2>1 DEF Types, Ids
  <2>6. /\ pos' = pos + 1 /\ next' = 1 /\ kept' = <<>> /\ cut' = FALSE /\ phase' \in {"end", "stack"}
        /\ UNCHANGED <<callVars, cancel, asked>>
    BY <1>7 DEF CloseStack
  <2>4. CaptureTypes'
    <3>1. cancel' \in BOOLEAN /\ asked' \in BOOLEAN /\ chain' = chain
      BY <2>6 DEF Types
    <3>2. pos' \in 1..Len(chain') + 1 /\ kept' \in Seq(Nat) /\ next' \in Nat \ {0}
      BY <1>0, <2>3, <2>6, <3>1
    <3> QED
      BY <2>6, <3>1, <3>2
  <2>5. ResultTypes'
    BY <1>7, <2>2 DEF CloseStack, Types
  <2> QED
    BY <1>1, <2>4, <2>5 DEF Types
<1>8. CASE EndSnapshot
  BY <1>1, <1>8 DEF Types, EndSnapshot
<1>9. CASE UNCHANGED vars
  BY <1>1, <1>9 DEF Types, vars
<1> QED
  BY <1>2, <1>3, <1>4, <1>5, <1>6, <1>7, <1>8, <1>9 DEF Next

LEMMA Initially == Init => IInv
<1> SUFFICES ASSUME Init PROVE IInv
  OBVIOUS
<1>1. PICK l \in [Sources -> IF op = "exception" THEN Links ELSE {Unlinked}] :
        /\ cause = [e \in Sources |-> l[e].cause]
        /\ context = [e \in Sources |-> l[e].context]
  BY DEF Init
<1>2. \A e \in Sources : l[e].cause \in Sources \cup {NoSource} /\ l[e].context \in Sources \cup {NoSource}
  <2>1. \A e \in Sources : l[e] \in Links \/ l[e] = Unlinked
    BY <1>1
  <2> QED
    BY <2>1 DEF Links, Unlinked
<1>3. /\ cause \in [Sources -> Sources \cup {NoSource}]
      /\ context \in [Sources -> Sources \cup {NoSource}]
  BY <1>1, <1>2
<1>4. /\ chain \in Seq(Sources) /\ Distinct(chain)
      /\ op = "exception" => Linked(chain) /\ Len(chain) > 0 /\ chain[1] = Root
  <2>1. CASE op = "exception"
    <3>1. chain = ExceptionChain
      BY <2>1 DEF Init
    <3>2. Walked(chain, Cardinality(Sources))
      BY <1>3, <3>1, ChainWalked
    <3> QED
      BY <2>1, <3>2, SourceCount DEF Walked
  <2>2. CASE op = "all"
    <3>1. chain \in Orders
      BY <2>2 DEF Init
    <3>2. chain \in [1..Cardinality(Sources) -> Sources] /\ Distinct(chain)
      BY <3>1 DEF Orders, Distinct
    <3> QED
      BY <2>2, <3>2, SourceCount
  <2>3. CASE op \notin {"exception", "all"}
    <3>1. chain = <<Root>>
      BY <2>3 DEF Init
    <3> QED
      BY <2>3, <3>1, SourcesAssumption DEF Distinct
  <2> QED
    BY <2>1, <2>2, <2>3
<1>5. stack \in [Sources -> Stacks]
  BY TracebacksAssumption DEF Init
<1>6. op \in {"take", "frame", "all", "exception"} /\ limit \in Nat
  BY OpsAssumption, BoundsAssumption DEF Init, NoLimit
<1>7. Types
  <2>1. CallTypes
    BY <1>3, <1>4, <1>5, <1>6
  <2>2. traces = <<>> /\ kept = <<>> /\ pos = 1 /\ next = 1 /\ Len(chain) \in Nat
    BY <1>4 DEF Init
  <2>3. traces \in Seq(Traces) /\ kept \in Seq(Nat) /\ pos \in 1..Len(chain) + 1 /\ next \in Nat \ {0}
    BY <2>2
  <2> QED
    BY <2>1, <2>3 DEF Types, Init
<1>8. ChainInv
  BY <1>4 DEF ChainInv
<1>9. PhaseInv /\ KeptInv /\ UnflaggedComplete /\ LinkInv
  BY DEF Init, PhaseInv, KeptInv, Capturing, UnflaggedComplete, LinkInv
<1>10. TraceInv
  <2>1. traces = <<>> /\ pos = 1
    BY DEF Init
  <2>2. \A i \in Ids : ~(i < pos)
    BY <2>1, <1>4 DEF Ids
  <2> QED
    BY <2>1, <2>2 DEF TraceInv, TracesFaithful
<1> QED
  BY <1>7, <1>8, <1>9, <1>10 DEF IInv

(***************************************************************************)
(* Steps that write no stacktrace.                                         *)
(***************************************************************************)
\* The stacktraces stay as they are.
LEMMA FaithfulKept ==
  ASSUME TracesFaithful, UNCHANGED <<stack, chain, limit, traces>>
  PROVE  TracesFaithful'
<1>1. stack' = stack /\ chain' = chain /\ traces' = traces /\ limit' = limit
  OBVIOUS
<1> QED
  BY <1>1 DEF TracesFaithful, StackOf, Complete

LEMMA CompleteKept ==
  ASSUME UnflaggedComplete, UNCHANGED <<stack, chain, op, phase, flagged, traces>>
  PROVE  UnflaggedComplete'
<1>1. stack' = stack /\ chain' = chain /\ traces' = traces /\ op' = op /\ phase' = phase /\ flagged' = flagged
  OBVIOUS
<1> SUFFICES ASSUME phase = "done", traces # <<>>, ~flagged
             PROVE  UnflaggedComplete'
  BY <1>1 DEF UnflaggedComplete
<1>2. /\ \A i \in Ids : Unfiltered(stack[chain[i]]) # {} => Recorded(i)
      /\ \A i, j \in DOMAIN traces : i < j => traces[i].id < traces[j].id
      /\ op # "all" => \A k \in DOMAIN traces : Complete(traces[k])
  BY DEF UnflaggedComplete, Ids
<1>3. \A i \in Ids : Unfiltered(stack'[chain'[i]]) # {} => Recorded(i)'
  BY <1>1, <1>2 DEF Recorded
<1>4. op' # "all" => \A k \in DOMAIN traces' : Complete(traces[k])'
  BY <1>1, <1>2 DEF Complete, StackOf
<1> QED
  BY <1>1, <1>2, <1>3, <1>4 DEF UnflaggedComplete, Ids

LEMMA TracesKept ==
  ASSUME TraceInv, LinkInv, UNCHANGED <<callVars, pos, anyCut, traces, flagged>>,
         omitted => omitted', phase # "done", phase' # "done",
         op = "all" /\ cancel => cancel'
  PROVE  TraceInv' /\ LinkInv' /\ UnflaggedComplete'
<1>1. TracesFaithful'
  BY FaithfulKept DEF TraceInv
<1>2. LinkInv'
  BY DEF LinkInv, PlaceOf, SeenIn, Ids
<1>3. UnflaggedComplete'
  BY DEF UnflaggedComplete
<1>4. ASSUME NEW i \in Ids, i < pos, Unfiltered(stack[chain[i]]) # {}
      PROVE  Recorded(i)' \/ omitted' \/ (op = "all" /\ limit = 0) \/ (op = "all" /\ cancel')
  BY <1>4 DEF TraceInv, Recorded
<1> QED
  BY <1>1, <1>2, <1>3, <1>4 DEF TraceInv, Ids

\* A request to stop.
LEMMA CancelStep ==
  ASSUME IInv, Cancel
  PROVE  PhaseInv' /\ KeptInv' /\ TraceInv' /\ LinkInv' /\ UnflaggedComplete'
<1>1. phase # "done" /\ phase # "idle" /\ cancel' = TRUE /\ UNCHANGED <<callVars, phase, stackVars, resultVars>>
  BY DEF Cancel
<1>2. TraceInv' /\ LinkInv' /\ UnflaggedComplete'
  BY <1>1, TracesKept DEF IInv
<1>3. PhaseInv'
  BY <1>1 DEF IInv, PhaseInv, Capturing, Ids
<1>4. KeptInv'
  BY <1>1 DEF IInv, KeptInv, Capturing, Innermost, Unfiltered, Frames
<1> QED
  BY <1>2, <1>3, <1>4

LEMMA BeginStep ==
  ASSUME IInv, Begin
  PROVE  PhaseInv' /\ KeptInv' /\ TraceInv' /\ LinkInv' /\ UnflaggedComplete'
<1>1. phase = "idle" /\ phase' = "stack" /\ UNCHANGED <<callVars, stackVars, resultVars>>
  BY DEF Begin
<1>2. pos = 1 /\ traces = <<>>
  BY <1>1 DEF IInv, PhaseInv
<1>3. PhaseInv' /\ KeptInv'
  BY <1>1 DEF IInv, PhaseInv, KeptInv, Capturing, Ids
<1>4. TraceInv'
  <2>1. \A i \in Ids : ~(i < pos)
    BY <1>2 DEF IInv, Types, Ids
  <2> QED
    BY <1>1, <1>2, <2>1 DEF TraceInv, TracesFaithful, Ids
<1>5. LinkInv' /\ UnflaggedComplete'
  BY <1>1, <1>2 DEF LinkInv, UnflaggedComplete
<1> QED
  BY <1>3, <1>4, <1>5

LEMMA StackStep ==
  ASSUME IInv, NextStack \/ NoMoreStacks \/ ExceptionObject
  PROVE  PhaseInv' /\ KeptInv' /\ TraceInv' /\ LinkInv' /\ UnflaggedComplete'
<1>1. /\ phase \in {"stack", "object"} /\ phase' \in {"end", "object", "frames"}
      /\ UNCHANGED <<callVars, cancel, stackVars, anyCut, traces, flagged>>
  BY DEF NextStack, NoMoreStacks, ExceptionObject
<1>2. omitted' = omitted \/ (omitted' = (op = "exception") /\ phase' = "end" /\ (Stopped \/ phase = "object"))
  BY DEF NextStack, NoMoreStacks, ExceptionObject, Omit
<1>3. op = "all" => ~omitted
  BY DEF IInv, PhaseInv
<1>4. omitted => omitted'
  BY <1>1, <1>2, <1>3 DEF Stopped, IInv, PhaseInv
<1>5. TraceInv' /\ LinkInv' /\ UnflaggedComplete'
  BY <1>1, <1>4, TracesKept DEF IInv
<1>6. kept = <<>> /\ next = 1 /\ ~cut
  BY <1>1 DEF IInv, PhaseInv, Capturing
<1>7. phase' # "end" => pos \in Ids
  <2>1. CASE NextStack
    BY <2>1 DEF NextStack, IInv, Types, Ids
  <2>2. CASE NoMoreStacks
    BY <2>2 DEF NoMoreStacks
  <2>3. CASE ExceptionObject
    BY <2>3 DEF ExceptionObject, IInv, PhaseInv
  <2> QED
    BY <2>1, <2>2, <2>3
<1>8. phase' = "end" => pos > Len(chain) \/ omitted' \/ (op = "all" /\ cancel)
  <2>1. CASE NextStack
    BY <2>1 DEF NextStack, Omit, Stopped
  <2>2. CASE NoMoreStacks
    BY <2>2 DEF NoMoreStacks
  <2>3. CASE ExceptionObject
    BY <2>3 DEF ExceptionObject, Omit, IInv, PhaseInv
  <2> QED
    BY <2>1, <2>2, <2>3
<1>9. phase' = "object" => op = "exception"
  BY DEF NextStack, NoMoreStacks, ExceptionObject
<1>10. op = "all" => ~omitted'
  BY <1>2, <1>3
<1>11. PhaseInv'
  BY <1>1, <1>6, <1>7, <1>8, <1>9, <1>10 DEF PhaseInv, Capturing, Ids
<1>12. KeptInv'
  <2> SUFFICES ASSUME phase' = "frames"
               PROVE  KeptInv'
    BY <1>1 DEF KeptInv, Capturing
  <2>1. \A n \in Unfiltered(Frames) : ~(n < 1)
    BY <1>7, FramesType DEF IInv
  <2>2. Len(kept) = 0 /\ DOMAIN kept = {} /\ Len(kept) <= limit
    BY <1>6 DEF IInv, Types
  <2>3. Frames' = Frames
    BY <1>1 DEF Frames
  <2> QED
    BY <1>1, <1>6, <2>1, <2>2, <2>3 DEF KeptInv, Capturing, Innermost
<1> QED
  BY <1>5, <1>11, <1>12

\* A frame is passed over: what is kept is all that there is before the next.
LEMMA FrameStep ==
  ASSUME IInv, CutFrames \/ FilterFrame \/ NoMoreFrames
  PROVE  PhaseInv' /\ KeptInv' /\ TraceInv' /\ LinkInv' /\ UnflaggedComplete'
<1>1. /\ phase = "frames" /\ phase' \in {"frames", "close"}
      /\ UNCHANGED <<callVars, cancel, pos, kept, resultVars>>
  BY DEF CutFrames, FilterFrame, NoMoreFrames, MoreFrames
<1>2. TraceInv' /\ LinkInv' /\ UnflaggedComplete'
  BY <1>1, TracesKept DEF IInv
<1>3. pos \in Ids /\ PhaseInv'
  BY <1>1 DEF IInv, PhaseInv, Capturing, Ids
<1>4. Unfiltered(Frames) \subseteq Nat /\ next \in Nat
  BY <1>3, FramesType DEF IInv, Types
<1>5. KeptInv'
  <2>1. Frames' = Frames /\ ~cut
    BY <1>1 DEF Frames, IInv, KeptInv, Capturing
  <2>2. CASE CutFrames
    BY <1>1, <2>1, <2>2 DEF CutFrames, LimitOrCancel, IInv, KeptInv, Capturing, Innermost
  <2>3. CASE NoMoreFrames
    BY <1>1, <2>1, <2>3 DEF NoMoreFrames, IInv, KeptInv, Capturing, Innermost
  <2>4. CASE FilterFrame
    <3>1. next \notin Unfiltered(Frames) /\ next' = next + 1 /\ phase' = "frames" /\ cut' = cut
      BY <1>1, <2>4 DEF FilterFrame, MoreFrames, Unfiltered
    <3>2. \A n \in Unfiltered(Frames) : n < next + 1 => n < next
      BY <1>4, <3>1
    <3> QED
      BY <1>1, <2>1, <3>1, <3>2 DEF IInv, KeptInv, Capturing, Innermost
  <2> QED
    BY <2>2, <2>3, <2>4
<1> QED
  BY <1>2, <1>3, <1>5

LEMMA WriteFrameStep ==
  ASSUME IInv, WriteFrame
  PROVE  PhaseInv' /\ KeptInv' /\ TraceInv' /\ LinkInv' /\ UnflaggedComplete'
<1>1. /\ phase = "frames" /\ phase' \in {"frames", "objects"} /\ kept' = Append(kept, next)
      /\ UNCHANGED <<callVars, cancel, pos, cut, resultVars>>
      /\ next \in 1..Len(Frames) /\ Frames[next] # "filtered" /\ ~LimitOrCancel
  BY DEF WriteFrame, MoreFrames, IInv, Types
<1>2. TraceInv' /\ LinkInv' /\ UnflaggedComplete'
  BY <1>1, TracesKept DEF IInv
<1>3. pos \in Ids /\ PhaseInv'
  BY <1>1 DEF IInv, PhaseInv, Capturing, Ids
<1>4. Unfiltered(Frames) \subseteq Nat /\ next \in Unfiltered(Frames) /\ next \in Nat
  BY <1>1, <1>3, FramesType DEF IInv, Unfiltered
<1> DEFINE n == Len(kept)
           U == Unfiltered(Frames)
<1>5. /\ n \in Nat /\ DOMAIN kept = 1..n /\ DOMAIN kept' = 1..n + 1 /\ Len(kept') = n + 1
      /\ kept'[n + 1] = next /\ \A i \in 1..n : kept'[i] = kept[i]
  <2>1. kept \in Seq(Nat)
    BY DEF IInv, Types
  <2> QED
    BY <1>1, <1>4, <2>1
<1>6. /\ \A i \in 1..n : \A u \in U : u <= kept[i] => \E j \in 1..i : kept[j] = u
      /\ \A i \in 1..n : kept[i] \in U
      /\ \A u \in U : u < next => \E i \in 1..n : kept[i] = u
      /\ ~cut /\ n < limit /\ limit \in Nat
  <2>1. ~cut /\ ~(n >= limit)
    BY <1>1 DEF IInv, KeptInv, Capturing, LimitOrCancel
  <2>2. limit \in Nat
    BY DEF IInv, Types
  <2>3. /\ Innermost(kept, Frames)
        /\ \A i \in DOMAIN kept : kept[i] \in U
        /\ \A u \in U : u < next => \E i \in DOMAIN kept : kept[i] = u
    BY <1>1 DEF IInv, KeptInv, Capturing
  <2> QED
    BY <1>5, <2>1, <2>2, <2>3 DEF Innermost
<1> HIDE DEF n, U
<1>7. ASSUME NEW i \in 1..n + 1, NEW u \in U, u <= kept'[i]
      PROVE  \E j \in 1..i : kept'[j] = u
  <2>1. CASE i \in 1..n
    <3>1. PICK j \in 1..i : kept[j] = u
      BY <1>5, <1>6, <1>7, <2>1
    <3>2. j \in 1..n
      BY <1>5, <2>1
    <3> QED
      BY <1>5, <3>1, <3>2
  <2>2. CASE i = n + 1
    <3>1. CASE u = next
      BY <1>5, <2>2, <3>1
    <3>2. CASE u # next
      <4>1. u < next
        BY <1>4, <1>5, <1>7, <2>2, <3>2 DEF U
      <4>2. PICK j \in 1..n : kept[j] = u
        BY <1>6, <4>1
      <4> QED
        BY <1>5, <2>2, <4>2
    <3> QED
      BY <3>1, <3>2
  <2> QED
    BY <1>5, <2>1, <2>2
<1>8. \A i \in 1..n + 1 : kept'[i] \in U
  <2>1. \A i \in 1..n + 1 : i \in 1..n \/ i = n + 1
    BY <1>5
  <2> QED
    BY <1>4, <1>5, <1>6, <2>1 DEF U
<1>9. \A u \in U : u < next + 1 => \E i \in 1..n + 1 : kept'[i] = u
  <2> SUFFICES ASSUME NEW u \in U, u < next + 1 PROVE \E i \in 1..n + 1 : kept'[i] = u
    OBVIOUS
  <2>1. CASE u = next
    BY <1>5, <2>1
  <2>2. CASE u < next
    <3>1. PICK i \in 1..n : kept[i] = u
      BY <1>6, <2>2
    <3> QED
      BY <1>5, <3>1
  <2> QED
    BY <1>4, <2>1, <2>2 DEF U
<1>10. next' \in {next, next + 1} /\ (phase' = "objects" => next' = next)
  BY <1>1 DEF WriteFrame
<1>11. \A u \in U : u < next' => \E i \in 1..n + 1 : kept'[i] = u
  <2>1. \A u \in U : u < next' => u < next + 1
    BY <1>4, <1>10 DEF U
  <2> QED
    BY <1>9, <2>1
<1>12. Frames' = Frames /\ U' = U
  BY <1>1 DEF Frames, U
<1>13. kept' # <<>> /\ n + 1 <= limit
  BY <1>5, <1>6
<1>14. KeptInv'
  <2>1. Innermost(kept, Frames)'
    BY <1>5, <1>7, <1>12 DEF Innermost, U
  <2> QED
    BY <1>1, <1>5, <1>6, <1>8, <1>10, <1>11, <1>12, <1>13, <2>1 DEF KeptInv, Capturing, U
<1> QED
  BY <1>2, <1>3, <1>14

LEMMA FrameObjectsStep ==
  ASSUME IInv, FrameObjects
  PROVE  PhaseInv' /\ KeptInv' /\ TraceInv' /\ LinkInv' /\ UnflaggedComplete'
<1>1. /\ phase = "objects" /\ phase' \in {"frames", "close"}
      /\ UNCHANGED <<callVars, cancel, pos, resultVars>>
  BY DEF FrameObjects
<1>2. TraceInv' /\ LinkInv' /\ UnflaggedComplete'
  BY <1>1, TracesKept DEF IInv
<1>3. pos \in Ids /\ PhaseInv'
  BY <1>1 DEF IInv, PhaseInv, Capturing, Ids
<1> DEFINE n == Len(kept)
           U == Unfiltered(Frames)
<1>4. U \subseteq Nat /\ next \in Nat /\ n \in Nat /\ DOMAIN kept = 1..n /\ kept \in Seq(Nat)
  BY <1>3, FramesType DEF IInv, Types
<1>5. /\ \A i \in 1..n : \A u \in U : u <= kept[i] => \E j \in 1..i : kept[j] = u
      /\ \A i \in 1..n : kept[i] \in U
      /\ \A u \in U : u < next => \E i \in 1..n : kept[i] = u
      /\ ~cut /\ n <= limit /\ limit \in Nat /\ kept # <<>> /\ kept[n] = next
  BY <1>1, <1>4 DEF IInv, KeptInv, Capturing, Innermost, Types
<1>6. n > 0
  BY <1>4, <1>5
<1>7. Frames' = Frames /\ U' = U
  BY <1>1 DEF Frames
<1>8. CASE ~cancel
  <2>1. phase' = "frames" /\ next' = next + 1 /\ kept' = kept /\ cut' = cut
    BY <1>8 DEF FrameObjects
  <2> HIDE DEF n, U
  <2>2. \A u \in U : u < next + 1 => \E i \in 1..n : kept[i] = u
    BY <1>4, <1>5, <1>6
  <2>3. Innermost(kept, Frames)'
    BY <1>4, <1>5, <1>7, <2>1 DEF Innermost, U
  <2>5. Len(kept) <= limit /\ DOMAIN kept = 1..n
    BY <1>4, <1>5 DEF n
  <2>6. \A i \in DOMAIN kept' : kept'[i] \in Unfiltered(Frames')
    BY <1>5, <1>7, <2>1, <2>5 DEF U
  <2>7. \A u \in Unfiltered(Frames') : u < next' => \E i \in DOMAIN kept' : kept'[i] = u
    BY <1>7, <2>1, <2>2, <2>5 DEF U
  <2>8. ~cut' /\ Len(kept') <= limit'
    BY <1>1, <1>5, <2>1, <2>5
  <2>4. KeptInv'
    BY <2>1, <2>3, <2>6, <2>7, <2>8 DEF KeptInv, Capturing
  <2> QED
    BY <1>2, <1>3, <2>4
<1>9. CASE cancel
  <2>1. phase' = "close" /\ next' = next /\ kept' = SubSeq(kept, 1, n - 1) /\ cut' = TRUE /\ cancel'
    BY <1>1, <1>9 DEF FrameObjects, RollBack
  <2> HIDE DEF n, U
  <2>2. /\ Len(kept') = n - 1 /\ DOMAIN kept' = 1..n - 1 /\ \A i \in 1..n - 1 : kept'[i] = kept[i] /\ i \in 1..n
    BY <1>4, <1>6, <2>1 DEF n
  <2>3. \A u \in U : u < next => \E i \in 1..n - 1 : kept'[i] = u
    <3> SUFFICES ASSUME NEW u \in U, u < next PROVE \E i \in 1..n - 1 : kept'[i] = u
      OBVIOUS
    <3>1. PICK i \in 1..n : kept[i] = u
      BY <1>5
    <3>2. i # n
      BY <1>4, <1>5, <3>1
    <3> QED
      BY <1>4, <2>2, <3>1, <3>2
  <2>4. \A i \in 1..n - 1 : \A u \in U : u <= kept'[i] => \E j \in 1..i : kept'[j] = u
    <3> SUFFICES ASSUME NEW i \in 1..n - 1, NEW u \in U, u <= kept'[i] PROVE \E j \in 1..i : kept'[j] = u
      OBVIOUS
    <3>1. PICK j \in 1..i : kept[j] = u
      BY <1>5, <2>2
    <3>2. j \in 1..n - 1
      BY <1>4
    <3> QED
      BY <2>2, <3>1, <3>2
  <2>5. n - 1 <= limit
    BY <1>4, <1>5
  <2>6. KeptInv'
    <3>1. Innermost(kept, Frames)'
      BY <1>7, <2>2, <2>4 DEF Innermost, U
    <3> QED
      BY <1>1, <1>5, <1>7, <2>1, <2>2, <2>3, <2>5, <3>1 DEF KeptInv, Capturing, U
  <2> QED
    BY <1>2, <1>3, <2>6
<1> QED
  BY <1>8, <1>9

(***************************************************************************)
(* The steps that write a stacktrace and end the snapshot.                 *)
(***************************************************************************)
LEMMA Appended ==
  ASSUME NEW S, NEW s \in Seq(S), NEW x \in S
  PROVE  /\ Append(s, x) \in Seq(S) /\ Len(Append(s, x)) = Len(s) + 1
         /\ DOMAIN Append(s, x) = 1..Len(s) + 1 /\ Append(s, x)[Len(s) + 1] = x
         /\ \A k \in 1..Len(s) : Append(s, x)[k] = s[k]
OBVIOUS

LEMMA CloseStackStep ==
  ASSUME IInv, CloseStack
  PROVE  PhaseInv' /\ KeptInv' /\ TraceInv' /\ LinkInv' /\ UnflaggedComplete'
<1>1. /\ phase = "close" /\ phase' \in {"end", "stack"} /\ pos' = pos + 1 /\ next' = 1 /\ kept' = <<>> /\ cut' = FALSE
      /\ traces' = (IF kept = <<>> THEN traces ELSE Append(traces, NewTrace))
      /\ anyCut' = (anyCut \/ (kept # <<>> /\ cut))
      /\ omitted' = (omitted \/ (op # "all" /\ (kept = <<>> \/ (op = "exception" /\ cut))))
      /\ UNCHANGED <<callVars, cancel, asked, flagged>>
  BY DEF CloseStack, NewTrace
<1>2. pos \in Ids /\ Ids = 1..Len(chain) /\ Len(chain) \in Nat /\ pos \in Nat
  BY <1>1 DEF IInv, PhaseInv, Capturing, Types, Ids
<1>3. PhaseInv'
  <2>1. op = "all" => ~omitted'
    BY <1>1 DEF IInv, PhaseInv
  <2>2. phase' = "end" => omitted'
    BY <1>1 DEF CloseStack
  <2> QED
    BY <1>1, <2>1, <2>2 DEF PhaseInv, Capturing
<1>4. KeptInv'
  BY <1>1 DEF KeptInv, Capturing
<1>5. UnflaggedComplete'
  BY <1>1 DEF UnflaggedComplete
<1> DEFINE t == NewTrace
           n == Len(traces)
           last == IF kept = <<>> THEN n ELSE n + 1
<1>6. /\ n \in Nat /\ DOMAIN traces = 1..n /\ DOMAIN traces' = 1..last
      /\ \A k \in 1..n : traces'[k] = traces[k]
      /\ kept # <<>> => traces'[n + 1] = t
  <2>1. traces \in Seq(Traces) /\ t \in Traces
    BY <1>2, NewTraceType DEF IInv, Types
  <2> HIDE DEF t
  <2>2. CASE kept = <<>>
    BY <1>1, <2>1, <2>2
  <2>3. CASE kept # <<>>
    <3>1. traces' = Append(traces, t) /\ Len(traces) \in Nat /\ DOMAIN traces = 1..Len(traces)
      BY <1>1, <2>1, <2>3 DEF t
    <3> QED
      BY <2>1, <2>3, <3>1, Appended
  <2> QED
    BY <2>2, <2>3
<1>7. t.id = pos /\ t.frames = kept /\ t.truncated = cut /\ t.cause = Link(cause) /\ t.context = Link(context)
  BY DEF NewTrace
<1> HIDE DEF t, n
<1>8. \A k \in 1..last : k \in 1..n \/ (k = n + 1 /\ kept # <<>>)
  BY <1>6
<1>9. /\ Frames \in Seq(Kinds) /\ Len(Frames) \in Nat /\ DOMAIN Frames = 1..Len(Frames)
      /\ Unfiltered(Frames) \subseteq 1..Len(Frames)
  BY <1>2, FramesType DEF IInv
<1>10. /\ Innermost(kept, Frames) /\ Len(kept) <= limit
       /\ \A i \in DOMAIN kept : kept[i] \in Unfiltered(Frames)
       /\ ~cut => {kept[i] : i \in DOMAIN kept} = Unfiltered(Frames)
       /\ cut => cancel \/ Len(kept) >= limit
  <2>1. /\ Innermost(kept, Frames) /\ Len(kept) <= limit
        /\ \A i \in DOMAIN kept : kept[i] \in Unfiltered(Frames)
        /\ \A u \in Unfiltered(Frames) : u < next => \E i \in DOMAIN kept : kept[i] = u
        /\ ~cut => next > Len(Frames)
        /\ cut => cancel \/ Len(kept) >= limit
    BY <1>1 DEF IInv, KeptInv, Capturing
  <2>2. ASSUME ~cut
        PROVE  \A u \in Unfiltered(Frames) : u < next
    BY <1>9, <2>1, <2>2 DEF IInv, Types
  <2> QED
    BY <2>1, <2>2
<1>11. stack' = stack /\ chain' = chain /\ limit' = limit /\ op' = op /\ Ids' = Ids
       /\ cause' = cause /\ context' = context
  BY <1>1 DEF Ids
<1>12. TracesFaithful'
  <2> SUFFICES ASSUME NEW k \in 1..last
               PROVE  LET r == traces'[k]
                      IN  /\ r.frames # <<>> /\ Len(r.frames) <= limit
                          /\ Innermost(r.frames, StackOf(r))
                          /\ ~r.truncated => Complete(r)
    BY <1>6, <1>11 DEF TracesFaithful, Innermost, StackOf, Complete
  <2>1. CASE k \in 1..n
    BY <1>6, <2>1 DEF IInv, TraceInv, TracesFaithful, Innermost
  <2>2. CASE k = n + 1 /\ kept # <<>>
    <3>1. StackOf(t) = Frames
      BY <1>7 DEF StackOf, Frames
    <3>2. ~t.truncated => Complete(t)
      BY <1>7, <1>10, <3>1 DEF Complete
    <3> QED
      BY <1>6, <1>7, <1>10, <2>2, <3>1, <3>2
  <2> QED
    BY <1>8, <2>1, <2>2
<1>13. \A k \in 1..n : traces[k].id \in Ids /\ traces[k].id < pos
  BY <1>6 DEF IInv, TraceInv
<1>14. \A i, j \in DOMAIN traces' : i < j => traces'[i].id < traces'[j].id
  <2> SUFFICES ASSUME NEW i \in 1..last, NEW j \in 1..last, i < j PROVE traces'[i].id < traces'[j].id
    BY <1>6
  <2>1. i \in 1..n
    BY <1>6, <1>8
  <2>2. CASE j \in 1..n
    BY <1>6, <2>1, <2>2 DEF IInv, TraceInv
  <2>3. CASE j = n + 1 /\ kept # <<>>
    BY <1>6, <1>7, <1>13, <2>1, <2>3
  <2> QED
    BY <1>8, <2>2, <2>3
<1>15. \A k \in DOMAIN traces' : traces'[k].id \in Ids' /\ traces'[k].id < pos'
  <2> SUFFICES ASSUME NEW k \in 1..last PROVE traces'[k].id \in Ids /\ traces'[k].id < pos + 1
    BY <1>1, <1>6, <1>11
  <2>1. CASE k \in 1..n
    BY <1>2, <1>6, <1>13, <2>1
  <2>2. CASE k = n + 1 /\ kept # <<>>
    BY <1>2, <1>6, <1>7, <2>2
  <2> QED
    BY <1>8, <2>1, <2>2
<1>16. \A k \in DOMAIN traces' : traces'[k].truncated => anyCut'
  <2> SUFFICES ASSUME NEW k \in 1..last, traces'[k].truncated PROVE anyCut'
    BY <1>6
  <2>1. CASE k \in 1..n
    BY <1>1, <1>6, <2>1 DEF IInv, TraceInv
  <2>2. CASE k = n + 1 /\ kept # <<>>
    BY <1>1, <1>6, <1>7, <2>2
  <2> QED
    BY <1>8, <2>1, <2>2
<1>17. ASSUME NEW i \in Ids, i < pos + 1, Unfiltered(stack[chain[i]]) # {}
       PROVE  Recorded(i)' \/ omitted' \/ (op = "all" /\ limit = 0) \/ (op = "all" /\ cancel)
  <2>1. CASE i < pos
    <3>1. Recorded(i) => Recorded(i)'
      BY <1>6, <1>8 DEF Recorded
    <3>2. Recorded(i) \/ omitted \/ (op = "all" /\ limit = 0) \/ (op = "all" /\ cancel)
      BY <1>1, <1>17, <2>1 DEF IInv, TraceInv
    <3> QED
      BY <1>1, <3>1, <3>2
  <2>2. CASE i = pos
    <3>1. CASE kept # <<>>
      <4>1. n + 1 \in DOMAIN traces' /\ traces'[n + 1].id = i
        BY <1>6, <1>7, <2>2, <3>1
      <4> QED
        BY <4>1 DEF Recorded
    <3>2. CASE kept = <<>> /\ op # "all"
      BY <1>1, <3>2
    <3>3. CASE kept = <<>> /\ op = "all"
      <4>1. Len(kept) = 0 /\ DOMAIN kept = {} /\ limit \in Nat
        BY <3>3 DEF IInv, Types
      <4>2. cut
        BY <1>10, <1>17, <2>2, <4>1 DEF Frames
      <4> QED
        BY <1>10, <3>3, <4>1, <4>2
    <3> QED
      BY <3>1, <3>2, <3>3
  <2> QED
    BY <1>2, <1>17, <2>1, <2>2
<1>18. TraceInv'
  <2>1. phase' # "done" /\ cancel' = cancel
    BY <1>1
  <2>2. \A i \in Ids' : i < pos' /\ Unfiltered(stack'[chain'[i]]) # {} =>
          Recorded(i)' \/ omitted' \/ (op' = "all" /\ limit' = 0) \/ (op' = "all" /\ cancel')
    BY <1>1, <1>11, <1>17, <2>1
  <2> QED
    BY <1>12, <1>14, <1>15, <1>16, <2>1, <2>2 DEF TraceInv
<1>19. LinkInv'
  <2> SUFFICES ASSUME op = "exception", NEW k \in 1..last
               PROVE  /\ traces'[k].cause = PlaceOf(cause[chain[traces'[k].id]], traces'[k].id)
                      /\ traces'[k].context = PlaceOf(context[chain[traces'[k].id]], traces'[k].id)
    BY <1>6, <1>11 DEF LinkInv, PlaceOf, SeenIn
  <2>1. CASE k \in 1..n
    BY <1>6, <2>1 DEF IInv, LinkInv
  <2>2. CASE k = n + 1 /\ kept # <<>>
    <3>1. Link(cause) = PlaceOf(cause[chain[pos]], pos) /\ Link(context) = PlaceOf(context[chain[pos]], pos)
      BY DEF Link, IdOf, PlaceOf, Ids
    <3>2. traces'[k].id = pos /\ traces'[k].cause = Link(cause) /\ traces'[k].context = Link(context)
      BY <1>6, <1>7, <2>2
    <3> QED
      BY <3>1, <3>2
  <2> QED
    BY <1>8, <2>1, <2>2
<1> QED
  BY <1>3, <1>4, <1>5, <1>18, <1>19

LEMMA EndSnapshotStep ==
  ASSUME IInv, EndSnapshot
  PROVE  PhaseInv' /\ KeptInv' /\ TraceInv' /\ LinkInv' /\ UnflaggedComplete'
<1>1. /\ phase = "end" /\ phase' = "done" /\ flagged' = (IF op = "all" THEN cancel ELSE anyCut \/ omitted)
      /\ UNCHANGED <<callVars, stackVars, omitted, anyCut, traces>>
  BY DEF EndSnapshot
<1>2. PhaseInv' /\ KeptInv'
  BY <1>1 DEF IInv, PhaseInv, KeptInv, Capturing
<1>3. stack' = stack /\ chain' = chain /\ traces' = traces /\ limit' = limit /\ op' = op /\ Ids' = Ids
  BY <1>1 DEF Ids
<1>4. TracesFaithful'
  <2>1. TracesFaithful
    BY DEF IInv, TraceInv
  <2> QED
    BY <1>3, <2>1, FaithfulKept
<1>5. LinkInv'
  BY <1>1, <1>3 DEF IInv, LinkInv, PlaceOf, SeenIn, Ids
<1>6. ASSUME NEW i \in Ids, i < pos, Unfiltered(stack[chain[i]]) # {}
      PROVE  Recorded(i)' \/ omitted' \/ (op = "all" /\ limit = 0) \/ (op = "all" /\ flagged')
  <2>1. Recorded(i)' <=> Recorded(i)
    BY <1>3 DEF Recorded
  <2> QED
    BY <1>1, <1>6, <2>1 DEF IInv, TraceInv
<1>7. TraceInv'
  BY <1>1, <1>3, <1>4, <1>6 DEF IInv, TraceInv
<1>8. UnflaggedComplete'
  <2> SUFFICES ASSUME traces # <<>>, ~flagged'
               PROVE  /\ \A i \in Ids : Unfiltered(stack[chain[i]]) # {} => Recorded(i)'
                      /\ \A i, j \in DOMAIN traces : i < j => traces[i].id < traces[j].id
                      /\ op # "all" => \A k \in DOMAIN traces : Complete(traces[k])
    BY <1>1, <1>3 DEF UnflaggedComplete, Ids, Complete, StackOf
  <2>1. limit > 0
    <3>1. traces \in Seq(Traces) /\ limit \in Nat
      BY DEF IInv, Types
    <3>2. 1 \in DOMAIN traces /\ traces[1] \in Traces
      BY <3>1
    <3>3. traces[1].frames # <<>> /\ traces[1].frames \in Seq(Nat) /\ Len(traces[1].frames) <= limit
      BY <3>2 DEF IInv, TraceInv, TracesFaithful, Traces
    <3> DEFINE f == traces[1].frames
    <3> HIDE DEF f
    <3>4. f # <<>> /\ f \in Seq(Nat) /\ Len(f) <= limit
      BY <3>3 DEF f
    <3> QED
      BY <3>1, <3>4
  <2>2. ~omitted /\ ~(op = "all" /\ cancel)
    BY <1>1 DEF IInv, PhaseInv
  <2>3. pos > Len(chain) /\ Ids = 1..Len(chain) /\ Len(chain) \in Nat /\ pos \in Nat
    BY <1>1, <2>2 DEF IInv, PhaseInv, Types, Ids
  <2>4. \A i \in Ids : i < pos
    BY <2>3
  <2>5. \A i \in Ids : Unfiltered(stack[chain[i]]) # {} => Recorded(i)'
    BY <1>1, <1>6, <2>1, <2>2, <2>4
  <2>6. op # "all" => \A k \in DOMAIN traces : Complete(traces[k])
    BY <1>1 DEF IInv, TraceInv, TracesFaithful
  <2> QED
    BY <2>5, <2>6 DEF IInv, TraceInv
<1> QED
  BY <1>2, <1>5, <1>7, <1>8

LEMMA Inductive ==
  ASSUME IInv, [Next]_vars
  PROVE  IInv'
<1>1. Types'
  BY TypeStep DEF IInv
<1>2. ChainInv'
  <2>1. UNCHANGED callVars
    BY DEF Next, vars, Cancel, Begin, NextStack, NoMoreStacks, ExceptionObject, CutFrames,
       FilterFrame, WriteFrame, FrameObjects, NoMoreFrames, CloseStack, EndSnapshot
  <2> QED
    BY <2>1 DEF IInv, ChainInv, Distinct, Linked, Successor
<1>3. CASE UNCHANGED vars
  <2>1. /\ stack' = stack /\ chain' = chain /\ traces' = traces /\ limit' = limit /\ op' = op
        /\ cause' = cause /\ context' = context /\ Ids' = Ids
        /\ UNCHANGED <<phase, cancel, stackVars, resultVars>>
    BY <1>3 DEF vars, Ids
  <2>2. PhaseInv /\ KeptInv /\ TraceInv /\ LinkInv /\ UnflaggedComplete /\ TracesFaithful
    BY DEF IInv, TraceInv
  <2>3. PhaseInv' /\ KeptInv'
    BY <2>1, <2>2 DEF PhaseInv, KeptInv, Capturing, Innermost, Frames
  <2>4. TracesFaithful'
    BY <2>1, <2>2, FaithfulKept
  <2>5. LinkInv'
    BY <2>1, <2>2 DEF LinkInv, PlaceOf, SeenIn
  <2>6. UnflaggedComplete'
    BY <2>1, <2>2, CompleteKept
  <2>7. TraceInv'
    BY <2>1, <2>2, <2>4 DEF TraceInv, Recorded
  <2> QED
    BY <1>1, <1>2, <2>3, <2>5, <2>6, <2>7 DEF IInv
<1>4. CASE Next
  <2>1. PhaseInv' /\ KeptInv' /\ TraceInv' /\ LinkInv' /\ UnflaggedComplete'
    BY <1>4, CancelStep, BeginStep, StackStep, FrameStep, WriteFrameStep, FrameObjectsStep,
       CloseStackStep, EndSnapshotStep DEF Next
  <2> QED
    BY <1>1, <1>2, <2>1 DEF IInv
<1> QED
  BY <1>3, <1>4

\* The invariant holds throughout.
THEOREM Invariance == Spec => []IInv
<1>1. IInv /\ [Next]_vars => IInv'
  BY Inductive
<1> QED
  BY <1>1, Initially, PTL DEF Spec

\* Every stacktrace that is written has the innermost frames of its stack
\* without a gap, at most as many as allowed, wherever the capture is cancelled
\* or a frame is rolled back; and all of them if it is not flagged.
THEOREM TracesFaithfulCorrect == Spec => []TracesFaithful
<1>1. IInv => TracesFaithful
  BY DEF IInv, TraceInv
<1> QED
  BY <1>1, Invariance, PTL

\* A snapshot that is not flagged leaves out no stack that has a frame to show,
\* and no frame, except that the flag of one of all threads is not about those.
THEOREM UnflaggedCompleteCorrect == Spec => []UnflaggedComplete
<1>1. IInv => UnflaggedComplete
  BY DEF IInv
<1> QED
  BY <1>1, Invariance, PTL

(***************************************************************************)
(* The reader rebuilds the chain.                                          *)
(***************************************************************************)
LEMMA PlaceIs ==
  ASSUME Types, ChainInv, NEW e, NEW i \in Ids
  PROVE  /\ PlaceOf(e, i) \in Ids
         /\ \A j \in Ids : chain[j] = e => PlaceOf(e, i) = j
         /\ (\A j \in Ids : chain[j] # e) => PlaceOf(e, i) = i
<1>1. CASE SeenIn(chain, e)
  <2>1. PICK j \in Ids : chain[j] = e
    BY <1>1 DEF SeenIn, Ids
  <2>2. PlaceOf(e, i) = CHOOSE k \in Ids : chain[k] = e
    BY <1>1 DEF PlaceOf
  <2>3. PlaceOf(e, i) \in Ids /\ chain[PlaceOf(e, i)] = e
    BY <2>1, <2>2
  <2> QED
    BY <2>1, <2>3 DEF ChainInv, Distinct, Ids
<1>2. CASE ~SeenIn(chain, e)
  BY <1>2 DEF SeenIn, PlaceOf, Ids
<1> QED
  BY <1>1, <1>2

\* What is read of the stacktrace of an exception.
LEMMA TraceRead ==
  ASSUME IInv, op = "exception", NEW i \in Ids, Recorded(i)
  PROVE  /\ TraceOf(i).cause = PlaceOf(cause[chain[i]], i)
         /\ TraceOf(i).context = PlaceOf(context[chain[i]], i)
<1> DEFINE k == CHOOSE k \in DOMAIN traces : traces[k].id = i
<1>1. k \in DOMAIN traces /\ traces[k].id = i
  BY DEF Recorded
<1>2. TraceOf(i) = traces[k]
  BY DEF TraceOf
<1> HIDE DEF k
<1> QED
  BY <1>1, <1>2 DEF IInv, LinkInv

\* The stacktrace that reconstruct_exception goes to from one.
NextRead(i) == IF GetCause(i) # 0 THEN GetCause(i) ELSE GetContext(i)

LEMMA NextReadIs ==
  ASSUME IInv, op = "exception", \A j \in Ids : Recorded(j), NEW i \in Ids
  PROVE  /\ NextRead(i) \in Ids \cup {0}
         /\ i + 1 \in Ids => NextRead(i) = i + 1
<1> DEFINE e == chain[i]
           c == PlaceOf(cause[e], i)
           x == PlaceOf(context[e], i)
<1>1. TraceOf(i).cause = c /\ TraceOf(i).context = x
  BY TraceRead
<1>2. c \in Ids /\ x \in Ids /\ Ids \subseteq Nat \ {0}
  BY PlaceIs DEF IInv, Types, Ids
<1>3. GetCause(i) = (IF c # i THEN c ELSE 0) /\ GetContext(i) = (IF x # i THEN x ELSE 0)
  BY <1>1, <1>2 DEF GetCause, GetContext, Resolve
<1>4. NextRead(i) \in Ids \cup {0}
  BY <1>2, <1>3 DEF NextRead
<1>5. ASSUME i + 1 \in Ids
      PROVE  NextRead(i) = i + 1
  <2>1. chain[i + 1] = Successor(e) /\ chain[i + 1] \in Sources /\ e \in Sources
    BY <1>5 DEF IInv, ChainInv, Linked, Types, Ids
  <2>2. CASE cause[e] # NoSource
    <3>1. chain[i + 1] = cause[e]
      BY <2>1, <2>2 DEF Successor
    <3>2. c = i + 1
      BY <1>5, <3>1, PlaceIs DEF IInv
    <3> QED
      BY <1>2, <1>3, <3>2 DEF NextRead
  <2>3. CASE cause[e] = NoSource
    <3>1. chain[i + 1] = context[e]
      BY <2>1, <2>3, SourcesAssumption DEF Successor
    <3>2. x = i + 1
      BY <1>5, <3>1, PlaceIs DEF IInv
    <3>3. \A j \in Ids : chain[j] # cause[e]
      BY <2>3, SourcesAssumption DEF IInv, Types, Ids
    <3>4. c = i
      BY <3>3, PlaceIs DEF IInv
    <3> HIDE DEF c, x
    <3> QED
      BY <1>2, <1>3, <3>2, <3>4 DEF NextRead
  <2> QED
    BY <2>2, <2>3
<1> QED
  BY <1>4, <1>5

\* The first n numbers.
FirstUpTo(n) == [i \in 1..n |-> i]

LEMMA ExtendFirst ==
  ASSUME IInv, op = "exception", \A j \in Ids : Recorded(j), NEW n \in Nat, n > 0
  PROVE  /\ n < Len(chain) => ExtendRebuilt(FirstUpTo(n), n + 1) = FirstUpTo(n + 1)
         /\ n >= Len(chain) => ExtendRebuilt(FirstUpTo(Len(chain)), n + 1) = FirstUpTo(Len(chain))
<1> DEFINE L == Len(chain)
<1>1. L \in Nat /\ L > 0 /\ Ids = 1..L
  BY DEF IInv, ChainInv, Types, Ids
<1> HIDE DEF L
<1>2. (n + 1) - 1 = n
  OBVIOUS
<1>3. \A m \in Nat : /\ FirstUpTo(m) \in Seq(Nat) /\ Len(FirstUpTo(m)) = m /\ DOMAIN FirstUpTo(m) = 1..m
                     /\ \A i \in 1..m : FirstUpTo(m)[i] = i
  BY DEF FirstUpTo
<1>4. ASSUME n < L
      PROVE  ExtendRebuilt(FirstUpTo(n), n + 1) = FirstUpTo(n + 1)
  <2> DEFINE w == FirstUpTo(n)
  <2>1. Len(w) = n /\ w[n] = n /\ w \in Seq(Nat)
    BY <1>3
  <2>2. NextRead(n) = n + 1
    <3>1. n \in Ids /\ n + 1 \in Ids
      BY <1>1, <1>4
    <3> QED
      BY <3>1, NextReadIs
  <2>3. ~SeenIn(w, n + 1)
    BY <1>3 DEF SeenIn
  <2>4. ExtendRebuilt(w, n + 1) = Append(w, n + 1)
    <3> HIDE DEF w
    <3> QED
      BY <1>2, <2>1, <2>2, <2>3 DEF ExtendRebuilt, NextRead
  <2>5. Append(w, n + 1) = FirstUpTo(n + 1)
    <3> DEFINE a == Append(w, n + 1)
               b == FirstUpTo(n + 1)
    <3>1. a \in Seq(Nat) /\ Len(a) = n + 1 /\ a[n + 1] = n + 1 /\ \A i \in 1..n : a[i] = w[i]
      BY <2>1
    <3>2. \A i \in 1..n : w[i] = i
      BY <1>3
    <3>3. b \in Seq(Nat) /\ Len(b) = n + 1 /\ \A i \in 1..n + 1 : b[i] = i
      BY <1>3
    <3> HIDE DEF a, b, w
    <3>4. \A i \in 1..n + 1 : i \in 1..n \/ i = n + 1
      OBVIOUS
    <3>5. \A i \in 1..Len(a) : a[i] = b[i]
      BY <3>1, <3>2, <3>3, <3>4
    <3> HIDE <3>4
    <3>6. a = b
      BY <3>1, <3>3, <3>5, SeqEqual
    <3> QED
      BY <3>6 DEF a, b
  <2> QED
    BY <2>4, <2>5
<1>5. ASSUME n >= L
      PROVE  ExtendRebuilt(FirstUpTo(L), n + 1) = FirstUpTo(L)
  <2> DEFINE w == FirstUpTo(L)
  <2>1. Len(w) = L /\ w[L] = L /\ \A i \in 1..L : i \in DOMAIN w /\ w[i] = i
    BY <1>1, <1>3
  <2>2. NextRead(L) = 0 \/ SeenIn(w, NextRead(L))
    <3>1. NextRead(L) \in (1..L) \cup {0}
      BY <1>1, NextReadIs
    <3> QED
      BY <2>1, <3>1 DEF SeenIn
  <2> HIDE DEF w
  <2>3. ExtendRebuilt(w, n + 1) = w
    BY <2>1, <2>2 DEF ExtendRebuilt, NextRead
  <2> QED
    BY <2>3 DEF w
<1> QED
  BY <1>4, <1>5 DEF L

\* The function of Reconstructed.
LEMMA RebuiltExists ==
  ASSUME NEW N \in Nat, NEW id
  PROVE  \E f : f = [n \in 1..N |-> IF n = 1 THEN <<id>> ELSE ExtendRebuilt(f[n - 1], n)]
<1> DEFINE T == {m \in Nat : \E f : f = [n \in 1..m |-> IF n = 1 THEN <<id>> ELSE ExtendRebuilt(f[n - 1], n)]}
<1>1. 0 \in T
  <2> DEFINE f == [n \in 1..0 |-> <<id>>]
  <2>1. f = [n \in 1..0 |-> IF n = 1 THEN <<id>> ELSE ExtendRebuilt(f[n - 1], n)]
    OBVIOUS
  <2> QED
    BY <2>1
<1>2. ASSUME NEW m \in Nat, m \in T PROVE m + 1 \in T
  <2>1. PICK f : f = [n \in 1..m |-> IF n = 1 THEN <<id>> ELSE ExtendRebuilt(f[n - 1], n)]
    BY <1>2
  <2> DEFINE g == [n \in 1..m + 1 |-> IF n = 1 THEN <<id>> ELSE ExtendRebuilt(f[n - 1], n)]
  <2>2. \A n \in 1..m : g[n] = f[n]
    BY <2>1
  <2>3. \A n \in 1..m + 1 : n # 1 => n - 1 \in 1..m
    OBVIOUS
  <2>4. \A n \in 1..m + 1 : n # 1 => g[n - 1] = f[n - 1]
    BY <2>2, <2>3
  <2>5. g = [n \in 1..m + 1 |-> IF n = 1 THEN <<id>> ELSE ExtendRebuilt(g[n - 1], n)]
    BY <2>4
  <2> HIDE DEF g
  <2> QED
    BY <2>5
<1> HIDE DEF T
<1>3. Nat \subseteq T
  BY <1>1, <1>2, NatInd
<1> QED
  BY <1>3 DEF T

LEMMA RebuiltIs == IInv => ChainRebuilt
<1> SUFFICES ASSUME IInv, op = "exception", \A j \in Ids : Recorded(j)
             PROVE  Reconstructed(1) = [i \in 1..(IF Len(chain) > MaxChain + 1 THEN MaxChain + 1 ELSE Len(chain)) |-> i]
  BY DEF ChainRebuilt, Ids
<1> DEFINE N == MaxChain + 1
           L == Len(chain)
           W == CHOOSE f : f = [n \in 1..N |-> IF n = 1 THEN <<1>> ELSE ExtendRebuilt(f[n - 1], n)]
           First(n) == FirstUpTo(IF n < L THEN n ELSE L)
<1>1. N \in Nat /\ N > 0 /\ L \in Nat /\ L > 0
  BY BoundsAssumption DEF IInv, Types, ChainInv
<1>2. W = [n \in 1..N |-> IF n = 1 THEN <<1>> ELSE ExtendRebuilt(W[n - 1], n)]
  BY <1>1, RebuiltExists
<1>3. Reconstructed(1) = W[N]
  BY DEF Reconstructed
<1> HIDE DEF W
<1>4. \A n \in Nat : n > 0 => ExtendRebuilt(First(n), n + 1) = First(n + 1)
  <2> SUFFICES ASSUME NEW n \in Nat, n > 0 PROVE ExtendRebuilt(First(n), n + 1) = First(n + 1)
    OBVIOUS
  <2>1. CASE n < L
    <3>1. (IF n < L THEN n ELSE L) = n /\ (IF n + 1 < L THEN n + 1 ELSE L) = n + 1
      BY <1>1, <2>1
    <3> QED
      BY <2>1, <3>1, ExtendFirst
  <2>2. CASE n >= L
    <3>1. (IF n < L THEN n ELSE L) = L /\ (IF n + 1 < L THEN n + 1 ELSE L) = L
      BY <1>1, <2>2
    <3> QED
      BY <2>2, <3>1, ExtendFirst
  <2> QED
    BY <1>1, <2>1, <2>2
<1>5. First(1) = <<1>>
  <2>1. (IF 1 < L THEN 1 ELSE L) = 1
    <3> HIDE DEF L
    <3> QED
      BY <1>1
  <2>2. FirstUpTo(1) = <<1>>
    BY DEF FirstUpTo
  <2> QED
    BY <2>1, <2>2
<1> HIDE DEF N, L, First
<1> DEFINE T == {n \in Nat : n \in 1..N => W[n] = First(n)}
<1>6. 0 \in T
  OBVIOUS
<1>7. ASSUME NEW n \in Nat, n \in T PROVE n + 1 \in T
  <2> SUFFICES ASSUME n + 1 \in 1..N PROVE W[n + 1] = First(n + 1)
    OBVIOUS
  <2>1. CASE n = 0
    BY <1>1, <1>2, <1>5, <2>1
  <2>2. CASE n # 0
    <3>1. n \in 1..N /\ n + 1 # 1 /\ (n + 1) - 1 = n /\ n > 0
      BY <1>1, <2>2
    <3>2. W[n] = First(n)
      BY <1>7, <3>1
    <3>3. W[n + 1] = ExtendRebuilt(W[n], n + 1)
      BY <1>2, <3>1
    <3> QED
      BY <1>4, <3>1, <3>2, <3>3
  <2> QED
    BY <2>1, <2>2
<1> HIDE DEF T
<1>8. Nat \subseteq T
  BY <1>6, <1>7, NatInd
<1>9. W[N] = First(N)
  BY <1>1, <1>8 DEF T
<1>10. (IF N < L THEN N ELSE L) = (IF L > N THEN N ELSE L)
  BY <1>1
<1> QED
  BY <1>3, <1>9, <1>10 DEF First, FirstUpTo, N, L

\* Whatever the graph of causes and contexts, a chain all of whose exceptions
\* have a stacktrace is rebuilt by following the links that were written, as far
\* as the limit on its length goes.
THEOREM ChainRebuiltCorrect == Spec => []ChainRebuilt
BY Invariance, RebuiltIs, PTL

=============================================================================
