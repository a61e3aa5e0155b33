------------------------- MODULE DebugSession_proof -------------------------
(***************************************************************************)
(* Proofs about DebugSession and ExceptionView, for files, snapshots,      *)
(* values and bounds of every kind and size.                               *)
(***************************************************************************)
EXTENDS DebugSession, ExceptionView, SequenceTheorems, FiniteSetTheorems, WellFoundedInduction, TLAPS

(***************************************************************************)
(* Sets of numbers.                                                        *)
(***************************************************************************)
LEMMA NatMin ==
  ASSUME NEW T \in SUBSET Nat, T # {}
  PROVE  \E m \in T : \A k \in T : m <= k
<1> DEFINE R == OpToRel(<, Nat)
<1>1. IsWellFoundedOn(R, Nat)
  BY NatLessThanWellFounded
<1>2. PICK x \in T : \A y \in T : ~(<<y, x>> \in R)
  <2> HIDE DEF R
  <2> QED
    BY <1>1, WFMin
<1>3. \A y \in T : y < x => <<y, x>> \in R
  BY DEF OpToRel
<1> HIDE DEF R
<1>4. \A y \in T : ~(y < x)
  BY <1>2, <1>3
<1> QED
  BY <1>4

LEMMA NatInd ==
  ASSUME NEW T, 0 \in T, \A n \in Nat : n \in T => n + 1 \in T
  PROVE  Nat \subseteq T
<1> SUFFICES ASSUME NEW b \in Nat, b \notin T PROVE FALSE
  OBVIOUS
<1> DEFINE U == {n \in Nat : n \notin T}
<1>1. U \in SUBSET Nat /\ U # {}
  OBVIOUS
<1>2. PICK m \in U : \A k \in U : m <= k
  <2> HIDE DEF U
  <2> QED
    BY <1>1, NatMin
<1>3. m # 0 /\ m \in Nat /\ m - 1 \in Nat /\ m - 1 \notin U
  BY <1>2
<1> QED
  BY <1>3

\* The least number of a set.
LEMMA MinOf ==
  ASSUME NEW T \in SUBSET Nat, T # {}
  PROVE  Min(T) \in T /\ \A k \in T : Min(T) <= k
<1>1. PICK m \in T : \A k \in T : m <= k
  BY NatMin
<1> QED
  BY <1>1 DEF Min

\* The greatest of two numbers, and the least.
LEMMA MaxOfTwo ==
  ASSUME NEW a \in Int, NEW b \in Int
  PROVE  Max({a, b}) \in Int /\ Max({a, b}) >= a /\ Max({a, b}) >= b /\ Max({a, b}) \in {a, b}
<1>1. \E x \in {a, b} : \A y \in {a, b} : x >= y
  <2>1. CASE a >= b
    BY <2>1
  <2>2. CASE b >= a
    BY <2>2
  <2> QED
    BY <2>1, <2>2
<1>2. Max({a, b}) \in {a, b} /\ \A y \in {a, b} : Max({a, b}) >= y
  BY <1>1 DEF Max
<1> QED
  BY <1>2

LEMMA MinOfTwo ==
  ASSUME NEW a \in Int, NEW b \in Int
  PROVE  Min({a, b}) \in Int /\ Min({a, b}) <= a /\ Min({a, b}) <= b /\ Min({a, b}) \in {a, b}
<1>1. \E x \in {a, b} : \A y \in {a, b} : x <= y
  <2>1. CASE a <= b
    BY <2>1
  <2>2. CASE b <= a
    BY <2>2
  <2> QED
    BY <2>1, <2>2
<1>2. Min({a, b}) \in {a, b} /\ \A y \in {a, b} : Min({a, b}) <= y
  BY <1>1 DEF Min
<1> QED
  BY <1>2

\* The last number of an initial part of the numbers: a fold takes it first.
LEMMA MaxOfPart ==
  ASSUME NEW n \in Nat, NEW s \in SUBSET (1..(n + 1)), s # {}
  PROVE  Max(s) \in s /\ s \ {Max(s)} \in SUBSET (1..n)
<1> DEFINE T == {k \in Nat : \A x \in s : x <= k}
<1>1. T \in SUBSET Nat /\ n + 1 \in T
  OBVIOUS
<1>2. PICK m \in T : \A k \in T : m <= k
  <2> HIDE DEF T
  <2> QED
    BY <1>1, NatMin
<1>3. m \in s
  <2> SUFFICES ASSUME m \notin s PROVE FALSE
    OBVIOUS
  <2>1. PICK x \in s : TRUE
    OBVIOUS
  <2>2. x \in Nat /\ 1 <= x /\ x <= m
    BY <1>2, <2>1
  <2>3. \A y \in s : y \in Nat /\ y <= m - 1
    BY <1>2
  <2>4. m - 1 \in T
    BY <1>2, <2>2, <2>3
  <2> QED
    BY <1>2, <2>4
<1>4. \E z \in s : \A y \in s : z >= y
  BY <1>2, <1>3
<1>5. Max(s) \in s /\ \A y \in s : Max(s) >= y
  BY <1>4 DEF Max
<1>6. ASSUME NEW y \in s \ {Max(s)}
      PROVE  y \in 1..n
  <2>1. y \in 1..(n + 1) /\ Max(s) \in 1..(n + 1) /\ y # Max(s) /\ y <= Max(s)
    BY <1>5, <1>6
  <2> QED
    BY <2>1
<1> QED
  BY <1>5, <1>6

LEMMA MaxOfAll ==
  ASSUME NEW n \in Nat, n # 0
  PROVE  Max(1..n) = n /\ (1..n) \ {n} = 1..(n - 1)
<1>1. n \in 1..n /\ \A y \in 1..n : n >= y
  OBVIOUS
<1>2. Max(1..n) \in 1..n /\ \A y \in 1..n : Max(1..n) >= y
  BY <1>1 DEF Max
<1> QED
  BY <1>2

(***************************************************************************)
(* What a fold over a sequence goes through: a function from the number of *)
(* elements that have been taken.  Step is what the folds of the session   *)
(* do with the next element.                                               *)
(***************************************************************************)
Step(fold, acc, x) ==
  CASE fold = "rows" -> AddRow(acc, x)
    [] fold = "variables" -> MakeVariable(acc, x)
    [] fold = "files" -> Record(acc, x)
    [] fold = "extracted" -> RecordNew(acc, x)

FoldOf(f, n, fold, base, rows) ==
  [s \in SUBSET (1..n) |->
     IF s = {} THEN base ELSE Step(fold, f[s \ {Max(s)}], rows[Max(s)])]
IsFold(f, n, fold, base, rows) == f = FoldOf(f, n, fold, base, rows)

LEMMA FoldExtends ==
  ASSUME NEW fold, NEW base, NEW rows, NEW n \in Nat, NEW f, IsFold(f, n, fold, base, rows)
  PROVE  \E g : IsFold(g, n + 1, fold, base, rows)
<1> DEFINE g == FoldOf(f, n + 1, fold, base, rows)
<1>1. ASSUME NEW s \in SUBSET (1..n)
      PROVE  g[s] = f[s]
  <2>1. s \in SUBSET (1..(n + 1))
    OBVIOUS
  <2>2. g[s] = IF s = {} THEN base ELSE Step(fold, f[s \ {Max(s)}], rows[Max(s)])
    BY <2>1 DEF FoldOf, IsFold
  <2>3. f[s] = IF s = {} THEN base ELSE Step(fold, f[s \ {Max(s)}], rows[Max(s)])
    BY DEF FoldOf, IsFold
  <2> QED
    BY <2>2, <2>3
<1>2. ASSUME NEW s \in SUBSET (1..(n + 1)), s # {}
      PROVE  g[s] = Step(fold, g[s \ {Max(s)}], rows[Max(s)])
  <2>1. g[s] = Step(fold, f[s \ {Max(s)}], rows[Max(s)])
    BY <1>2 DEF FoldOf, IsFold
  <2>2. s \ {Max(s)} \in SUBSET (1..n)
    BY <1>2, MaxOfPart
  <2> QED
    BY <1>1, <2>1, <2>2
<1>3. g[{}] = base
  BY DEF FoldOf, IsFold
<1>4. g = [s \in SUBSET (1..(n + 1)) |-> g[s]]
  BY DEF FoldOf, IsFold
<1> HIDE DEF g
<1>5. \A s \in SUBSET (1..(n + 1)) :
        g[s] = IF s = {} THEN base ELSE Step(fold, g[s \ {Max(s)}], rows[Max(s)])
  BY <1>2, <1>3
<1>6. IsFold(g, n + 1, fold, base, rows)
  BY <1>4, <1>5 DEF FoldOf, IsFold
<1> QED
  BY <1>6

LEMMA FoldExists ==
  ASSUME NEW fold, NEW base, NEW rows, NEW n \in Nat
  PROVE  \E f : IsFold(f, n, fold, base, rows)
<1> DEFINE T == {k \in Nat : \E f : IsFold(f, k, fold, base, rows)}
<1>1. 0 \in T
  <2> DEFINE f == [s \in SUBSET (1..0) |-> base]
  <2>1. IsFold(f, 0, fold, base, rows)
    BY DEF FoldOf, IsFold
  <2> QED
    BY <2>1
<1>2. \A k \in Nat : k \in T => k + 1 \in T
  BY FoldExtends
<1> HIDE DEF T
<1>3. n \in T
  BY <1>1, <1>2, NatInd
<1> QED
  BY <1>3 DEF T

StepsOf(steps, N, fold, base, rows) ==
  steps[0] = base /\ \A n \in 1..N : steps[n] = Step(fold, steps[n - 1], rows[n])

LEMMA FoldSteps ==
  ASSUME NEW fold, NEW base, NEW rows, NEW N \in Nat, NEW f, IsFold(f, N, fold, base, rows)
  PROVE  \E steps : StepsOf(steps, N, fold, base, rows) /\ steps[N] = f[1..N]
<1> DEFINE steps == [n \in 0..N |-> f[1..n]]
<1>1. steps[0] = base
  <2>1. f[{}] = base /\ 1..0 = {}
    BY DEF FoldOf, IsFold
  <2> QED
    BY <2>1
<1>2. ASSUME NEW n \in 1..N
      PROVE  steps[n] = Step(fold, steps[n - 1], rows[n])
  <2>1. n \in Nat /\ 1..n \in SUBSET (1..N) /\ n \in 1..n
    OBVIOUS
  <2>2. f[1..n] = Step(fold, f[(1..n) \ {Max(1..n)}], rows[Max(1..n)])
    BY <2>1 DEF FoldOf, IsFold
  <2>3. Max(1..n) = n /\ (1..n) \ {n} = 1..(n - 1)
    BY MaxOfAll
  <2>4. n \in 0..N /\ n - 1 \in 0..N
    OBVIOUS
  <2> QED
    BY <2>2, <2>3, <2>4
<1>3. steps[N] = f[1..N]
  OBVIOUS
<1> HIDE DEF steps
<1>4. StepsOf(steps, N, fold, base, rows)
  BY <1>1, <1>2 DEF StepsOf
<1> QED
  BY <1>3, <1>4

LEMMA AddRowFold ==
  ASSUME NEW base, NEW rows, NEW N \in Nat, DOMAIN rows = 1..N
  PROVE  \E steps : /\ steps[0] = base
                    /\ \A n \in 1..N : steps[n] = AddRow(steps[n - 1], rows[n])
                    /\ steps[N] = FoldLeft(AddRow, base, rows)
<1>1. \A acc, x : Step("rows", acc, x) = AddRow(acc, x)
  BY DEF Step
<1>2. PICK f : IsFold(f, N, "rows", base, rows)
  BY FoldExists
<1> DEFINE it == CHOOSE iter : iter = [s \in SUBSET (DOMAIN rows) |->
                   IF s = {} THEN base ELSE AddRow(iter[s \ {Max(s)}], rows[Max(s)])]
<1>3. f = [s \in SUBSET (DOMAIN rows) |->
             IF s = {} THEN base ELSE AddRow(f[s \ {Max(s)}], rows[Max(s)])]
  BY <1>1, <1>2 DEF FoldOf, IsFold
<1>4. it = [s \in SUBSET (DOMAIN rows) |->
              IF s = {} THEN base ELSE AddRow(it[s \ {Max(s)}], rows[Max(s)])]
  BY <1>3
<1>5. FoldLeft(AddRow, base, rows) = it[1..N]
  BY DEF FoldLeft, MapThenFoldSet
<1> HIDE DEF it
<1>6. IsFold(it, N, "rows", base, rows)
  BY <1>1, <1>4 DEF FoldOf, IsFold
<1>7. PICK steps : StepsOf(steps, N, "rows", base, rows) /\ steps[N] = it[1..N]
  BY <1>6, FoldSteps
<1> QED
  BY <1>1, <1>5, <1>7 DEF StepsOf

LEMMA MakeVariableFold ==
  ASSUME NEW base, NEW rows, NEW N \in Nat, DOMAIN rows = 1..N
  PROVE  \E steps : /\ steps[0] = base
                    /\ \A n \in 1..N : steps[n] = MakeVariable(steps[n - 1], rows[n])
                    /\ steps[N] = FoldLeft(MakeVariable, base, rows)
<1>1. \A acc, x : Step("variables", acc, x) = MakeVariable(acc, x)
  BY DEF Step
<1>2. PICK f : IsFold(f, N, "variables", base, rows)
  BY FoldExists
<1> DEFINE it == CHOOSE iter : iter = [s \in SUBSET (DOMAIN rows) |->
                   IF s = {} THEN base ELSE MakeVariable(iter[s \ {Max(s)}], rows[Max(s)])]
<1>3. f = [s \in SUBSET (DOMAIN rows) |->
             IF s = {} THEN base ELSE MakeVariable(f[s \ {Max(s)}], rows[Max(s)])]
  BY <1>1, <1>2 DEF FoldOf, IsFold
<1>4. it = [s \in SUBSET (DOMAIN rows) |->
              IF s = {} THEN base ELSE MakeVariable(it[s \ {Max(s)}], rows[Max(s)])]
  BY <1>3
<1>5. FoldLeft(MakeVariable, base, rows) = it[1..N]
  BY DEF FoldLeft, MapThenFoldSet
<1> HIDE DEF it
<1>6. IsFold(it, N, "variables", base, rows)
  BY <1>1, <1>4 DEF FoldOf, IsFold
<1>7. PICK steps : StepsOf(steps, N, "variables", base, rows) /\ steps[N] = it[1..N]
  BY <1>6, FoldSteps
<1> QED
  BY <1>1, <1>5, <1>7 DEF StepsOf

LEMMA RecordFold ==
  ASSUME NEW base, NEW rows, NEW N \in Nat, DOMAIN rows = 1..N
  PROVE  \E steps : /\ steps[0] = base
                    /\ \A n \in 1..N : steps[n] = Record(steps[n - 1], rows[n])
                    /\ steps[N] = FoldLeft(Record, base, rows)
<1>1. \A acc, x : Step("files", acc, x) = Record(acc, x)
  BY DEF Step
<1>2. PICK f : IsFold(f, N, "files", base, rows)
  BY FoldExists
<1> DEFINE it == CHOOSE iter : iter = [s \in SUBSET (DOMAIN rows) |->
                   IF s = {} THEN base ELSE Record(iter[s \ {Max(s)}], rows[Max(s)])]
<1>3. f = [s \in SUBSET (DOMAIN rows) |->
             IF s = {} THEN base ELSE Record(f[s \ {Max(s)}], rows[Max(s)])]
  BY <1>1, <1>2 DEF FoldOf, IsFold
<1>4. it = [s \in SUBSET (DOMAIN rows) |->
              IF s = {} THEN base ELSE Record(it[s \ {Max(s)}], rows[Max(s)])]
  BY <1>3
<1>5. FoldLeft(Record, base, rows) = it[1..N]
  BY DEF FoldLeft, MapThenFoldSet
<1> HIDE DEF it
<1>6. IsFold(it, N, "files", base, rows)
  BY <1>1, <1>4 DEF FoldOf, IsFold
<1>7. PICK steps : StepsOf(steps, N, "files", base, rows) /\ steps[N] = it[1..N]
  BY <1>6, FoldSteps
<1> QED
  BY <1>1, <1>5, <1>7 DEF StepsOf

LEMMA RecordNewFold ==
  ASSUME NEW base, NEW rows, NEW N \in Nat, DOMAIN rows = 1..N
  PROVE  \E steps : /\ steps[0] = base
                    /\ \A n \in 1..N : steps[n] = RecordNew(steps[n - 1], rows[n])
                    /\ steps[N] = FoldLeft(RecordNew, base, rows)
<1>1. \A acc, x : Step("extracted", acc, x) = RecordNew(acc, x)
  BY DEF Step
<1>2. PICK f : IsFold(f, N, "extracted", base, rows)
  BY FoldExists
<1> DEFINE it == CHOOSE iter : iter = [s \in SUBSET (DOMAIN rows) |->
                   IF s = {} THEN base ELSE RecordNew(iter[s \ {Max(s)}], rows[Max(s)])]
<1>3. f = [s \in SUBSET (DOMAIN rows) |->
             IF s = {} THEN base ELSE RecordNew(f[s \ {Max(s)}], rows[Max(s)])]
  BY <1>1, <1>2 DEF FoldOf, IsFold
<1>4. it = [s \in SUBSET (DOMAIN rows) |->
              IF s = {} THEN base ELSE RecordNew(it[s \ {Max(s)}], rows[Max(s)])]
  BY <1>3
<1>5. FoldLeft(RecordNew, base, rows) = it[1..N]
  BY DEF FoldLeft, MapThenFoldSet
<1> HIDE DEF it
<1>6. IsFold(it, N, "extracted", base, rows)
  BY <1>1, <1>4 DEF FoldOf, IsFold
<1>7. PICK steps : StepsOf(steps, N, "extracted", base, rows) /\ steps[N] = it[1..N]
  BY <1>6, FoldSteps
<1> QED
  BY <1>1, <1>5, <1>7 DEF StepsOf

(***************************************************************************)
(* The inductive invariant.                                                *)
(***************************************************************************)
\* Where the cursor is, and on which thread the client was stopped.
CursorInv ==
  /\ reader \in Files \cup {NoFile} /\ count \in Nat /\ index \in Nat
  /\ reader \in Files => count <= Len(SnapshotsOf[reader])
  /\ reader = NoFile => current = NoSnapshot
  /\ current # NoSnapshot =>
       /\ index < count /\ current = Snapshot(index) /\ current # Corrupt
       /\ ThreadIds(current) # {} =>
            IF stoppedOn = ChainThread THEN HasChain(current, excluded)
            ELSE stoppedOn \in ThreadIds(current)

\* The frames that have ids, the ids of the frames, and those of separators.
TableOK(fr, ids, next, seps) ==
  /\ next \in Nat \ {0}
  /\ \A id \in DOMAIN fr : id \in 1..(next - 1) /\ fr[id] \in DOMAIN ids /\ ids[fr[id]] = id
  /\ \A key \in DOMAIN ids : ids[key] \in DOMAIN fr /\ fr[ids[key]] = key
  /\ \A id \in seps : id \in 1..(next - 1) /\ id \notin DOMAIN fr

\* A frame of the snapshot, by its stacktrace and its index in that.
KeyOK(key) == key[1] \in ThreadIds(current) /\ key[2] \in DOMAIN current[key[1]].frames
FrameAt(key) == current[key[1]].frames[key[2]]

FrameInv ==
  /\ TableOK(frames, frameIds, nextFrameId, separators)
  /\ \A id \in DOMAIN frames : KeyOK(frames[id])

\* What a reference leads to, and the references of values and scopes.
IsRegistry(reg) == reg = [next |-> reg.next, entries |-> reg.entries, refs |-> reg.refs]
EntryOK(reg, r) ==
  LET e == reg.entries[r]
  IN  \/ e.kind = "scope" /\ e = ScopeEntry(e.frame)
      \/ /\ e.kind = "object" /\ e = ObjectEntry(e.value, e.name)
         /\ e.value \in Objects /\ e.value \in DOMAIN reg.refs /\ reg.refs[e.value] = r
      \/ e.kind = "attrs" /\ e = BundleEntry(e.value, e.name) /\ e.value \in Objects
RefOK(reg, o) ==
  /\ reg.refs[o] \in DOMAIN reg.entries
  /\ reg.entries[reg.refs[o]].kind = "object" /\ reg.entries[reg.refs[o]].value = o
RegistryOK(reg) ==
  /\ IsRegistry(reg) /\ reg.next \in Nat \ {0}
  /\ \A r \in DOMAIN reg.entries : r \in 1..(reg.next - 1) /\ EntryOK(reg, r)
  /\ \A o \in DOMAIN reg.refs : RefOK(reg, o)

ScopesOK(reg, sc) ==
  /\ \A r \in DOMAIN reg.entries : reg.entries[r].kind = "scope" =>
       reg.entries[r].frame \in DOMAIN sc /\ sc[reg.entries[r].frame] = r
  /\ \A id \in DOMAIN sc : sc[id] \in DOMAIN reg.entries /\ reg.entries[sc[id]] = ScopeEntry(id)

RegistryInv ==
  /\ RegistryOK(registry) /\ ScopesOK(registry, scopes)
  /\ DOMAIN scopes \subseteq DOMAIN frames

\* What the client was shown in the current snapshot is what is known now.
Watched == current # NoSnapshot /\ ThreadIds(current) # {} /\ ~hide
FramesSeen(fr, seen) == \A id \in DOMAIN seen : id \in DOMAIN fr /\ FrameAt(fr[id]) = seen[id]
RefsSeen == \A ref \in DOMAIN seenRefs : Resolvable(registry, ref) /\ Entry(ref) = seenRefs[ref]
ViewInv == Watched => FramesSeen(frames, seenFrames) /\ RefsSeen

\* Which file each reference to a source is for, and that the embedded files
\* that were shown have one.
IsSources(src) == DOMAIN src = {"embedded", "order", "byBase", "keys", "dir"}
SourcesOK(src) ==
  /\ IsSources(src) /\ NoKey \notin DOMAIN src.embedded
  /\ IsSequence(src.keys) /\ \A m, n \in DOMAIN src.keys : src.keys[m] = src.keys[n] => m = n
Described(src, seen) ==
  \A id \in DOMAIN seen :
    seen[id].path \in DOMAIN src.embedded /\ ~IsFile(seen[id].path) => seen[id].path \in ToSet(src.keys)
SourceInv ==
  /\ SourcesOK(sources) /\ Described(sources, seenFrames)
  /\ reader = NoFile => seenFrames = <<>>

IInv == CursorInv /\ FrameInv /\ RegistryInv /\ ViewInv /\ SourceInv

(***************************************************************************)
(* The cursor.                                                             *)
(***************************************************************************)
LEMMA SnapshotIs ==
  ASSUME NEW file \in Files, NEW i \in 1..Len(SnapshotsOf[file]), SnapshotsOf[file][i] # Corrupt
  PROVE  SnapshotsOf[file][i] # NoSnapshot /\ IsSnapshot(SnapshotsOf[file][i])
<1>1. IsSequence(SnapshotsOf[file])
  BY SessionAssumption
<1>2. i \in DOMAIN SnapshotsOf[file]
  BY <1>1 DEF IsSequence
<1> QED
  BY <1>2, SessionAssumption

LEMMA CurrentIs ==
  ASSUME CursorInv, current # NoSnapshot
  PROVE  IsSnapshot(current) /\ reader \in Files
<1>1. reader \in Files /\ index + 1 \in 1..Len(SnapshotsOf[reader])
  <2>1. reader \in Files
    BY DEF CursorInv
  <2>2. Len(SnapshotsOf[reader]) \in Nat
    BY <2>1, SessionAssumption DEF IsSequence
  <2> QED
    BY <2>1, <2>2 DEF CursorInv
<1>2. SnapshotsOf[reader][index + 1] = current /\ current # Corrupt
  BY DEF CursorInv, Snapshot
<1> QED
  BY <1>1, <1>2, SnapshotIs

\* The thread a stopped event names is one that stackTrace finds.
LEMMA StopThreadIs ==
  ASSUME NEW snap, snap # NoSnapshot, IsSnapshot(snap), NEW name, NEW filter,
         ThreadIds(snap) # {}
  PROVE  LET t == PickStopThread(snap, name, filter)
         IN  t # NoThread /\ IF t = ChainThread THEN HasChain(snap, filter) ELSE t \in ThreadIds(snap)
<1> DEFINE t == PickStopThread(snap, name, filter)
           named == {q \in ThreadIds(snap) : snap[q].name = name}
<1>1. ThreadIds(snap) \in SUBSET Nat /\ \A q \in ThreadIds(snap) : q # NoThread /\ q # ChainThread
  BY DEF ThreadIds, IsSnapshot, NoThread, ChainThread
<1>2. NoThread # ChainThread
  BY DEF NoThread, ChainThread
<1>3. CASE HasChain(snap, filter) /\ name = ChainName
  BY <1>2, <1>3 DEF PickStopThread
<1>4. CASE ~(HasChain(snap, filter) /\ name = ChainName) /\ named # {}
  <2>1. t = Min(named)
    BY <1>4 DEF PickStopThread
  <2>2. Min(named) \in named
    BY <1>1, <1>4, MinOf
  <2> QED
    BY <1>1, <2>1, <2>2
<1>5. CASE ~(HasChain(snap, filter) /\ name = ChainName) /\ named = {} /\ HasChain(snap, filter)
  BY <1>2, <1>5 DEF PickStopThread
<1>6. CASE named = {} /\ ~HasChain(snap, filter)
  <2>1. t = Min(ThreadIds(snap))
    BY <1>6 DEF PickStopThread
  <2>2. Min(ThreadIds(snap)) \in ThreadIds(snap)
    BY <1>1, MinOf
  <2> QED
    BY <1>1, <2>1, <2>2
<1> QED
  BY <1>3, <1>4, <1>5, <1>6

LEMMA SendStoppedIs ==
  ASSUME NEW snap, snap # NoSnapshot, IsSnapshot(snap), NEW filter, SendStopped(snap, filter)
  PROVE  /\ ThreadIds(snap) # {} =>
              /\ IF stoppedOn' = ChainThread THEN HasChain(snap, filter) ELSE stoppedOn' \in ThreadIds(snap)
              /\ seenFrames' = <<>> /\ seenRefs' = <<>>
         /\ \/ seenFrames' = <<>> /\ seenRefs' = <<>>
            \/ UNCHANGED <<stoppedOn, seenFrames, seenRefs>>
<1>1. CASE ThreadIds(snap) # {}
  BY <1>1, StopThreadIs DEF SendStopped
<1>2. CASE ThreadIds(snap) = {}
  BY <1>2 DEF SendStopped
<1> QED
  BY <1>1, <1>2

\* A move to a snapshot of the file.
LEMMA MoveToCursor ==
  ASSUME CursorInv, reader \in Files, NEW i \in 0..(count - 1), Snapshot(i) # Corrupt,
         index' = i, current' = Snapshot(i), UNCHANGED <<reader, count, excluded>>,
         SendStopped(Snapshot(i), excluded)
  PROVE  CursorInv' /\ IsSnapshot(current') /\ current' # NoSnapshot
<1>1. count \in Nat /\ count <= Len(SnapshotsOf[reader]) /\ Len(SnapshotsOf[reader]) \in Nat
  BY SessionAssumption DEF CursorInv, IsSequence
<1>2. Snapshot(i) # NoSnapshot /\ IsSnapshot(Snapshot(i))
  <2>1. i + 1 \in 1..Len(SnapshotsOf[reader])
    BY <1>1
  <2> QED
    BY <2>1, SnapshotIs DEF Snapshot
<1>3. ThreadIds(current') # {} =>
        IF stoppedOn' = ChainThread THEN HasChain(current', excluded') ELSE stoppedOn' \in ThreadIds(current')
  BY <1>2, SendStoppedIs
<1>4. i \in Nat /\ i < count
  BY <1>1
<1>5. current' = Snapshot(index)'
  BY DEF Snapshot
<1>6. reader' # NoFile
  BY SessionAssumption
<1> QED
  BY <1>1, <1>2, <1>3, <1>4, <1>5, <1>6 DEF CursorInv

LEMMA CursorKept ==
  ASSUME CursorInv, UNCHANGED <<cursorVars, excluded, stoppedOn>>
  PROVE  CursorInv'
BY DEF CursorInv, cursorVars, Snapshot, ThreadIds, HasChain, Exceptions

LEMMA StartIndexIs ==
  ASSUME NEW raw \in Int, NEW n \in Nat, n > 0
  PROVE  ResolveStartIndex(raw, n) \in 0..(n - 1)
<1> DEFINE k == IF raw < 0 THEN raw + n ELSE raw
<1>1. k \in Int /\ n - 1 \in Int
  OBVIOUS
<1> HIDE DEF k
<1>2. Min({k, n - 1}) \in Int /\ Min({k, n - 1}) <= n - 1
  BY <1>1, MinOfTwo
<1>3. PICK m \in Int : m = Min({k, n - 1})
  BY <1>2
<1>4. Max({0, m}) \in Int /\ Max({0, m}) >= 0 /\ Max({0, m}) \in {0, m}
  BY MaxOfTwo
<1>5. Max({0, m}) \in 0..(n - 1)
  BY <1>2, <1>3, <1>4
<1> QED
  BY <1>3, <1>5 DEF ResolveStartIndex, k

\* A launch that shows a snapshot, and one that does not.
LaunchShows(file, i, filter) ==
  /\ i \in 0..(count - 1) /\ SnapshotsOf[file][i + 1] # Corrupt
  /\ index' = i /\ current' = SnapshotsOf[file][i + 1]
  /\ RefreshStopState
  /\ SendStopped(SnapshotsOf[file][i + 1], filter)

LEMMA LaunchIs ==
  ASSUME CursorInv, NEW file \in Files, NEW start \in Starts, NEW filter, NEW hiding,
         Launch(file, start, filter, hiding)
  PROVE  \/ UNCHANGED <<index, current, frameVars, registry, clientVars>>
         \/ \E i : LaunchShows(file, i, filter)
<1> DEFINE i == ResolveStartIndex(start, count)
<1>1. CASE count = 0 \/ SnapshotsOf[file][i + 1] = Corrupt
  BY <1>1 DEF Launch
<1>2. CASE ~(count = 0 \/ SnapshotsOf[file][i + 1] = Corrupt)
  <2>1. start \in Int /\ count \in Nat /\ count > 0
    BY <1>2, SessionAssumption DEF CursorInv
  <2>2. i \in 0..(count - 1)
    BY <2>1, StartIndexIs
  <2>3. /\ index' = i /\ current' = SnapshotsOf[file][i + 1]
        /\ RefreshStopState /\ SendStopped(SnapshotsOf[file][i + 1], filter)
    BY <1>2 DEF Launch
  <2> HIDE DEF i
  <2> QED
    BY <1>2, <2>2, <2>3 DEF LaunchShows
<1> QED
  BY <1>1, <1>2

LEMMA LaunchCursor ==
  ASSUME CursorInv, NEW file \in Files, NEW start \in Starts, NEW filter, NEW hiding,
         Launch(file, start, filter, hiding)
  PROVE  CursorInv'
<1>1. /\ reader = NoFile /\ reader' = file /\ count' = count /\ count <= Len(SnapshotsOf[file])
      /\ excluded' = filter
  BY DEF Launch
<1>2. current = NoSnapshot /\ count \in Nat /\ index \in Nat /\ file # NoFile
  BY <1>1, SessionAssumption DEF CursorInv
<1>3. CASE UNCHANGED <<index, current, frameVars, registry, clientVars>>
  BY <1>1, <1>2, <1>3 DEF CursorInv
<1>4. ASSUME NEW i, LaunchShows(file, i, filter)
      PROVE  CursorInv'
  <2> DEFINE snap == SnapshotsOf[file][i + 1]
  <2>1. Len(SnapshotsOf[file]) \in Nat /\ i \in Nat /\ i < count /\ i + 1 \in 1..Len(SnapshotsOf[file])
    <3>1. Len(SnapshotsOf[file]) \in Nat /\ i \in 0..(count - 1)
      BY <1>4, SessionAssumption DEF IsSequence, LaunchShows
    <3> QED
      BY <1>1, <1>2, <3>1
  <2>2. snap # Corrupt /\ index' = i /\ current' = snap /\ SendStopped(snap, filter)
    BY <1>4 DEF LaunchShows
  <2>3. snap # NoSnapshot /\ IsSnapshot(snap)
    BY <2>1, <2>2, SnapshotIs
  <2>4. current' = Snapshot(index)'
    BY <1>1, <2>2 DEF Snapshot
  <2>5. ThreadIds(current') # {} =>
          IF stoppedOn' = ChainThread THEN HasChain(current', filter) ELSE stoppedOn' \in ThreadIds(current')
    BY <2>2, <2>3, SendStoppedIs
  <2> HIDE DEF snap
  <2> QED
    BY <1>1, <1>2, <2>1, <2>2, <2>4, <2>5 DEF CursorInv
<1> QED
  BY <1>3, <1>4, LaunchIs

\* Where an advance goes, and when it stays.
AdvanceMoves(i) == i \in 0..(count - 1) /\ MoveTo(i)
AdvanceStays ==
  /\ RefreshStopState
  /\ IF current = NoSnapshot THEN UNCHANGED <<stoppedOn, seenFrames, seenRefs>>
     ELSE SendStopped(current, excluded)
  /\ UNCHANGED <<cursorVars, filterVars, sources, preferred, known>>

LEMMA AdvanceIs ==
  ASSUME NEW direction \in {-1, 1}, Advance(direction)
  PROVE  reader # NoFile /\ ((\E i : AdvanceMoves(i)) \/ AdvanceStays)
<1>1. CASE index + direction \in 0..count - 1
  BY <1>1 DEF Advance, AdvanceMoves
<1>2. CASE index + direction \notin 0..count - 1
  BY <1>2 DEF Advance, AdvanceStays
<1> QED
  BY <1>1, <1>2 DEF Advance

LEMMA MoveCursor ==
  ASSUME CursorInv, reader # NoFile, NEW i \in 0..(count - 1), MoveTo(i)
  PROVE  CursorInv' /\ IsSnapshot(current') /\ current' # NoSnapshot
<1>1. reader \in Files
  BY DEF CursorInv
<1>2. /\ Snapshot(i) # Corrupt /\ index' = i /\ current' = Snapshot(i)
      /\ UNCHANGED <<reader, count, excluded>> /\ SendStopped(Snapshot(i), excluded)
  BY DEF MoveTo, LoadSnapshot, filterVars
<1> QED
  BY <1>1, <1>2, MoveToCursor

LEMMA AdvanceStaysCursor ==
  ASSUME CursorInv, AdvanceStays
  PROVE  CursorInv'
<1>1. UNCHANGED <<reader, count, index, current, excluded>>
  BY DEF AdvanceStays, cursorVars, filterVars
<1>2. CASE current = NoSnapshot
  BY <1>1, <1>2 DEF CursorInv
<1>3. CASE current # NoSnapshot
  <2>1. SendStopped(current, excluded)
    BY <1>3 DEF AdvanceStays
  <2>2. ThreadIds(current) # {} =>
          IF stoppedOn' = ChainThread THEN HasChain(current, excluded) ELSE stoppedOn' \in ThreadIds(current)
    BY <1>3, <2>1, CurrentIs, SendStoppedIs
  <2>3. Snapshot(index)' = Snapshot(index)
    BY <1>1 DEF Snapshot
  <2> QED
    BY <1>1, <1>3, <2>2, <2>3 DEF CursorInv
<1> QED
  BY <1>2, <1>3

LEMMA RestartCursor ==
  ASSUME CursorInv, Restart
  PROVE  CursorInv' /\ IsSnapshot(current') /\ current' # NoSnapshot
<1>1. reader \in Files /\ 0 \in 0..(count - 1)
  <2>1. reader # NoFile /\ count > 0 /\ count \in Nat
    BY DEF Restart, CursorInv
  <2> QED
    BY <2>1 DEF CursorInv
<1>2. /\ Snapshot(0) # Corrupt /\ index' = 0 /\ current' = Snapshot(0)
      /\ UNCHANGED <<reader, count, excluded>> /\ SendStopped(Snapshot(0), excluded)
  BY DEF Restart, LoadSnapshot, filterVars
<1> QED
  BY <1>1, <1>2, MoveToCursor

\* A request, or a snapshot that another program adds.
LEMMA CursorInit == Init => CursorInv
BY SessionAssumption DEF Init, CursorInv

LEMMA CursorStep ==
  ASSUME CursorInv, [Next]_vars
  PROVE  CursorInv'
<1>1. CASE Capture
  <2>1. /\ reader \in Files /\ count' = count + 1 /\ count < Len(SnapshotsOf[reader])
        /\ UNCHANGED <<reader, index, current, excluded, stoppedOn>>
    BY <1>1 DEF Capture, CursorInv, filterVars, clientVars
  <2>2. Len(SnapshotsOf[reader]) \in Nat /\ count \in Nat /\ index \in Nat
    BY <2>1, SessionAssumption DEF IsSequence, CursorInv
  <2>3. count' \in Nat /\ count' <= Len(SnapshotsOf[reader]) /\ (index < count => index < count')
    BY <2>1, <2>2
  <2>4. Snapshot(index)' = Snapshot(index)
    BY <2>1 DEF Snapshot
  <2> QED
    BY <2>1, <2>3, <2>4 DEF CursorInv
<1>2. ASSUME NEW file \in Files, NEW start \in Starts, NEW filter \in Filters, NEW hiding \in Hiding,
             Launch(file, start, filter, hiding)
      PROVE  CursorInv'
  BY <1>2, LaunchCursor
<1>3. ASSUME NEW direction \in {-1, 1}, Advance(direction)
      PROVE  CursorInv'
  <2>1. reader # NoFile /\ ((\E i : AdvanceMoves(i)) \/ AdvanceStays)
    BY <1>3, AdvanceIs
  <2>2. ASSUME NEW i, AdvanceMoves(i)
        PROVE  CursorInv'
    BY <2>1, <2>2, MoveCursor DEF AdvanceMoves
  <2> QED
    BY <2>1, <2>2, AdvanceStaysCursor
<1>4. ASSUME NEW i \in 0..count - 1, JumpToSnapshot(i)
      PROVE  CursorInv'
  BY <1>4, MoveCursor DEF JumpToSnapshot
<1>5. CASE Restart
  BY <1>5, RestartCursor
<1>6. ASSUME NEW t, NEW start, NEW levels, StackTrace(t, start, levels)
      PROVE  CursorInv'
  BY <1>6, CursorKept DEF StackTrace, filterVars
<1>7. ASSUME NEW id, Scopes(id)
      PROVE  CursorInv'
  <2>1. UNCHANGED <<cursorVars, filterVars, stoppedOn>>
    BY <1>7 DEF Scopes
  <2> QED
    BY <2>1, CursorKept DEF filterVars
<1>8. ASSUME NEW ref, Variables(ref)
      PROVE  CursorInv'
  <2>1. UNCHANGED <<cursorVars, filterVars, stoppedOn>>
    BY <1>8 DEF Variables
  <2> QED
    BY <2>1, CursorKept DEF filterVars
<1>9. ASSUME NEW id, NEW name, Evaluate(id, name)
      PROVE  CursorInv'
  <2>1. UNCHANGED <<cursorVars, filterVars, stoppedOn>>
    BY <1>9 DEF Evaluate
  <2> QED
    BY <2>1, CursorKept DEF filterVars
<1>10. CASE UNCHANGED vars
  <2>1. UNCHANGED <<cursorVars, filterVars, stoppedOn>>
    BY <1>10 DEF vars, clientVars
  <2> QED
    BY <2>1, CursorKept DEF filterVars
<1> QED
  BY <1>1, <1>2, <1>3, <1>4, <1>5, <1>6, <1>7, <1>8, <1>9, <1>10 DEF Next

(***************************************************************************)
(* The snapshot that is shown is the one at the cursor, and the client was *)
(* stopped on one of its threads: _load_snapshot is undone when the next   *)
(* snapshot cannot be read.                                                *)
(***************************************************************************)
THEOREM CursorCorrect == Spec => []CursorInStep
<1>1. Init => CursorInv
  BY CursorInit
<1>2. CursorInv /\ [Next]_vars => CursorInv'
  BY CursorStep
<1>3. CursorInv => CursorInStep
  BY DEF CursorInv, CursorInStep, ListedThreads, ThreadIds
<1> QED
  BY <1>1, <1>2, <1>3, PTL DEF Spec

(***************************************************************************)
(* Moving the cursor reports exactly the threads that come and go          *)
(* (_reconcile_thread_events): a client that knew the threads of the       *)
(* snapshot it left knows those of the next.                               *)
(***************************************************************************)
LEMMA MoveKeepsThreads ==
  ASSUME NEW i, MoveTo(i), known = ThreadIds(current)
  PROVE  known' = ThreadIds(current')
<1>1. current' = Snapshot(i) /\ Reconcile(Snapshot(i))
  BY DEF MoveTo, LoadSnapshot
<1> QED
  BY <1>1 DEF Reconcile

LEMMA StepKeepsThreads ==
  ASSUME CursorInv, Navigation, known = ThreadIds(current)
  PROVE  known' = ThreadIds(current')
<1>1. ASSUME NEW direction \in {-1, 1}, Advance(direction)
      PROVE  known' = ThreadIds(current')
  <2>1. (\E i : AdvanceMoves(i)) \/ AdvanceStays
    BY <1>1, AdvanceIs
  <2>2. ASSUME NEW i, AdvanceMoves(i)
        PROVE  known' = ThreadIds(current')
    BY <2>2, MoveKeepsThreads DEF AdvanceMoves
  <2>3. CASE AdvanceStays
    BY <2>3 DEF AdvanceStays, cursorVars, ThreadIds
  <2> QED
    BY <2>1, <2>2, <2>3
<1>2. ASSUME NEW i \in 0..count - 1, JumpToSnapshot(i)
      PROVE  known' = ThreadIds(current')
  BY <1>2, MoveKeepsThreads DEF JumpToSnapshot
<1>3. ASSUME NEW file \in Files, NEW start \in Starts, NEW filter, NEW hiding,
             Launch(file, start, filter, hiding)
      PROVE  known' = ThreadIds(current')
  <2>1. reader = NoFile
    BY <1>3 DEF Launch
  <2>2. current = NoSnapshot /\ known = {}
    BY <2>1 DEF CursorInv, ThreadIds
  <2>3. \/ UNCHANGED <<index, current, frameVars, registry, clientVars>>
        \/ \E snap : current' = snap /\ known' = known \cup ThreadIds(snap)
    BY <1>3 DEF Launch
  <2> QED
    BY <2>2, <2>3 DEF clientVars, ThreadIds
<1> QED
  BY <1>1, <1>2, <1>3 DEF Navigation

THEOREM NavigationCorrect == Spec => NavigationKeepsThreads
<1>1. CursorInv /\ [Next]_vars =>
        [Navigation => (known = ThreadIds(current) => known' = ThreadIds(current'))]_vars
  BY StepKeepsThreads
<1>2. Init => CursorInv
  BY CursorInit
<1>3. CursorInv /\ [Next]_vars => CursorInv'
  BY CursorStep
<1> QED
  BY <1>1, <1>2, <1>3, PTL DEF Spec, NavigationKeepsThreads

\* In a session without a restart request the client always knows exactly the
\* threads of the snapshot on show.
THEOREM ThreadsKnown == Init /\ [][Next /\ ~Restart]_vars => [](known = ThreadIds(current))
<1> DEFINE Known == known = ThreadIds(current)
<1>1. Init => CursorInv /\ Known
  BY CursorInit DEF Init, ThreadIds
<1>2. CursorInv /\ Known /\ [Next /\ ~Restart]_vars => CursorInv' /\ Known'
  <2> SUFFICES ASSUME CursorInv, Known, [Next /\ ~Restart]_vars
               PROVE  CursorInv' /\ Known'
    OBVIOUS
  <2>1. CursorInv'
    BY CursorStep
  <2>2. CASE Navigation
    BY <2>2, StepKeepsThreads, <2>1
  <2>3. CASE ~Navigation /\ Next /\ ~Restart
    <3>1. UNCHANGED <<known, current>>
      <4>1. CASE Capture
        BY <4>1 DEF Capture, clientVars
      <4>2. ASSUME NEW t, NEW start, NEW levels, StackTrace(t, start, levels)
            PROVE  UNCHANGED <<known, current>>
        BY <4>2 DEF StackTrace, cursorVars
      <4>3. ASSUME NEW id, Scopes(id)
            PROVE  UNCHANGED <<known, current>>
        BY <4>3 DEF Scopes, cursorVars
      <4>4. ASSUME NEW ref, Variables(ref)
            PROVE  UNCHANGED <<known, current>>
        <5>1. UNCHANGED <<cursorVars, known>>
          BY <4>4 DEF Variables
        <5> QED
          BY <5>1 DEF cursorVars
      <4>5. ASSUME NEW id, NEW name, Evaluate(id, name)
            PROVE  UNCHANGED <<known, current>>
        <5>1. UNCHANGED <<cursorVars, known>>
          BY <4>5 DEF Evaluate
        <5> QED
          BY <5>1 DEF cursorVars
      <4> QED
        BY <2>3, <4>1, <4>2, <4>3, <4>4, <4>5 DEF Next, Navigation
    <3> QED
      BY <2>1, <3>1
  <2>4. CASE UNCHANGED vars
    <3>1. UNCHANGED <<known, current>>
      BY <2>4 DEF vars, cursorVars, clientVars
    <3> QED
      BY <2>1, <3>1
  <2> QED
    BY <2>2, <2>3, <2>4
<1> QED
  BY <1>1, <1>2, PTL
(***************************************************************************)
(* The registry of references grows and never changes what it has given    *)
(* out.                                                                    *)
(***************************************************************************)
Grows(old, new) ==
  /\ old.next <= new.next
  /\ \A r \in DOMAIN old.entries : r \in DOMAIN new.entries /\ new.entries[r] = old.entries[r]
  /\ \A r \in DOMAIN new.entries : r \in DOMAIN old.entries \/ new.entries[r].kind # "scope"

LEMMA GrowsSelf == \A reg : reg.next \in Nat => Grows(reg, reg)
BY DEF Grows

LEMMA GrowsOn ==
  ASSUME NEW a, NEW b, NEW c, Grows(a, b), Grows(b, c), a.next \in Nat, b.next \in Nat, c.next \in Nat
  PROVE  Grows(a, c)
<1>1. a.next <= c.next
  BY DEF Grows
<1>2. ASSUME NEW r \in DOMAIN a.entries
      PROVE  r \in DOMAIN c.entries /\ c.entries[r] = a.entries[r]
  <2>1. r \in DOMAIN b.entries /\ b.entries[r] = a.entries[r]
    BY DEF Grows
  <2> QED
    BY <2>1 DEF Grows
<1>3. ASSUME NEW r \in DOMAIN c.entries, r \notin DOMAIN a.entries
      PROVE  c.entries[r].kind # "scope"
  <2>1. CASE r \in DOMAIN b.entries
    BY <1>3, <2>1 DEF Grows
  <2>2. CASE r \notin DOMAIN b.entries
    BY <2>2 DEF Grows
  <2> QED
    BY <2>1, <2>2
<1> QED
  BY <1>1, <1>2, <1>3 DEF Grows

LEMMA AllotIs ==
  ASSUME NEW reg, IsRegistry(reg), NEW entry
  PROVE  Allot(reg, entry) = [next |-> reg.next + 1, entries |-> With(reg.entries, reg.next, entry),
                              refs |-> reg.refs]
<1>1. reg = [next |-> reg.next, entries |-> reg.entries, refs |-> reg.refs]
  BY DEF IsRegistry
<1> DEFINE larger == With(reg.entries, reg.next, entry)
<1>2. Allot(reg, entry) = [reg EXCEPT !.next = reg.next + 1, !.entries = larger]
  BY <1>1 DEF Allot
<1> HIDE DEF larger
<1> DEFINE first == [reg EXCEPT !.next = reg.next + 1]
<1>3. first = [next |-> reg.next + 1, entries |-> reg.entries, refs |-> reg.refs]
  BY <1>1
<1>4. [reg EXCEPT !.next = reg.next + 1, !.entries = larger] = [first EXCEPT !.entries = larger]
  BY <1>1
<1> HIDE DEF first
<1>5. [first EXCEPT !.entries = larger] = [next |-> reg.next + 1, entries |-> larger, refs |-> reg.refs]
  BY <1>3
<1> QED
  BY <1>2, <1>4, <1>5 DEF larger

\* A new entry of a kind that no other one is looked up by.
LEMMA AllotKeeps ==
  ASSUME NEW reg, RegistryOK(reg), NEW entry,
         \/ entry.kind = "scope" /\ entry = ScopeEntry(entry.frame)
         \/ entry.kind = "attrs" /\ entry = BundleEntry(entry.value, entry.name) /\ entry.value \in Objects
  PROVE  LET new == Allot(reg, entry)
         IN  /\ RegistryOK(new) /\ new.next = reg.next + 1 /\ reg.next \notin DOMAIN reg.entries
             /\ DOMAIN new.entries = DOMAIN reg.entries \cup {reg.next}
             /\ new.entries[reg.next] = entry
             /\ \A r \in DOMAIN reg.entries : new.entries[r] = reg.entries[r]
<1> DEFINE new == Allot(reg, entry)
<1>1. new = [next |-> reg.next + 1, entries |-> With(reg.entries, reg.next, entry), refs |-> reg.refs]
  BY AllotIs DEF RegistryOK
<1>2. reg.next \in Nat \ {0} /\ \A r \in DOMAIN reg.entries : r \in 1..(reg.next - 1)
  BY DEF RegistryOK
<1>3. reg.next \notin DOMAIN reg.entries
  BY <1>2
<1> DEFINE larger == With(reg.entries, reg.next, entry)
<1>4. /\ new.next = reg.next + 1 /\ new.refs = reg.refs
      /\ DOMAIN new.entries = DOMAIN reg.entries \cup {reg.next}
      /\ new.entries[reg.next] = entry
      /\ \A r \in DOMAIN reg.entries : new.entries[r] = reg.entries[r]
  <2>1. /\ DOMAIN larger = DOMAIN reg.entries \cup {reg.next} /\ larger[reg.next] = entry
        /\ \A r \in DOMAIN reg.entries : larger[r] = reg.entries[r]
    BY <1>3 DEF With
  <2> HIDE DEF larger
  <2>2. new = [next |-> reg.next + 1, entries |-> larger, refs |-> reg.refs]
    BY <1>1 DEF larger
  <2> HIDE DEF new
  <2> QED
    BY <2>1, <2>2
<1>5. IsRegistry(new)
  BY <1>1 DEF IsRegistry
<1> HIDE DEF new
<1>6. ASSUME NEW r \in DOMAIN new.entries
      PROVE  r \in 1..(new.next - 1) /\ EntryOK(new, r)
  <2>1. CASE r = reg.next
    BY <1>2, <1>4, <2>1 DEF EntryOK
  <2>2. CASE r \in DOMAIN reg.entries
    <3>1. EntryOK(reg, r)
      BY <2>2 DEF RegistryOK
    <3>2. EntryOK(new, r)
      BY <1>4, <2>2, <3>1 DEF EntryOK
    <3> QED
      BY <1>2, <1>4, <2>2, <3>2
  <2> QED
    BY <1>4, <2>1, <2>2
<1>7. ASSUME NEW o \in DOMAIN new.refs
      PROVE  RefOK(new, o)
  <2>1. RefOK(reg, o)
    BY <1>4 DEF RegistryOK
  <2> QED
    BY <1>4, <2>1 DEF RefOK
<1>8. new.next \in Nat \ {0}
  BY <1>2, <1>4
<1>9. RegistryOK(new)
  BY <1>5, <1>6, <1>7, <1>8 DEF RegistryOK
<1> QED
  BY <1>3, <1>4, <1>9 DEF new

\* register_object: a value has one reference, new or not.
LEMMA RegisterKeeps ==
  ASSUME NEW reg, RegistryOK(reg), NEW o \in Objects, NEW name
  PROVE  LET new == RegisterObject(reg, o, name)
         IN  RegistryOK(new) /\ Grows(reg, new) /\ o \in DOMAIN new.refs
<1>1. CASE o \in DOMAIN reg.refs
  BY <1>1, GrowsSelf DEF RegisterObject, RegistryOK
<1>2. CASE o \notin DOMAIN reg.refs
  <2> DEFINE entry == ObjectEntry(o, name)
             entries == With(reg.entries, reg.next, entry)
             refs == With(reg.refs, o, reg.next)
             new == [next |-> reg.next + 1, entries |-> entries, refs |-> refs]
  <2>1. RegisterObject(reg, o, name) = new
    <3>1. Allot(reg, entry) = [next |-> reg.next + 1, entries |-> entries, refs |-> reg.refs]
      BY AllotIs DEF RegistryOK
    <3>2. RegisterObject(reg, o, name) = [Allot(reg, entry) EXCEPT !.refs = With(@, o, reg.next)]
      BY <1>2 DEF RegisterObject
    <3> HIDE DEF entries, entry
    <3> QED
      BY <3>1, <3>2
  <2>2. reg.next \in Nat \ {0} /\ \A r \in DOMAIN reg.entries : r \in 1..(reg.next - 1)
    BY DEF RegistryOK
  <2>3. reg.next \notin DOMAIN reg.entries
    BY <2>2
  <2>4. entry = [kind |-> "object", value |-> o, name |-> name]
    BY DEF ObjectEntry
  <2> HIDE DEF entry
  <2>5. /\ new.next = reg.next + 1
        /\ DOMAIN new.entries = DOMAIN reg.entries \cup {reg.next}
        /\ new.entries[reg.next] = entry
        /\ \A r \in DOMAIN reg.entries : new.entries[r] = reg.entries[r]
    <3>1. /\ DOMAIN entries = DOMAIN reg.entries \cup {reg.next} /\ entries[reg.next] = entry
          /\ \A r \in DOMAIN reg.entries : entries[r] = reg.entries[r]
      BY <2>3 DEF With
    <3> HIDE DEF entries, refs
    <3> QED
      BY <3>1
  <2>6. /\ DOMAIN new.refs = DOMAIN reg.refs \cup {o}
        /\ new.refs[o] = reg.next
        /\ \A p \in DOMAIN reg.refs : new.refs[p] = reg.refs[p]
    <3>1. /\ DOMAIN refs = DOMAIN reg.refs \cup {o} /\ refs[o] = reg.next
          /\ \A p \in DOMAIN reg.refs : refs[p] = reg.refs[p]
      BY <1>2 DEF With
    <3> HIDE DEF entries, refs
    <3> QED
      BY <3>1
  <2> HIDE DEF entries, refs
  <2>7. IsRegistry(new)
    BY DEF IsRegistry
  <2> HIDE DEF new
  <2>8. ASSUME NEW r \in DOMAIN new.entries
        PROVE  r \in 1..(new.next - 1) /\ EntryOK(new, r)
    <3>1. CASE r = reg.next
      <4>1. EntryOK(new, r)
        BY <2>4, <2>5, <2>6, <3>1 DEF EntryOK, ObjectEntry
      <4> QED
        BY <2>2, <2>5, <3>1, <4>1
    <3>2. CASE r \in DOMAIN reg.entries
      <4>1. EntryOK(reg, r)
        BY <3>2 DEF RegistryOK
      <4>2. EntryOK(new, r)
        BY <2>5, <2>6, <3>2, <4>1 DEF EntryOK
      <4> QED
        BY <2>2, <2>5, <3>2, <4>2
    <3> QED
      BY <2>5, <3>1, <3>2
  <2>9. ASSUME NEW p \in DOMAIN new.refs
        PROVE  RefOK(new, p)
    <3>1. CASE p = o
      BY <2>4, <2>5, <2>6, <3>1 DEF RefOK
    <3>2. CASE p \in DOMAIN reg.refs
      <4>1. RefOK(reg, p)
        BY <3>2 DEF RegistryOK
      <4> QED
        BY <2>5, <2>6, <3>2, <4>1 DEF RefOK
    <3> QED
      BY <2>6, <3>1, <3>2
  <2>10. new.next \in Nat \ {0} /\ reg.next <= new.next
    BY <2>2, <2>5
  <2>11. RegistryOK(new)
    BY <2>7, <2>8, <2>9, <2>10 DEF RegistryOK
  <2>12. entry.kind # "scope"
    BY <2>4
  <2>13. Grows(reg, new)
    BY <2>5, <2>10, <2>12 DEF Grows
  <2> QED
    BY <2>1, <2>6, <2>11, <2>13
<1> QED
  BY <1>1, <1>2

\* A registry whose new entries are of values and attributes has the scopes it had.
LEMMA ScopesKept ==
  ASSUME NEW reg, NEW new, NEW sc, ScopesOK(reg, sc), Grows(reg, new)
  PROVE  ScopesOK(new, sc)
<1>1. ASSUME NEW r \in DOMAIN new.entries, new.entries[r].kind = "scope"
      PROVE  new.entries[r].frame \in DOMAIN sc /\ sc[new.entries[r].frame] = r
  <2>1. r \in DOMAIN reg.entries /\ new.entries[r] = reg.entries[r]
    BY <1>1 DEF Grows
  <2> QED
    BY <1>1, <2>1 DEF ScopesOK
<1>2. ASSUME NEW id \in DOMAIN sc
      PROVE  sc[id] \in DOMAIN new.entries /\ new.entries[sc[id]] = ScopeEntry(id)
  BY DEF Grows, ScopesOK
<1> QED
  BY <1>1, <1>2 DEF ScopesOK
(***************************************************************************)
(* Answers: the registry after them, and rows that lead to what they show. *)
(***************************************************************************)
LEMMA AppendIs ==
  ASSUME NEW s, IsSequence(s), NEW e
  PROVE  /\ IsSequence(Append(s, e)) /\ Len(Append(s, e)) = Len(s) + 1 /\ Len(s) \in Nat
         /\ DOMAIN Append(s, e) = 1..(Len(s) + 1)
         /\ Append(s, e)[Len(s) + 1] = e
         /\ \A i \in 1..Len(s) : Append(s, e)[i] = s[i]
<1> DEFINE T == ToSet(s) \cup {e}
           t == Append(s, e)
<1>1. s \in Seq(ToSet(s))
  BY DEF IsSequence
<1>2. s \in Seq(T) /\ e \in T
  BY <1>1
<1> HIDE DEF T
<1>3. /\ t \in Seq(T) /\ Len(t) = Len(s) + 1 /\ Len(s) \in Nat /\ DOMAIN t = 1..(Len(s) + 1)
      /\ t[Len(s) + 1] = e /\ \A i \in 1..Len(s) : t[i] = s[i]
  BY <1>2
<1> HIDE DEF t
<1>4. t \in Seq(ToSet(t))
  <2>1. \A i \in 1..Len(t) : t[i] \in ToSet(t)
    BY <1>3 DEF ToSet
  <2> QED
    BY <1>3, <2>1
<1> QED
  BY <1>3, <1>4 DEF IsSequence, t

LEMMA SequenceIs ==
  ASSUME NEW s, IsSequence(s)
  PROVE  Len(s) \in Nat /\ DOMAIN s = 1..Len(s)
BY DEF IsSequence

RowOK(reg, owner, row) ==
  row.ref # 0 =>
    /\ row.ref \in DOMAIN reg.entries /\ reg.entries[row.ref].kind # "scope"
    /\ [reg.entries[row.ref] EXCEPT !.name = NoName] = SeenRow(row, owner)

AnswerOK(reg, owner, answer) ==
  /\ answer = [reg |-> answer.reg, rows |-> answer.rows]
  /\ RegistryOK(answer.reg) /\ Grows(reg, answer.reg)
  /\ IsSequence(answer.rows)
  /\ \A i \in DOMAIN answer.rows : RowOK(answer.reg, owner, answer.rows[i])

ChildrenOK(children, N) ==
  DOMAIN children = 1..N /\ \A i \in 1..N : children[i].value \in Objects

LEMMA RowStays ==
  ASSUME NEW reg, NEW new, Grows(reg, new), NEW owner, NEW row, RowOK(reg, owner, row)
  PROVE  RowOK(new, owner, row)
BY DEF RowOK, Grows

LEMMA ValueRow ==
  ASSUME NEW reg, RegistryOK(reg), NEW owner, NEW child, child.value \in Objects,
         IsExpandable(child.value) => child.value \in DOMAIN reg.refs
  PROVE  RowOK(reg, owner, Row(reg, child))
<1> DEFINE row == Row(reg, child)
<1>1. /\ row.kind = "value" /\ row.value = child.value
      /\ row.ref = IF IsExpandable(child.value) THEN reg.refs[child.value] ELSE 0
  BY DEF Row
<1> HIDE DEF row
<1>2. CASE IsExpandable(child.value)
  <2> DEFINE ref == reg.refs[child.value]
  <2>1. /\ ref \in DOMAIN reg.entries /\ reg.entries[ref].kind = "object"
        /\ reg.entries[ref].value = child.value
    BY <1>2 DEF RegistryOK, RefOK
  <2>2. reg.entries[ref] = ObjectEntry(reg.entries[ref].value, reg.entries[ref].name)
    BY <2>1 DEF RegistryOK, EntryOK
  <2>3. reg.entries[ref] = ObjectEntry(child.value, reg.entries[ref].name)
    BY <2>1, <2>2
  <2>4. \A a, b : [ObjectEntry(a, b) EXCEPT !.name = NoName] = ObjectEntry(a, NoName)
    BY DEF ObjectEntry
  <2>5. SeenRow(row, owner) = ObjectEntry(child.value, NoName)
    BY <1>1 DEF SeenRow
  <2>6. row.ref = ref
    BY <1>1, <1>2
  <2> HIDE DEF ref
  <2>7. [reg.entries[ref] EXCEPT !.name = NoName] = ObjectEntry(child.value, NoName)
    <3>1. PICK e : e = reg.entries[ref]
      OBVIOUS
    <3>2. [e EXCEPT !.name = NoName] = ObjectEntry(child.value, NoName)
      BY <2>3, <2>4, <3>1, Zenon
    <3> QED
      BY <3>1, <3>2, Zenon
  <2>8. RowOK(reg, owner, row)
    BY <2>1, <2>5, <2>6, <2>7 DEF RowOK
  <2> QED
    BY <2>8 DEF row
<1>3. CASE ~IsExpandable(child.value)
  <2>1. RowOK(reg, owner, row)
    BY <1>1, <1>3 DEF RowOK
  <2> QED
    BY <2>1 DEF row
<1> QED
  BY <1>2, <1>3

\* A row more.
LEMMA AnswerGrows ==
  ASSUME NEW reg, reg.next \in Nat, NEW owner, NEW acc, AnswerOK(reg, owner, acc), NEW new, NEW row,
         RegistryOK(new), Grows(acc.reg, new), RowOK(new, owner, row)
  PROVE  AnswerOK(reg, owner, [reg |-> new, rows |-> Append(acc.rows, row)])
<1> DEFINE rows == Append(acc.rows, row)
<1>1. /\ IsSequence(rows) /\ Len(acc.rows) \in Nat /\ DOMAIN rows = 1..(Len(acc.rows) + 1)
      /\ rows[Len(acc.rows) + 1] = row /\ \A i \in 1..Len(acc.rows) : rows[i] = acc.rows[i]
  BY AppendIs DEF AnswerOK
<1>2. DOMAIN acc.rows = 1..Len(acc.rows)
  BY SequenceIs DEF AnswerOK
<1> HIDE DEF rows
<1>3. ASSUME NEW i \in DOMAIN rows
      PROVE  RowOK(new, owner, rows[i])
  <2>1. CASE i \in 1..Len(acc.rows)
    <3>1. RowOK(acc.reg, owner, acc.rows[i])
      BY <1>2, <2>1 DEF AnswerOK
    <3> QED
      BY <1>1, <2>1, <3>1, RowStays
  <2>2. CASE i = Len(acc.rows) + 1
    BY <1>1, <2>2
  <2> QED
    BY <1>1, <2>1, <2>2
<1>4. Grows(reg, new)
  BY GrowsOn DEF AnswerOK, RegistryOK
<1>5. AnswerOK(reg, owner, [reg |-> new, rows |-> rows])
  BY <1>1, <1>3, <1>4 DEF AnswerOK
<1> QED
  BY <1>5 DEF rows

LEMMA MakeVariableKeeps ==
  ASSUME NEW reg, reg.next \in Nat, NEW owner, NEW acc, AnswerOK(reg, owner, acc),
         NEW child, child.value \in Objects
  PROVE  AnswerOK(reg, owner, MakeVariable(acc, child))
<1> DEFINE new == IF IsExpandable(child.value) THEN RegisterObject(acc.reg, child.value, child.name)
                  ELSE acc.reg
<1>1. /\ RegistryOK(new) /\ Grows(acc.reg, new)
      /\ IsExpandable(child.value) => child.value \in DOMAIN new.refs
  <2>1. RegistryOK(acc.reg) /\ acc.reg.next \in Nat
    BY DEF AnswerOK, RegistryOK
  <2>2. CASE IsExpandable(child.value)
    BY <2>1, <2>2, RegisterKeeps
  <2>3. CASE ~IsExpandable(child.value)
    BY <2>1, <2>3, GrowsSelf
  <2> QED
    BY <2>2, <2>3
<1>2. MakeVariable(acc, child) = [reg |-> new, rows |-> Append(acc.rows, Row(new, child))]
  BY DEF MakeVariable
<1> HIDE DEF new
<1>3. RowOK(new, owner, Row(new, child))
  BY <1>1, ValueRow
<1>4. AnswerOK(reg, owner, [reg |-> new, rows |-> Append(acc.rows, Row(new, child))])
  BY <1>1, <1>3, AnswerGrows
<1> QED
  BY <1>2, <1>4

LEMMA MakeVariablesKeep ==
  ASSUME NEW reg, RegistryOK(reg), NEW owner, NEW N \in Nat, NEW children, ChildrenOK(children, N)
  PROVE  AnswerOK(reg, owner, MakeVariables(reg, children))
<1> DEFINE base == [reg |-> reg, rows |-> <<>>]
<1>1. AnswerOK(reg, owner, base)
  <2>1. reg.next \in Nat /\ base.reg = reg /\ base.rows = <<>> /\ DOMAIN base.rows = {}
    BY DEF RegistryOK
  <2>2. IsSequence(<<>>)
    BY DEF IsSequence
  <2>3. base = [reg |-> base.reg, rows |-> base.rows]
    OBVIOUS
  <2> HIDE DEF base
  <2> QED
    BY <2>1, <2>2, <2>3, GrowsSelf DEF AnswerOK
<1>2. PICK steps : /\ steps[0] = base
                   /\ \A n \in 1..N : steps[n] = MakeVariable(steps[n - 1], children[n])
                   /\ steps[N] = FoldLeft(MakeVariable, base, children)
  <2> HIDE DEF base
  <2> QED
    BY MakeVariableFold DEF ChildrenOK
<1> HIDE DEF base
<1> DEFINE T == {n \in Nat : n <= N => AnswerOK(reg, owner, steps[n])}
<1>3. 0 \in T
  BY <1>1, <1>2
<1>4. ASSUME NEW n \in Nat, n \in T
      PROVE  n + 1 \in T
  <2> SUFFICES ASSUME n + 1 <= N PROVE AnswerOK(reg, owner, steps[n + 1])
    OBVIOUS
  <2>1. AnswerOK(reg, owner, steps[n]) /\ n + 1 \in 1..N /\ (n + 1) - 1 = n
    BY <1>4
  <2>2. steps[n + 1] = MakeVariable(steps[n], children[n + 1])
    BY <1>2, <2>1
  <2>3. children[n + 1].value \in Objects /\ reg.next \in Nat
    BY <2>1 DEF ChildrenOK, RegistryOK
  <2> QED
    BY <2>1, <2>2, <2>3, MakeVariableKeeps
<1> HIDE DEF T
<1>5. N \in T
  BY <1>3, <1>4, NatInd
<1> QED
  BY <1>2, <1>5 DEF T, MakeVariables, base
(***************************************************************************)
(* The expansion of a value, of a frame and of the result of evaluate.     *)
(***************************************************************************)
PairsOK(pairs) == IsSequence(pairs) /\ \A i \in DOMAIN pairs : pairs[i][2] \in Objects

LEMMA ChildrenAre ==
  ASSUME NEW pairs, PairsOK(pairs), NEW parent, NEW named
  PROVE  \E N \in Nat : ChildrenOK(Children(pairs, parent, named), N)
<1>1. Len(pairs) \in Nat /\ DOMAIN pairs = 1..Len(pairs)
  BY SequenceIs DEF PairsOK
<1>2. MaxChildren \in Nat
  BY ValuesAssumption
<1>3. PICK N : N = Min({MaxChildren, Len(pairs)})
  OBVIOUS
<1>4. N \in Nat /\ N <= Len(pairs)
  BY <1>1, <1>2, <1>3, MinOfTwo
<1> DEFINE children == Children(pairs, parent, named)
<1>5. children = [i \in 1..N |-> Child(pairs[i][1], pairs[i][2], ChildName(parent, pairs[i][1], named))]
  BY <1>3 DEF Children
<1> HIDE DEF children
<1>6. ASSUME NEW i \in 1..N
      PROVE  children[i].value \in Objects
  <2>1. i \in DOMAIN pairs
    BY <1>1, <1>4
  <2>2. children[i].value = pairs[i][2]
    BY <1>5 DEF Child
  <2> QED
    BY <2>1, <2>2 DEF PairsOK
<1>7. DOMAIN children = 1..N
  BY <1>5
<1>8. ChildrenOK(children, N)
  BY <1>6, <1>7 DEF ChildrenOK
<1> QED
  BY <1>4, <1>8 DEF children

LEMMA AnswerParts ==
  ASSUME NEW reg, NEW owner, NEW answer, AnswerOK(reg, owner, answer), NEW rows
  PROVE  [answer EXCEPT !.rows = rows] = [reg |-> answer.reg, rows |-> rows]
<1>1. answer = [reg |-> answer.reg, rows |-> answer.rows]
  BY DEF AnswerOK
<1> QED
  BY <1>1

LEMMA ExpandPairsKeeps ==
  ASSUME NEW reg, RegistryOK(reg), NEW owner, NEW pairs, PairsOK(pairs), NEW parent, NEW named
  PROVE  AnswerOK(reg, owner, ExpandPairs(reg, pairs, parent, named))
<1> DEFINE shown == MakeVariables(reg, Children(pairs, parent, named))
<1>1. PICK N \in Nat : ChildrenOK(Children(pairs, parent, named), N)
  BY ChildrenAre
<1>2. AnswerOK(reg, owner, shown)
  BY <1>1, MakeVariablesKeep
<1> HIDE DEF shown
<1>3. RowOK(shown.reg, owner, TruncatedRow)
  BY DEF RowOK, TruncatedRow
<1>4. AnswerOK(reg, owner, [reg |-> shown.reg, rows |-> Append(shown.rows, TruncatedRow)])
  <2>1. RegistryOK(shown.reg) /\ Grows(shown.reg, shown.reg) /\ reg.next \in Nat
    BY <1>2, GrowsSelf DEF AnswerOK, RegistryOK
  <2> QED
    BY <1>2, <1>3, <2>1, AnswerGrows
<1>5. [shown EXCEPT !.rows = Append(shown.rows, TruncatedRow)]
        = [reg |-> shown.reg, rows |-> Append(shown.rows, TruncatedRow)]
  BY <1>2, AnswerParts
<1>6. CASE Len(pairs) <= MaxChildren
  BY <1>2, <1>6 DEF ExpandPairs, shown
<1>7. CASE ~(Len(pairs) <= MaxChildren)
  <2>1. ExpandPairs(reg, pairs, parent, named) = [shown EXCEPT !.rows = Append(shown.rows, TruncatedRow)]
    BY <1>7 DEF ExpandPairs, shown
  <2> QED
    BY <1>4, <1>5, <2>1
<1> QED
  BY <1>6, <1>7

\* The attributes of a list or dict subclass have a reference of their own.
LEMMA ExpandSubclassKeeps ==
  ASSUME NEW reg, RegistryOK(reg), NEW o \in Objects, NEW parent
  PROVE  AnswerOK(reg, o, ExpandSubclass(reg, o, parent))
<1> DEFINE items == ExpandPairs(reg, Items[o], parent, TRUE)
           entry == BundleEntry(o, parent)
           new == Allot(items.reg, entry)
           row == AttrsRow(items.reg.next)
<1>1. PairsOK(Items[o])
  BY ValuesAssumption DEF PairsOK
<1>2. AnswerOK(reg, o, items)
  BY <1>1, ExpandPairsKeeps
<1> HIDE DEF items
<1>3. entry.kind = "attrs" /\ entry = BundleEntry(entry.value, entry.name) /\ entry.value \in Objects
  BY DEF BundleEntry
<1>4. \A a, b : [BundleEntry(a, b) EXCEPT !.name = NoName] = BundleEntry(a, NoName)
  BY DEF BundleEntry
<1> HIDE DEF entry
<1>5. /\ RegistryOK(new) /\ new.next = items.reg.next + 1
      /\ DOMAIN new.entries = DOMAIN items.reg.entries \cup {items.reg.next}
      /\ new.entries[items.reg.next] = entry
      /\ \A r \in DOMAIN items.reg.entries : new.entries[r] = items.reg.entries[r]
  BY <1>2, <1>3, AllotKeeps DEF AnswerOK
<1>6. items.reg.next \in Nat \ {0}
  BY <1>2 DEF AnswerOK, RegistryOK
<1> HIDE DEF new
<1>7. Grows(items.reg, new)
  BY <1>3, <1>5, <1>6 DEF Grows
<1>8. RowOK(new, o, row)
  <2>1. row.ref = items.reg.next /\ row.kind = "attrs"
    BY DEF AttrsRow
  <2>2. [new.entries[items.reg.next] EXCEPT !.name = NoName] = BundleEntry(o, NoName)
    BY <1>4, <1>5, Zenon DEF entry
  <2>3. SeenRow(row, o) = BundleEntry(o, NoName)
    BY <2>1 DEF SeenRow
  <2> HIDE DEF row
  <2> QED
    BY <1>3, <1>5, <2>1, <2>2, <2>3 DEF RowOK
<1> HIDE DEF row
<1>9. AnswerOK(reg, o, [reg |-> new, rows |-> Append(items.rows, row)])
  <2>1. reg.next \in Nat
    BY DEF RegistryOK
  <2> QED
    BY <1>2, <1>5, <1>7, <1>8, <2>1, AnswerGrows
<1>10. CASE Attrs[o] = <<>>
  BY <1>2, <1>10 DEF ExpandSubclass, items
<1>11. CASE Attrs[o] # <<>>
  BY <1>9, <1>11 DEF ExpandSubclass, items, new, row, entry
<1> QED
  BY <1>10, <1>11

LEMMA ExpandKeeps ==
  ASSUME NEW reg, RegistryOK(reg), NEW o \in Objects, NEW parent
  PROVE  AnswerOK(reg, o, Expand(reg, o, parent)) /\ AnswerOK(reg, o, ExpandAttrs(reg, o, parent))
<1>1. PairsOK(Items[o]) /\ PairsOK(Attrs[o])
  BY ValuesAssumption DEF PairsOK
<1>2. AnswerOK(reg, o, ExpandAttrs(reg, o, parent))
  BY <1>1, ExpandPairsKeeps DEF ExpandAttrs
<1>3. ASSUME Shape[o] = "subclass"
      PROVE  AnswerOK(reg, o, Expand(reg, o, parent))
  <2>1. Expand(reg, o, parent) = ExpandSubclass(reg, o, parent)
    BY <1>3 DEF Expand
  <2> QED
    BY <2>1, ExpandSubclassKeeps
<1>4. ASSUME Shape[o] = "object"
      PROVE  AnswerOK(reg, o, Expand(reg, o, parent))
  <2>1. Expand(reg, o, parent) = ExpandPairs(reg, Attrs[o], parent, TRUE)
    BY <1>4 DEF Expand
  <2> QED
    BY <1>1, <2>1, ExpandPairsKeeps
<1>5. ASSUME Shape[o] # "subclass", Shape[o] # "object"
      PROVE  AnswerOK(reg, o, Expand(reg, o, parent))
  <2>1. PICK named : named = (Shape[o] # "set")
    OBVIOUS
  <2>2. Expand(reg, o, parent) = ExpandPairs(reg, Items[o], parent, named)
    BY <1>5, <2>1 DEF Expand
  <2> QED
    BY <1>1, <2>2, ExpandPairsKeeps
<1> QED
  BY <1>2, <1>3, <1>4, <1>5

LEMMA FrameOfKey ==
  ASSUME CursorInv, NEW key, KeyOK(key)
  PROVE  IsFrame(FrameAt(key))
<1>1. current # NoSnapshot /\ key[1] \in DOMAIN current
  BY DEF KeyOK, ThreadIds
<1>2. IsSnapshot(current)
  BY <1>1, CurrentIs
<1> QED
  BY <1>1, <1>2 DEF IsSnapshot, KeyOK, FrameAt

LEMMA LocalsAre ==
  ASSUME NEW frame, IsFrame(frame)
  PROVE  \E N \in Nat : ChildrenOK(Locals(frame), N)
<1> DEFINE N == Len(frame.locals)
           children == Locals(frame)
<1>1. N \in Nat /\ DOMAIN frame.locals = 1..N
  BY SequenceIs DEF IsFrame
<1>2. DOMAIN children = 1..N
  BY <1>1 DEF Locals
<1>3. ASSUME NEW i \in 1..N
      PROVE  children[i].value \in Objects
  <2>1. frame.locals[i][2] \in Objects
    BY <1>1 DEF IsFrame
  <2>2. children[i].value = frame.locals[i][2]
    BY <1>1 DEF Locals, Child
  <2> QED
    BY <2>1, <2>2
<1> HIDE DEF children, N
<1>4. ChildrenOK(children, N)
  BY <1>2, <1>3 DEF ChildrenOK
<1> QED
  BY <1>1, <1>4 DEF children

\* Whose attributes an answer shows.
Owner(ref) == IF registry.entries[ref].kind = "scope" THEN "" ELSE registry.entries[ref].value

LEMMA AnswerKeeps ==
  ASSUME CursorInv, FrameInv, RegistryInv, NEW ref \in DOMAIN registry.entries
  PROVE  AnswerOK(registry, Owner(ref), Answer(ref))
<1> DEFINE entry == registry.entries[ref]
<1>1. RegistryOK(registry) /\ EntryOK(registry, ref)
  BY DEF RegistryInv, RegistryOK
<1>2. CASE entry.kind = "scope"
  <2>1. entry.frame \in DOMAIN frames
    BY <1>2 DEF RegistryInv, ScopesOK
  <2>2. IsFrame(LookupFrame(entry.frame))
    <3>1. KeyOK(frames[entry.frame])
      BY <2>1 DEF FrameInv
    <3> QED
      BY <3>1, FrameOfKey DEF LookupFrame, FrameAt
  <2>3. PICK N \in Nat : ChildrenOK(Locals(LookupFrame(entry.frame)), N)
    BY <2>2, LocalsAre
  <2>4. Answer(ref) = MakeVariables(registry, Locals(LookupFrame(entry.frame)))
    BY <1>2 DEF Answer
  <2> QED
    BY <1>1, <2>3, <2>4, MakeVariablesKeep
<1>3. CASE entry.kind = "object"
  <2>1. entry.value \in Objects /\ Owner(ref) = entry.value
    BY <1>1, <1>3 DEF EntryOK, Owner
  <2>2. Answer(ref) = Expand(registry, entry.value, entry.name)
    BY <1>3 DEF Answer
  <2> QED
    BY <1>1, <2>1, <2>2, ExpandKeeps
<1>4. CASE entry.kind = "attrs"
  <2>1. entry.value \in Objects /\ Owner(ref) = entry.value
    BY <1>1, <1>4 DEF EntryOK, Owner
  <2>2. Answer(ref) = ExpandAttrs(registry, entry.value, entry.name)
    BY <1>4 DEF Answer
  <2> QED
    BY <1>1, <2>1, <2>2, ExpandKeeps
<1> QED
  BY <1>1, <1>2, <1>3, <1>4 DEF EntryOK
(***************************************************************************)
(* The requests about frames and variables.                                *)
(***************************************************************************)
\* A stop takes back all that was given out.
LEMMA StopClears ==
  ASSUME RefreshStopState
  PROVE  FrameInv' /\ RegistryInv'
<1>1. /\ frames' = <<>> /\ frameIds' = <<>> /\ separators' = {} /\ nextFrameId' = 1
      /\ scopes' = <<>> /\ registry' = EmptyRegistry
  BY DEF RefreshStopState, Clear
<1>2. FrameInv'
  BY <1>1 DEF FrameInv, TableOK
<1>3. EmptyRegistry.next = 1 /\ EmptyRegistry.entries = <<>> /\ EmptyRegistry.refs = <<>>
  BY DEF EmptyRegistry
<1>4. IsRegistry(EmptyRegistry)
  BY DEF EmptyRegistry, IsRegistry
<1>5. RegistryOK(EmptyRegistry) /\ ScopesOK(EmptyRegistry, <<>>)
  BY <1>3, <1>4 DEF RegistryOK, ScopesOK
<1> QED
  BY <1>1, <1>2, <1>5 DEF RegistryInv

LEMMA RegistryKept ==
  ASSUME RegistryInv, UNCHANGED <<registry, scopes>>, DOMAIN frames \subseteq DOMAIN frames'
  PROVE  RegistryInv'
BY DEF RegistryInv

LEMMA FramesKept ==
  ASSUME FrameInv, UNCHANGED <<frames, frameIds, separators, nextFrameId, current>>
  PROVE  FrameInv'
<1>1. \A key : KeyOK(key)' <=> KeyOK(key)
  BY DEF KeyOK, ThreadIds
<1> QED
  BY <1>1 DEF FrameInv

\* The registry after an answer.
LEMMA AnswerRegistry ==
  ASSUME RegistryInv, NEW owner, NEW answer, AnswerOK(registry, owner, answer),
         registry' = answer.reg, UNCHANGED <<scopes, frames>>
  PROVE  RegistryInv'
<1>1. RegistryOK(answer.reg) /\ Grows(registry, answer.reg)
  BY DEF AnswerOK
<1>2. ScopesOK(answer.reg, scopes)
  BY <1>1, ScopesKept DEF RegistryInv
<1> QED
  BY <1>1, <1>2 DEF RegistryInv

\* What the client has been shown after it.
LEMMA MaxOfSome ==
  ASSUME NEW n \in Nat, NEW s \in SUBSET (1..n), s # {}
  PROVE  Max(s) \in s
<1>1. s \in SUBSET (1..(n + 1))
  OBVIOUS
<1> QED
  BY <1>1, MaxOfPart

LEMMA EntryStays ==
  ASSUME NEW ref, Resolvable(registry, ref), Grows(registry, registry'), UNCHANGED <<frames, current>>
  PROVE  Resolvable(registry, ref)' /\ Entry(ref)' = Entry(ref)
<1>1. ref \in DOMAIN registry'.entries /\ registry'.entries[ref] = registry.entries[ref]
  BY DEF Resolvable, Grows
<1> QED
  BY <1>1 DEF Resolvable, Entry, LookupFrame

LEMMA AnswerSeen ==
  ASSUME RefsSeen, NEW owner, NEW answer, AnswerOK(registry, owner, answer),
         registry' = answer.reg, seenRefs' = Seen(answer.rows, owner), UNCHANGED <<frames, current>>
  PROVE  RefsSeen'
<1> DEFINE rows == answer.rows
           given == {rows[i].ref : i \in DOMAIN rows} \ {0}
           at(ref) == {i \in DOMAIN rows : rows[i].ref = ref}
<1>1. /\ DOMAIN seenRefs' = DOMAIN seenRefs \cup given
      /\ \A ref \in given : seenRefs'[ref] = SeenRow(rows[Max(at(ref))], owner)
      /\ \A ref \in DOMAIN seenRefs \ given : seenRefs'[ref] = seenRefs[ref]
  BY DEF Seen
<1>2. ASSUME NEW ref \in given
      PROVE  Resolvable(registry, ref)' /\ Entry(ref)' = seenRefs'[ref]
  <2>1. Len(rows) \in Nat /\ DOMAIN rows = 1..Len(rows)
    BY SequenceIs DEF AnswerOK
  <2>2. at(ref) \in SUBSET (1..Len(rows)) /\ at(ref) # {}
    BY <2>1
  <2>3. Max(at(ref)) \in at(ref)
    BY <2>1, <2>2, MaxOfSome
  <2>4. PICK i \in DOMAIN rows : i = Max(at(ref)) /\ rows[i].ref = ref
    BY <2>3
  <2>5. RowOK(answer.reg, owner, rows[i]) /\ ref # 0
    BY <2>4 DEF AnswerOK
  <2>6. /\ ref \in DOMAIN registry'.entries /\ registry'.entries[ref].kind # "scope"
        /\ [registry'.entries[ref] EXCEPT !.name = NoName] = SeenRow(rows[i], owner)
    BY <2>4, <2>5 DEF RowOK
  <2>7. Entry(ref)' = [registry'.entries[ref] EXCEPT !.name = NoName]
    BY <2>6 DEF Entry
  <2>8. seenRefs'[ref] = SeenRow(rows[i], owner)
    BY <1>1, <2>4
  <2> HIDE DEF rows
  <2> QED
    BY <2>6, <2>7, <2>8 DEF Resolvable
<1>3. ASSUME NEW ref \in DOMAIN seenRefs \ given
      PROVE  Resolvable(registry, ref)' /\ Entry(ref)' = seenRefs'[ref]
  <2>1. Grows(registry, registry') /\ Resolvable(registry, ref) /\ Entry(ref) = seenRefs[ref]
    BY DEF AnswerOK, RefsSeen
  <2> QED
    BY <1>1, <2>1, EntryStays
<1> QED
  BY <1>1, <1>2, <1>3 DEF RefsSeen

LEMMA VariablesKeep ==
  ASSUME CursorInv, FrameInv, RegistryInv, NEW ref \in DOMAIN registry.entries, Variables(ref)
  PROVE  RegistryInv' /\ (RefsSeen => RefsSeen')
<1>1. AnswerOK(registry, Owner(ref), Answer(ref))
  BY AnswerKeeps
<1>2. registry' = Answer(ref).reg /\ seenRefs' = Seen(Answer(ref).rows, Owner(ref))
  BY DEF Variables, Owner
<1>3. UNCHANGED <<scopes, frames, current>>
  BY DEF Variables, frameVars, cursorVars
<1> QED
  BY <1>1, <1>2, <1>3, AnswerRegistry, AnswerSeen

LEMMA EvaluateKeeps ==
  ASSUME RegistryInv, NEW id, NEW name, Evaluate(id, name)
  PROVE  RegistryInv' /\ (RefsSeen => RefsSeen')
<1> DEFINE value == Evaluated(LookupFrame(id).locals, name)
           children == <<Child(name, value, name)>>
           answer == MakeVariables(registry, children)
<1>1. value \in Objects /\ registry' = answer.reg /\ seenRefs' = Seen(answer.rows, "")
  BY DEF Evaluate
<1>2. UNCHANGED <<scopes, frames, current>>
  BY DEF Evaluate, frameVars, cursorVars
<1>3. ChildrenOK(children, 1)
  <2>1. Child(name, value, name).value = value
    BY DEF Child
  <2> HIDE DEF value
  <2>2. DOMAIN children = 1..1 /\ children[1] = Child(name, value, name)
    OBVIOUS
  <2> HIDE DEF children
  <2> QED
    <3>1. \A i \in 1..1 : i = 1
      OBVIOUS
    <3> HIDE DEF value
    <3> QED
      BY <1>1, <2>1, <2>2, <3>1 DEF ChildrenOK
<1> HIDE DEF children
<1>4. AnswerOK(registry, "", answer)
  BY <1>3, MakeVariablesKeep DEF RegistryInv
<1> QED
  BY <1>1, <1>2, <1>4, AnswerRegistry, AnswerSeen

\* A frame whose scope is asked for has a reference, new or not.
ScopeAdded(id, ref) ==
  /\ DOMAIN scopes' = DOMAIN scopes \cup {id} /\ scopes'[id] = ref
  /\ \A x \in DOMAIN scopes : scopes'[x] = scopes[x]
  /\ RegistryOK(registry')
  /\ DOMAIN registry'.entries = DOMAIN registry.entries \cup {ref}
  /\ registry'.entries[ref] = ScopeEntry(id)
  /\ \A r \in DOMAIN registry.entries : registry'.entries[r] = registry.entries[r]

LEMMA ScopesIs ==
  ASSUME RegistryInv, NEW id, Scopes(id)
  PROVE  \E ref : /\ ScopeAdded(id, ref) /\ id \in DOMAIN frames
                  /\ seenRefs' = IF id \notin DOMAIN seenFrames THEN seenRefs
                                 ELSE With(seenRefs, ref, ScopeEntry(seenFrames[id]))
<1>1. CASE id \in DOMAIN scopes
  <2>1. /\ scopes' = With(scopes, id, scopes[id]) /\ registry' = registry /\ id \in DOMAIN frames
        /\ seenRefs' = IF id \notin DOMAIN seenFrames THEN seenRefs
                       ELSE With(seenRefs, scopes[id], ScopeEntry(seenFrames[id]))
    BY <1>1 DEF Scopes
  <2>2. scopes[id] \in DOMAIN registry.entries /\ registry.entries[scopes[id]] = ScopeEntry(id)
    BY <1>1 DEF RegistryInv, ScopesOK
  <2>3. /\ DOMAIN scopes' = DOMAIN scopes \cup {id} /\ scopes'[id] = scopes[id]
        /\ \A x \in DOMAIN scopes : scopes'[x] = scopes[x]
    BY <2>1 DEF With
  <2>4. ScopeAdded(id, scopes[id])
    BY <2>1, <2>2, <2>3 DEF ScopeAdded, RegistryInv
  <2> QED
    BY <2>1, <2>4
<1>2. CASE id \notin DOMAIN scopes
  <2> DEFINE ref == registry.next
             new == Allot(registry, ScopeEntry(id))
  <2>1. /\ scopes' = With(scopes, id, ref) /\ registry' = new /\ id \in DOMAIN frames
        /\ seenRefs' = IF id \notin DOMAIN seenFrames THEN seenRefs
                       ELSE With(seenRefs, ref, ScopeEntry(seenFrames[id]))
    BY <1>2 DEF Scopes
  <2>2. /\ RegistryOK(new) /\ DOMAIN new.entries = DOMAIN registry.entries \cup {ref}
        /\ new.entries[ref] = ScopeEntry(id)
        /\ \A r \in DOMAIN registry.entries : new.entries[r] = registry.entries[r]
    <3>1. ScopeEntry(id).kind = "scope" /\ ScopeEntry(id) = ScopeEntry(ScopeEntry(id).frame)
      BY DEF ScopeEntry
    <3> QED
      BY <3>1, AllotKeeps DEF RegistryInv
  <2> HIDE DEF ref, new
  <2>3. /\ DOMAIN scopes' = DOMAIN scopes \cup {id} /\ scopes'[id] = ref
        /\ \A x \in DOMAIN scopes : scopes'[x] = scopes[x]
    BY <1>2, <2>1 DEF With
  <2>4. ScopeAdded(id, ref)
    BY <2>1, <2>2, <2>3 DEF ScopeAdded
  <2> QED
    BY <2>1, <2>4
<1> QED
  BY <1>1, <1>2

LEMMA ScopesKeep ==
  ASSUME RegistryInv, NEW id, Scopes(id)
  PROVE  RegistryInv' /\ (FramesSeen(frames, seenFrames) /\ RefsSeen => RefsSeen')
<1>1. PICK ref : /\ ScopeAdded(id, ref) /\ id \in DOMAIN frames
                 /\ seenRefs' = IF id \notin DOMAIN seenFrames THEN seenRefs
                                ELSE With(seenRefs, ref, ScopeEntry(seenFrames[id]))
  BY ScopesIs
<1>2. UNCHANGED <<frames, current>>
  BY DEF Scopes, cursorVars
<1>3. ASSUME NEW r \in DOMAIN registry'.entries, registry'.entries[r].kind = "scope"
      PROVE  registry'.entries[r].frame \in DOMAIN scopes' /\ scopes'[registry'.entries[r].frame] = r
  <2>1. CASE r = ref
    BY <1>1, <2>1 DEF ScopeAdded, ScopeEntry
  <2>2. CASE r \in DOMAIN registry.entries
    <3>1. registry'.entries[r] = registry.entries[r]
      BY <1>1, <2>2 DEF ScopeAdded
    <3>2. registry.entries[r].frame \in DOMAIN scopes /\ scopes[registry.entries[r].frame] = r
      BY <1>3, <2>2, <3>1 DEF RegistryInv, ScopesOK
    <3> QED
      BY <1>1, <3>1, <3>2 DEF ScopeAdded
  <2> QED
    BY <1>1, <2>1, <2>2 DEF ScopeAdded
<1>4. ASSUME NEW x \in DOMAIN scopes'
      PROVE  scopes'[x] \in DOMAIN registry'.entries /\ registry'.entries[scopes'[x]] = ScopeEntry(x)
  <2>1. CASE x = id
    BY <1>1, <2>1 DEF ScopeAdded
  <2>2. CASE x \in DOMAIN scopes
    <3>1. scopes[x] \in DOMAIN registry.entries /\ registry.entries[scopes[x]] = ScopeEntry(x)
      BY <2>2 DEF RegistryInv, ScopesOK
    <3> QED
      BY <1>1, <2>2, <3>1 DEF ScopeAdded
  <2> QED
    BY <1>1, <2>1, <2>2 DEF ScopeAdded
<1>5. ScopesOK(registry, scopes)'
  BY <1>3, <1>4 DEF ScopesOK
<1>6. RegistryInv'
  BY <1>1, <1>2, <1>5 DEF RegistryInv, ScopeAdded
<1>7. ASSUME FramesSeen(frames, seenFrames), RefsSeen, NEW r \in DOMAIN seenRefs'
      PROVE  Resolvable(registry, r)' /\ Entry(r)' = seenRefs'[r]
  <2>1. ASSUME r \in DOMAIN seenRefs, seenRefs'[r] = seenRefs[r]
        PROVE  Resolvable(registry, r)' /\ Entry(r)' = seenRefs'[r]
    <3>1. Resolvable(registry, r) /\ Entry(r) = seenRefs[r]
      BY <1>7, <2>1 DEF RefsSeen
    <3>2. r \in DOMAIN registry'.entries /\ registry'.entries[r] = registry.entries[r]
      BY <1>1, <3>1 DEF ScopeAdded, Resolvable
    <3>3. Entry(r)' = Entry(r)
      BY <1>2, <3>2 DEF Entry, LookupFrame
    <3> QED
      BY <2>1, <3>1, <3>2, <3>3 DEF Resolvable
  <2>2. ASSUME r = ref, id \in DOMAIN seenFrames, seenRefs'[r] = ScopeEntry(seenFrames[id])
        PROVE  Resolvable(registry, r)' /\ Entry(r)' = seenRefs'[r]
    <3>1. FrameAt(frames[id]) = seenFrames[id]
      BY <1>7, <2>2 DEF FramesSeen
    <3>2. r \in DOMAIN registry'.entries /\ registry'.entries[r] = ScopeEntry(id)
      BY <1>1, <2>2 DEF ScopeAdded
    <3>3. Entry(r)' = ScopeEntry(LookupFrame(id)')
      BY <3>2 DEF Entry, ScopeEntry
    <3>4. LookupFrame(id)' = seenFrames[id]
      BY <1>2, <3>1 DEF LookupFrame, FrameAt
    <3> QED
      BY <2>2, <3>2, <3>3, <3>4 DEF Resolvable
  <2>3. CASE id \notin DOMAIN seenFrames
    <3>1. seenRefs' = seenRefs
      BY <1>1, <2>3
    <3> QED
      BY <1>7, <2>1, <3>1
  <2>4. CASE id \in DOMAIN seenFrames
    <3>1. /\ DOMAIN seenRefs' = DOMAIN seenRefs \cup {ref}
          /\ seenRefs'[ref] = ScopeEntry(seenFrames[id])
          /\ \A x \in DOMAIN seenRefs : x # ref => seenRefs'[x] = seenRefs[x]
      BY <1>1, <2>4 DEF With
    <3> QED
      BY <1>7, <2>1, <2>2, <2>4, <3>1
  <2> QED
    BY <2>3, <2>4
<1>8. FramesSeen(frames, seenFrames) /\ RefsSeen => RefsSeen'
  BY <1>7 DEF RefsSeen
<1> QED
  BY <1>6, <1>8
(***************************************************************************)
(* Sources: what describe does to the registry, and what a launch loads.   *)
(***************************************************************************)
\* An embedded file is found under its own path.
LEMMA CanonicalIs ==
  ASSUME NEW src, SourcesOK(src), NEW path, path \in DOMAIN src.embedded
  PROVE  CanonicalKey(src, path) = path
<1>1. path # NoKey /\ MatchExact(src, path) = path
  BY DEF SourcesOK, MatchExact
<1> DEFINE keys == <<MatchExact(src, path), MatchExact(src, Cwd \o path), MatchBasename(src, path),
                     MatchSuffix(src, path), MatchExtracted(src, path)>>
           found == {i \in DOMAIN keys : keys[i] # NoKey}
<1>2. DOMAIN keys = 1..5 /\ keys[1] = path
  BY <1>1
<1>3. CanonicalKey(src, path) = IF found = {} THEN NoKey ELSE keys[Min(found)]
  BY <1>1 DEF CanonicalKey, FirstKey
<1> HIDE DEF keys
<1>4. found \in SUBSET Nat /\ 1 \in found /\ \A i \in found : 1 <= i
  BY <1>1, <1>2
<1>5. Min(found) \in found /\ Min(found) <= 1
  <2> HIDE DEF found
  <2> QED
    BY <1>4, MinOf
<1>6. Min(found) = 1
  BY <1>4, <1>5
<1> HIDE DEF found
<1> QED
  BY <1>2, <1>3, <1>4, <1>6

\* What changes of the sources: there are more references.
LEMMA DescribeKeeps ==
  ASSUME NEW src, SourcesOK(src), NEW path
  PROVE  LET new == Describe(src, path)
         IN  /\ SourcesOK(new) /\ new.embedded = src.embedded
             /\ ToSet(src.keys) \subseteq ToSet(new.keys)
             /\ path \in DOMAIN src.embedded /\ ~IsFile(path) => path \in ToSet(new.keys)
<1> DEFINE key == CanonicalKey(src, path)
           new == Describe(src, path)
<1>1. path \in DOMAIN src.embedded => key = path /\ key # NoKey
  BY CanonicalIs DEF SourcesOK
<1> HIDE DEF key
<1>2. CASE IsFile(path) \/ key = NoKey
  <2>1. new = src
    BY <1>2 DEF Describe, key
  <2> HIDE DEF new
  <2>2. path \in DOMAIN src.embedded /\ ~IsFile(path) => FALSE
    BY <1>1, <1>2
  <2>3. /\ SourcesOK(new) /\ new.embedded = src.embedded
        /\ ToSet(src.keys) \subseteq ToSet(new.keys)
        /\ path \in DOMAIN src.embedded /\ ~IsFile(path) => path \in ToSet(new.keys)
    BY <2>1, <2>2
  <2> QED
    BY <2>3 DEF new
<1>3. CASE ~(IsFile(path) \/ key = NoKey) /\ key \in ToSet(src.keys)
  <2>1. new = src
    BY <1>3 DEF Describe, Referenced, key
  <2> HIDE DEF new
  <2>2. /\ SourcesOK(new) /\ new.embedded = src.embedded
        /\ ToSet(src.keys) \subseteq ToSet(new.keys)
        /\ path \in DOMAIN src.embedded /\ ~IsFile(path) => path \in ToSet(new.keys)
    BY <1>1, <1>3, <2>1
  <2> QED
    BY <2>2 DEF new
<1>4. CASE ~(IsFile(path) \/ key = NoKey) /\ key \notin ToSet(src.keys)
  <2>1. new = [src EXCEPT !.keys = Append(src.keys, key)]
    BY <1>4 DEF Describe, Referenced, key
  <2> DEFINE keys == Append(src.keys, key)
  <2>2. /\ IsSequence(keys) /\ Len(keys) = Len(src.keys) + 1 /\ Len(src.keys) \in Nat
        /\ DOMAIN keys = 1..(Len(src.keys) + 1)
        /\ keys[Len(src.keys) + 1] = key /\ \A i \in 1..Len(src.keys) : keys[i] = src.keys[i]
    BY AppendIs DEF SourcesOK
  <2>3. DOMAIN src.keys = 1..Len(src.keys)
    BY SequenceIs DEF SourcesOK
  <2> HIDE DEF keys, new
  <2>4. /\ DOMAIN new = DOMAIN src /\ new.keys = keys /\ new.embedded = src.embedded
    BY <2>1 DEF SourcesOK, IsSources, keys
  <2>5. \A n \in DOMAIN src.keys : src.keys[n] # key /\ src.keys[n] \in ToSet(src.keys)
    BY <1>4 DEF ToSet
  <2>6. ASSUME NEW m \in DOMAIN keys, NEW n \in DOMAIN keys, keys[m] = keys[n]
        PROVE  m = n
    <3>1. CASE m = Len(src.keys) + 1 \/ n = Len(src.keys) + 1
      BY <2>2, <2>3, <2>5, <2>6, <3>1
    <3>2. CASE m \in 1..Len(src.keys) /\ n \in 1..Len(src.keys)
      BY <2>2, <2>3, <2>6, <3>2 DEF SourcesOK
    <3> QED
      BY <2>2, <3>1, <3>2
  <2>7. SourcesOK(new)
    BY <2>2, <2>4, <2>6 DEF SourcesOK, IsSources
  <2>8. ToSet(src.keys) \subseteq ToSet(keys) /\ key \in ToSet(keys)
    <3>1. \A n \in DOMAIN src.keys : n \in DOMAIN keys /\ keys[n] = src.keys[n]
      BY <2>2, <2>3
    <3>2. Len(src.keys) + 1 \in DOMAIN keys
      BY <2>2
    <3> QED
      BY <2>2, <3>1, <3>2 DEF ToSet
  <2>9. /\ SourcesOK(new) /\ new.embedded = src.embedded
        /\ ToSet(src.keys) \subseteq ToSet(new.keys)
        /\ path \in DOMAIN src.embedded /\ ~IsFile(path) => path \in ToSet(new.keys)
    BY <1>1, <2>4, <2>7, <2>8
  <2> QED
    BY <2>9 DEF new
<1> QED
  BY <1>2, <1>3, <1>4

\* A file more.
LEMMA RecordKeeps ==
  ASSUME NEW src, SourcesOK(src), NEW file
  PROVE  SourcesOK(Record(src, file)) /\ Record(src, file).keys = src.keys
<1>1. CASE file[1] = NoKey
  BY <1>1 DEF Record
<1>2. CASE file[1] # NoKey
  <2> DEFINE key == file[1]
             em == Recorded(src.embedded, key, file[2])
             od == IF key \in DOMAIN src.embedded THEN src.order ELSE Append(src.order, key)
             bb == Recorded(src.byBase, Base(key), IF Base(key) \in DOMAIN src.byBase THEN NoKey ELSE key)
             new == [src EXCEPT !.embedded = em, !.order = od, !.byBase = bb]
  <2>1. Record(src, file) = new
    BY <1>2 DEF Record, SourcesOK, IsSources
  <2>2. DOMAIN em = DOMAIN src.embedded \cup {key}
    BY DEF Recorded
  <2> HIDE DEF em, od, bb
  <2>3. DOMAIN new = DOMAIN src /\ new.keys = src.keys /\ new.embedded = em
    BY DEF SourcesOK, IsSources
  <2> HIDE DEF new
  <2>4. SourcesOK(new)
    BY <1>2, <2>2, <2>3 DEF SourcesOK, IsSources
  <2> QED
    BY <2>1, <2>3, <2>4
<1> QED
  BY <1>1, <1>2

LEMMA LoadKeeps ==
  ASSUME NEW src, SourcesOK(src), NEW files, IsSequence(files), NEW extracted, IsSequence(extracted)
  PROVE  SourcesOK(LoadFromReader(src, files, extracted))
<1>1. PICK M \in Nat, N \in Nat : DOMAIN files = 1..M /\ DOMAIN extracted = 1..N
  BY SequenceIs
<1>2. PICK one : /\ one[0] = src
                 /\ \A n \in 1..M : one[n] = Record(one[n - 1], files[n])
                 /\ one[M] = FoldLeft(Record, src, files)
  BY <1>1, RecordFold
<1> DEFINE S == {n \in Nat : n <= M => SourcesOK(one[n])}
<1>3. M \in S
  <2>1. 0 \in S
    BY <1>2
  <2>2. ASSUME NEW n \in Nat, n \in S
        PROVE  n + 1 \in S
    <3> SUFFICES ASSUME n + 1 <= M PROVE SourcesOK(one[n + 1])
      OBVIOUS
    <3>1. SourcesOK(one[n]) /\ n + 1 \in 1..M /\ (n + 1) - 1 = n
      BY <1>1, <2>2
    <3>2. one[n + 1] = Record(one[n], files[n + 1])
      BY <1>2, <3>1
    <3> QED
      BY <3>1, <3>2, RecordKeeps
  <2> HIDE DEF S
  <2> QED
    BY <1>1, <2>1, <2>2, NatInd
<1> DEFINE base == FoldLeft(Record, src, files)
<1>4. SourcesOK(base)
  BY <1>1, <1>2, <1>3
<1> HIDE DEF base, S
<1>5. PICK two : /\ two[0] = base
                 /\ \A n \in 1..N : two[n] = RecordNew(two[n - 1], extracted[n])
                 /\ two[N] = FoldLeft(RecordNew, base, extracted)
  BY <1>1, RecordNewFold
<1> DEFINE T == {n \in Nat : n <= N => SourcesOK(two[n])}
<1>6. N \in T
  <2>1. 0 \in T
    BY <1>4, <1>5
  <2>2. ASSUME NEW n \in Nat, n \in T
        PROVE  n + 1 \in T
    <3> SUFFICES ASSUME n + 1 <= N PROVE SourcesOK(two[n + 1])
      OBVIOUS
    <3>1. SourcesOK(two[n]) /\ n + 1 \in 1..N /\ (n + 1) - 1 = n
      BY <1>1, <2>2
    <3>2. two[n + 1] = RecordNew(two[n], extracted[n + 1])
      BY <1>5, <3>1
    <3> QED
      BY <3>1, <3>2, RecordKeeps DEF RecordNew
  <2> HIDE DEF T
  <2> QED
    BY <1>1, <2>1, <2>2, NatInd
<1>7. SourcesOK(two[N])
  BY <1>1, <1>6
<1> DEFINE all == two[N]
           new == [all EXCEPT !.dir = {extracted[i][1] : i \in DOMAIN extracted}]
<1>8. LoadFromReader(src, files, extracted) = new
  BY <1>5 DEF LoadFromReader, base
<1> HIDE DEF all
<1>9. DOMAIN new = DOMAIN all /\ new.keys = all.keys /\ new.embedded = all.embedded
  BY <1>7 DEF SourcesOK, IsSources, all
<1> HIDE DEF new
<1>10. SourcesOK(new)
  BY <1>7, <1>9 DEF SourcesOK, IsSources, all
<1> QED
  BY <1>8, <1>10
(***************************************************************************)
(* The rows of a stackTrace answer.                                        *)
(***************************************************************************)
IsAcc(acc) == DOMAIN acc = {"frames", "ids", "next", "separators", "sources", "seen"}

AccOK(acc) ==
  /\ IsAcc(acc)
  /\ TableOK(acc.frames, acc.ids, acc.next, acc.separators)
  /\ \A id \in DOMAIN acc.frames : KeyOK(acc.frames[id])
  /\ SourcesOK(acc.sources) /\ Described(acc.sources, acc.seen)

FramesGrow(fr, new) == \A id \in DOMAIN fr : id \in DOMAIN new /\ new[id] = fr[id]

\* The frame of a row is there; and it is the one that the row shows.
RowThere(row) == row.kind # "separator" => KeyOK(<<row.stack, row.index>>)
RowExact(row) == row.kind # "separator" => FrameAt(<<row.stack, row.index>>) = row.frame

LEMMA FramesGrowOn ==
  ASSUME NEW a, NEW b, NEW c, FramesGrow(a, b), FramesGrow(b, c)
  PROVE  FramesGrow(a, c)
BY DEF FramesGrow

\* _register_frame: a frame has one id, new or not.
LEMMA RegisterFrameKeeps ==
  ASSUME NEW acc, IsAcc(acc), TableOK(acc.frames, acc.ids, acc.next, acc.separators), NEW key
  PROVE  LET reg == RegisterFrame(acc, key)
         IN  /\ IsAcc(reg) /\ TableOK(reg.frames, reg.ids, reg.next, reg.separators)
             /\ key \in DOMAIN reg.ids /\ FramesGrow(acc.frames, reg.frames)
             /\ \A id \in DOMAIN reg.frames : id \in DOMAIN acc.frames \/ reg.frames[id] = key
             /\ reg.sources = acc.sources /\ reg.seen = acc.seen
<1>1. CASE key \in DOMAIN acc.ids
  BY <1>1 DEF RegisterFrame, FramesGrow
<1>2. CASE key \notin DOMAIN acc.ids
  <2> DEFINE fr == With(acc.frames, acc.next, key)
             ids == With(acc.ids, key, acc.next)
             reg == [acc EXCEPT !.frames = fr, !.ids = ids, !.next = acc.next + 1]
  <2>1. RegisterFrame(acc, key) = reg
    BY <1>2 DEF RegisterFrame, IsAcc
  <2>2. acc.next \in Nat \ {0} /\ acc.next \notin DOMAIN acc.frames
    BY DEF TableOK
  <2>3. /\ DOMAIN fr = DOMAIN acc.frames \cup {acc.next} /\ fr[acc.next] = key
        /\ \A id \in DOMAIN acc.frames : fr[id] = acc.frames[id]
    BY <2>2 DEF With
  <2>4. /\ DOMAIN ids = DOMAIN acc.ids \cup {key} /\ ids[key] = acc.next
        /\ \A k \in DOMAIN acc.ids : ids[k] = acc.ids[k]
    BY <1>2 DEF With
  <2> HIDE DEF fr, ids
  <2>5. /\ DOMAIN reg = DOMAIN acc /\ reg.frames = fr /\ reg.ids = ids /\ reg.next = acc.next + 1
        /\ reg.separators = acc.separators /\ reg.sources = acc.sources /\ reg.seen = acc.seen
    BY DEF IsAcc
  <2> HIDE DEF reg
  <2>6. ASSUME NEW id \in DOMAIN fr
        PROVE  id \in 1..((acc.next + 1) - 1) /\ fr[id] \in DOMAIN ids /\ ids[fr[id]] = id
    <3>1. CASE id = acc.next
      BY <2>2, <2>3, <2>4, <3>1
    <3>2. CASE id \in DOMAIN acc.frames
      <4>1. id \in 1..(acc.next - 1) /\ acc.frames[id] \in DOMAIN acc.ids /\ acc.ids[acc.frames[id]] = id
        BY <3>2 DEF TableOK
      <4> QED
        BY <2>2, <2>3, <2>4, <3>2, <4>1
    <3> QED
      BY <2>3, <3>1, <3>2
  <2>7. ASSUME NEW k \in DOMAIN ids
        PROVE  ids[k] \in DOMAIN fr /\ fr[ids[k]] = k
    <3>1. CASE k = key
      BY <2>3, <2>4, <3>1
    <3>2. CASE k \in DOMAIN acc.ids
      <4>1. acc.ids[k] \in DOMAIN acc.frames /\ acc.frames[acc.ids[k]] = k
        BY <3>2 DEF TableOK
      <4> QED
        BY <2>3, <2>4, <3>2, <4>1
    <3> QED
      BY <2>4, <3>1, <3>2
  <2>8. ASSUME NEW id \in acc.separators
        PROVE  id \in 1..((acc.next + 1) - 1) /\ id \notin DOMAIN fr
    <3>1. id \in 1..(acc.next - 1) /\ id \notin DOMAIN acc.frames
      BY DEF TableOK
    <3> QED
      BY <2>2, <2>3, <3>1
  <2>9. acc.next + 1 \in Nat \ {0}
    BY <2>2
  <2>10. TableOK(fr, ids, acc.next + 1, acc.separators)
    BY <2>6, <2>7, <2>8, <2>9 DEF TableOK
  <2>11. TableOK(reg.frames, reg.ids, reg.next, reg.separators)
    BY <2>5, <2>10
  <2>12. IsAcc(reg)
    BY <2>5 DEF IsAcc
  <2>13. key \in DOMAIN reg.ids /\ FramesGrow(acc.frames, reg.frames)
    BY <2>3, <2>4, <2>5 DEF FramesGrow
  <2>14. \A id \in DOMAIN reg.frames : id \in DOMAIN acc.frames \/ reg.frames[id] = key
    BY <2>3, <2>5
  <2> QED
    BY <2>1, <2>5, <2>11, <2>12, <2>13, <2>14
<1> QED
  BY <1>1, <1>2

\* A separator has a number of its own.
LEMMA SeparatorKeeps ==
  ASSUME NEW acc, AccOK(acc), NEW row, row.kind = "separator"
  PROVE  LET new == AddRow(acc, row)
         IN  AccOK(new) /\ new.frames = acc.frames /\ new.seen = acc.seen
<1> DEFINE seps == acc.separators \cup {acc.next}
           new == [acc EXCEPT !.separators = seps, !.next = acc.next + 1]
<1>1. AddRow(acc, row) = new
  BY DEF AddRow, AccOK, IsAcc
<1> HIDE DEF seps
<1>2. /\ DOMAIN new = DOMAIN acc /\ new.frames = acc.frames /\ new.ids = acc.ids
      /\ new.next = acc.next + 1 /\ new.separators = seps
      /\ new.sources = acc.sources /\ new.seen = acc.seen
  BY DEF AccOK, IsAcc
<1> HIDE DEF new
<1>3. acc.next \in Nat \ {0} /\ TableOK(acc.frames, acc.ids, acc.next, acc.separators)
  BY DEF AccOK, TableOK
<1>4. ASSUME NEW id \in DOMAIN acc.frames
      PROVE  id \in 1..((acc.next + 1) - 1) /\ id # acc.next
  <2>1. id \in 1..(acc.next - 1)
    BY <1>3 DEF TableOK
  <2> QED
    BY <1>3, <2>1
<1>5. ASSUME NEW id \in seps
      PROVE  id \in 1..((acc.next + 1) - 1) /\ id \notin DOMAIN acc.frames
  <2>1. CASE id = acc.next
    BY <1>3, <1>4, <2>1
  <2>2. CASE id \in acc.separators
    <3>1. id \in 1..(acc.next - 1) /\ id \notin DOMAIN acc.frames
      BY <1>3, <2>2 DEF TableOK
    <3> QED
      BY <1>3, <3>1
  <2> QED
    BY <2>1, <2>2 DEF seps
<1>6. acc.next + 1 \in Nat \ {0}
  BY <1>3
<1>7. TableOK(acc.frames, acc.ids, acc.next + 1, seps)
  BY <1>3, <1>4, <1>5, <1>6 DEF TableOK
<1>8. AccOK(new)
  BY <1>2, <1>7 DEF AccOK, IsAcc
<1> QED
  BY <1>1, <1>2, <1>8

LEMMA AddRowKeeps ==
  ASSUME NEW acc, AccOK(acc), NEW row, RowThere(row)
  PROVE  LET new == AddRow(acc, row)
         IN  /\ AccOK(new) /\ FramesGrow(acc.frames, new.frames)
             /\ FramesSeen(acc.frames, acc.seen) /\ RowExact(row) => FramesSeen(new.frames, new.seen)
<1>1. CASE row.kind = "separator"
  BY <1>1, SeparatorKeeps DEF FramesGrow
<1>2. CASE row.kind # "separator"
  <2> DEFINE key == <<row.stack, row.index>>
             reg == RegisterFrame(acc, key)
             src == Describe(reg.sources, row.frame.path)
             seen == With(reg.seen, reg.ids[key], row.frame)
             new == [reg EXCEPT !.sources = src, !.seen = seen]
  <2>1. /\ IsAcc(reg) /\ TableOK(reg.frames, reg.ids, reg.next, reg.separators)
        /\ key \in DOMAIN reg.ids /\ FramesGrow(acc.frames, reg.frames)
        /\ \A id \in DOMAIN reg.frames : id \in DOMAIN acc.frames \/ reg.frames[id] = key
        /\ reg.sources = acc.sources /\ reg.seen = acc.seen
    BY RegisterFrameKeeps DEF AccOK
  <2> HIDE DEF reg
  <2>2. AddRow(acc, row) = new
    BY <1>2, <2>1 DEF AddRow, reg, IsAcc
  <2>3. KeyOK(key)
    BY <1>2 DEF RowThere
  <2>4. reg.ids[key] \in DOMAIN reg.frames /\ reg.frames[reg.ids[key]] = key
    BY <2>1 DEF TableOK
  <2> HIDE DEF key
  <2>5. /\ SourcesOK(src) /\ src.embedded = acc.sources.embedded
        /\ ToSet(acc.sources.keys) \subseteq ToSet(src.keys)
        /\ row.frame.path \in DOMAIN acc.sources.embedded /\ ~IsFile(row.frame.path)
             => row.frame.path \in ToSet(src.keys)
    BY <2>1, DescribeKeeps DEF AccOK
  <2>6. /\ DOMAIN seen = DOMAIN acc.seen \cup {reg.ids[key]} /\ seen[reg.ids[key]] = row.frame
        /\ \A id \in DOMAIN acc.seen : id # reg.ids[key] => seen[id] = acc.seen[id]
    BY <2>1 DEF With
  <2> HIDE DEF src, seen
  <2>7. /\ DOMAIN new = DOMAIN reg /\ new.frames = reg.frames /\ new.ids = reg.ids
        /\ new.next = reg.next /\ new.separators = reg.separators
        /\ new.sources = src /\ new.seen = seen
    BY <2>1 DEF IsAcc
  <2> HIDE DEF new
  <2>8. \A id \in DOMAIN new.frames : KeyOK(new.frames[id])
    <3> SUFFICES ASSUME NEW id \in DOMAIN reg.frames PROVE KeyOK(reg.frames[id])
      BY <2>7
    <3>1. CASE id \in DOMAIN acc.frames
      BY <2>1, <3>1 DEF FramesGrow, AccOK
    <3>2. CASE reg.frames[id] = key
      BY <2>3, <3>2
    <3> QED
      BY <2>1, <3>1, <3>2
  <2>9. Described(src, seen)
    <3> SUFFICES ASSUME NEW id \in DOMAIN seen, seen[id].path \in DOMAIN src.embedded, ~IsFile(seen[id].path)
                 PROVE  seen[id].path \in ToSet(src.keys)
      BY DEF Described
    <3>1. CASE id = reg.ids[key]
      BY <2>5, <2>6, <3>1
    <3>2. CASE id # reg.ids[key]
      BY <2>5, <2>6, <3>2 DEF AccOK, Described
    <3> QED
      BY <3>1, <3>2
  <2>10. AccOK(new)
    BY <2>1, <2>5, <2>7, <2>8, <2>9 DEF AccOK, IsAcc
  <2>11. ASSUME FramesSeen(acc.frames, acc.seen), RowExact(row)
         PROVE  FramesSeen(new.frames, new.seen)
    <3> SUFFICES ASSUME NEW id \in DOMAIN seen PROVE id \in DOMAIN reg.frames /\ FrameAt(reg.frames[id]) = seen[id]
      BY <2>7 DEF FramesSeen
    <3>1. CASE id = reg.ids[key]
      BY <1>2, <2>4, <2>6, <2>11, <3>1 DEF RowExact, key
    <3>2. CASE id # reg.ids[key]
      <4>1. id \in DOMAIN acc.frames /\ FrameAt(acc.frames[id]) = acc.seen[id]
        BY <2>6, <2>11, <3>2 DEF FramesSeen
      <4> QED
        BY <2>1, <2>6, <3>2, <4>1 DEF FramesGrow
    <3> QED
      BY <3>1, <3>2
  <2>12. FramesGrow(acc.frames, new.frames)
    BY <2>1, <2>7
  <2> QED
    BY <2>2, <2>10, <2>11, <2>12
<1> QED
  BY <1>1, <1>2

RowsThere(rows, N) == DOMAIN rows = 1..N /\ \A n \in 1..N : RowThere(rows[n])
RowsExact(rows) == \A n \in DOMAIN rows : RowExact(rows[n])

LEMMA AddRowsKeep ==
  ASSUME NEW base, AccOK(base), NEW N \in Nat, NEW rows, RowsThere(rows, N)
  PROVE  LET acc == FoldLeft(AddRow, base, rows)
         IN  /\ AccOK(acc) /\ FramesGrow(base.frames, acc.frames)
             /\ FramesSeen(base.frames, base.seen) /\ RowsExact(rows) => FramesSeen(acc.frames, acc.seen)
<1> DEFINE OK(acc) ==
             /\ AccOK(acc) /\ FramesGrow(base.frames, acc.frames)
             /\ FramesSeen(base.frames, base.seen) /\ RowsExact(rows) => FramesSeen(acc.frames, acc.seen)
<1>1. PICK steps : /\ steps[0] = base
                   /\ \A n \in 1..N : steps[n] = AddRow(steps[n - 1], rows[n])
                   /\ steps[N] = FoldLeft(AddRow, base, rows)
  BY AddRowFold DEF RowsThere
<1> DEFINE T == {n \in Nat : n <= N => OK(steps[n])}
<1>2. 0 \in T
  BY <1>1 DEF FramesGrow
<1>3. ASSUME NEW n \in Nat, n \in T
      PROVE  n + 1 \in T
  <2> SUFFICES ASSUME n + 1 <= N PROVE OK(steps[n + 1])
    OBVIOUS
  <2>1. OK(steps[n]) /\ n + 1 \in 1..N /\ (n + 1) - 1 = n
    BY <1>3
  <2>2. steps[n + 1] = AddRow(steps[n], rows[n + 1])
    BY <1>1, <2>1
  <2>3. RowThere(rows[n + 1]) /\ (RowsExact(rows) => RowExact(rows[n + 1]))
    BY <2>1 DEF RowsThere, RowsExact
  <2>4. /\ AccOK(steps[n + 1]) /\ FramesGrow(steps[n].frames, steps[n + 1].frames)
        /\ FramesSeen(steps[n].frames, steps[n].seen) /\ RowExact(rows[n + 1])
             => FramesSeen(steps[n + 1].frames, steps[n + 1].seen)
    BY <2>1, <2>2, <2>3, AddRowKeeps
  <2> QED
    BY <2>1, <2>3, <2>4, FramesGrowOn
<1> HIDE DEF OK
<1>4. N \in T
  <2> HIDE DEF T
  <2> QED
    BY <1>2, <1>3, NatInd
<1>5. OK(FoldLeft(AddRow, base, rows))
  BY <1>1, <1>4
<1> QED
  BY <1>5 DEF OK
(***************************************************************************)
(* Some of the elements of a sequence, in its order.                       *)
(***************************************************************************)
\* There is a number of a set with so many of its numbers up to it.
HasNth(S, c) == \E k \in S : Cardinality({j \in S : j <= k}) = c
AllNth(S) == \A c \in 1..Cardinality(S) : HasNth(S, c)

LEMMA PartIs ==
  ASSUME NEW n \in Nat, NEW S \in SUBSET (1..n)
  PROVE  IsFiniteSet(S) /\ Cardinality(S) \in Nat /\ Cardinality(S) <= n
<1>1. IsFiniteSet(1..n) /\ Cardinality(1..n) = n
  BY FS_Interval
<1>2. IsFiniteSet(S) /\ Cardinality(S) <= Cardinality(1..n)
  BY <1>1, FS_Subset
<1>3. Cardinality(S) \in Nat
  BY <1>2, FS_CardinalityType
<1> QED
  BY <1>1, <1>2, <1>3

LEMMA NthExtends ==
  ASSUME NEW n \in Nat, \A S \in SUBSET (1..n) : AllNth(S), NEW T \in SUBSET (1..(n + 1))
  PROVE  AllNth(T)
<1>1. CASE n + 1 \notin T
  <2>1. T \in SUBSET (1..n)
    BY <1>1
  <2> QED
    BY <2>1
<1>2. CASE n + 1 \in T
  <2> DEFINE S == T \ {n + 1}
  <2>1. S \in SUBSET (1..n)
    OBVIOUS
  <2>2. IsFiniteSet(T) /\ Cardinality(T) \in Nat
    <3>1. n + 1 \in Nat
      OBVIOUS
    <3> QED
      BY <3>1, PartIs
  <2>3. Cardinality(S) = Cardinality(T) - 1
    BY <1>2, <2>2, FS_RemoveElement
  <2>4. ASSUME NEW c \in 1..Cardinality(T)
        PROVE  HasNth(T, c)
    <3>1. CASE c = Cardinality(T)
      <4>1. \A j \in T : j <= n + 1
        OBVIOUS
      <4>2. {j \in T : j <= n + 1} = T
        BY <4>1
      <4> QED
        BY <1>2, <3>1, <4>2 DEF HasNth
    <3>2. CASE c # Cardinality(T)
      <4>1. c \in 1..Cardinality(S)
        BY <2>2, <2>3, <3>2
      <4>2. PICK k \in S : Cardinality({j \in S : j <= k}) = c
        BY <2>1, <4>1 DEF AllNth, HasNth
      <4>3. k \in 1..n
        BY <2>1, <4>2
      <4>4. {j \in T : j <= k} = {j \in S : j <= k}
        BY <4>3
      <4> QED
        BY <4>2, <4>4 DEF HasNth
    <3> QED
      BY <3>1, <3>2
  <2> QED
    BY <2>4 DEF AllNth
<1> QED
  BY <1>1, <1>2

LEMMA NthExists == \A n \in Nat : \A S \in SUBSET (1..n) : AllNth(S)
<1> DEFINE U == {n \in Nat : \A S \in SUBSET (1..n) : AllNth(S)}
<1>1. 0 \in U
  <2>1. ASSUME NEW S \in SUBSET (1..0)
        PROVE  AllNth(S)
    <3>1. S = {} /\ Cardinality({}) = 0
      BY FS_EmptySet
    <3> QED
      BY <3>1 DEF AllNth
  <2> QED
    BY <2>1
<1>2. \A n \in Nat : n \in U => n + 1 \in U
  BY NthExtends
<1> HIDE DEF U
<1>3. Nat \subseteq U
  BY <1>1, <1>2, NatInd
<1> QED
  BY <1>3 DEF U

LEMMA AscendingIs ==
  ASSUME NEW n \in Nat, NEW S \in SUBSET (1..n)
  PROVE  \E c \in Nat : /\ c <= n /\ DOMAIN Ascending(S) = 1..c
                        /\ \A i \in 1..c : Ascending(S)[i] \in S
<1>1. PICK c \in Nat : c = Cardinality(S)
  BY PartIs
<1>2. c <= n
  BY <1>1, PartIs
<1>3. DOMAIN Ascending(S) = 1..c
  BY <1>1 DEF Ascending
<1>4. ASSUME NEW i \in 1..c
      PROVE  Ascending(S)[i] \in S
  <2>0. AllNth(S)
    BY NthExists
  <2>1. \E k \in S : Cardinality({j \in S : j <= k}) = i
    BY <1>1, <2>0 DEF AllNth, HasNth
  <2>2. Ascending(S)[i] = CHOOSE k \in S : Cardinality({j \in S : j <= k}) = i
    BY <1>1 DEF Ascending
  <2> QED
    BY <2>1, <2>2
<1> QED
  BY <1>2, <1>3, <1>4

LEMMA PickedIs ==
  ASSUME NEW R, NEW s \in Seq(R), NEW S \in SUBSET (DOMAIN s)
  PROVE  Picked(s, S) \in Seq(R) /\ Len(Picked(s, S)) <= Len(s)
<1> DEFINE at == Ascending(S)
           picked == Picked(s, S)
<1>1. Len(s) \in Nat /\ DOMAIN s = 1..Len(s)
  OBVIOUS
<1>2. PICK c \in Nat : c <= Len(s) /\ DOMAIN at = 1..c /\ \A i \in 1..c : at[i] \in S
  BY <1>1, AscendingIs
<1>3. picked = [i \in DOMAIN at |-> s[at[i]]]
  BY DEF Picked
<1> HIDE DEF at, picked
<1>4. picked = [i \in 1..c |-> s[at[i]]]
  BY <1>2, <1>3
<1>5. \A i \in 1..c : s[at[i]] \in R
  BY <1>2
<1>6. picked \in Seq(R) /\ Len(picked) = c
  BY <1>4, <1>5
<1> QED
  BY <1>2, <1>6 DEF picked
(***************************************************************************)
(* The frames that are shown of a thread, and of the chain of exceptions.  *)
(***************************************************************************)
\* The rows there can be: separators, and the frames of the snapshot, each
\* with its index in the raw list if none is hidden.
RowGood(row) == RowThere(row) /\ (~hide => RowExact(row))
FrameRows ==
  UNION {{FrameRow(t, i, f) : i \in DOMAIN current[t].frames, f \in ToSet(current[t].frames)} :
         t \in DOMAIN current}
GoodRows ==
  {row \in FrameRows \cup {SeparatorRow(label) : label \in {"cause", "context"}} : RowGood(row)}

LEMMA GoodFrameRow ==
  ASSUME current # NoSnapshot, NEW t \in DOMAIN current, NEW i \in DOMAIN current[t].frames,
         NEW f \in ToSet(current[t].frames), ~hide => f = current[t].frames[i]
  PROVE  FrameRow(t, i, f) \in GoodRows
<1> DEFINE row == FrameRow(t, i, f)
<1>1. row \in FrameRows
  BY DEF FrameRows
<1>2. row.kind = "frame" /\ row.stack = t /\ row.index = i /\ row.frame = f
  BY DEF FrameRow
<1> HIDE DEF row
<1>3. RowThere(row)
  BY <1>2 DEF RowThere, KeyOK, ThreadIds
<1>4. ~hide => RowExact(row)
  BY <1>2 DEF RowExact, FrameAt
<1>5. row \in GoodRows
  BY <1>1, <1>3, <1>4 DEF GoodRows, RowGood
<1> QED
  BY <1>5 DEF row

LEMMA GoodSeparator ==
  ASSUME NEW label \in {"cause", "context"}
  PROVE  SeparatorRow(label) \in GoodRows
<1> DEFINE row == SeparatorRow(label)
<1>1. row.kind = "separator"
  BY DEF SeparatorRow
<1>2. RowGood(row)
  BY <1>1 DEF RowGood, RowThere, RowExact
<1> QED
  BY <1>2 DEF GoodRows

\* The frames of a stacktrace that are shown, all of them or some.
LEMMA ShownAre ==
  ASSUME NEW stack, IsSequence(stack.frames), NEW filter
  PROVE  LET shown == ShownFrames(stack, filter, hide)
         IN  /\ shown \in Seq(ToSet(stack.frames)) /\ Len(shown) <= Len(stack.frames)
             /\ ~hide => shown = stack.frames
<1>1. stack.frames \in Seq(ToSet(stack.frames)) /\ Len(stack.frames) \in Nat
  BY DEF IsSequence
<1>2. CASE hide
  <2> DEFINE S == {i \in DOMAIN stack.frames : stack.frames[i].path \notin filter}
  <2>1. S \in SUBSET (DOMAIN stack.frames)
    OBVIOUS
  <2>2. ShownFrames(stack, filter, hide) = Picked(stack.frames, S)
    BY <1>2 DEF ShownFrames
  <2> HIDE DEF S
  <2> QED
    BY <1>1, <1>2, <2>1, <2>2, PickedIs
<1>3. CASE ~hide
  BY <1>1, <1>3 DEF ShownFrames
<1> QED
  BY <1>2, <1>3

RowsOf(t) ==
  LET shown == ShownFrames(current[t], excluded, hide)
  IN  [i \in DOMAIN shown |-> FrameRow(t, i, shown[i])]

LEMMA RowsOfGood ==
  ASSUME current # NoSnapshot, IsSnapshot(current), NEW t \in DOMAIN current
  PROVE  RowsOf(t) \in Seq(GoodRows)
<1> DEFINE raw == current[t].frames
           shown == ShownFrames(current[t], excluded, hide)
<1>1. IsSequence(raw) /\ Len(raw) \in Nat /\ DOMAIN raw = 1..Len(raw)
  BY SequenceIs DEF IsSnapshot
<1>2. shown \in Seq(ToSet(raw)) /\ Len(shown) <= Len(raw) /\ (~hide => shown = raw)
  BY <1>1, ShownAre
<1> HIDE DEF shown
<1>3. Len(shown) \in Nat /\ DOMAIN shown = 1..Len(shown)
  BY <1>2
<1>4. ASSUME NEW i \in 1..Len(shown)
      PROVE  FrameRow(t, i, shown[i]) \in GoodRows
  <2>1. i \in DOMAIN raw
    BY <1>1, <1>2, <1>3
  <2>2. shown[i] \in ToSet(raw)
    BY <1>2
  <2>3. ~hide => shown[i] = raw[i]
    BY <1>2
  <2> QED
    BY <2>1, <2>2, <2>3, GoodFrameRow
<1>5. [i \in 1..Len(shown) |-> FrameRow(t, i, shown[i])] \in Seq(GoodRows)
  BY <1>3, <1>4
<1>6. RowsOf(t) = [i \in 1..Len(shown) |-> FrameRow(t, i, shown[i])]
  BY <1>3 DEF RowsOf, shown
<1> QED
  BY <1>5, <1>6
(***************************************************************************)
(* The chain, from the root inwards.                                       *)
(***************************************************************************)
WalkStep(snap, walk) ==
  LET next == Follow(snap, Last(walk))
  IN  IF next = None \/ next \in ToSet(walk) THEN walk ELSE Append(walk, next)

WalkOf(f, n, snap, root) == [k \in 0..n |-> IF k = 0 THEN <<root>> ELSE WalkStep(snap, f[k - 1])]
IsWalk(f, n, snap, root) == f = WalkOf(f, n, snap, root)

LEMMA WalkExists ==
  ASSUME NEW snap, NEW root, NEW n \in Nat
  PROVE  \E f : IsWalk(f, n, snap, root)
<1> DEFINE T == {k \in Nat : \E f : IsWalk(f, k, snap, root)}
<1>1. 0 \in T
  <2> DEFINE f == [k \in 0..0 |-> <<root>>]
  <2>1. IsWalk(f, 0, snap, root)
    BY DEF WalkOf, IsWalk
  <2> QED
    BY <2>1
<1>2. ASSUME NEW k \in Nat, k \in T
      PROVE  k + 1 \in T
  <2>1. PICK f : IsWalk(f, k, snap, root)
    BY <1>2
  <2> DEFINE g == WalkOf(f, k + 1, snap, root)
  <2>2. ASSUME NEW j \in 0..k
        PROVE  g[j] = f[j]
    <3>1. g[j] = IF j = 0 THEN <<root>> ELSE WalkStep(snap, f[j - 1])
      BY DEF WalkOf
    <3>2. f[j] = IF j = 0 THEN <<root>> ELSE WalkStep(snap, f[j - 1])
      BY <2>1 DEF WalkOf, IsWalk
    <3> QED
      BY <3>1, <3>2
  <2>3. ASSUME NEW j \in 0..(k + 1)
        PROVE  g[j] = IF j = 0 THEN <<root>> ELSE WalkStep(snap, g[j - 1])
    <3>1. g[j] = IF j = 0 THEN <<root>> ELSE WalkStep(snap, f[j - 1])
      BY DEF WalkOf
    <3>2. CASE j = 0
      BY <3>1, <3>2
    <3>3. CASE j # 0
      <4>1. j - 1 \in 0..k
        BY <3>3
      <4>2. g[j - 1] = f[j - 1]
        BY <2>2, <4>1
      <4> HIDE DEF g
      <4> QED
        BY <3>1, <3>3, <4>2
    <3> QED
      BY <3>2, <3>3
  <2>4. g = [j \in 0..(k + 1) |-> g[j]]
    BY DEF WalkOf
  <2> HIDE DEF g
  <2>5. IsWalk(g, k + 1, snap, root)
    BY <2>3, <2>4 DEF WalkOf, IsWalk
  <2> QED
    BY <2>5
<1> HIDE DEF T
<1>3. n \in T
  BY <1>1, <1>2, NatInd
<1> QED
  BY <1>3 DEF T

LEMMA FollowIs ==
  ASSUME NEW snap, NEW t
  PROVE  Follow(snap, t) # None => Follow(snap, t) \in DOMAIN snap
BY DEF Follow, Cause, Context, Linked

LEMMA WalkIs ==
  ASSUME NEW snap, NEW root \in DOMAIN snap
  PROVE  Walk(snap, root) \in Seq(DOMAIN snap)
<1> DEFINE w == CHOOSE w : w = [n \in 0..MaxDepth |->
                  IF n = 0 THEN <<root>>
                  ELSE LET next == Follow(snap, Last(w[n - 1]))
                       IN  IF next = None \/ next \in ToSet(w[n - 1]) THEN w[n - 1]
                           ELSE Append(w[n - 1], next)]
<1>1. Walk(snap, root) = w[MaxDepth] /\ MaxDepth \in Nat
  BY DepthAssumption DEF Walk, WalkUpTo
<1>2. PICK f : IsWalk(f, MaxDepth, snap, root)
  BY <1>1, WalkExists
<1>3. f = [n \in 0..MaxDepth |->
             IF n = 0 THEN <<root>>
             ELSE LET next == Follow(snap, Last(f[n - 1]))
                  IN  IF next = None \/ next \in ToSet(f[n - 1]) THEN f[n - 1]
                      ELSE Append(f[n - 1], next)]
  BY <1>2 DEF IsWalk, WalkOf, WalkStep
<1>4. w = [n \in 0..MaxDepth |->
             IF n = 0 THEN <<root>>
             ELSE LET next == Follow(snap, Last(w[n - 1]))
                  IN  IF next = None \/ next \in ToSet(w[n - 1]) THEN w[n - 1]
                      ELSE Append(w[n - 1], next)]
  BY <1>3
<1> HIDE DEF w
<1>5. IsWalk(w, MaxDepth, snap, root)
  BY <1>4 DEF IsWalk, WalkOf, WalkStep
<1>6. \A k \in 0..MaxDepth : w[k] = IF k = 0 THEN <<root>> ELSE WalkStep(snap, w[k - 1])
  BY <1>5 DEF IsWalk, WalkOf
<1> DEFINE T == {k \in Nat : k <= MaxDepth => w[k] \in Seq(DOMAIN snap)}
<1>7. 0 \in T
  <2>1. w[0] = <<root>>
    BY <1>1, <1>6
  <2>2. <<root>> \in Seq(DOMAIN snap)
    OBVIOUS
  <2> QED
    BY <2>1, <2>2
<1>8. ASSUME NEW k \in Nat, k \in T
      PROVE  k + 1 \in T
  <2> SUFFICES ASSUME k + 1 <= MaxDepth PROVE w[k + 1] \in Seq(DOMAIN snap)
    OBVIOUS
  <2>1. w[k] \in Seq(DOMAIN snap) /\ k + 1 \in 0..MaxDepth /\ (k + 1) - 1 = k
    BY <1>1, <1>8
  <2>2. w[k + 1] = WalkStep(snap, w[k])
    BY <1>6, <2>1
  <2>3. WalkStep(snap, w[k]) \in Seq(DOMAIN snap)
    <3>1. PICK walk \in Seq(DOMAIN snap) : walk = w[k]
      BY <2>1
    <3>2. PICK next : next = Follow(snap, Last(walk))
      OBVIOUS
    <3>3. WalkStep(snap, walk) = IF next = None \/ next \in ToSet(walk) THEN walk
                                 ELSE Append(walk, next)
      BY <3>2 DEF WalkStep
    <3>4. next # None => next \in DOMAIN snap
      BY <3>2, FollowIs
    <3>5. next \in DOMAIN snap => Append(walk, next) \in Seq(DOMAIN snap)
      OBVIOUS
    <3> QED
      BY <3>1, <3>3, <3>4, <3>5
  <2> QED
    BY <2>2, <2>3
<1> HIDE DEF T
<1>9. MaxDepth \in T
  BY <1>1, <1>7, <1>8, NatInd
<1> QED
  BY <1>1, <1>9 DEF T

(***************************************************************************)
(* A sequence of sequences, flattened.                                     *)
(***************************************************************************)
FlatOf(f, n, seqs) == [i \in 1..n |-> IF i = 1 THEN seqs[i] ELSE f[i - 1] \o seqs[i]]
IsFlat(f, n, seqs) == f = FlatOf(f, n, seqs)

LEMMA FlatExists ==
  ASSUME NEW seqs, NEW n \in Nat
  PROVE  \E f : IsFlat(f, n, seqs)
<1> DEFINE T == {k \in Nat : \E f : IsFlat(f, k, seqs)}
<1>1. 0 \in T
  <2> DEFINE f == [k \in 1..0 |-> seqs[k]]
  <2>1. IsFlat(f, 0, seqs)
    BY DEF FlatOf, IsFlat
  <2> QED
    BY <2>1
<1>2. ASSUME NEW k \in Nat, k \in T
      PROVE  k + 1 \in T
  <2>1. PICK f : IsFlat(f, k, seqs)
    BY <1>2
  <2> DEFINE g == FlatOf(f, k + 1, seqs)
  <2>2. ASSUME NEW j \in 1..k
        PROVE  g[j] = f[j]
    <3>1. g[j] = IF j = 1 THEN seqs[j] ELSE f[j - 1] \o seqs[j]
      BY DEF FlatOf
    <3>2. f[j] = IF j = 1 THEN seqs[j] ELSE f[j - 1] \o seqs[j]
      BY <2>1 DEF FlatOf, IsFlat
    <3> QED
      BY <3>1, <3>2
  <2>3. ASSUME NEW j \in 1..(k + 1)
        PROVE  g[j] = IF j = 1 THEN seqs[j] ELSE g[j - 1] \o seqs[j]
    <3>1. g[j] = IF j = 1 THEN seqs[j] ELSE f[j - 1] \o seqs[j]
      BY DEF FlatOf
    <3>2. CASE j = 1
      BY <3>1, <3>2
    <3>3. CASE j # 1
      <4>1. j - 1 \in 1..k
        BY <3>3
      <4>2. g[j - 1] = f[j - 1]
        BY <2>2, <4>1
      <4> HIDE DEF g
      <4> QED
        BY <3>1, <3>3, <4>2
    <3> QED
      BY <3>2, <3>3
  <2>4. g = [j \in 1..(k + 1) |-> g[j]]
    BY DEF FlatOf
  <2> HIDE DEF g
  <2>5. IsFlat(g, k + 1, seqs)
    BY <2>3, <2>4 DEF FlatOf, IsFlat
  <2> QED
    BY <2>5
<1> HIDE DEF T
<1>3. n \in T
  BY <1>1, <1>2, NatInd
<1> QED
  BY <1>3 DEF T

LEMMA FlattenIs ==
  ASSUME NEW R, NEW seqs \in Seq(Seq(R))
  PROVE  FlattenSeq(seqs) \in Seq(R)
<1>1. PICK N \in Nat : N = Len(seqs)
  OBVIOUS
<1>2. CASE N = 0
  <2>1. FlattenSeq(seqs) = seqs
    BY <1>1, <1>2 DEF FlattenSeq
  <2>2. seqs = <<>>
    BY <1>1, <1>2, EmptySeq
  <2> QED
    BY <2>1, <2>2
<1>3. CASE N # 0
  <2> DEFINE flat == CHOOSE flat : flat = [i \in 1..N |->
                       IF i = 1 THEN seqs[i] ELSE flat[i - 1] \o seqs[i]]
  <2>1. FlattenSeq(seqs) = flat[N]
    BY <1>1, <1>3 DEF FlattenSeq
  <2>2. PICK f : IsFlat(f, N, seqs)
    BY FlatExists
  <2>3. f = [i \in 1..N |-> IF i = 1 THEN seqs[i] ELSE f[i - 1] \o seqs[i]]
    BY <2>2 DEF IsFlat, FlatOf
  <2>4. flat = [i \in 1..N |-> IF i = 1 THEN seqs[i] ELSE flat[i - 1] \o seqs[i]]
    BY <2>3
  <2> HIDE DEF flat
  <2>5. IsFlat(flat, N, seqs)
    BY <2>4 DEF IsFlat, FlatOf
  <2>6. \A i \in 1..N : flat[i] = IF i = 1 THEN seqs[i] ELSE flat[i - 1] \o seqs[i]
    BY <2>5 DEF IsFlat, FlatOf
  <2> DEFINE T == {k \in Nat : k + 1 <= N => flat[k + 1] \in Seq(R)}
  <2>7. \A i \in 1..N : seqs[i] \in Seq(R)
    BY <1>1
  <2>8. 0 \in T
    BY <1>3, <2>6, <2>7
  <2>9. ASSUME NEW k \in Nat, k \in T
        PROVE  k + 1 \in T
    <3> SUFFICES ASSUME (k + 1) + 1 <= N PROVE flat[(k + 1) + 1] \in Seq(R)
      OBVIOUS
    <3>1. flat[k + 1] \in Seq(R) /\ (k + 1) + 1 \in 1..N /\ ((k + 1) + 1) - 1 = k + 1 /\ (k + 1) + 1 # 1
      BY <2>9
    <3>2. flat[(k + 1) + 1] = flat[k + 1] \o seqs[(k + 1) + 1]
      BY <2>6, <3>1
    <3>3. seqs[(k + 1) + 1] \in Seq(R)
      BY <2>7, <3>1
    <3> HIDE DEF T
    <3> QED
      BY <3>1, <3>2, <3>3, ConcatProperties
  <2> HIDE DEF T
  <2>10. N - 1 \in T
    <3>1. Nat \subseteq T
      BY <2>8, <2>9, NatInd
    <3>2. N - 1 \in Nat
      BY <1>3
    <3> QED
      BY <3>1, <3>2
  <2>11. flat[N] \in Seq(R)
    BY <1>3, <2>10 DEF T
  <2> QED
    BY <2>1, <2>11
<1> QED
  BY <1>2, <1>3
(***************************************************************************)
(* The flattened chain.                                                    *)
(***************************************************************************)
LEMMA RootIs ==
  ASSUME NEW snap, IsSnapshot(snap), NEW filter, HasChain(snap, filter)
  PROVE  ChainRoot(snap, filter) \in DOMAIN snap
<1> DEFINE all == Exceptions(snap, filter)
           inner == UNION {{Cause(snap, t), Context(snap, t)} : t \in all}
<1>1. all # {} /\ all \in SUBSET Nat /\ all \subseteq DOMAIN snap
  BY DEF HasChain, IsSnapshot, Exceptions
<1>2. ChainRoot(snap, filter) = IF all \subseteq inner THEN Min(all) ELSE Min(all \ inner)
  BY <1>1 DEF ChainRoot
<1> HIDE DEF all, inner
<1>3. CASE all \subseteq inner
  <2>1. Min(all) \in all
    BY <1>1, MinOf
  <2> QED
    BY <1>1, <1>2, <1>3, <2>1
<1>4. CASE ~(all \subseteq inner)
  <2>1. PICK some \in SUBSET Nat : some = all \ inner
    BY <1>1
  <2>2. some # {}
    BY <1>4, <2>1
  <2>3. Min(some) \in some
    BY <2>2, MinOf
  <2> QED
    BY <1>1, <1>2, <1>4, <2>1, <2>3
<1> QED
  BY <1>3, <1>4

Separators(walk, n) ==
  IF n = 1 THEN <<>> ELSE <<SeparatorRow(Link(current, walk[n - 1]))>>

LEMMA FlatRowsGood ==
  ASSUME current # NoSnapshot, IsSnapshot(current), NEW root \in DOMAIN current
  PROVE  FlatRows(current, root, excluded, hide) \in Seq(GoodRows)
<1> DEFINE walk == Walk(current, root)
           group(n) == RowsOf(walk[n]) \o Separators(walk, n)
           groups == [n \in DOMAIN walk |-> group(Len(walk) + 1 - n)]
<1>1. FlatRows(current, root, excluded, hide) = FlattenSeq(groups)
  BY DEF FlatRows, RowsOf, Separators
<1>2. walk \in Seq(DOMAIN current)
  BY WalkIs
<1> HIDE DEF walk
<1>3. PICK N \in Nat : N = Len(walk) /\ DOMAIN walk = 1..N /\ \A n \in 1..N : walk[n] \in DOMAIN current
  BY <1>2
<1>4. ASSUME NEW n \in 1..N
      PROVE  group(n) \in Seq(GoodRows)
  <2>1. RowsOf(walk[n]) \in Seq(GoodRows)
    BY <1>3, RowsOfGood
  <2>2. Separators(walk, n) \in Seq(GoodRows)
    <3>1. CASE n = 1
      BY <3>1 DEF Separators
    <3>2. CASE n # 1
      <4>1. PICK label \in {"cause", "context"} : label = Link(current, walk[n - 1])
        BY DEF Link
      <4>2. SeparatorRow(label) \in GoodRows
        BY GoodSeparator
      <4>3. Separators(walk, n) = <<SeparatorRow(label)>>
        BY <3>2, <4>1 DEF Separators
      <4> QED
        BY <4>2, <4>3
    <3> QED
      BY <3>1, <3>2
  <2> QED
    BY <2>1, <2>2, ConcatProperties
<1> HIDE DEF group
<1>5. ASSUME NEW n \in 1..N
      PROVE  group(N + 1 - n) \in Seq(GoodRows)
  <2>1. N + 1 - n \in 1..N
    OBVIOUS
  <2> QED
    BY <1>4, <2>1
<1>6. groups = [n \in 1..N |-> group(N + 1 - n)]
  BY <1>3
<1> HIDE DEF groups
<1>7. groups \in Seq(Seq(GoodRows))
  BY <1>5, <1>6
<1> QED
  BY <1>1, <1>7, FlattenIs

LEMMA ChainRowsGood ==
  ASSUME current # NoSnapshot, IsSnapshot(current), HasChain(current, excluded)
  PROVE  ChainRows(current, excluded, hide) \in Seq(GoodRows)
<1> DEFINE flat == FlatRows(current, ChainRoot(current, excluded), excluded, hide)
<1>1. flat \in Seq(GoodRows)
  BY RootIs, FlatRowsGood
<1> HIDE DEF flat
<1> DEFINE isFrame(i) == flat[i].kind = "frame"
           stays(i) == \/ isFrame(i)
                       \/ /\ i > 1 /\ isFrame(i - 1)
                          /\ \E j \in i + 1..Len(flat) : isFrame(j)
           S == {i \in DOMAIN flat : stays(i)}
<1>2. ChainRows(current, excluded, hide) = Picked(flat, S)
  BY DEF ChainRows, PruneOrphanSeparators, flat
<1>3. S \in SUBSET (DOMAIN flat)
  OBVIOUS
<1> HIDE DEF S
<1> QED
  BY <1>1, <1>2, <1>3, PickedIs

LEMMA PageGood ==
  ASSUME NEW R, NEW rows \in Seq(R), NEW start \in Nat, NEW levels \in Nat
  PROVE  Page(rows, start, levels) \in Seq(R)
<1>1. PICK n : n = IF levels = 0 THEN Len(rows) ELSE Min({Len(rows), start + levels})
  OBVIOUS
<1>2. n \in Int /\ n <= Len(rows) /\ Len(rows) \in Nat
  <2>1. PICK a \in Int, b \in Int : a = Len(rows) /\ b = start + levels /\ a \in Nat
    OBVIOUS
  <2>2. Min({a, b}) \in Int /\ Min({a, b}) <= a
    BY MinOfTwo
  <2>3. n = IF levels = 0 THEN a ELSE Min({a, b})
    BY <1>1, <2>1
  <2> QED
    BY <2>1, <2>2, <2>3
<1>3. \A i \in (start + 1)..n : rows[i] \in R
  BY <1>2
<1>4. SubSeq(rows, start + 1, n) \in Seq(R)
  BY <1>2, <1>3, SubSeqProperties
<1>5. Page(rows, start, levels) = SubSeq(rows, start + 1, n)
  BY <1>1 DEF Page
<1> QED
  BY <1>4, <1>5

\* The rows of an answer.
Answered(t, start, levels) ==
  Page(IF t = ChainThread THEN ChainRows(current, excluded, hide) ELSE ThreadRows(t),
              start, levels)

LEMMA AnsweredGood ==
  ASSUME current # NoSnapshot, IsSnapshot(current), NEW t,
         IF t = ChainThread THEN HasChain(current, excluded) ELSE t \in ThreadIds(current),
         NEW start \in Nat, NEW levels \in Nat
  PROVE  \E N \in Nat : /\ RowsThere(Answered(t, start, levels), N)
                        /\ ~hide => RowsExact(Answered(t, start, levels))
<1> DEFINE rows == IF t = ChainThread THEN ChainRows(current, excluded, hide) ELSE ThreadRows(t)
           page == Page(rows, start, levels)
<1>1. rows \in Seq(GoodRows)
  <2>1. CASE t = ChainThread
    BY <2>1, ChainRowsGood
  <2>2. CASE t # ChainThread
    <3>1. ThreadRows(t) = RowsOf(t)
      BY DEF ThreadRows, RowsOf
    <3>2. t \in DOMAIN current
      BY <2>2 DEF ThreadIds
    <3> QED
      BY <2>2, <3>1, <3>2, RowsOfGood
  <2> QED
    BY <2>1, <2>2
<1> HIDE DEF rows
<1>2. page \in Seq(GoodRows)
  BY <1>1, PageGood
<1>3. page = Answered(t, start, levels)
  BY DEF Answered, rows
<1> HIDE DEF page
<1>4. PICK N \in Nat : DOMAIN page = 1..N /\ \A n \in 1..N : page[n] \in GoodRows
  BY <1>2
<1>5. RowsThere(page, N)
  BY <1>4 DEF RowsThere, GoodRows, RowGood
<1>6. ~hide => RowsExact(page)
  BY <1>4 DEF RowsExact, GoodRows, RowGood
<1> QED
  BY <1>3, <1>5, <1>6
(***************************************************************************)
(* stackTrace.                                                             *)
(***************************************************************************)
BaseAcc ==
  [frames |-> frames, ids |-> frameIds, next |-> nextFrameId, separators |-> separators,
   sources |-> sources, seen |-> seenFrames]

LEMMA StackTraceIs ==
  ASSUME NEW t, NEW start, NEW levels, StackTrace(t, start, levels)
  PROVE  /\ current # NoSnapshot
         /\ IF t = ChainThread THEN HasChain(current, excluded) ELSE t \in ThreadIds(current)
         /\ \E acc : /\ acc = FoldLeft(AddRow, BaseAcc, Answered(t, start, levels))
                     /\ frames' = acc.frames /\ frameIds' = acc.ids /\ nextFrameId' = acc.next
                     /\ separators' = acc.separators /\ sources' = acc.sources /\ seenFrames' = acc.seen
         /\ UNCHANGED <<reader, count, index, current, excluded, hide, scopes, registry, seenRefs>>
BY DEF StackTrace, BaseAcc, Answered, cursorVars, filterVars

LEMMA StackTraceKeeps ==
  ASSUME CursorInv, FrameInv, RegistryInv, ViewInv, SourceInv,
         NEW t, NEW start \in Nat, NEW levels \in Nat, StackTrace(t, start, levels)
  PROVE  FrameInv' /\ RegistryInv' /\ ViewInv' /\ SourceInv'
<1>1. /\ current # NoSnapshot /\ reader \in Files
      /\ IF t = ChainThread THEN HasChain(current, excluded) ELSE t \in ThreadIds(current)
      /\ UNCHANGED <<reader, count, index, current, excluded, hide, scopes, registry, seenRefs>>
  BY StackTraceIs, CurrentIs
<1>2. PICK acc : /\ acc = FoldLeft(AddRow, BaseAcc, Answered(t, start, levels))
                 /\ frames' = acc.frames /\ frameIds' = acc.ids /\ nextFrameId' = acc.next
                 /\ separators' = acc.separators /\ sources' = acc.sources /\ seenFrames' = acc.seen
  BY StackTraceIs
<1>3. PICK N \in Nat : /\ RowsThere(Answered(t, start, levels), N)
                       /\ ~hide => RowsExact(Answered(t, start, levels))
  BY <1>1, CurrentIs, AnsweredGood
<1>4. /\ BaseAcc.frames = frames /\ BaseAcc.ids = frameIds /\ BaseAcc.next = nextFrameId
      /\ BaseAcc.separators = separators /\ BaseAcc.sources = sources /\ BaseAcc.seen = seenFrames
      /\ IsAcc(BaseAcc)
  BY DEF BaseAcc, IsAcc
<1>5. AccOK(BaseAcc)
  BY <1>4 DEF AccOK, FrameInv, SourceInv
<1>6. /\ AccOK(acc) /\ FramesGrow(frames, acc.frames)
      /\ FramesSeen(frames, seenFrames) /\ RowsExact(Answered(t, start, levels))
           => FramesSeen(acc.frames, acc.seen)
  BY <1>2, <1>3, <1>4, <1>5, AddRowsKeep
<1>7. FramesGrow(frames, frames')
  BY <1>2, <1>6
<1>8. FrameInv'
  <2>1. \A key : KeyOK(key)' <=> KeyOK(key)
    BY <1>1 DEF KeyOK, ThreadIds
  <2> QED
    BY <1>2, <1>6, <2>1 DEF FrameInv, AccOK
<1>9. RegistryInv'
  BY <1>1, <1>7, RegistryKept DEF FramesGrow
<1>10. SourceInv'
  <2>1. reader' # NoFile
    BY <1>1, SessionAssumption
  <2> QED
    BY <1>2, <1>6, <2>1 DEF SourceInv, AccOK
<1>11. ASSUME Watched'
       PROVE  FramesSeen(frames, seenFrames)' /\ RefsSeen'
  <2>1. Watched /\ ~hide
    BY <1>1, <1>11 DEF Watched, ThreadIds
  <2>2. FramesSeen(frames, seenFrames) /\ RefsSeen
    BY <2>1 DEF ViewInv
  <2>3. FramesSeen(acc.frames, acc.seen)
    BY <1>3, <1>6, <2>1, <2>2
  <2>4. FramesSeen(frames, seenFrames)'
    <3>1. \A key : FrameAt(key)' = FrameAt(key)
      BY <1>1 DEF FrameAt
    <3> QED
      BY <1>2, <2>3, <3>1 DEF FramesSeen
  <2>5. ASSUME NEW ref \in DOMAIN seenRefs
        PROVE  Resolvable(registry, ref)' /\ Entry(ref)' = seenRefs[ref]
    <3>1. Resolvable(registry, ref) /\ Entry(ref) = seenRefs[ref]
      BY <2>2 DEF RefsSeen
    <3>2. CASE registry.entries[ref].kind = "scope"
      <4>1. registry.entries[ref].frame \in DOMAIN frames
        BY <3>1, <3>2 DEF RegistryInv, ScopesOK, Resolvable
      <4>2. frames'[registry.entries[ref].frame] = frames[registry.entries[ref].frame]
        BY <1>7, <4>1 DEF FramesGrow
      <4> QED
        BY <1>1, <3>1, <4>2 DEF Resolvable, Entry, LookupFrame
    <3>3. CASE registry.entries[ref].kind # "scope"
      BY <1>1, <3>1, <3>3 DEF Resolvable, Entry
    <3> QED
      BY <3>2, <3>3
  <2>6. RefsSeen'
    BY <1>1, <2>5 DEF RefsSeen
  <2> QED
    BY <2>4, <2>6
<1>12. ViewInv'
  BY <1>11 DEF ViewInv
<1> QED
  BY <1>8, <1>9, <1>10, <1>12
(***************************************************************************)
(* The other requests, and the invariant.                                  *)
(***************************************************************************)
\* A stop: the client forgets what it was given, if it is told.
LEMMA StopKeeps ==
  ASSUME RefreshStopState, SourcesOK(sources'), reader' # NoFile,
         Described(sources', seenFrames'),
         Watched' => seenFrames' = <<>> /\ seenRefs' = <<>>
  PROVE  FrameInv' /\ RegistryInv' /\ ViewInv' /\ SourceInv'
<1>1. FrameInv' /\ RegistryInv'
  BY StopClears
<1>2. ViewInv'
  <2>1. ASSUME Watched'
        PROVE  FramesSeen(frames, seenFrames)' /\ RefsSeen'
    <3>1. seenFrames' = <<>> /\ seenRefs' = <<>>
      BY <2>1
    <3> QED
      BY <3>1 DEF FramesSeen, RefsSeen
  <2> QED
    BY <2>1 DEF ViewInv
<1>3. SourceInv'
  BY DEF SourceInv
<1> QED
  BY <1>1, <1>2, <1>3

LEMMA ToldKeeps ==
  ASSUME NEW snap, snap # NoSnapshot, IsSnapshot(snap), NEW filter, SendStopped(snap, filter), SourceInv,
         RefreshStopState, UNCHANGED sources, reader' # NoFile, current' = snap
  PROVE  FrameInv' /\ RegistryInv' /\ ViewInv' /\ SourceInv'
<1>1. /\ ThreadIds(snap) # {} => seenFrames' = <<>> /\ seenRefs' = <<>>
      /\ seenFrames' = <<>> \/ seenFrames' = seenFrames
  BY SendStoppedIs
<1>2. Described(sources', seenFrames')
  BY <1>1 DEF SourceInv, Described
<1>3. Watched' => seenFrames' = <<>> /\ seenRefs' = <<>>
  BY <1>1 DEF Watched, ThreadIds
<1>4. SourcesOK(sources')
  BY DEF SourceInv
<1> QED
  BY <1>2, <1>3, <1>4, StopKeeps

LEMMA MoveKeeps ==
  ASSUME CursorInv, SourceInv, reader # NoFile, NEW i \in 0..(count - 1), MoveTo(i)
  PROVE  FrameInv' /\ RegistryInv' /\ ViewInv' /\ SourceInv'
<1>1. /\ RefreshStopState /\ current' = Snapshot(i) /\ SendStopped(Snapshot(i), excluded)
      /\ UNCHANGED sources /\ UNCHANGED reader
  BY DEF MoveTo, LoadSnapshot
<1>2. IsSnapshot(current') /\ current' # NoSnapshot
  BY MoveCursor
<1>3. reader' # NoFile
  BY <1>1
<1> QED
  BY <1>1, <1>2, <1>3, ToldKeeps

LEMMA RestartKeeps ==
  ASSUME CursorInv, SourceInv, Restart
  PROVE  FrameInv' /\ RegistryInv' /\ ViewInv' /\ SourceInv'
<1>1. /\ RefreshStopState /\ current' = Snapshot(0) /\ SendStopped(Snapshot(0), excluded)
      /\ UNCHANGED sources /\ UNCHANGED reader /\ reader # NoFile
  BY DEF Restart, LoadSnapshot
<1>2. IsSnapshot(current') /\ current' # NoSnapshot
  BY RestartCursor
<1>3. reader' # NoFile
  BY <1>1
<1> QED
  BY <1>1, <1>2, <1>3, ToldKeeps

\* At an edge the client is stopped again, if there is a snapshot.
LEMMA StayKeeps ==
  ASSUME CursorInv, SourceInv, reader # NoFile, AdvanceStays
  PROVE  FrameInv' /\ RegistryInv' /\ ViewInv' /\ SourceInv'
<1>1. RefreshStopState /\ UNCHANGED sources /\ current' = current /\ reader' # NoFile
  BY DEF AdvanceStays, cursorVars
<1>2. CASE current # NoSnapshot
  <2>1. SendStopped(current, excluded) /\ IsSnapshot(current)
    BY <1>2, CurrentIs DEF AdvanceStays
  <2> QED
    BY <1>1, <1>2, <2>1, ToldKeeps
<1>3. CASE current = NoSnapshot
  <2>1. seenFrames' = seenFrames
    BY <1>3 DEF AdvanceStays
  <2>2. SourcesOK(sources') /\ Described(sources', seenFrames') /\ ~(Watched')
    BY <1>1, <1>3, <2>1 DEF SourceInv, Described, Watched
  <2> QED
    BY <1>1, <2>2, StopKeeps
<1> QED
  BY <1>2, <1>3

LEMMA LaunchKeeps ==
  ASSUME CursorInv, FrameInv, RegistryInv, SourceInv, NEW file \in Files, NEW start \in Starts,
         NEW filter, NEW hiding, Launch(file, start, filter, hiding)
  PROVE  FrameInv' /\ RegistryInv' /\ ViewInv' /\ SourceInv'
<1>1. /\ reader = NoFile /\ reader' = file /\ seenFrames = <<>> /\ current = NoSnapshot
      /\ sources' = LoadFromReader(sources, Embedded[file], Extracted[file])
  BY DEF Launch, SourceInv, CursorInv
<1>2. SourcesOK(sources') /\ reader' # NoFile
  BY <1>1, LoadKeeps, SessionAssumption DEF SourceInv
<1>3. Described(sources', <<>>)
  BY DEF Described
<1>4. CASE UNCHANGED <<index, current, frameVars, registry, clientVars>>
  <2>1. UNCHANGED <<frames, frameIds, separators, nextFrameId, scopes, registry, current, seenFrames>>
    BY <1>4 DEF frameVars, clientVars
  <2>2. FrameInv' /\ RegistryInv'
    BY <2>1, FramesKept, RegistryKept
  <2>3. SourceInv'
    BY <1>1, <1>2, <1>3, <2>1 DEF SourceInv
  <2>4. ViewInv'
    BY <1>1, <2>1 DEF ViewInv, Watched
  <2> QED
    BY <2>2, <2>3, <2>4
<1>5. ASSUME NEW i, LaunchShows(file, i, filter)
      PROVE  FrameInv' /\ RegistryInv' /\ ViewInv' /\ SourceInv'
  <2> DEFINE snap == SnapshotsOf[file][i + 1]
  <2>1. i + 1 \in 1..Len(SnapshotsOf[file])
    <3>1. Len(SnapshotsOf[file]) \in Nat /\ count <= Len(SnapshotsOf[file]) /\ count \in Nat
      BY SessionAssumption DEF IsSequence, Launch, CursorInv
    <3> QED
      BY <1>5, <3>1 DEF LaunchShows
  <2>2. current' = snap /\ RefreshStopState /\ SendStopped(snap, filter) /\ snap # Corrupt
    BY <1>5 DEF LaunchShows
  <2>3. snap # NoSnapshot /\ IsSnapshot(snap)
    BY <2>1, <2>2, SnapshotIs
  <2> HIDE DEF snap
  <2>4. /\ ThreadIds(snap) # {} => seenFrames' = <<>> /\ seenRefs' = <<>>
        /\ seenFrames' = <<>> \/ seenFrames' = seenFrames
    BY <2>2, <2>3, SendStoppedIs
  <2>5. Watched' => seenFrames' = <<>> /\ seenRefs' = <<>>
    BY <2>2, <2>4 DEF Watched, ThreadIds
  <2>6. seenFrames' = <<>>
    BY <1>1, <2>4
  <2> QED
    BY <1>2, <1>3, <2>2, <2>5, <2>6, StopKeeps
<1> QED
  BY <1>4, <1>5, LaunchIs
\* What does not depend on the requests.
LEMMA SourceKept ==
  ASSUME SourceInv, UNCHANGED <<sources, seenFrames, reader>>
  PROVE  SourceInv'
BY DEF SourceInv

LEMMA WatchedKept ==
  ASSUME UNCHANGED <<current, hide>>, Watched'
  PROVE  Watched
BY DEF Watched, ThreadIds

LEMMA SeenKept ==
  ASSUME FramesSeen(frames, seenFrames), UNCHANGED <<frames, seenFrames, current>>
  PROVE  FramesSeen(frames, seenFrames)'
BY DEF FramesSeen, FrameAt

LEMMA NothingKeeps ==
  ASSUME FrameInv, RegistryInv, ViewInv, SourceInv,
         UNCHANGED <<current, hide, frameVars, registry, sources, seenFrames, seenRefs, reader>>
  PROVE  FrameInv' /\ RegistryInv' /\ ViewInv' /\ SourceInv'
<1>1. UNCHANGED <<frames, frameIds, separators, nextFrameId, scopes>>
  BY DEF frameVars
<1>2. FrameInv' /\ RegistryInv' /\ SourceInv'
  BY <1>1, FramesKept, RegistryKept, SourceKept
<1>3. ASSUME Watched'
      PROVE  FramesSeen(frames, seenFrames)' /\ RefsSeen'
  <2>1. FramesSeen(frames, seenFrames) /\ RefsSeen
    BY <1>3, WatchedKept DEF ViewInv
  <2>2. \A ref : (Resolvable(registry, ref)' <=> Resolvable(registry, ref)) /\ Entry(ref)' = Entry(ref)
    BY <1>1 DEF Resolvable, Entry, LookupFrame
  <2>3. RefsSeen'
    BY <2>1, <2>2 DEF RefsSeen
  <2> QED
    BY <1>1, <2>1, <2>3, SeenKept
<1>4. ViewInv'
  BY <1>3 DEF ViewInv
<1> QED
  BY <1>2, <1>4

\* A request about a frame or a variable.
LEMMA RequestKeeps ==
  ASSUME FrameInv, ViewInv, SourceInv, RegistryInv',
         FramesSeen(frames, seenFrames) /\ RefsSeen => RefsSeen',
         UNCHANGED <<current, hide, frames, frameIds, separators, nextFrameId, sources, seenFrames, reader>>
  PROVE  FrameInv' /\ RegistryInv' /\ ViewInv' /\ SourceInv'
<1>1. FrameInv' /\ SourceInv'
  BY FramesKept, SourceKept
<1>2. ASSUME Watched'
      PROVE  FramesSeen(frames, seenFrames)' /\ RefsSeen'
  <2>1. FramesSeen(frames, seenFrames) /\ RefsSeen
    BY <1>2, WatchedKept DEF ViewInv
  <2> QED
    BY <2>1, SeenKept
<1>3. ViewInv'
  BY <1>2 DEF ViewInv
<1> QED
  BY <1>1, <1>3

LEMMA InvInit == Init => IInv
<1> SUFFICES ASSUME Init PROVE IInv
  OBVIOUS
<1>1. CursorInv
  BY CursorInit
<1>2. FrameInv
  BY DEF Init, FrameInv, TableOK
<1>3. RegistryInv
  <2>1. registry = EmptyRegistry /\ scopes = <<>>
    BY DEF Init
  <2>2. EmptyRegistry.next = 1 /\ EmptyRegistry.entries = <<>> /\ EmptyRegistry.refs = <<>>
    BY DEF EmptyRegistry
  <2>3. IsRegistry(EmptyRegistry)
    BY DEF EmptyRegistry, IsRegistry
  <2>4. RegistryOK(EmptyRegistry) /\ ScopesOK(EmptyRegistry, <<>>)
    BY <2>2, <2>3 DEF RegistryOK, ScopesOK
  <2> QED
    BY <2>1, <2>4 DEF RegistryInv
<1>4. ViewInv
  BY DEF Init, ViewInv, Watched
<1>5. SourceInv
  <2>1. sources = NoSources /\ seenFrames = <<>>
    BY DEF Init
  <2>2. DOMAIN NoSources = {"embedded", "order", "byBase", "keys", "dir"}
    BY DEF NoSources
  <2>3. NoSources.embedded = <<>> /\ NoSources.keys = <<>>
    BY DEF NoSources
  <2>4. IsSequence(<<>>)
    BY DEF IsSequence
  <2>5. SourcesOK(NoSources)
    BY <2>2, <2>3, <2>4 DEF SourcesOK, IsSources
  <2> QED
    BY <2>1, <2>5 DEF SourceInv, Described
<1> QED
  BY <1>1, <1>2, <1>3, <1>4, <1>5 DEF IInv

LEMMA InvStep ==
  ASSUME IInv, [Next]_vars
  PROVE  IInv'
<1> USE DEF IInv
<1>1. CursorInv /\ FrameInv /\ RegistryInv /\ ViewInv /\ SourceInv /\ CursorInv'
  BY CursorStep
<1> DEFINE Rest == FrameInv' /\ RegistryInv' /\ ViewInv' /\ SourceInv'
<1> SUFFICES Rest
  BY <1>1
<1>2. CASE Capture
  <2>1. UNCHANGED <<current, hide, frameVars, registry, sources, seenFrames, seenRefs, reader>>
    BY <1>2 DEF Capture, filterVars, clientVars
  <2> QED
    BY <1>1, <2>1, NothingKeeps
<1>3. ASSUME NEW file \in Files, NEW start \in Starts, NEW filter \in Filters, NEW hiding \in Hiding,
             Launch(file, start, filter, hiding)
      PROVE  Rest
  BY <1>1, <1>3, LaunchKeeps
<1>4. ASSUME NEW direction \in {-1, 1}, Advance(direction)
      PROVE  Rest
  <2>1. reader # NoFile /\ ((\E i : AdvanceMoves(i)) \/ AdvanceStays)
    BY <1>4, AdvanceIs
  <2>2. ASSUME NEW i, AdvanceMoves(i)
        PROVE  Rest
    BY <1>1, <2>1, <2>2, MoveKeeps DEF AdvanceMoves
  <2>3. CASE AdvanceStays
    BY <1>1, <2>1, <2>3, StayKeeps
  <2> QED
    BY <2>1, <2>2, <2>3
<1>5. ASSUME NEW i \in 0..count - 1, JumpToSnapshot(i)
      PROVE  Rest
  <2>1. reader # NoFile /\ MoveTo(i)
    BY <1>5 DEF JumpToSnapshot
  <2> QED
    BY <1>1, <2>1, MoveKeeps
<1>6. CASE Restart
  BY <1>1, <1>6, RestartKeeps
<1>7. ASSUME NEW t, NEW start \in 0..1, NEW levels \in 0..1, StackTrace(t, start, levels)
      PROVE  Rest
  <2>1. start \in Nat /\ levels \in Nat
    OBVIOUS
  <2> QED
    BY <1>1, <1>7, <2>1, StackTraceKeeps
<1>8. ASSUME NEW id, Scopes(id)
      PROVE  Rest
  <2>1. UNCHANGED <<current, hide, frames, frameIds, separators, nextFrameId, sources, seenFrames, reader>>
    BY <1>8 DEF Scopes, cursorVars, filterVars
  <2>2. RegistryInv' /\ (FramesSeen(frames, seenFrames) /\ RefsSeen => RefsSeen')
    BY <1>1, <1>8, ScopesKeep
  <2> QED
    BY <1>1, <2>1, <2>2, RequestKeeps
<1>9. ASSUME NEW ref \in DOMAIN registry.entries, Variables(ref)
      PROVE  Rest
  <2>1. UNCHANGED <<current, hide, frames, frameIds, separators, nextFrameId, sources, seenFrames, reader>>
    BY <1>9 DEF Variables, cursorVars, filterVars, frameVars
  <2>2. RegistryInv' /\ (RefsSeen => RefsSeen')
    BY <1>1, <1>9, VariablesKeep
  <2> QED
    BY <1>1, <2>1, <2>2, RequestKeeps
<1>10. ASSUME NEW id, NEW name, Evaluate(id, name)
       PROVE  Rest
  <2>1. UNCHANGED <<current, hide, frames, frameIds, separators, nextFrameId, sources, seenFrames, reader>>
    BY <1>10 DEF Evaluate, cursorVars, filterVars, frameVars
  <2>2. RegistryInv' /\ (RefsSeen => RefsSeen')
    BY <1>1, <1>10, EvaluateKeeps
  <2> QED
    BY <1>1, <2>1, <2>2, RequestKeeps
<1>11. CASE UNCHANGED vars
  <2>1. UNCHANGED <<current, hide, frameVars, registry, sources, seenFrames, seenRefs, reader>>
    BY <1>11 DEF vars, cursorVars, filterVars, clientVars
  <2> QED
    BY <1>1, <2>1, NothingKeeps
<1> HIDE DEF Rest, IInv
<1> QED
  BY <1>2, <1>3, <1>4, <1>5, <1>6, <1>7, <1>8, <1>9, <1>10, <1>11 DEF Next

(***************************************************************************)
(* The theorems.                                                           *)
(***************************************************************************)
THEOREM Invariance == Spec => []IInv
BY InvInit, InvStep, PTL DEF Spec

(***************************************************************************)
(* A frame has one id, and a value or a scope one reference, from one stop *)
(* to the next, though the client asks in pages and a value can contain    *)
(* itself (_register_frame, VariableRegistry.register_object).             *)
(***************************************************************************)
THEOREM OneNumberCorrect == Spec => []OneNumberEach
<1>1. IInv => OneNumberEach
  <2> SUFFICES ASSUME FrameInv, RegistryInv PROVE OneNumberEach
    BY DEF IInv
  <2>1. ASSUME NEW i \in DOMAIN frames, NEW j \in DOMAIN frames, frames[i] = frames[j]
        PROVE  i = j
    <3>1. frameIds[frames[i]] = i /\ frameIds[frames[j]] = j
      BY DEF FrameInv, TableOK
    <3> QED
      BY <2>1, <3>1
  <2>2. DOMAIN frames \cap separators = {}
    BY DEF FrameInv, TableOK
  <2>3. ASSUME NEW q \in DOMAIN registry.entries, NEW r \in DOMAIN registry.entries
        PROVE  /\ registry.entries[q].kind = "object" /\ registry.entries[r].kind = "object"
                  /\ registry.entries[q].value = registry.entries[r].value => q = r
               /\ registry.entries[q].kind = "scope" /\ registry.entries[r].kind = "scope"
                  /\ registry.entries[q].frame = registry.entries[r].frame => q = r
    <3>1. EntryOK(registry, q) /\ EntryOK(registry, r)
      BY DEF RegistryInv, RegistryOK
    <3>2. ASSUME registry.entries[q].kind = "object", registry.entries[r].kind = "object",
                 registry.entries[q].value = registry.entries[r].value
          PROVE  q = r
      <4>1. registry.refs[registry.entries[q].value] = q /\ registry.refs[registry.entries[r].value] = r
        BY <3>1, <3>2 DEF EntryOK
      <4> QED
        BY <3>2, <4>1
    <3>3. ASSUME registry.entries[q].kind = "scope", registry.entries[r].kind = "scope",
                 registry.entries[q].frame = registry.entries[r].frame
          PROVE  q = r
      <4>1. scopes[registry.entries[q].frame] = q /\ scopes[registry.entries[r].frame] = r
        BY <3>3 DEF RegistryInv, ScopesOK
      <4> QED
        BY <3>3, <4>1
    <3> QED
      BY <3>2, <3>3
  <2> QED
    BY <2>1, <2>2, <2>3 DEF OneNumberEach
<1> QED
  BY <1>1, Invariance, PTL

(***************************************************************************)
(* An id or a reference that the client was given since it was last        *)
(* stopped stands for the frame or the value that it was given for.        *)
(***************************************************************************)
THEOREM AnswersCorrect == Spec => []AnswersMatchView
<1>1. IInv => AnswersMatchView
  BY DEF IInv, ViewInv, Watched, FramesSeen, RefsSeen, FrameAt, LookupFrame, AnswersMatchView
<1> QED
  BY <1>1, Invariance, PTL

(***************************************************************************)
(* The source text that the client gets for a frame whose file is embedded *)
(* is the text of that file (SourceRegistry).                              *)
(***************************************************************************)
THEOREM SourceCorrect == Spec => []SourceExact
<1>1. IInv => SourceExact
  <2> SUFFICES ASSUME SourceInv PROVE SourceExact
    BY DEF IInv
  <2>1. \A m, n \in DOMAIN sources.keys : sources.keys[m] = sources.keys[n] => m = n
    BY DEF SourceInv, SourcesOK
  <2>2. ASSUME NEW path, path \in DOMAIN sources.embedded, ~IsFile(path), path \in ToSet(sources.keys)
        PROVE  ContentOf(sources, ReferenceOf(sources, path)) = sources.embedded[path]
    <3> DEFINE hits == {n \in DOMAIN sources.keys : sources.keys[n] = path}
    <3>1. CanonicalKey(sources, path) = path
      BY <2>2, CanonicalIs DEF SourceInv
    <3>2. ReferenceOf(sources, path) = IF IsFile(path) \/ hits = {} THEN 0 ELSE Max(hits)
      BY <3>1 DEF ReferenceOf
    <3>3. Len(sources.keys) \in Nat /\ DOMAIN sources.keys = 1..Len(sources.keys)
      BY SequenceIs DEF SourceInv, SourcesOK
    <3>4. hits \in SUBSET (1..Len(sources.keys)) /\ hits # {}
      BY <2>2, <3>3 DEF ToSet
    <3>5. Max(hits) \in hits
      <4> HIDE DEF hits
      <4> QED
        BY <3>3, <3>4, MaxOfSome
    <3>6. ReferenceOf(sources, path) = Max(hits)
      BY <2>2, <3>2, <3>4
    <3>7. Max(hits) \in DOMAIN sources.keys /\ sources.keys[Max(hits)] = path
      BY <3>5
    <3> HIDE DEF hits
    <3> QED
      BY <3>6, <3>7 DEF ContentOf
  <2>3. ASSUME NEW id \in DOMAIN seenFrames, seenFrames[id].path \in DOMAIN sources.embedded,
               ~IsFile(seenFrames[id].path)
        PROVE  ContentOf(sources, ReferenceOf(sources, seenFrames[id].path))
                 = sources.embedded[seenFrames[id].path]
    <3>1. seenFrames[id].path \in ToSet(sources.keys)
      BY <2>3 DEF SourceInv, Described
    <3> QED
      BY <2>2, <2>3, <3>1
  <2> QED
    BY <2>1, <2>3 DEF SourceExact
<1> QED
  BY <1>1, Invariance, PTL

(***************************************************************************)
(* ExceptionView: a client of the virtual thread, and the loops that tell  *)
(* of one chain of exceptions.  Each loop is brought into a closed form of *)
(* the walk along the links.                                               *)
(***************************************************************************)
LEMMA FiniteBound ==
  ASSUME NEW S \in SUBSET (Nat \ {0}), IsFiniteSet(S)
  PROVE  \E n \in Nat : S \in SUBSET (1..n)
<1> DEFINE U == {c \in Nat : \A R \in SUBSET (Nat \ {0}) :
                   IsFiniteSet(R) /\ Cardinality(R) = c => \E n \in Nat : R \in SUBSET (1..n)}
<1>1. 0 \in U
  <2>1. ASSUME NEW R, IsFiniteSet(R), Cardinality(R) = 0
        PROVE  R \in SUBSET (1..0)
    BY <2>1, FS_EmptySet
  <2> QED
    BY <2>1
<1>2. ASSUME NEW c \in Nat, c \in U
      PROVE  c + 1 \in U
  <2> SUFFICES ASSUME NEW R \in SUBSET (Nat \ {0}), IsFiniteSet(R), Cardinality(R) = c + 1
               PROVE  \E n \in Nat : R \in SUBSET (1..n)
    OBVIOUS
  <2>1. R # {}
    BY FS_EmptySet
  <2>2. PICK x \in R : TRUE
    BY <2>1
  <2>3. IsFiniteSet(R \ {x}) /\ Cardinality(R \ {x}) = c
    <3>1. IsFiniteSet(R \ {x}) /\ Cardinality(R \ {x}) = Cardinality(R) - 1
      BY <2>2, FS_RemoveElement
    <3> QED
      BY <3>1
  <2>4. PICK n \in Nat : R \ {x} \in SUBSET (1..n)
    BY <1>2, <2>3
  <2>5. x \in Nat /\ x >= 1
    BY <2>2
  <2>6. CASE x <= n
    <3>1. R \in SUBSET (1..n)
      BY <2>4, <2>5, <2>6
    <3> QED
      BY <3>1
  <2>7. CASE ~(x <= n)
    <3>1. \A y \in R : y = x \/ y \in 1..n
      BY <2>4
    <3>2. R \in SUBSET (1..x)
      BY <2>5, <2>7, <3>1
    <3> QED
      BY <2>5, <3>2
  <2> QED
    BY <2>6, <2>7
<1> HIDE DEF U
<1>3. Cardinality(S) \in U
  <2>1. Nat \subseteq U
    BY <1>1, <1>2, NatInd
  <2>2. Cardinality(S) \in Nat
    BY FS_CardinalityType
  <2> QED
    BY <2>1, <2>2
<1> QED
  BY <1>3 DEF U

LEMMA AscendingSeq ==
  ASSUME NEW S \in SUBSET (Nat \ {0}), IsFiniteSet(S)
  PROVE  Ascending(S) \in Seq(S)
<1>1. PICK b \in Nat : S \in SUBSET (1..b)
  BY FiniteBound
<1>2. PICK c \in Nat : /\ DOMAIN Ascending(S) = 1..c
                       /\ \A i \in 1..c : Ascending(S)[i] \in S
  BY <1>1, AscendingIs
<1> DEFINE e(n) == CHOOSE k \in S : Cardinality({j \in S : j <= k}) = n
<1>3. PICK m : Ascending(S) = [n \in 1..m |-> e(n)]
  BY DEF Ascending
<1> HIDE DEF e
<1>4. 1..m = 1..c
  BY <1>2, <1>3
<1>5. Ascending(S) = [n \in 1..c |-> e(n)]
  BY <1>3, <1>4
<1>6. \A n \in 1..c : e(n) \in S
  BY <1>2, <1>5
<1>7. [n \in 1..c |-> e(n)] \in Seq(S)
  BY <1>6
<1> QED
  BY <1>5, <1>7

LEMMA FlatSteps ==
  ASSUME NEW seqs, NEW N \in Nat, N = Len(seqs), N # 0
  PROVE  \E flat : /\ FlattenSeq(seqs) = flat[N]
                   /\ \A i \in 1..N : flat[i] = IF i = 1 THEN seqs[i] ELSE flat[i - 1] \o seqs[i]
<1> DEFINE flat == CHOOSE flat : flat = [i \in 1..N |->
                     IF i = 1 THEN seqs[i] ELSE flat[i - 1] \o seqs[i]]
<1>1. FlattenSeq(seqs) = flat[N]
  BY DEF FlattenSeq
<1>2. PICK f : IsFlat(f, N, seqs)
  BY FlatExists
<1>3. f = [i \in 1..N |-> IF i = 1 THEN seqs[i] ELSE f[i - 1] \o seqs[i]]
  BY <1>2 DEF IsFlat, FlatOf
<1>4. flat = [i \in 1..N |-> IF i = 1 THEN seqs[i] ELSE flat[i - 1] \o seqs[i]]
  BY <1>3
<1> HIDE DEF flat
<1>5. IsFlat(flat, N, seqs)
  BY <1>4 DEF IsFlat, FlatOf
<1>6. \A i \in 1..N : flat[i] = IF i = 1 THEN seqs[i] ELSE flat[i - 1] \o seqs[i]
  BY <1>5 DEF IsFlat, FlatOf
<1> QED
  BY <1>1, <1>6

\* What is made in the same steps is the same.
InStep(f, g, N) == f[0] = g[0] /\ \A k \in 1..N : f[k - 1] = g[k - 1] => f[k] = g[k]

LEMMA SameBySteps ==
  ASSUME NEW N \in Nat, NEW f, NEW g, InStep(f, g, N)
  PROVE  \A k \in 0..N : f[k] = g[k]
<1> DEFINE T == {k \in Nat : k <= N => f[k] = g[k]}
<1>1. 0 \in T
  BY DEF InStep
<1>2. ASSUME NEW k \in Nat, k \in T
      PROVE  k + 1 \in T
  <2> SUFFICES ASSUME k + 1 <= N PROVE f[k + 1] = g[k + 1]
    OBVIOUS
  <2>1. f[k] = g[k] /\ k + 1 \in 1..N /\ (k + 1) - 1 = k
    BY <1>2
  <2> QED
    BY <2>1 DEF InStep
<1> HIDE DEF T
<1>3. Nat \subseteq T
  BY <1>1, <1>2, NatInd
<1> QED
  BY <1>3 DEF T

\* As many numbers of a set are up to one of them as its place among them.
LEMMA SamePlace ==
  ASSUME NEW n \in Nat, NEW S \in SUBSET (1..n), NEW a \in S, NEW b \in S, a < b
  PROVE  Cardinality({j \in S : j <= a}) < Cardinality({j \in S : j <= b})
<1> DEFINE A == {j \in S : j <= a}
           B == {j \in S : j <= b}
<1>1. A \subseteq B \ {b} /\ B \in SUBSET (1..n) /\ b \in B
  <2>1. \A k \in S : k \in Int
    OBVIOUS
  <2>2. \A k \in A : k \in B \ {b}
    BY <2>1
  <2>3. \A k \in B : k \in 1..n
    OBVIOUS
  <2>4. b \in B
    BY <2>1
  <2> HIDE DEF A, B
  <2> QED
    BY <2>2, <2>3, <2>4
<1> HIDE DEF A, B
<1>2. IsFiniteSet(B) /\ Cardinality(B) \in Nat
  BY <1>1, PartIs
<1>3. IsFiniteSet(B \ {b}) /\ Cardinality(B \ {b}) = Cardinality(B) - 1
  BY <1>1, <1>2, FS_RemoveElement
<1>4. IsFiniteSet(A) /\ Cardinality(A) <= Cardinality(B \ {b})
  BY <1>1, <1>3, FS_Subset
<1>5. Cardinality(A) \in Nat
  BY <1>4, FS_CardinalityType
<1>6. Cardinality(A) < Cardinality(B)
  BY <1>2, <1>3, <1>4, <1>5
<1> QED
  BY <1>6 DEF A, B

\* The numbers of a set in ascending order: all of them, each once.
Ascends(a, c, S) ==
  /\ \A i \in 1..c : a[i] \in S
  /\ \A i, j \in 1..c : i < j => a[i] < a[j]
  /\ \A k \in S : \E i \in 1..c : a[i] = k

LEMMA AscendingOrder ==
  ASSUME NEW n \in Nat, NEW S \in SUBSET (1..n)
  PROVE  \E c \in Nat : /\ c = Cardinality(S) /\ c <= n /\ DOMAIN Ascending(S) = 1..c
                        /\ Ascends(Ascending(S), c, S)
<1> DEFINE at == Ascending(S)
           up(k) == Cardinality({j \in S : j <= k})
<1>1. PICK c \in Nat : c = Cardinality(S) /\ c <= n
  BY PartIs
<1>2. DOMAIN at = 1..c
  BY <1>1 DEF Ascending
<1>3. ASSUME NEW i \in 1..c
      PROVE  at[i] \in S /\ up(at[i]) = i
  <2>1. AllNth(S)
    BY NthExists
  <2>2. \E k \in S : up(k) = i
    BY <1>1, <2>1 DEF AllNth, HasNth
  <2>3. at[i] = CHOOSE k \in S : up(k) = i
    BY <1>1 DEF Ascending
  <2> QED
    BY <2>2, <2>3
<1>4. ASSUME NEW k \in S
      PROVE  up(k) \in 1..c
  <2>1. {k} \subseteq {j \in S : j <= k} /\ {j \in S : j <= k} \subseteq S
    OBVIOUS
  <2>2. IsFiniteSet(S)
    BY PartIs
  <2>3. IsFiniteSet({j \in S : j <= k}) /\ up(k) <= Cardinality(S)
    BY <2>1, <2>2, FS_Subset
  <2>4. up(k) \in Nat
    BY <2>3, FS_CardinalityType
  <2>5. Cardinality({k}) <= up(k)
    BY <2>1, <2>3, FS_Subset
  <2>6. Cardinality({k}) = 1
    BY FS_Singleton
  <2> HIDE DEF up
  <2> QED
    BY <1>1, <2>3, <2>4, <2>5, <2>6
<1>5. ASSUME NEW a \in S, NEW b \in S, a < b
      PROVE  up(a) < up(b)
  BY <1>5, SamePlace
<1> HIDE DEF at, up
<1>6. ASSUME NEW i \in 1..c, NEW j \in 1..c, i < j
      PROVE  at[i] < at[j]
  <2>1. at[i] \in S /\ at[j] \in S /\ up(at[i]) = i /\ up(at[j]) = j
    BY <1>3
  <2>2. at[i] # at[j] /\ ~(at[j] < at[i])
    <3>1. at[j] < at[i] => j < i
      BY <1>5, <2>1
    <3> QED
      BY <1>6, <2>1, <3>1
  <2>3. \A k \in S : k \in Int
    OBVIOUS
  <2>4. at[i] \in Int /\ at[j] \in Int
    BY <2>1, <2>3
  <2> QED
    BY <2>2, <2>4
<1>7. ASSUME NEW k \in S
      PROVE  \E i \in 1..c : at[i] = k
  <2>1. PICK i \in 1..c : i = up(k)
    BY <1>4
  <2>2. at[i] \in S /\ up(at[i]) = i
    BY <1>3
  <2>3. ~(at[i] < k) /\ ~(k < at[i])
    <3>1. at[i] < k => i < i
      BY <1>5, <2>1, <2>2
    <3>2. k < at[i] => i < i
      BY <1>5, <2>1, <2>2
    <3> QED
      BY <3>1, <3>2
  <2>4. \A l \in S : l \in Int
    OBVIOUS
  <2>5. at[i] \in Int /\ k \in Int
    BY <2>2, <2>4
  <2> QED
    BY <2>3, <2>5
<1> QED
  BY <1>1, <1>2, <1>3, <1>6, <1>7 DEF at, Ascends

\* There is one such order.
LEMMA AscendingOnly ==
  ASSUME NEW S, \E n \in Nat : S \in SUBSET (1..n), NEW m \in Nat, NEW a, Ascends(a, m, S)
  PROVE  DOMAIN Ascending(S) = 1..m /\ \A i \in 1..m : Ascending(S)[i] = a[i]
<1> DEFINE at == Ascending(S)
<1>0. PICK c \in Nat : DOMAIN at = 1..c /\ Ascends(at, c, S)
  BY AscendingOrder
<1>1. /\ DOMAIN at = 1..c
      /\ \A i \in 1..c : at[i] \in S
      /\ \A i, j \in 1..c : i < j => at[i] < at[j]
      /\ \A k \in S : \E i \in 1..c : at[i] = k
  BY <1>0 DEF Ascends
<1>a. /\ \A i \in 1..m : a[i] \in S
      /\ \A i, j \in 1..m : i < j => a[i] < a[j]
      /\ \A k \in S : \E i \in 1..m : a[i] = k
  BY DEF Ascends
<1> HIDE DEF at
<1>2. \A k \in S : k \in Int
  OBVIOUS
<1> DEFINE T == {k \in Nat : \A i \in 1..k : i <= c /\ i <= m => at[i] = a[i]}
<1>3. 0 \in T
  OBVIOUS
<1>4. ASSUME NEW k \in Nat, k \in T
      PROVE  k + 1 \in T
  <2>1. ASSUME k + 1 <= c, k + 1 <= m
        PROVE  at[k + 1] = a[k + 1]
    <3>3. k + 1 \in 1..c /\ k + 1 \in 1..m
      BY <2>1
    <3>0. a[k + 1] \in S /\ at[k + 1] \in S
      BY <1>1, <1>a, <3>3
    <3>1. PICK i \in 1..c : at[i] = a[k + 1]
      BY <1>1, <3>0
    <3>2. PICK j \in 1..m : a[j] = at[k + 1]
      BY <1>a, <3>0
    <3>4. \A l \in 1..k : l \in 1..c /\ l \in 1..m /\ at[l] = a[l] /\ l < k + 1
      BY <1>4, <2>1
    <3>5. i \in 1..k => FALSE
      <4> SUFFICES ASSUME i \in 1..k PROVE FALSE
        OBVIOUS
      <4>1. a[i] = a[k + 1] /\ i \in 1..m /\ i < k + 1
        BY <3>1, <3>4
      <4>2. a[i] < a[k + 1] /\ a[k + 1] \in Int
        BY <1>2, <1>a, <3>3, <4>1
      <4> QED
        BY <4>1, <4>2
    <3>6. j \in 1..k => FALSE
      <4> SUFFICES ASSUME j \in 1..k PROVE FALSE
        OBVIOUS
      <4>1. at[j] = at[k + 1] /\ j \in 1..c /\ j < k + 1
        BY <3>2, <3>4
      <4>2. at[j] < at[k + 1] /\ at[k + 1] \in Int
        BY <1>1, <1>2, <3>3, <4>1
      <4> QED
        BY <4>1, <4>2
    <3>7. i >= k + 1 /\ j >= k + 1
      BY <3>5, <3>6
    <3>8. at[k + 1] <= a[k + 1]
      <4>1. at[k + 1] \in Int /\ at[i] \in Int
        BY <1>1, <1>2, <3>3
      <4>2. i = k + 1 \/ k + 1 < i
        BY <3>7
      <4>3. k + 1 < i => at[k + 1] < at[i]
        BY <1>1, <1>a, <3>3
      <4> QED
        BY <3>1, <4>1, <4>2, <4>3
    <3>9. a[k + 1] <= at[k + 1]
      <4>1. a[k + 1] \in Int /\ a[j] \in Int
        BY <1>2, <1>a, <3>3
      <4>2. j = k + 1 \/ k + 1 < j
        BY <3>7
      <4>3. k + 1 < j => a[k + 1] < a[j]
        BY <1>a, <3>3
      <4> QED
        BY <3>2, <4>1, <4>2, <4>3
    <3>10. at[k + 1] \in Int /\ a[k + 1] \in Int
      BY <1>1, <1>2, <1>a, <3>3
    <3> QED
      BY <3>8, <3>9, <3>10
  <2>2. \A i \in 1..(k + 1) : i \in 1..k \/ i = k + 1
    OBVIOUS
  <2> QED
    BY <1>4, <2>1, <2>2
<1>5. \A i \in Nat : i \in T
  <2> HIDE DEF T
  <2>1. Nat \subseteq T
    BY <1>3, <1>4, NatInd
  <2> QED
    BY <2>1
<1>6. \A i \in Nat : i >= 1 /\ i <= c /\ i <= m => at[i] = a[i]
  <2> SUFFICES ASSUME NEW i \in Nat, i >= 1, i <= c, i <= m PROVE at[i] = a[i]
    OBVIOUS
  <2>1. i \in T /\ i \in 1..i
    BY <1>5
  <2> QED
    BY <2>1
<1> HIDE DEF T
<1>7. ~(c < m)
  <2> SUFFICES ASSUME c < m PROVE FALSE
    OBVIOUS
  <2>1. c + 1 \in 1..m /\ a[c + 1] \in S
    BY <1>a
  <2>2. PICK i \in 1..c : at[i] = a[c + 1]
    BY <1>1, <2>1
  <2>3. i \in 1..m /\ i < c + 1 /\ a[i] = a[c + 1]
    BY <1>6, <2>2
  <2>4. a[i] < a[c + 1] /\ a[c + 1] \in Int
    BY <1>2, <1>a, <2>1, <2>3
  <2> QED
    BY <2>3, <2>4
<1>8. ~(m < c)
  <2> SUFFICES ASSUME m < c PROVE FALSE
    OBVIOUS
  <2>0. m + 1 \in 1..c
    OBVIOUS
  <2>1. m + 1 \in 1..c /\ at[m + 1] \in S
    BY <1>1, <2>0
  <2>2. PICK i \in 1..m : a[i] = at[m + 1]
    BY <1>a, <2>1
  <2>3. i \in 1..c /\ i < m + 1 /\ at[i] = at[m + 1]
    BY <1>6, <2>2
  <2>4. at[i] < at[m + 1] /\ at[m + 1] \in Int
    BY <1>1, <1>2, <2>1, <2>3
  <2> QED
    BY <2>3, <2>4
<1>9. c = m
  BY <1>7, <1>8
<1> QED
  BY <1>1, <1>6, <1>9 DEF at

(***************************************************************************)
(* The steps of a walk.                                                    *)
(***************************************************************************)
\* A walk has been somewhere, and nowhere twice.
IsWay(snap, root, c) ==
  /\ c \in Seq(DOMAIN snap) /\ Len(c) >= 1 /\ c[1] = root
  /\ \A i, j \in 1..Len(c) : c[i] = c[j] => i = j

\* It goes where the last exception leads to, and stops before it comes back.
Stops(snap, c) == Follow(snap, Last(c)) \in ToSet(c) \cup {None}
Goes(snap, c, d) ==
  LET next == Follow(snap, Last(c))
  IN  /\ d = Append(c, next) /\ Len(d) = Len(c) + 1 /\ d # c
      /\ Last(d) = next /\ ToSet(d) = ToSet(c) \cup {next}
      /\ \A i \in 1..Len(c) : d[i] = c[i]

LEMMA StepIs ==
  ASSUME NEW snap, NEW root, NEW c, IsWay(snap, root, c)
  PROVE  /\ IsWay(snap, root, WalkStep(snap, c))
         /\ Stops(snap, c) => WalkStep(snap, c) = c
         /\ ~Stops(snap, c) => Goes(snap, c, WalkStep(snap, c))
<1>1. c \in Seq(DOMAIN snap) /\ Len(c) \in Nat /\ Len(c) >= 1 /\ c[1] = root
  BY DEF IsWay
<1>2. PICK next : next = Follow(snap, Last(c))
  OBVIOUS
<1>3. WalkStep(snap, c) = IF Stops(snap, c) THEN c ELSE Append(c, next)
  BY <1>2 DEF WalkStep, Stops
<1>4. CASE Stops(snap, c)
  BY <1>3, <1>4
<1>5. CASE ~Stops(snap, c)
  <2>1. next # None /\ next \notin ToSet(c)
    BY <1>2, <1>5 DEF Stops
  <2>2. next \in DOMAIN snap
    BY <1>2, <2>1, FollowIs
  <2>3. PICK d : d = Append(c, next)
    OBVIOUS
  <2>4. /\ d \in Seq(DOMAIN snap) /\ Len(d) = Len(c) + 1 /\ d[Len(c) + 1] = next
        /\ \A i \in 1..Len(c) : d[i] = c[i]
    BY <1>1, <2>2, <2>3
  <2>5. Last(d) = next
    BY <1>1, <2>4 DEF Last
  <2>6. \A i \in 1..Len(c) : c[i] \in ToSet(c)
    BY <1>1 DEF ToSet
  <2>7. ToSet(d) = ToSet(c) \cup {next}
    <3>1. DOMAIN d = 1..(Len(c) + 1) /\ DOMAIN c = 1..Len(c)
      BY <1>1, <2>4
    <3>2. \A i \in 1..(Len(c) + 1) : i \in 1..Len(c) \/ i = Len(c) + 1
      BY <1>1
    <3>3. Len(c) + 1 \in 1..(Len(c) + 1) /\ \A i \in 1..Len(c) : i \in 1..(Len(c) + 1)
      BY <1>1
    <3>4. ASSUME NEW x PROVE x \in ToSet(d) <=> x \in ToSet(c) \cup {next}
      <4>1. x \in ToSet(d) <=> \E i \in 1..(Len(c) + 1) : d[i] = x
        BY <3>1 DEF ToSet
      <4>2. x \in ToSet(c) <=> \E i \in 1..Len(c) : c[i] = x
        BY <3>1 DEF ToSet
      <4> QED
        BY <2>4, <3>2, <3>3, <4>1, <4>2
    <3> QED
      BY <3>4
  <2>8. \A i, j \in 1..Len(d) : d[i] = d[j] => i = j
    <3>1. \A i \in 1..Len(d) : i \in 1..Len(c) \/ i = Len(c) + 1
      BY <1>1, <2>4
    <3>2. \A i \in 1..Len(c) : d[i] # next
      BY <2>1, <2>4, <2>6
    <3>3. \A i, j \in 1..Len(c) : c[i] = c[j] => i = j
      BY DEF IsWay
    <3> QED
      BY <2>4, <3>1, <3>2, <3>3
  <2>9. d[1] = root
    BY <1>1, <2>4
  <2>10. IsWay(snap, root, d)
    BY <1>1, <2>4, <2>8, <2>9 DEF IsWay
  <2>11. d # c
    BY <1>1, <2>4
  <2> QED
    BY <1>2, <1>3, <1>5, <2>3, <2>4, <2>5, <2>7, <2>10, <2>11 DEF Goes
<1> QED
  BY <1>4, <1>5

\* A walk, with how it came about.
Walks(w, n, snap, root) ==
  /\ root \in DOMAIN snap /\ w[0] = <<root>>
  /\ \A k \in 1..n : w[k] = WalkStep(snap, w[k - 1])

LEMMA WalkUnfolds ==
  ASSUME NEW snap, NEW root \in DOMAIN snap, NEW n \in Nat
  PROVE  \E w : WalkUpTo(snap, root, n) = w[n] /\ Walks(w, n, snap, root)
<1> DEFINE w == CHOOSE w : w = [k \in 0..n |->
                  IF k = 0 THEN <<root>>
                  ELSE LET next == Follow(snap, Last(w[k - 1]))
                       IN  IF next = None \/ next \in ToSet(w[k - 1]) THEN w[k - 1]
                           ELSE Append(w[k - 1], next)]
<1>1. WalkUpTo(snap, root, n) = w[n]
  BY DEF WalkUpTo
<1>2. PICK f : IsWalk(f, n, snap, root)
  BY WalkExists
<1>3. f = [k \in 0..n |->
             IF k = 0 THEN <<root>>
             ELSE LET next == Follow(snap, Last(f[k - 1]))
                  IN  IF next = None \/ next \in ToSet(f[k - 1]) THEN f[k - 1]
                      ELSE Append(f[k - 1], next)]
  BY <1>2 DEF IsWalk, WalkOf, WalkStep
<1>4. w = [k \in 0..n |->
             IF k = 0 THEN <<root>>
             ELSE LET next == Follow(snap, Last(w[k - 1]))
                  IN  IF next = None \/ next \in ToSet(w[k - 1]) THEN w[k - 1]
                      ELSE Append(w[k - 1], next)]
  BY <1>3
<1> HIDE DEF w
<1>5. IsWalk(w, n, snap, root)
  BY <1>4 DEF IsWalk, WalkOf, WalkStep
<1>6. \A k \in 0..n : w[k] = IF k = 0 THEN <<root>> ELSE WalkStep(snap, w[k - 1])
  BY <1>5 DEF IsWalk, WalkOf
<1>7. w[0] = <<root>> /\ \A k \in 1..n : w[k] = WalkStep(snap, w[k - 1])
  BY <1>6
<1> QED
  BY <1>1, <1>7 DEF Walks

\* It has been to one more exception after each step, until it stops.
LEMMA WalksIs ==
  ASSUME NEW snap, NEW root, NEW n \in Nat, NEW w, Walks(w, n, snap, root)
  PROVE  \A k \in 0..n : /\ IsWay(snap, root, w[k]) /\ Len(w[k]) <= k + 1
                         /\ Len(w[k]) = k + 1 \/ Stops(snap, w[k])
<1> DEFINE Good(k) == /\ IsWay(snap, root, w[k]) /\ Len(w[k]) <= k + 1
                      /\ Len(w[k]) = k + 1 \/ Stops(snap, w[k])
           T == {k \in Nat : k <= n => Good(k)}
<1>1. 0 \in T
  <2>1. w[0] = <<root>> /\ root \in DOMAIN snap
    BY DEF Walks
  <2>2. IsWay(snap, root, w[0]) /\ Len(w[0]) = 1
    BY <2>1 DEF IsWay
  <2>3. Good(0)
    BY <2>2
  <2> HIDE DEF Good
  <2> QED
    BY <2>3
<1>2. ASSUME NEW k \in Nat, k \in T
      PROVE  k + 1 \in T
  <2> SUFFICES ASSUME k + 1 <= n PROVE Good(k + 1)
    OBVIOUS
  <2>1. Good(k) /\ k + 1 \in 1..n /\ (k + 1) - 1 = k
    BY <1>2
  <2>2. PICK c, d : c = w[k] /\ d = w[k + 1]
    OBVIOUS
  <2>3. d = WalkStep(snap, c)
    BY <2>1, <2>2 DEF Walks
  <2>4. IsWay(snap, root, c) /\ Len(c) \in Nat
    BY <2>1, <2>2 DEF IsWay
  <2>5. IsWay(snap, root, d) /\ (Stops(snap, c) => d = c) /\ (~Stops(snap, c) => Len(d) = Len(c) + 1)
    BY <2>3, <2>4, StepIs DEF Goes
  <2>6. Len(c) <= k + 1 /\ (Len(c) = k + 1 \/ Stops(snap, c))
    BY <2>1, <2>2
  <2>7. Len(d) <= (k + 1) + 1 /\ (Len(d) = (k + 1) + 1 \/ Stops(snap, d))
    BY <2>4, <2>5, <2>6
  <2> HIDE DEF T
  <2> QED
    BY <2>2, <2>5, <2>7
<1>3. Nat \subseteq T
  <2> HIDE DEF T
  <2> QED
    BY <1>1, <1>2, NatInd
<1> HIDE DEF Good
<1>4. \A k \in 0..n : Good(k)
  BY <1>3
<1> QED
  BY <1>4 DEF Good

\* What stops stays where it is; what does not has been to one more.
LEMMA WalksOn ==
  ASSUME NEW snap, NEW root, NEW n \in Nat, NEW w, Walks(w, n, snap, root), NEW k \in 1..n
  PROVE  /\ Stops(snap, w[k - 1]) => w[k] = w[k - 1]
         /\ ~Stops(snap, w[k - 1]) => Goes(snap, w[k - 1], w[k]) /\ Len(w[k - 1]) = k
<1>1. k - 1 \in 0..n /\ w[k] = WalkStep(snap, w[k - 1])
  BY DEF Walks
<1>2. IsWay(snap, root, w[k - 1]) /\ (Len(w[k - 1]) = (k - 1) + 1 \/ Stops(snap, w[k - 1]))
  BY <1>1, WalksIs
<1> QED
  BY <1>1, <1>2, StepIs

\* Two walks from the same exception are the same as far as both go.
LEMMA WalksAgree ==
  ASSUME NEW snap, NEW root, NEW n \in Nat, NEW m \in Nat, n <= m, NEW w, NEW v,
         Walks(w, n, snap, root), Walks(v, m, snap, root)
  PROVE  w[n] = v[n]
<1>1. w[0] = v[0]
  BY DEF Walks
<1>2. ASSUME NEW k \in 1..n, w[k - 1] = v[k - 1]
      PROVE  w[k] = v[k]
  <2>1. k \in 1..m
    OBVIOUS
  <2> QED
    BY <1>2, <2>1 DEF Walks
<1>3. \A k \in 0..n : w[k] = v[k]
  <2>1. \A k \in 1..n : w[k - 1] = v[k - 1] => w[k] = v[k]
    BY <1>2
  <2>2. InStep(w, v, n)
    BY <1>1, <2>1 DEF InStep
  <2> QED
    BY <2>2, SameBySteps
<1> QED
  BY <1>3

\* A walk begins as a shorter one, which it is if that stops.
LEMMA WalksBegin ==
  ASSUME NEW snap, NEW root, NEW n \in Nat, NEW m \in Nat, n <= m, NEW w, Walks(w, m, snap, root)
  PROVE  /\ Stops(snap, w[n]) => w[m] = w[n]
         /\ Len(w[n]) <= Len(w[m]) /\ \A i \in 1..Len(w[n]) : w[m][i] = w[n][i]
<1> DEFINE Good(k) == /\ Stops(snap, w[n]) => w[k] = w[n]
                      /\ Len(w[n]) <= Len(w[k]) /\ \A i \in 1..Len(w[n]) : w[k][i] = w[n][i]
           T == {k \in Nat : n <= k /\ k <= m => Good(k)}
<1>0. \A k \in 0..m : Len(w[k]) \in Nat
  <2>1. \A k \in 0..m : IsWay(snap, root, w[k])
    BY WalksIs
  <2> QED
    BY <2>1 DEF IsWay
<1>1. Good(n)
  <2>1. Len(w[n]) \in Nat
    BY <1>0
  <2> QED
    BY <2>1
<1>2. ASSUME NEW k \in 0..m, n <= k, k + 1 <= m, Good(k)
      PROVE  Good(k + 1)
  <2>1. k + 1 \in 1..m /\ (k + 1) - 1 = k /\ k \in 0..m /\ k + 1 \in 0..m
    BY <1>2
  <2>2. /\ Stops(snap, w[k]) => w[k + 1] = w[k]
        /\ ~Stops(snap, w[k]) => Goes(snap, w[k], w[k + 1])
    BY <2>1, WalksOn
  <2>3. CASE Stops(snap, w[k])
    <3>1. w[k + 1] = w[k]
      BY <2>2, <2>3
    <3> QED
      BY <1>2, <3>1
  <2>4. CASE ~Stops(snap, w[k])
    <3>1. ~Stops(snap, w[n])
      BY <1>2, <2>4
    <3>2. Len(w[k + 1]) = Len(w[k]) + 1 /\ \A i \in 1..Len(w[k]) : w[k + 1][i] = w[k][i]
      BY <2>2, <2>4 DEF Goes
    <3>3. Len(w[n]) \in Nat /\ Len(w[k]) \in Nat
      BY <1>0, <2>1
    <3>4. Len(w[n]) <= Len(w[k]) /\ \A i \in 1..Len(w[n]) : w[k][i] = w[n][i]
      BY <1>2
    <3> QED
      BY <3>1, <3>2, <3>3, <3>4
  <2> QED
    BY <2>3, <2>4
<1> HIDE DEF Good
<1>3. 0 \in T
  BY <1>1
<1>4. ASSUME NEW k \in Nat, k \in T
      PROVE  k + 1 \in T
  <2>1. n <= k + 1 /\ k + 1 <= m => Good(k + 1)
    <3>1. CASE n = k + 1
      BY <1>1, <3>1
    <3>2. CASE n <= k /\ k + 1 <= m
      <4>1. k \in 0..m /\ Good(k)
        BY <1>4, <3>2
      <4> QED
        BY <1>2, <3>2, <4>1
    <3> QED
      BY <3>1, <3>2
  <2> QED
    BY <2>1
<1>5. Nat \subseteq T
  <2> HIDE DEF T
  <2> QED
    BY <1>3, <1>4, NatInd
<1>6. Good(m)
  BY <1>5
<1> QED
  BY <1>6 DEF Good

\* A walk has stopped when it has been everywhere.
LEMMA WalksEnd ==
  ASSUME NEW snap, IsFiniteSet(DOMAIN snap), NEW root, NEW w,
         Walks(w, Cardinality(DOMAIN snap), snap, root)
  PROVE  Stops(snap, w[Cardinality(DOMAIN snap)])
<1> DEFINE D == DOMAIN snap
           n == Cardinality(DOMAIN snap)
<1>1. n \in Nat
  BY FS_CardinalityType
<1> HIDE DEF n
<1>2. PICK c : c = w[n]
  OBVIOUS
<1>3. IsWay(snap, root, c) /\ (Len(c) = n + 1 \/ Stops(snap, c))
  <2>1. n \in 0..n /\ Walks(w, n, snap, root)
    BY <1>1 DEF n
  <2> QED
    BY <1>1, <1>2, <2>1, WalksIs
<1>4. Len(c) <= n
  <2>1. c \in Seq(D) /\ Len(c) \in Nat /\ \A i, j \in 1..Len(c) : c[i] = c[j] => i = j
    BY <1>3 DEF IsWay
  <2>2. c \in [1..Len(c) -> D]
    BY <2>1
  <2>3. c \in Injection(1..Len(c), D)
    BY <2>1, <2>2 DEF Injection, IsInjective
  <2>4. Cardinality(1..Len(c)) <= Cardinality(D)
    BY <2>3, FS_Injection
  <2>5. Cardinality(1..Len(c)) = Len(c)
    <3>1. PICK l \in Nat : l = Len(c)
      BY <2>1
    <3>2. Cardinality(1..l) = l
      <4>1. Cardinality(1..l) = IF 1 > l THEN 0 ELSE l - 1 + 1
        BY FS_Interval
      <4> QED
        BY <4>1
    <3> QED
      BY <3>1, <3>2
  <2> QED
    BY <2>4, <2>5 DEF n
<1>5. Len(c) \in Nat
  BY <1>3 DEF IsWay
<1> QED
  BY <1>1, <1>2, <1>3, <1>4, <1>5 DEF n

\* Both numbers of steps lead to the same walk, if the first is enough.
LEMMA SameWalk ==
  ASSUME NEW snap, IsFiniteSet(DOMAIN snap), NEW root \in DOMAIN snap, NEW n \in Nat
  PROVE  /\ IsPrefix(WalkUpTo(snap, root, n), ViewerWalk(snap, root))
         /\ Len(WalkUpTo(snap, root, n)) <= n => WalkUpTo(snap, root, n) = ViewerWalk(snap, root)
<1>1. PICK m \in Nat : m = Cardinality(DOMAIN snap)
  BY FS_CardinalityType
<1>2. PICK w : WalkUpTo(snap, root, n) = w[n] /\ Walks(w, n, snap, root)
  BY WalkUnfolds
<1>3. PICK v : ViewerWalk(snap, root) = v[m] /\ Walks(v, m, snap, root)
  BY <1>1, WalkUnfolds DEF ViewerWalk
<1>4. Stops(snap, v[m])
  BY <1>1, <1>3, WalksEnd
<1>5. IsWay(snap, root, w[n]) /\ (Len(w[n]) = n + 1 \/ Stops(snap, w[n]))
  <2>1. n \in 0..n
    OBVIOUS
  <2> QED
    BY <1>2, <2>1, WalksIs
<1>6. w[n] \in Seq(DOMAIN snap) /\ Len(w[n]) \in Nat
  BY <1>5 DEF IsWay
<1>7. CASE n <= m
  <2>1. w[n] = v[n]
    BY <1>2, <1>3, <1>7, WalksAgree
  <2>2. /\ Stops(snap, v[n]) => v[m] = v[n]
        /\ Len(v[n]) <= Len(v[m]) /\ \A i \in 1..Len(v[n]) : v[m][i] = v[n][i]
    BY <1>3, <1>7, WalksBegin
  <2>3. v[m] \in Seq(DOMAIN snap)
    <3>1. m \in 0..m
      OBVIOUS
    <3>2. IsWay(snap, root, v[m])
      BY <1>3, <3>1, WalksIs
    <3> QED
      BY <3>2 DEF IsWay
  <2>4. IsPrefix(w[n], v[m])
    <3>1. PICK l \in Nat : l = Len(w[n]) /\ l <= Len(v[m])
      BY <1>6, <2>1, <2>2
    <3>2. SubSeq(w[n], 1, l) = [i \in 1..l |-> w[n][i]]
      BY <1>6, <3>1
    <3>3. SubSeq(v[m], 1, l) = [i \in 1..l |-> v[m][i]]
      BY <2>3, <3>1
    <3>4. \A i \in 1..l : v[m][i] = w[n][i]
      BY <2>1, <2>2, <3>1
    <3> QED
      BY <3>1, <3>2, <3>3, <3>4 DEF IsPrefix
  <2>5. Len(w[n]) <= n => w[n] = v[m]
    BY <1>5, <1>6, <2>1, <2>2
  <2> QED
    BY <1>2, <1>3, <2>4, <2>5
<1>8. CASE m <= n
  <2>1. v[m] = w[m]
    BY <1>2, <1>3, <1>8, WalksAgree
  <2>2. w[n] = w[m]
    <3>1. Stops(snap, w[m])
      BY <1>4, <2>1
    <3>2. Walks(w, n, snap, root)
      BY <1>2
    <3>3. Stops(snap, w[m]) => w[n] = w[m]
      BY <1>1, <1>8, <3>2, WalksBegin, SMTT(30)
    <3> QED
      BY <3>1, <3>3
  <2>3. IsPrefix(w[n], w[n])
    BY <1>6 DEF IsPrefix
  <2> QED
    BY <1>2, <1>3, <2>1, <2>2, <2>3
<1> QED
  BY <1>7, <1>8

(***************************************************************************)
(* The loops of the renderers follow the walk.                             *)
(***************************************************************************)
BeginsAt(w, root) == w[0] = <<root>> /\ Last(w[0]) = root /\ ToSet(w[0]) = {root} /\ Len(w[0]) = 1

LEMMA FirstStep ==
  ASSUME NEW snap, NEW root, NEW n, NEW w, Walks(w, n, snap, root)
  PROVE  BeginsAt(w, root)
<1>1. w[0] = <<root>> /\ Len(<<root>>) = 1 /\ <<root>>[1] = root /\ DOMAIN <<root>> = {1}
  BY DEF Walks
<1>2. Last(w[0]) = root
  BY <1>1 DEF Last
<1>3. ToSet(w[0]) = {root}
  BY <1>1 DEF ToSet
<1> QED
  BY <1>1, <1>2, <1>3 DEF BeginsAt

\* _pick_exception_chain_innermost
InnerStep(snap, x) ==
  LET next == Follow(snap, x.current)
  IN  IF next \in x.seen \cup {None} THEN x
      ELSE [current |-> next, seen |-> x.seen \cup {next}]

LEMMA InnermostIs ==
  ASSUME NEW snap, NEW root \in DOMAIN snap
  PROVE  Innermost(snap, root) = Last(Walk(snap, root))
<1> DEFINE first == [current |-> root, seen |-> {root}]
           at == CHOOSE at : at = [n \in 0..MaxDepth |->
                   IF n = 0 THEN [current |-> root, seen |-> {root}]
                   ELSE LET next == Follow(snap, at[n - 1].current)
                        IN  IF next \in at[n - 1].seen \cup {None} THEN at[n - 1]
                            ELSE [current |-> next, seen |-> at[n - 1].seen \cup {next}]]
<1>1. Innermost(snap, root) = at[MaxDepth].current
  BY DEF Innermost
<1>2. PICK w : Walk(snap, root) = w[MaxDepth] /\ Walks(w, MaxDepth, snap, root)
  BY DepthAssumption, WalkUnfolds DEF Walk
<1>3. PICK g : g = [k \in 0..MaxDepth |-> [current |-> Last(w[k]), seen |-> ToSet(w[k])]]
  OBVIOUS
<1>4. g[0] = first
  <2>1. Last(w[0]) = root /\ ToSet(w[0]) = {root}
    <3>1. Walks(w, MaxDepth, snap, root)
      BY <1>2
    <3>2. BeginsAt(w, root)
      BY <3>1, FirstStep
    <3> QED
      BY <3>2 DEF BeginsAt
  <2>2. 0 \in 0..MaxDepth
    BY DepthAssumption
  <2> QED
    BY <1>3, <2>1, <2>2
<1>5. ASSUME NEW k \in 1..MaxDepth
      PROVE  g[k] = InnerStep(snap, g[k - 1])
  <2>1. k \in 0..MaxDepth /\ k - 1 \in 0..MaxDepth
    BY DepthAssumption
  <2>2. /\ Stops(snap, w[k - 1]) => w[k] = w[k - 1]
        /\ ~Stops(snap, w[k - 1]) => Goes(snap, w[k - 1], w[k])
    BY <1>2, DepthAssumption, WalksOn
  <2>3. /\ g[k] = [current |-> Last(w[k]), seen |-> ToSet(w[k])]
        /\ g[k - 1] = [current |-> Last(w[k - 1]), seen |-> ToSet(w[k - 1])]
    BY <1>3, <2>1
  <2>4. PICK c, d : c = w[k - 1] /\ d = w[k]
    OBVIOUS
  <2>5. PICK next : next = Follow(snap, Last(c))
    OBVIOUS
  <2>6. CASE next \in ToSet(c) \cup {None}
    <3>1. d = c
      BY <2>2, <2>4, <2>5, <2>6 DEF Stops
    <3> QED
      BY <2>3, <2>4, <2>5, <2>6, <3>1 DEF InnerStep
  <2>7. CASE next \notin ToSet(c) \cup {None}
    <3>1. Last(d) = next /\ ToSet(d) = ToSet(c) \cup {next}
      BY <2>2, <2>4, <2>5, <2>7 DEF Stops, Goes
    <3> QED
      BY <2>3, <2>4, <2>5, <2>7, <3>1 DEF InnerStep
  <2> QED
    BY <2>6, <2>7
<1>6. g = [n \in 0..MaxDepth |-> IF n = 0 THEN first ELSE InnerStep(snap, g[n - 1])]
  <2>1. \A n \in 0..MaxDepth : n = 0 \/ n \in 1..MaxDepth
    BY DepthAssumption
  <2>2. \A n \in 0..MaxDepth : g[n] = IF n = 0 THEN first ELSE InnerStep(snap, g[n - 1])
    BY <1>4, <1>5, <2>1
  <2>3. g = [n \in 0..MaxDepth |-> g[n]]
    BY <1>3
  <2> QED
    BY <2>2, <2>3
<1>7. at = [n \in 0..MaxDepth |-> IF n = 0 THEN first ELSE InnerStep(snap, at[n - 1])]
  BY <1>6 DEF InnerStep
<1> HIDE DEF at, first
<1>8. InStep(at, g, MaxDepth)
  <2>1. 0 \in 0..MaxDepth /\ \A k \in 1..MaxDepth : k \in 0..MaxDepth /\ k # 0
    BY DepthAssumption
  <2>2. \A n \in 0..MaxDepth : at[n] = IF n = 0 THEN first ELSE InnerStep(snap, at[n - 1])
    BY <1>7
  <2> QED
    BY <1>4, <1>5, <2>1, <2>2 DEF InStep
<1>9. at[MaxDepth] = g[MaxDepth] /\ MaxDepth \in 0..MaxDepth
  BY <1>8, DepthAssumption, SameBySteps
<1>10. g[MaxDepth].current = Last(w[MaxDepth])
  BY <1>3, <1>9
<1> QED
  BY <1>1, <1>2, <1>9, <1>10

\* _build_exception_details
DetailStep(snap, x) ==
  LET next == Follow(snap, Last(x.nodes))
  IN  IF x.open /\ next \notin ToSet(x.nodes) \cup {None}
      THEN [nodes |-> Append(x.nodes, next), open |-> TRUE]
      ELSE [x EXCEPT !.open = FALSE]

LEMMA Closes ==
  ASSUME NEW x, NEW c, NEW b, x = [nodes |-> c, open |-> b]
  PROVE  [x EXCEPT !.open = FALSE] = [nodes |-> c, open |-> FALSE]
<1>1. PICK o : o = FALSE
  OBVIOUS
<1>2. [x EXCEPT !.open = o] = [nodes |-> c, open |-> o]
  OBVIOUS
<1> QED
  BY <1>1, <1>2

LEMMA DetailsAre ==
  ASSUME NEW snap, NEW root \in DOMAIN snap
  PROVE  Details(snap, root) = Walk(snap, root)
<1> DEFINE first == [nodes |-> <<root>>, open |-> TRUE]
           at == CHOOSE at : at = [depth \in 0..MaxDepth |->
                   IF depth = 0 THEN [nodes |-> <<root>>, open |-> TRUE]
                   ELSE LET before == at[depth - 1]
                            next == Follow(snap, Last(before.nodes))
                        IN  IF before.open /\ next \notin ToSet(before.nodes) \cup {None}
                            THEN [nodes |-> Append(before.nodes, next), open |-> TRUE]
                            ELSE [before EXCEPT !.open = FALSE]]
<1>0. MaxDepth \in Nat
  BY DepthAssumption
<1>1. Details(snap, root) = at[MaxDepth].nodes
  BY DEF Details
<1>2. PICK w : Walk(snap, root) = w[MaxDepth] /\ Walks(w, MaxDepth, snap, root)
  BY <1>0, WalkUnfolds DEF Walk
<1>3. PICK g : g = [k \in 0..MaxDepth |->
                      [nodes |-> w[k], open |-> k = 0 \/ ~Stops(snap, w[k - 1])]]
  OBVIOUS
<1>4. g[0] = first
  <2>1. w[0] = <<root>> /\ 0 \in 0..MaxDepth
    BY <1>0, <1>2 DEF Walks
  <2> QED
    BY <1>3, <2>1
<1>5. ASSUME NEW k \in 1..MaxDepth
      PROVE  g[k] = DetailStep(snap, g[k - 1])
  <2>0. k \in 0..MaxDepth /\ k - 1 \in 0..MaxDepth /\ k # 0
    BY <1>0
  <2>1. /\ Stops(snap, w[k - 1]) => w[k] = w[k - 1]
        /\ ~Stops(snap, w[k - 1]) => Goes(snap, w[k - 1], w[k])
    BY <1>0, <1>2, WalksOn
  <2>2. PICK c, d : c = w[k - 1] /\ d = w[k]
    OBVIOUS
  <2>3. PICK o \in BOOLEAN : o <=> (k - 1 = 0 \/ ~Stops(snap, w[(k - 1) - 1]))
    OBVIOUS
  <2>4. ~o => Stops(snap, c)
    <3> SUFFICES ASSUME ~o PROVE Stops(snap, c)
      OBVIOUS
    <3>1. k - 1 \in 1..MaxDepth /\ Stops(snap, w[(k - 1) - 1])
      BY <1>0, <2>3
    <3>2. Walks(w, MaxDepth, snap, root)
      BY <1>2
    <3>3. PICK l : l = k - 1
      OBVIOUS
    <3>4. w[l] = w[l - 1]
      <4>1. l \in 1..MaxDepth
        BY <3>1, <3>3
      <4> HIDE <3>3
      <4>2. Stops(snap, w[l - 1]) => w[l] = w[l - 1]
        BY <1>0, <3>2, <4>1, WalksOn
      <4> QED
        BY <3>1, <3>3, <4>2
    <3> QED
      BY <2>2, <3>1, <3>3, <3>4
  <2>5. g[k - 1] = [nodes |-> c, open |-> k - 1 = 0 \/ ~Stops(snap, w[(k - 1) - 1])]
    BY <1>3, <2>0, <2>2
  <2>6. g[k - 1].nodes = c /\ (g[k - 1].open <=> o)
    BY <2>3, <2>5
  <2>7. g[k] = [nodes |-> d, open |-> k = 0 \/ ~Stops(snap, w[k - 1])]
    BY <1>3, <2>0, <2>2
  <2>8. PICK next : next = Follow(snap, Last(c))
    OBVIOUS
  <2>9. CASE next \in ToSet(c) \cup {None}
    <3>1. d = c /\ Stops(snap, c)
      BY <2>1, <2>2, <2>8, <2>9 DEF Stops
    <3>2. g[k] = [nodes |-> c, open |-> FALSE]
      BY <2>0, <2>2, <2>7, <3>1
    <3>3. DetailStep(snap, g[k - 1]) = [g[k - 1] EXCEPT !.open = FALSE]
      BY <2>6, <2>8, <2>9 DEF DetailStep
    <3>4. PICK b : g[k - 1] = [nodes |-> c, open |-> b]
      BY <2>5
    <3>5. [g[k - 1] EXCEPT !.open = FALSE] = [nodes |-> c, open |-> FALSE]
      BY <3>4, Closes
    <3> QED
      BY <3>2, <3>3, <3>5
  <2>10. CASE next \notin ToSet(c) \cup {None}
    <3>1. ~Stops(snap, c) /\ d = Append(c, next)
      BY <2>1, <2>2, <2>8, <2>10 DEF Stops, Goes
    <3>2. g[k] = [nodes |-> Append(c, next), open |-> TRUE]
      BY <2>0, <2>2, <2>7, <3>1
    <3>3. g[k - 1].open
      BY <2>4, <2>6, <3>1
    <3> QED
      BY <2>6, <2>8, <2>10, <3>2, <3>3 DEF DetailStep
  <2> QED
    BY <2>9, <2>10
<1>6. g = [n \in 0..MaxDepth |-> IF n = 0 THEN first ELSE DetailStep(snap, g[n - 1])]
  <2>1. \A n \in 0..MaxDepth : n = 0 \/ n \in 1..MaxDepth
    BY <1>0
  <2>2. \A n \in 0..MaxDepth : g[n] = IF n = 0 THEN first ELSE DetailStep(snap, g[n - 1])
    BY <1>4, <1>5, <2>1
  <2>3. g = [n \in 0..MaxDepth |-> g[n]]
    BY <1>3
  <2> QED
    BY <2>2, <2>3
<1>7. at = [n \in 0..MaxDepth |-> IF n = 0 THEN first ELSE DetailStep(snap, at[n - 1])]
  BY <1>6 DEF DetailStep
<1> HIDE DEF at, first
<1>8. InStep(at, g, MaxDepth)
  <2>1. 0 \in 0..MaxDepth /\ \A k \in 1..MaxDepth : k \in 0..MaxDepth /\ k # 0
    BY <1>0
  <2>2. \A n \in 0..MaxDepth : at[n] = IF n = 0 THEN first ELSE DetailStep(snap, at[n - 1])
    BY <1>7
  <2> QED
    BY <1>4, <1>5, <2>1, <2>2 DEF InStep
<1>9. at[MaxDepth] = g[MaxDepth] /\ MaxDepth \in 0..MaxDepth
  BY <1>0, <1>8, SameBySteps
<1>10. g[MaxDepth].nodes = w[MaxDepth]
  BY <1>3, <1>9
<1> QED
  BY <1>1, <1>2, <1>9, <1>10

\* The same chain of new exceptions, each with how it hangs on the one before.
Chained(snap, c) ==
  [i \in 1..Len(c) |-> [stack |-> c[i], link |-> IF i = 1 THEN "head" ELSE Link(snap, c[i - 1])]]

\* reconstruct_exception
MadeStep(snap, x) ==
  LET here == Last(x.chain).stack
      next == Follow(snap, here)
  IN  IF next \in x.seen \cup {None} THEN x
      ELSE [chain |-> Append(x.chain, [stack |-> next, link |-> Link(snap, here)]),
            seen |-> x.seen \cup {next}]

LEMMA ChainedIs ==
  ASSUME NEW snap, NEW root, NEW c, IsWay(snap, root, c)
  PROVE  /\ Chained(snap, c) \in Seq(Range(Chained(snap, c))) /\ Len(Chained(snap, c)) = Len(c)
         /\ Last(Chained(snap, c)).stack = Last(c) /\ Stacks(Chained(snap, c)) = c
<1>1. c \in Seq(DOMAIN snap) /\ Len(c) \in Nat /\ Len(c) >= 1
  BY DEF IsWay
<1>2. PICK l \in Nat : l = Len(c) /\ l >= 1
  BY <1>1
<1> DEFINE item(i) == [stack |-> c[i], link |-> IF i = 1 THEN "head" ELSE Link(snap, c[i - 1])]
<1>3. PICK h : h = Chained(snap, c)
  OBVIOUS
<1>4. h = [i \in 1..l |-> item(i)]
  BY <1>2, <1>3 DEF Chained
<1>5. \A i \in 1..l : item(i).stack = c[i]
  OBVIOUS
<1> HIDE DEF item
<1>6. DOMAIN h = 1..l /\ \A i \in 1..l : h[i] = item(i)
  BY <1>4
<1>7. h \in Seq(Range(h)) /\ Len(h) = l
  <2>1. \A i \in 1..l : h[i] \in Range(h)
    BY <1>6 DEF Range
  <2> QED
    BY <1>4, <1>6, <2>1
<1>8. Last(h).stack = Last(c)
  BY <1>2, <1>5, <1>6, <1>7 DEF Last
<1>9. Stacks(h) = c
  <2>1. Stacks(h) = [i \in 1..l |-> c[i]]
    BY <1>5, <1>6 DEF Stacks
  <2>2. c = [i \in 1..l |-> c[i]]
    BY <1>1, <1>2
  <2> QED
    BY <2>1, <2>2
<1> QED
  BY <1>2, <1>3, <1>7, <1>8, <1>9

\* Sequences with the same elements.
LEMMA SameElements ==
  ASSUME NEW R, NEW s \in Seq(R), NEW Q, NEW t \in Seq(Q), Len(s) = Len(t),
         \A i \in 1..Len(s) : s[i] = t[i]
  PROVE  s = t
OBVIOUS

LEMMA AppendHas ==
  ASSUME NEW R, NEW s \in Seq(R), NEW x
  PROVE  /\ Append(s, x) \in Seq(R \cup {x}) /\ Len(Append(s, x)) = Len(s) + 1
         /\ \A i \in 1..Len(s) : Append(s, x)[i] = s[i]
         /\ Append(s, x)[Len(s) + 1] = x
OBVIOUS

LEMMA ChainedGoes ==
  ASSUME NEW snap, NEW root, NEW c, IsWay(snap, root, c), NEW next
  PROVE  Chained(snap, Append(c, next))
           = Append(Chained(snap, c), [stack |-> next, link |-> Link(snap, Last(c))])
<1>1. c \in Seq(DOMAIN snap) /\ Len(c) \in Nat /\ Len(c) >= 1
  BY DEF IsWay
<1>2. PICK l \in Nat : l = Len(c) /\ l >= 1
  BY <1>1
<1>0. PICK d : d = Append(c, next)
  OBVIOUS
<1>3. Len(d) = l + 1 /\ d[l + 1] = next /\ \A i \in 1..l : d[i] = c[i]
  BY <1>0, <1>1, <1>2
<1>4. PICK h : h = Chained(snap, c)
  OBVIOUS
<1>5. h \in Seq(Range(h)) /\ Len(h) = l
  BY <1>2, <1>4, ChainedIs
<1> DEFINE item(s, i) == [stack |-> s[i], link |-> IF i = 1 THEN "head" ELSE Link(snap, s[i - 1])]
<1>6. Chained(snap, d) = [i \in 1..(l + 1) |-> item(d, i)]
  BY <1>3 DEF Chained
<1>7. h = [i \in 1..l |-> item(c, i)]
  BY <1>2, <1>4 DEF Chained
<1>8. \A i \in 1..l : item(d, i) = item(c, i)
  <2>1. \A i \in 1..l : i # 1 => i - 1 \in 1..l
    OBVIOUS
  <2> QED
    BY <1>3, <2>1
<1>9. item(d, l + 1) = [stack |-> next, link |-> Link(snap, Last(c))]
  <2>1. l + 1 # 1 /\ (l + 1) - 1 = l /\ l \in 1..l
    BY <1>2
  <2>2. Last(c) = c[l]
    BY <1>2 DEF Last
  <2>3. d[(l + 1) - 1] = Last(c)
    BY <1>3, <2>1, <2>2
  <2> QED
    BY <1>3, <2>1, <2>3
<1>10. PICK x : x = [stack |-> next, link |-> Link(snap, Last(c))]
  OBVIOUS
<1>11. PICK e : e = Chained(snap, d)
  OBVIOUS
<1>12. PICK a : a = Append(h, x)
  OBVIOUS
<1> HIDE DEF item
<1>13. /\ a \in Seq(Range(h) \cup {x}) /\ Len(a) = l + 1
       /\ a[l + 1] = x /\ \A i \in 1..l : a[i] = h[i]
  BY <1>5, <1>12, AppendHas
<1>14. e \in Seq(Range(e)) /\ Len(e) = l + 1 /\ \A i \in 1..(l + 1) : e[i] = item(d, i)
  <2>1. DOMAIN e = 1..(l + 1) /\ \A i \in 1..(l + 1) : e[i] = item(d, i)
    BY <1>6, <1>11
  <2>2. \A i \in 1..(l + 1) : e[i] \in Range(e)
    BY <2>1 DEF Range
  <2>3. e = [i \in 1..(l + 1) |-> e[i]]
    BY <1>6, <1>11
  <2> QED
    BY <2>1, <2>2, <2>3
<1>15. \A i \in 1..(l + 1) : e[i] = a[i]
  <2>1. \A i \in 1..(l + 1) : i = l + 1 \/ i \in 1..l
    OBVIOUS
  <2>2. \A i \in 1..l : h[i] = item(c, i)
    BY <1>7
  <2> QED
    BY <1>8, <1>9, <1>10, <1>13, <1>14, <2>1, <2>2
<1>16. e = a
  BY <1>13, <1>14, <1>15, SameElements
<1> QED
  BY <1>0, <1>4, <1>10, <1>11, <1>12, <1>16

\* What it makes of an exception.
Made(snap, t) ==
  LET made[hops \in 0..MaxDepth] ==
        IF hops = 0 THEN [chain |-> <<[stack |-> t, link |-> "head"]>>, seen |-> {t}]
        ELSE LET before == made[hops - 1]
                 here == Last(before.chain).stack
                 next == Follow(snap, here)
             IN  IF next \in before.seen \cup {None} THEN before
                 ELSE [chain |-> Append(before.chain, [stack |-> next, link |-> Link(snap, here)]),
                       seen |-> before.seen \cup {next}]
  IN  made[MaxDepth].chain

LEMMA MadeIs ==
  ASSUME NEW snap, NEW root \in DOMAIN snap
  PROVE  Stacks(Made(snap, root)) = Walk(snap, root)
<1> DEFINE first == [chain |-> <<[stack |-> root, link |-> "head"]>>, seen |-> {root}]
           at == CHOOSE at : at = [hops \in 0..MaxDepth |->
                   IF hops = 0 THEN [chain |-> <<[stack |-> root, link |-> "head"]>>, seen |-> {root}]
                   ELSE LET before == at[hops - 1]
                            here == Last(before.chain).stack
                            next == Follow(snap, here)
                        IN  IF next \in before.seen \cup {None} THEN before
                            ELSE [chain |-> Append(before.chain,
                                                   [stack |-> next, link |-> Link(snap, here)]),
                                  seen |-> before.seen \cup {next}]]
<1>0. MaxDepth \in Nat
  BY DepthAssumption
<1>1. Made(snap, root) = at[MaxDepth].chain
  BY DEF Made
<1>2. PICK w : Walk(snap, root) = w[MaxDepth] /\ Walks(w, MaxDepth, snap, root)
  BY <1>0, WalkUnfolds DEF Walk
<1>a. \A k \in 0..MaxDepth : IsWay(snap, root, w[k])
  BY <1>0, <1>2, WalksIs
<1>3. PICK g : g = [k \in 0..MaxDepth |-> [chain |-> Chained(snap, w[k]), seen |-> ToSet(w[k])]]
  OBVIOUS
<1>4. g[0] = first
  <2>1. w[0] = <<root>> /\ ToSet(w[0]) = {root} /\ 0 \in 0..MaxDepth
    <3>1. Walks(w, MaxDepth, snap, root)
      BY <1>2
    <3>2. BeginsAt(w, root)
      BY <3>1, FirstStep
    <3> QED
      BY <1>0, <3>2 DEF BeginsAt
  <2>2. Chained(snap, <<root>>) = <<[stack |-> root, link |-> "head"]>>
    <3>1. Len(<<root>>) = 1 /\ 1..1 = {1} /\ <<root>>[1] = root
      OBVIOUS
    <3>2. Chained(snap, <<root>>) = [i \in {1} |-> [stack |-> root, link |-> "head"]]
      BY <3>1 DEF Chained
    <3> QED
      BY <3>1, <3>2
  <2> QED
    BY <1>3, <2>1, <2>2
<1>5. ASSUME NEW k \in 1..MaxDepth
      PROVE  g[k] = MadeStep(snap, g[k - 1])
  <2>1. k \in 0..MaxDepth /\ k - 1 \in 0..MaxDepth
    BY <1>0
  <2>2. /\ Stops(snap, w[k - 1]) => w[k] = w[k - 1]
        /\ ~Stops(snap, w[k - 1]) => Goes(snap, w[k - 1], w[k])
    BY <1>0, <1>2, WalksOn
  <2>3. PICK c, d : c = w[k - 1] /\ d = w[k]
    OBVIOUS
  <2>4. /\ g[k] = [chain |-> Chained(snap, d), seen |-> ToSet(d)]
        /\ g[k - 1] = [chain |-> Chained(snap, c), seen |-> ToSet(c)]
    BY <1>3, <2>1, <2>3
  <2>5. PICK next : next = Follow(snap, Last(c))
    OBVIOUS
  <2>6. IsWay(snap, root, c) /\ Last(Chained(snap, c)).stack = Last(c)
    <3>1. IsWay(snap, root, c)
      BY <1>a, <2>1, <2>3
    <3> QED
      BY <3>1, ChainedIs
  <2>7. CASE next \in ToSet(c) \cup {None}
    <3>1. d = c
      BY <2>2, <2>3, <2>5, <2>7 DEF Stops
    <3> QED
      BY <2>4, <2>5, <2>6, <2>7, <3>1 DEF MadeStep
  <2>8. CASE next \notin ToSet(c) \cup {None}
    <3>1. d = Append(c, next) /\ ToSet(d) = ToSet(c) \cup {next}
      BY <2>2, <2>3, <2>5, <2>8 DEF Stops, Goes
    <3>2. Chained(snap, d) = Append(Chained(snap, c), [stack |-> next, link |-> Link(snap, Last(c))])
      BY <2>6, <3>1, ChainedGoes
    <3>3. PICK here : here = Last(Chained(snap, c)).stack
      OBVIOUS
    <3>4. next = Follow(snap, here) /\ here = Last(c)
      BY <2>5, <2>6, <3>3
    <3>5. g[k - 1].chain = Chained(snap, c) /\ g[k - 1].seen = ToSet(c)
      BY <2>4
    <3>6. MadeStep(snap, g[k - 1])
            = [chain |-> Append(Chained(snap, c), [stack |-> next, link |-> Link(snap, here)]),
               seen |-> ToSet(c) \cup {next}]
      BY <2>8, <3>3, <3>4, <3>5 DEF MadeStep
    <3> QED
      BY <2>4, <3>1, <3>2, <3>4, <3>6
  <2> QED
    BY <2>7, <2>8
<1>6. g = [n \in 0..MaxDepth |-> IF n = 0 THEN first ELSE MadeStep(snap, g[n - 1])]
  <2>1. \A n \in 0..MaxDepth : n = 0 \/ n \in 1..MaxDepth
    BY <1>0
  <2>2. \A n \in 0..MaxDepth : g[n] = IF n = 0 THEN first ELSE MadeStep(snap, g[n - 1])
    BY <1>4, <1>5, <2>1
  <2>3. g = [n \in 0..MaxDepth |-> g[n]]
    BY <1>3
  <2> QED
    BY <2>2, <2>3
<1>7. at = [n \in 0..MaxDepth |-> IF n = 0 THEN first ELSE MadeStep(snap, at[n - 1])]
  BY <1>6 DEF MadeStep
<1> HIDE DEF at, first
<1>8. InStep(at, g, MaxDepth)
  <2>1. 0 \in 0..MaxDepth /\ \A k \in 1..MaxDepth : k \in 0..MaxDepth /\ k # 0
    BY <1>0
  <2>2. \A n \in 0..MaxDepth : at[n] = IF n = 0 THEN first ELSE MadeStep(snap, at[n - 1])
    BY <1>7
  <2> QED
    BY <1>4, <1>5, <2>1, <2>2 DEF InStep
<1>9. at[MaxDepth] = g[MaxDepth] /\ MaxDepth \in 0..MaxDepth
  BY <1>0, <1>8, SameBySteps
<1>10. g[MaxDepth].chain = Chained(snap, w[MaxDepth]) /\ IsWay(snap, root, w[MaxDepth])
  BY <1>3, <1>9, <1>a
<1>11. Stacks(Chained(snap, w[MaxDepth])) = w[MaxDepth]
  BY <1>10, ChainedIs
<1> QED
  BY <1>1, <1>2, <1>9, <1>10, <1>11

LEMMA ReconstructedIs ==
  ASSUME NEW snap, NEW root \in DOMAIN snap, snap[root].exc, snap[root].frames # <<>>
  PROVE  Stacks(Reconstructed(snap, root)) = Walk(snap, root)
<1>1. Reconstructed(snap, root) = Made(snap, root)
  BY DEF Reconstructed, Made
<1> QED
  BY <1>1, MadeIs

(***************************************************************************)
(* The texts.                                                              *)
(***************************************************************************)
LEMMA JoinIs ==
  ASSUME NEW R, NEW s \in Seq(R), NEW Q, NEW t \in Seq(Q)
  PROVE  /\ s \o t \in Seq(R \cup Q) /\ Len(s \o t) = Len(s) + Len(t)
         /\ \A i \in 1..Len(s) : (s \o t)[i] = s[i]
         /\ \A i \in 1..Len(t) : (s \o t)[Len(s) + i] = t[i]
OBVIOUS

\* One sequence is another with two more elements.
TwoMore(t, s, x, y) ==
  /\ \E R : t \in Seq(R)
  /\ Len(t) = Len(s) + 2 /\ t[Len(s) + 1] = x /\ t[Len(s) + 2] = y
  /\ \A i \in 1..Len(s) : t[i] = s[i]

LEMMA JoinTwo ==
  ASSUME NEW R, NEW s \in Seq(R), NEW x, NEW y
  PROVE  TwoMore(s \o <<x>> \o <<y>>, s, x, y) /\ TwoMore(s \o (<<x>> \o <<y>>), s, x, y)
<1>1. /\ s \o (<<x>> \o <<y>>) \in Seq(R \cup {x, y})
      /\ Len(s \o (<<x>> \o <<y>>)) = Len(s) + 2
      /\ \A i \in 1..Len(s) : (s \o (<<x>> \o <<y>>))[i] = s[i]
      /\ (s \o (<<x>> \o <<y>>))[Len(s) + 1] = x /\ (s \o (<<x>> \o <<y>>))[Len(s) + 2] = y
  OBVIOUS
<1>2. PICK t : t = s \o <<x>> \o <<y>>
  OBVIOUS
<1>3. /\ t \in Seq(R \cup {x, y}) /\ Len(t) = Len(s) + 2
      /\ \A i \in 1..Len(s) : t[i] = s[i]
      /\ t[Len(s) + 1] = x /\ t[Len(s) + 2] = y
  BY <1>2
<1>4. TwoMore(t, s, x, y)
  BY <1>3 DEF TwoMore
<1>5. PICK u : u = s \o (<<x>> \o <<y>>)
  OBVIOUS
<1>6. TwoMore(u, s, x, y)
  BY <1>1, <1>5 DEF TwoMore
<1> QED
  BY <1>2, <1>4, <1>5, <1>6

\* A text tells of a chain if it has a traceback of each exception, in order,
\* each but the last before something else.
Tells(text, c) ==
  /\ \E R : text \in Seq(R)
  /\ Len(text) \in {2 * Len(c) - 1, 2 * Len(c)}
  /\ \A i \in 1..Len(c) : text[2 * i - 1].kind = "traceback" /\ text[2 * i - 1].stack = c[i]
  /\ \A i \in 1..Len(c) : 2 * i <= Len(text) => text[2 * i].kind # "traceback"

LEMMA TellsOne ==
  ASSUME NEW t, NEW shown, NEW c, Len(c) = 1, c[1] = t
  PROVE  Tells(Text(t, shown), c) /\ Len(Text(t, shown)) = 1
<1>1. PICK x : x = [kind |-> "traceback", stack |-> t, frames |-> shown]
  OBVIOUS
<1>2. x.kind = "traceback" /\ x.stack = t
  BY <1>1
<1>3. Text(t, shown) = <<x>>
  BY <1>1 DEF Text
<1>4. PICK s : s = <<x>>
  OBVIOUS
<1>5. s \in Seq({x}) /\ Len(s) = 1 /\ s[1] = x
  BY <1>4
<1>6. \A i \in 1..Len(c) : i = 1
  OBVIOUS
<1>7. Tells(s, c)
  BY <1>2, <1>5, <1>6 DEF Tells
<1> QED
  BY <1>3, <1>4, <1>5, <1>7

\* A sentence at the end.
LEMMA TellsNote ==
  ASSUME NEW text, NEW c, Len(c) \in Nat, Len(c) >= 1, Tells(text, c), Len(text) = 2 * Len(c) - 1,
         NEW kind, kind # "traceback"
  PROVE  /\ Tells(text \o Note(kind), c) /\ Len(text \o Note(kind)) = 2 * Len(c)
         /\ Last(text \o Note(kind)).kind = kind
<1>1. PICK l \in Nat : l = Len(c) /\ l >= 1
  OBVIOUS
<1>2. PICK R : text \in Seq(R)
  BY DEF Tells
<1>3. PICK x : x = [kind |-> kind]
  OBVIOUS
<1>4. x.kind = kind
  BY <1>3
<1>5. PICK s : s = text \o <<x>>
  OBVIOUS
<1>6. <<x>> \in Seq({x}) /\ Len(<<x>>) = 1 /\ <<x>>[1] = x
  OBVIOUS
<1>7. /\ s \in Seq(R \cup {x}) /\ Len(s) = 2 * l
      /\ \A i \in 1..(2 * l - 1) : s[i] = text[i]
      /\ s[2 * l] = x
  <2>1. /\ s \in Seq(R \cup {x}) /\ Len(s) = Len(text) + 1
        /\ \A i \in 1..Len(text) : s[i] = text[i]
        /\ \A i \in 1..1 : s[Len(text) + i] = <<x>>[i]
    BY <1>2, <1>5, <1>6, JoinIs
  <2>2. Len(text) = 2 * l - 1
    BY <1>1
  <2>3. s[Len(text) + 1] = x
    BY <1>6, <2>1
  <2> QED
    BY <2>1, <2>2, <2>3
<1>8. \A i \in 1..l : text[2 * i - 1].kind = "traceback" /\ text[2 * i - 1].stack = c[i]
  BY <1>1 DEF Tells
<1>9. \A i \in 1..l : 2 * i <= 2 * l - 1 => text[2 * i].kind # "traceback"
  BY <1>1 DEF Tells
<1>10. \A i \in 1..l : s[2 * i - 1].kind = "traceback" /\ s[2 * i - 1].stack = c[i]
  <2>1. \A i \in 1..l : 2 * i - 1 \in 1..(2 * l - 1)
    OBVIOUS
  <2> QED
    BY <1>7, <1>8, <2>1
<1>11. \A i \in 1..l : s[2 * i].kind # "traceback"
  <2>1. \A i \in 1..l : 2 * i = 2 * l \/ 2 * i \in 1..(2 * l - 1)
    OBVIOUS
  <2> QED
    BY <1>4, <1>7, <1>9, <2>1
<1>12. Tells(s, c)
  BY <1>1, <1>7, <1>10, <1>11 DEF Tells
<1>13. Last(s).kind = kind
  BY <1>4, <1>7 DEF Last
<1> QED
  BY <1>1, <1>3, <1>5, <1>7, <1>12, <1>13 DEF Note

\* A sentence and the next traceback at the end.
LEMMA TellsOn ==
  ASSUME NEW text, NEW c, Len(c) \in Nat, Len(c) >= 1, Tells(text, c), Len(text) = 2 * Len(c) - 1,
         NEW more, NEW x, NEW y, TwoMore(more, text, x, y),
         x.kind # "traceback", y.kind = "traceback",
         NEW d, Len(d) = Len(c) + 1, d[Len(c) + 1] = y.stack, \A i \in 1..Len(c) : d[i] = c[i]
  PROVE  Tells(more, d) /\ Len(more) = 2 * Len(d) - 1
<1>1. PICK l \in Nat : l = Len(c) /\ l >= 1
  OBVIOUS
<1>5. x.kind # "traceback" /\ y.kind = "traceback" /\ y.stack = d[l + 1]
  BY <1>1
<1>6. PICK n \in Nat : n = Len(text) /\ n = 2 * l - 1
  BY <1>1
<1>7. /\ \E Q : more \in Seq(Q)
      /\ Len(more) = 2 * l + 1
      /\ \A i \in 1..(2 * l - 1) : more[i] = text[i]
      /\ more[2 * l] = x /\ more[2 * l + 1] = y
  <2>1. /\ \E Q : more \in Seq(Q)
        /\ Len(more) = n + 2 /\ more[n + 1] = x /\ more[n + 2] = y
        /\ \A i \in 1..n : more[i] = text[i]
    BY <1>6 DEF TwoMore
  <2>2. ASSUME NEW j \in Nat, NEW k \in Nat, j = 2 * k - 1
        PROVE  j + 1 = 2 * k /\ j + 2 = 2 * k + 1
    BY <2>2
  <2>3. n + 1 = 2 * l /\ n + 2 = 2 * l + 1 /\ n = 2 * l - 1
    BY <1>6, <2>2
  <2> QED
    BY <2>1, <2>3
<1>8. \A i \in 1..l : text[2 * i - 1].kind = "traceback" /\ text[2 * i - 1].stack = c[i]
  BY <1>1 DEF Tells
<1>9. \A i \in 1..l : 2 * i <= 2 * l - 1 => text[2 * i].kind # "traceback"
  BY <1>1 DEF Tells
<1>10. \A i \in 1..(l + 1) : i \in 1..l \/ i = l + 1
  OBVIOUS
<1>11. \A i \in 1..(l + 1) : more[2 * i - 1].kind = "traceback" /\ more[2 * i - 1].stack = d[i]
  <2>1. \A i \in 1..l : 2 * i - 1 \in 1..(2 * l - 1)
    OBVIOUS
  <2>2. \A i \in 1..l : more[2 * i - 1].kind = "traceback" /\ more[2 * i - 1].stack = d[i]
    <3>1. \A i \in 1..l : more[2 * i - 1] = text[2 * i - 1]
      BY <1>7, <2>1
    <3>2. \A i \in 1..l : c[i] = d[i]
      BY <1>1
    <3> QED
      BY <1>8, <3>1, <3>2
  <2>3. 2 * (l + 1) - 1 = 2 * l + 1
    OBVIOUS
  <2> QED
    BY <1>1, <1>5, <1>7, <1>10, <2>2, <2>3
<1>12. \A i \in 1..(l + 1) : 2 * i <= 2 * l + 1 => more[2 * i].kind # "traceback"
  <2>1. \A i \in 1..l : 2 * i = 2 * l \/ 2 * i \in 1..(2 * l - 1)
    OBVIOUS
  <2>2. \A i \in 1..(l + 1) : 2 * i <= 2 * l + 1 => i \in 1..l
    OBVIOUS
  <2>3. ASSUME NEW i \in 1..l
        PROVE  more[2 * i].kind # "traceback"
    <3>1. CASE 2 * i = 2 * l
      <4>1. more[2 * i] = x
        BY <1>7, <3>1
      <4> QED
        BY <1>5, <4>1
    <3>2. CASE 2 * i \in 1..(2 * l - 1)
      <4>1. more[2 * i] = text[2 * i] /\ 2 * i <= 2 * l - 1
        BY <1>7, <3>2
      <4> QED
        BY <1>9, <4>1
    <3> QED
      BY <2>1, <3>1, <3>2
  <2> QED
    BY <2>2, <2>3
<1>13. Len(d) = l + 1 /\ 2 * (l + 1) - 1 = 2 * l + 1
  BY <1>1
<1>14. Tells(more, d)
  BY <1>7, <1>11, <1>12, <1>13 DEF Tells
<1> QED
  BY <1>7, <1>13, <1>14

\* What a text tells of is what a reader finds in it.
LEMMA TracedIs ==
  ASSUME NEW text, NEW R, NEW c \in Seq(R), Tells(text, c)
  PROVE  Traced(text) = c
<1> DEFINE S == {i \in DOMAIN text : text[i].kind = "traceback"}
           at == Ascending(S)
<1>1. PICK l \in Nat : l = Len(c)
  OBVIOUS
<1>2. PICK n \in Nat : n = Len(text) /\ n \in {2 * l - 1, 2 * l} /\ DOMAIN text = 1..n
  <2>1. PICK Q : text \in Seq(Q)
    BY DEF Tells
  <2>2. Len(text) \in {2 * l - 1, 2 * l}
    BY <1>1 DEF Tells
  <2> QED
    BY <2>1, <2>2
<1>3. \A i \in 1..l : text[2 * i - 1].kind = "traceback" /\ text[2 * i - 1].stack = c[i]
  BY <1>1 DEF Tells
<1>4. \A i \in 1..l : 2 * i <= n => text[2 * i].kind # "traceback"
  BY <1>1, <1>2 DEF Tells
<1>5. PICK a : a = [i \in 1..l |-> 2 * i - 1]
  OBVIOUS
<1>6. Ascends(a, l, S)
  <2>1. \A i \in 1..l : a[i] = 2 * i - 1 /\ a[i] \in 1..n
    BY <1>2, <1>5
  <2>2. \A i \in 1..l : a[i] \in S
    BY <1>2, <1>3, <2>1
  <2>3. \A i, j \in 1..l : i < j => a[i] < a[j]
    BY <2>1
  <2>4. ASSUME NEW k \in S
        PROVE  \E i \in 1..l : a[i] = k
    <3>1. k \in 1..n /\ text[k].kind = "traceback"
      BY <1>2
    <3>2. PICK i \in 1..l : k = 2 * i - 1 \/ k = 2 * i
      <4>1. ((k + 1) \div 2) \in 1..l /\ (k = 2 * ((k + 1) \div 2) - 1 \/ k = 2 * ((k + 1) \div 2))
        BY <1>2, <3>1
      <4> QED
        BY <4>1
    <3>3. k # 2 * i
      <4>1. 2 * i <= n => text[2 * i].kind # "traceback"
        BY <1>4
      <4> QED
        BY <1>2, <3>1, <4>1
    <3>4. a[i] = k
      BY <2>1, <3>2, <3>3
    <3> QED
      BY <3>4
  <2> HIDE DEF S
  <2> QED
    BY <2>2, <2>3, <2>4 DEF Ascends
<1>7. S \in SUBSET (1..n)
  BY <1>2
<1> HIDE DEF S
<1>8. DOMAIN at = 1..l /\ \A i \in 1..l : at[i] = a[i]
  <2>1. PICK T : T = S
    OBVIOUS
  <2>2. Ascends(a, l, T)
    BY <1>6, <2>1
  <2>3. \E m \in Nat : T \in SUBSET (1..m)
    BY <1>7, <2>1
  <2>4. DOMAIN Ascending(T) = 1..l /\ \A i \in 1..l : Ascending(T)[i] = a[i]
    BY <2>2, <2>3, AscendingOnly
  <2> QED
    BY <2>1, <2>4
<1>9. PICK t : t = Picked(text, S)
  OBVIOUS
<1>10. t = [i \in DOMAIN at |-> text[at[i]]]
  BY <1>9 DEF Picked
<1> HIDE DEF at
<1>11. DOMAIN t = 1..l /\ \A i \in 1..l : t[i].stack = c[i]
  <2>1. \A i \in 1..l : t[i] = text[2 * i - 1]
    BY <1>5, <1>8, <1>10
  <2> QED
    BY <1>3, <1>8, <1>10, <2>1
<1>12. Traced(text) = [i \in DOMAIN t |-> t[i].stack]
  BY <1>9 DEF S, Traced
<1>13. c = [i \in 1..l |-> c[i]]
  BY <1>1
<1> QED
  BY <1>11, <1>12, <1>13

\* _format_chain, one turn of its loop.
TextStep(snap, r) ==
  LET next == Follow(snap, r.current)
  IN  IF r.done THEN r
      ELSE IF r.depth >= MaxDepth
      THEN [r EXCEPT !.done = TRUE, !.text = @ \o Note("truncated")]
      ELSE IF next = None THEN [r EXCEPT !.done = TRUE]
      ELSE IF next \in r.seen
      THEN [r EXCEPT !.done = TRUE, !.text = @ \o Note("loops back")]
      ELSE [current |-> next, seen |-> r.seen \cup {next},
            depth |-> r.depth + 1, done |-> FALSE,
            text |-> r.text \o Note(Link(snap, r.current)) \o Text(next, snap[next].frames)]

TextFirst(snap, t) ==
  [current |-> t, seen |-> {t}, depth |-> 0, done |-> FALSE, text |-> Text(t, snap[t].frames)]

TextOf(f, n, snap, t) ==
  [k \in 0..n |-> IF k = 0 THEN TextFirst(snap, t) ELSE TextStep(snap, f[k - 1])]
IsText(f, n, snap, t) == f = TextOf(f, n, snap, t)

LEMMA TextExists ==
  ASSUME NEW snap, NEW t, NEW n \in Nat
  PROVE  \E f : IsText(f, n, snap, t)
<1> DEFINE T == {k \in Nat : \E f : IsText(f, k, snap, t)}
<1>1. 0 \in T
  <2> DEFINE f == [k \in 0..0 |-> TextFirst(snap, t)]
  <2>1. IsText(f, 0, snap, t)
    BY DEF TextOf, IsText
  <2> QED
    BY <2>1
<1>2. ASSUME NEW k \in Nat, k \in T
      PROVE  k + 1 \in T
  <2>1. PICK f : IsText(f, k, snap, t)
    BY <1>2
  <2> DEFINE g == TextOf(f, k + 1, snap, t)
  <2>2. ASSUME NEW j \in 0..k
        PROVE  g[j] = f[j]
    <3>1. g[j] = IF j = 0 THEN TextFirst(snap, t) ELSE TextStep(snap, f[j - 1])
      BY DEF TextOf
    <3>2. f[j] = IF j = 0 THEN TextFirst(snap, t) ELSE TextStep(snap, f[j - 1])
      BY <2>1 DEF TextOf, IsText
    <3> QED
      BY <3>1, <3>2
  <2>3. ASSUME NEW j \in 0..(k + 1)
        PROVE  g[j] = IF j = 0 THEN TextFirst(snap, t) ELSE TextStep(snap, g[j - 1])
    <3>1. g[j] = IF j = 0 THEN TextFirst(snap, t) ELSE TextStep(snap, f[j - 1])
      BY DEF TextOf
    <3>2. CASE j = 0
      BY <3>1, <3>2
    <3>3. CASE j # 0
      <4>1. j - 1 \in 0..k
        BY <3>3
      <4>2. g[j - 1] = f[j - 1]
        BY <2>2, <4>1
      <4> HIDE DEF g
      <4> QED
        BY <3>1, <3>3, <4>2
    <3> QED
      BY <3>2, <3>3
  <2>4. g = [j \in 0..(k + 1) |-> g[j]]
    BY DEF TextOf
  <2> HIDE DEF g
  <2>5. IsText(g, k + 1, snap, t)
    BY <2>3, <2>4 DEF TextOf, IsText
  <2> QED
    BY <2>5
<1> HIDE DEF T
<1>3. n \in T
  BY <1>1, <1>2, NatInd
<1> QED
  BY <1>3 DEF T

\* The loop's variables.
TextState(r, here, seen, depth, done, text) ==
  r = [current |-> here, seen |-> seen, depth |-> depth, done |-> done, text |-> text]

LEMMA TextEnds ==
  ASSUME NEW r, NEW cu, NEW se, NEW de, NEW o, NEW te, TextState(r, cu, se, de, o, te), NEW s
  PROVE  TextState([r EXCEPT !.done = TRUE, !.text = s], cu, se, de, TRUE, s)
<1>1. PICK b : b = TRUE
  OBVIOUS
<1>2. [r EXCEPT !.done = b, !.text = s]
        = [current |-> cu, seen |-> se, depth |-> de, done |-> b, text |-> s]
  <2>1. PICK q : q = [r EXCEPT !.done = b]
    OBVIOUS
  <2>2. q = [current |-> cu, seen |-> se, depth |-> de, done |-> b, text |-> te]
    BY <2>1 DEF TextState
  <2>3. [q EXCEPT !.text = s]
          = [current |-> cu, seen |-> se, depth |-> de, done |-> b, text |-> s]
    BY <2>2
  <2>4. [r EXCEPT !.done = b, !.text = s] = [[r EXCEPT !.done = b] EXCEPT !.text = s]
    OBVIOUS
  <2> QED
    BY <2>1, <2>3, <2>4
<1> QED
  BY <1>1, <1>2 DEF TextState

LEMMA TextEndsThere ==
  ASSUME NEW r, NEW cu, NEW se, NEW de, NEW o, NEW te, TextState(r, cu, se, de, o, te)
  PROVE  TextState([r EXCEPT !.done = TRUE], cu, se, de, TRUE, te)
<1>1. PICK b : b = TRUE
  OBVIOUS
<1>2. [r EXCEPT !.done = b]
        = [current |-> cu, seen |-> se, depth |-> de, done |-> b, text |-> te]
  BY DEF TextState
<1> QED
  BY <1>1, <1>2 DEF TextState

LEMMA TextFields ==
  ASSUME NEW r, NEW cu, NEW se, NEW de, NEW o, NEW te, TextState(r, cu, se, de, o, te)
  PROVE  /\ r.current = cu /\ r.seen = se /\ r.depth = de /\ r.text = te
         /\ r.done <=> o
<1>1. r.current = cu /\ r.seen = se /\ r.depth = de /\ r.text = te
  BY DEF TextState
<1>2. r.done = o
  BY DEF TextState
<1> QED
  BY <1>1, <1>2

LEMMA TextStepIs ==
  ASSUME NEW snap, NEW r, NEW cu, NEW se, NEW de, NEW o, NEW te, TextState(r, cu, se, de, o, te),
         NEW next, next = Follow(snap, cu)
  PROVE  /\ o => TextStep(snap, r) = r
         /\ ~o /\ de >= MaxDepth =>
              TextState(TextStep(snap, r), cu, se, de, TRUE, te \o Note("truncated"))
         /\ ~o /\ ~(de >= MaxDepth) /\ next = None =>
              TextState(TextStep(snap, r), cu, se, de, TRUE, te)
         /\ ~o /\ ~(de >= MaxDepth) /\ next # None /\ next \in se =>
              TextState(TextStep(snap, r), cu, se, de, TRUE, te \o Note("loops back"))
         /\ ~o /\ ~(de >= MaxDepth) /\ next # None /\ next \notin se =>
              TextState(TextStep(snap, r), next, se \cup {next}, de + 1, FALSE,
                        te \o Note(Link(snap, cu)) \o Text(next, snap[next].frames))
<1>1. /\ r.current = cu /\ r.seen = se /\ r.depth = de /\ r.text = te
      /\ r.done <=> o
  BY TextFields
<1>2. CASE o
  <2>1. TextStep(snap, r) = r
    BY <1>1, <1>2 DEF TextStep
  <2> QED
    BY <1>2, <2>1
<1>3. CASE ~o /\ de >= MaxDepth
  <2>1. TextStep(snap, r) = [r EXCEPT !.done = TRUE, !.text = te \o Note("truncated")]
    BY <1>1, <1>3 DEF TextStep
  <2>2. PICK s : s = te \o Note("truncated")
    OBVIOUS
  <2>3. TextState([r EXCEPT !.done = TRUE, !.text = s], cu, se, de, TRUE, s)
    BY TextEnds
  <2> QED
    BY <1>3, <2>1, <2>2, <2>3
<1>4. CASE ~o /\ ~(de >= MaxDepth) /\ next = None
  <2>1. TextStep(snap, r) = [r EXCEPT !.done = TRUE]
    BY <1>1, <1>4 DEF TextStep
  <2>2. TextState([r EXCEPT !.done = TRUE], cu, se, de, TRUE, te)
    BY TextEndsThere
  <2> QED
    BY <1>4, <2>1, <2>2
<1>5. CASE ~o /\ ~(de >= MaxDepth) /\ next # None /\ next \in se
  <2>1. TextStep(snap, r) = [r EXCEPT !.done = TRUE, !.text = te \o Note("loops back")]
    BY <1>1, <1>5 DEF TextStep
  <2>2. PICK s : s = te \o Note("loops back")
    OBVIOUS
  <2>3. TextState([r EXCEPT !.done = TRUE, !.text = s], cu, se, de, TRUE, s)
    BY TextEnds
  <2> QED
    BY <1>5, <2>1, <2>2, <2>3
<1>6. CASE ~o /\ ~(de >= MaxDepth) /\ next # None /\ next \notin se
  <2>1. TextStep(snap, r)
          = [current |-> next, seen |-> se \cup {next}, depth |-> de + 1, done |-> FALSE,
             text |-> te \o Note(Link(snap, cu)) \o Text(next, snap[next].frames)]
    BY <1>1, <1>6 DEF TextStep
  <2> QED
    BY <1>6, <2>1 DEF TextState
<1> QED
  BY <1>2, <1>3, <1>4, <1>5, <1>6

LEMMA TextRests ==
  ASSUME NEW snap, NEW r, NEW cu, NEW se, NEW de, NEW te, TextState(r, cu, se, de, TRUE, te)
  PROVE  TextStep(snap, r) = r /\ r.text = te
<1>1. PICK o : o = TRUE
  OBVIOUS
<1>2. TextState(r, cu, se, de, o, te)
  BY <1>1
<1>3. r.text = te /\ (r.done <=> o)
  BY <1>2, TextFields
<1>4. r.done
  BY <1>1, <1>3
<1> QED
  BY <1>3, <1>4 DEF TextStep

LEMMA TextGoes ==
  ASSUME NEW snap, NEW r, NEW cu, NEW se, NEW de, NEW te, TextState(r, cu, se, de, FALSE, te),
         NEW next, next = Follow(snap, cu)
  PROVE  /\ de >= MaxDepth =>
              TextState(TextStep(snap, r), cu, se, de, TRUE, te \o Note("truncated"))
         /\ ~(de >= MaxDepth) /\ next = None =>
              TextState(TextStep(snap, r), cu, se, de, TRUE, te)
         /\ ~(de >= MaxDepth) /\ next # None /\ next \in se =>
              TextState(TextStep(snap, r), cu, se, de, TRUE, te \o Note("loops back"))
         /\ ~(de >= MaxDepth) /\ next # None /\ next \notin se =>
              TextState(TextStep(snap, r), next, se \cup {next}, de + 1, FALSE,
                        te \o Note(Link(snap, cu)) \o Text(next, snap[next].frames))
<1>1. PICK o : o = FALSE
  OBVIOUS
<1>2. TextState(r, cu, se, de, o, te)
  BY <1>1
<1>3. ~o
  BY <1>1
<1> QED
  BY <1>2, <1>3, TextStepIs

\* After some steps the text tells of the walk so far; it is done when the walk
\* stops, and says so if it comes back to where it has been.
TextDone(snap, r, c) ==
  \E te : /\ TextState(r, Last(c), ToSet(c), Len(c) - 1, TRUE, te) /\ Tells(te, c)
          /\ Stops(snap, c) /\ (Follow(snap, Last(c)) = None \/ Last(te).kind = "loops back")
TextOpen(snap, r, k, c) ==
  \E te : /\ TextState(r, Last(c), ToSet(c), Len(c) - 1, FALSE, te) /\ Tells(te, c)
          /\ Len(c) = k + 1 /\ Len(te) = 2 * Len(c) - 1
TextGood(snap, r, k, c) == TextDone(snap, r, c) \/ TextOpen(snap, r, k, c)

LEMMA LinkIs ==
  ASSUME NEW snap, NEW t
  PROVE  Link(snap, t) # "traceback"
BY DEF Link

LEMMA TextBegins ==
  ASSUME NEW snap, NEW root, NEW c, c = <<root>>
  PROVE  TextGood(snap, TextFirst(snap, root), 0, c)
<1>1. Len(c) = 1 /\ c[1] = root /\ DOMAIN c = {1}
  OBVIOUS
<1>2. Last(c) = root
  BY <1>1 DEF Last
<1>3. ToSet(c) = {root}
  BY <1>1 DEF ToSet
<1>4. PICK te : te = Text(root, snap[root].frames)
  OBVIOUS
<1>5. Tells(te, c) /\ Len(te) = 1
  BY <1>1, <1>4, TellsOne
<1>6. TextState(TextFirst(snap, root), Last(c), ToSet(c), 0, FALSE, te)
  BY <1>2, <1>3, <1>4 DEF TextState, TextFirst
<1>7. Len(c) - 1 = 0 /\ Len(c) = 0 + 1 /\ Len(te) = 2 * Len(c) - 1
  BY <1>1, <1>5
<1>8. TextState(TextFirst(snap, root), Last(c), ToSet(c), Len(c) - 1, FALSE, te)
  BY <1>6, <1>7
<1> QED
  BY <1>5, <1>7, <1>8 DEF TextGood, TextOpen

LEMMA TextOn ==
  ASSUME NEW snap, NEW root, NEW r, NEW k \in Nat, k < MaxDepth, NEW c, NEW d,
         IsWay(snap, root, c), TextGood(snap, r, k, c),
         Stops(snap, c) => d = c, ~Stops(snap, c) => Goes(snap, c, d)
  PROVE  TextGood(snap, TextStep(snap, r), k + 1, d)
<1>2. PICK next : next = Follow(snap, Last(c))
  OBVIOUS
<1>3. PICK q : q = TextStep(snap, r)
  OBVIOUS
<1>4. PICK l \in Nat : l = Len(c) /\ l >= 1
  BY DEF IsWay
<1>5. CASE TextDone(snap, r, c)
  <2>1. PICK te : TextState(r, Last(c), ToSet(c), Len(c) - 1, TRUE, te)
    BY <1>5 DEF TextDone
  <2>2. q = r
    BY <1>3, <2>1, TextRests
  <2>3. d = c
    BY <1>5 DEF TextDone
  <2> QED
    BY <1>3, <1>5, <2>2, <2>3 DEF TextGood
<1>6. CASE TextOpen(snap, r, k, c)
  <2>0. PICK te : /\ TextState(r, Last(c), ToSet(c), Len(c) - 1, FALSE, te) /\ Tells(te, c)
                  /\ Len(c) = k + 1 /\ Len(te) = 2 * Len(c) - 1
    BY <1>6 DEF TextOpen
  <2>1. l = k + 1 /\ Len(te) = 2 * l - 1 /\ l - 1 < MaxDepth
    BY <1>4, <2>0, DepthAssumption
  <2>2. PICK de : de = Len(c) - 1 /\ ~(de >= MaxDepth)
    BY <1>4, <2>1, DepthAssumption
  <2>3. TextState(r, Last(c), ToSet(c), de, FALSE, te)
    BY <2>0, <2>2
  <2>4. CASE next = None
    <3>1. TextState(q, Last(c), ToSet(c), de, TRUE, te)
      BY <1>2, <1>3, <2>2, <2>3, <2>4, TextGoes
    <3>2. Stops(snap, c) /\ d = c
      BY <1>2, <2>4 DEF Stops
    <3> QED
      BY <1>2, <1>3, <2>0, <2>2, <2>4, <3>1, <3>2 DEF TextGood, TextDone
  <2>5. CASE next # None /\ next \in ToSet(c)
    <3>1. TextState(q, Last(c), ToSet(c), de, TRUE, te \o Note("loops back"))
      BY <1>2, <1>3, <2>2, <2>3, <2>5, TextGoes
    <3>2. Stops(snap, c) /\ d = c
      BY <1>2, <2>5 DEF Stops
    <3>3. Tells(te \o Note("loops back"), c) /\ Last(te \o Note("loops back")).kind = "loops back"
      <4>1. Len(c) \in Nat /\ Len(c) >= 1 /\ Tells(te, c) /\ Len(te) = 2 * Len(c) - 1
        BY <1>4, <2>0, <2>1
      <4>2. "loops back" # "traceback"
        OBVIOUS
      <4> QED
        BY <4>1, <4>2, TellsNote
    <3> QED
      BY <1>3, <2>2, <3>1, <3>2, <3>3 DEF TextGood, TextDone
  <2>6. CASE next # None /\ next \notin ToSet(c)
    <3>1. PICK more : more = te \o Note(Link(snap, Last(c))) \o Text(next, snap[next].frames)
      OBVIOUS
    <3>2. TextState(q, next, ToSet(c) \cup {next}, de + 1, FALSE, more)
      <4>1. TextState(TextStep(snap, r), next, ToSet(c) \cup {next}, de + 1, FALSE,
                      te \o Note(Link(snap, Last(c))) \o Text(next, snap[next].frames))
        BY <1>2, <2>2, <2>3, <2>6, TextGoes
      <4> QED
        BY <1>3, <3>1, <4>1
    <3>3. Goes(snap, c, d)
      BY <1>2, <2>6 DEF Stops
    <3>4. /\ d = Append(c, next) /\ Len(d) = l + 1 /\ Last(d) = next /\ ToSet(d) = ToSet(c) \cup {next}
          /\ \A i \in 1..l : d[i] = c[i]
      BY <1>2, <1>4, <3>3 DEF Goes
    <3>5. d[l + 1] = next
      BY <3>4 DEF Last
    <3>6. PICK x, y : /\ x = [kind |-> Link(snap, Last(c))]
                      /\ y = [kind |-> "traceback", stack |-> next, frames |-> snap[next].frames]
      OBVIOUS
    <3>7. more = te \o <<x>> \o <<y>>
      BY <3>1, <3>6 DEF Text, Note
    <3>8. x.kind # "traceback" /\ y.kind = "traceback" /\ y.stack = next
      BY <3>6, LinkIs
    <3>9. TwoMore(more, te, x, y)
      <4>1. PICK R : te \in Seq(R)
        BY <2>0 DEF Tells
      <4> QED
        BY <3>7, <4>1, JoinTwo
    <3>10. Tells(more, d) /\ Len(more) = 2 * Len(d) - 1
      <4>1. /\ Len(c) \in Nat /\ Len(c) >= 1 /\ Tells(te, c) /\ Len(te) = 2 * Len(c) - 1
            /\ Len(d) = Len(c) + 1 /\ d[Len(c) + 1] = y.stack /\ \A i \in 1..Len(c) : d[i] = c[i]
        BY <1>4, <2>0, <2>1, <3>4, <3>5, <3>8
      <4> QED
        BY <3>8, <3>9, <4>1, TellsOn, SMTT(30)
    <3>11. de + 1 = Len(d) - 1 /\ Len(d) = (k + 1) + 1
      BY <1>4, <2>1, <2>2, <3>4
    <3>12. TextState(q, Last(d), ToSet(d), Len(d) - 1, FALSE, more)
      BY <3>2, <3>4, <3>11
    <3> QED
      BY <1>3, <3>10, <3>11, <3>12 DEF TextGood, TextOpen
  <2> QED
    BY <2>4, <2>5, <2>6
<1> QED
  BY <1>5, <1>6 DEF TextGood

\* The last turn is the one that finds that the cap is reached.
LEMMA TextLast ==
  ASSUME NEW snap, NEW root, NEW r, NEW c, IsWay(snap, root, c), TextGood(snap, r, MaxDepth, c)
  PROVE  /\ Tells(TextStep(snap, r).text, c)
         /\ Follow(snap, Last(c)) # None =>
              Last(TextStep(snap, r).text).kind \in {"truncated", "loops back"}
<1>2. PICK next : next = Follow(snap, Last(c))
  OBVIOUS
<1>3. PICK q : q = TextStep(snap, r)
  OBVIOUS
<1>4. PICK l \in Nat : l = Len(c) /\ l >= 1
  BY DEF IsWay
<1>5. CASE TextDone(snap, r, c)
  <2>1. PICK te : /\ TextState(r, Last(c), ToSet(c), Len(c) - 1, TRUE, te) /\ Tells(te, c)
                  /\ Follow(snap, Last(c)) = None \/ Last(te).kind = "loops back"
    BY <1>5 DEF TextDone
  <2>2. q = r /\ r.text = te
    BY <1>3, <2>1, TextRests
  <2> QED
    BY <1>3, <2>1, <2>2
<1>6. CASE TextOpen(snap, r, MaxDepth, c)
  <2>0. PICK te : /\ TextState(r, Last(c), ToSet(c), Len(c) - 1, FALSE, te) /\ Tells(te, c)
                  /\ Len(c) = MaxDepth + 1 /\ Len(te) = 2 * Len(c) - 1
    BY <1>6 DEF TextOpen
  <2>1. l = MaxDepth + 1 /\ Len(te) = 2 * l - 1
    BY <1>4, <2>0
  <2>2. PICK de : de = Len(c) - 1 /\ de >= MaxDepth
    BY <1>4, <2>1, DepthAssumption
  <2>3. TextState(r, Last(c), ToSet(c), de, FALSE, te)
    BY <2>0, <2>2
  <2>4. TextState(q, Last(c), ToSet(c), de, TRUE, te \o Note("truncated"))
    BY <1>2, <1>3, <2>2, <2>3, TextGoes
  <2>5. q.text = te \o Note("truncated")
    BY <2>4, TextRests
  <2>6. Tells(te \o Note("truncated"), c) /\ Last(te \o Note("truncated")).kind = "truncated"
    <3>1. Len(c) \in Nat /\ Len(c) >= 1 /\ Tells(te, c) /\ Len(te) = 2 * Len(c) - 1
      BY <1>4, <2>0, <2>1
    <3>2. "truncated" # "traceback"
      OBVIOUS
    <3> QED
      BY <3>1, <3>2, TellsNote
  <2> QED
    BY <1>3, <2>5, <2>6
<1> QED
  BY <1>5, <1>6 DEF TextGood

LEMMA RenderedTextIs ==
  ASSUME NEW snap, NEW root \in DOMAIN snap
  PROVE  /\ Traced(RenderedText(snap, root)) = Walk(snap, root)
         /\ Follow(snap, Last(Walk(snap, root))) # None =>
              Last(RenderedText(snap, root)).kind \in {"truncated", "loops back"}
<1> DEFINE one(s) == Text(s, snap[s].frames)
           step(r) ==
             LET next == Follow(snap, r.current)
             IN  IF r.done THEN r
                 ELSE IF r.depth >= MaxDepth
                 THEN [r EXCEPT !.done = TRUE, !.text = @ \o Note("truncated")]
                 ELSE IF next = None THEN [r EXCEPT !.done = TRUE]
                 ELSE IF next \in r.seen
                 THEN [r EXCEPT !.done = TRUE, !.text = @ \o Note("loops back")]
                 ELSE [current |-> next, seen |-> r.seen \cup {next},
                       depth |-> r.depth + 1, done |-> FALSE,
                       text |-> r.text \o Note(Link(snap, r.current)) \o one(next)]
           after == CHOOSE after : after = [n \in 0..MaxDepth + 1 |->
                      IF n = 0 THEN [current |-> root, seen |-> {root}, depth |-> 0, done |-> FALSE,
                                     text |-> one(root)]
                      ELSE step(after[n - 1])]
<1>0. MaxDepth \in Nat /\ MaxDepth + 1 \in Nat
  BY DepthAssumption
<1>1. RenderedText(snap, root) = after[MaxDepth + 1].text
  BY DEF RenderedText
<1>2. PICK f : IsText(f, MaxDepth + 1, snap, root)
  BY <1>0, TextExists
<1>3. \A r : step(r) = TextStep(snap, r)
  BY DEF TextStep
<1>4. [current |-> root, seen |-> {root}, depth |-> 0, done |-> FALSE, text |-> one(root)]
        = TextFirst(snap, root)
  BY DEF TextFirst
<1> HIDE DEF step, one
<1>5. f = [n \in 0..MaxDepth + 1 |->
             IF n = 0 THEN [current |-> root, seen |-> {root}, depth |-> 0, done |-> FALSE,
                            text |-> one(root)]
             ELSE step(f[n - 1])]
  BY <1>2, <1>3, <1>4 DEF IsText, TextOf
<1>6. after = [n \in 0..MaxDepth + 1 |->
                 IF n = 0 THEN [current |-> root, seen |-> {root}, depth |-> 0, done |-> FALSE,
                                text |-> one(root)]
                 ELSE step(after[n - 1])]
  BY <1>5
<1> HIDE DEF after
<1>7. \A n \in 0..MaxDepth + 1 :
        after[n] = IF n = 0 THEN TextFirst(snap, root) ELSE TextStep(snap, after[n - 1])
  BY <1>3, <1>4, <1>6
<1>8. PICK w : Walk(snap, root) = w[MaxDepth] /\ Walks(w, MaxDepth, snap, root)
  BY <1>0, WalkUnfolds DEF Walk
<1>9. \A k \in 0..MaxDepth : IsWay(snap, root, w[k])
  BY <1>0, <1>8, WalksIs
<1> DEFINE T == {k \in Nat : k <= MaxDepth => TextGood(snap, after[k], k, w[k])}
<1>10. 0 \in T
  <2>1. after[0] = TextFirst(snap, root) /\ 0 \in 0..MaxDepth + 1
    BY <1>0, <1>7
  <2>2. w[0] = <<root>>
    BY <1>8 DEF Walks
  <2>3. TextGood(snap, after[0], 0, w[0])
    BY <2>1, <2>2, TextBegins
  <2> QED
    BY <2>3
<1>11. ASSUME NEW k \in Nat, k \in T
       PROVE  k + 1 \in T
  <2> SUFFICES ASSUME k + 1 <= MaxDepth PROVE TextGood(snap, after[k + 1], k + 1, w[k + 1])
    OBVIOUS
  <2>1. /\ k < MaxDepth /\ k + 1 \in 1..MaxDepth /\ (k + 1) - 1 = k /\ k \in 0..MaxDepth
        /\ k + 1 \in 0..MaxDepth + 1 /\ k + 1 # 0
    BY <1>0
  <2>2. TextGood(snap, after[k], k, w[k])
    BY <1>11, <2>1
  <2>3. after[k + 1] = TextStep(snap, after[k])
    BY <1>7, <2>1
  <2>4. /\ Stops(snap, w[k]) => w[k + 1] = w[k]
        /\ ~Stops(snap, w[k]) => Goes(snap, w[k], w[k + 1])
    <3>1. PICK j \in 1..MaxDepth : j = k + 1 /\ j - 1 = k
      BY <2>1
    <3>2. /\ Stops(snap, w[j - 1]) => w[j] = w[j - 1]
          /\ ~Stops(snap, w[j - 1]) => Goes(snap, w[j - 1], w[j])
      BY <1>0, <1>8, WalksOn
    <3> QED
      BY <3>1, <3>2
  <2>5. IsWay(snap, root, w[k])
    BY <1>9, <2>1
  <2> HIDE DEF T
  <2> QED
    BY <2>1, <2>2, <2>3, <2>4, <2>5, TextOn
<1>12. Nat \subseteq T
  <2> HIDE DEF T
  <2> QED
    BY <1>10, <1>11, NatInd
<1>13. PICK c, r : c = w[MaxDepth] /\ r = after[MaxDepth]
  OBVIOUS
<1>14. TextGood(snap, r, MaxDepth, c) /\ IsWay(snap, root, c)
  BY <1>0, <1>9, <1>12, <1>13
<1>15. after[MaxDepth + 1] = TextStep(snap, r)
  <2>1. MaxDepth + 1 \in 0..MaxDepth + 1 /\ MaxDepth + 1 # 0 /\ (MaxDepth + 1) - 1 = MaxDepth
    BY <1>0
  <2> QED
    BY <1>7, <1>13, <2>1
<1>16. PICK text : text = RenderedText(snap, root)
  OBVIOUS
<1>17. /\ Tells(text, c)
       /\ Follow(snap, Last(c)) # None => Last(text).kind \in {"truncated", "loops back"}
  BY <1>1, <1>14, <1>15, <1>16, TextLast
<1>18. c \in Seq(DOMAIN snap)
  BY <1>14 DEF IsWay
<1>19. Traced(text) = c
  BY <1>17, <1>18, TracedIs
<1> QED
  BY <1>8, <1>13, <1>16, <1>17, <1>19

LEMMA WalkIsWay ==
  ASSUME NEW snap, NEW root \in DOMAIN snap, NEW n \in Nat
  PROVE  IsWay(snap, root, WalkUpTo(snap, root, n))
<1>1. PICK w : WalkUpTo(snap, root, n) = w[n] /\ Walks(w, n, snap, root)
  BY WalkUnfolds
<1>2. n \in 0..n
  OBVIOUS
<1>3. IsWay(snap, root, w[n])
  BY <1>1, <1>2, WalksIs
<1> QED
  BY <1>1, <1>3

\* _build_traceback_lines, for one exception.
ViewerPart(snap, c, n) ==
  (IF n = Len(c) THEN <<>> ELSE Note(Link(snap, c[n]))) \o Text(c[n], snap[c[n]].frames)

LEMMA ViewerTextTells ==
  ASSUME NEW snap, NEW root, NEW c, IsWay(snap, root, c)
  PROVE  Tells(FlattenSeq([n \in DOMAIN c |-> ViewerPart(snap, c, Len(c) + 1 - n)]), Reverse(c))
<1>1. c \in Seq(DOMAIN snap)
  BY DEF IsWay
<1>2. PICK l \in Nat : l = Len(c) /\ l >= 1 /\ l # 0 /\ DOMAIN c = 1..l
  BY DEF IsWay
<1>3. PICK seqs : seqs = [n \in 1..l |-> ViewerPart(snap, c, l + 1 - n)]
  OBVIOUS
<1>4. Len(seqs) = l /\ \A n \in 1..l : seqs[n] = ViewerPart(snap, c, l + 1 - n)
  BY <1>3
<1>5. PICK flat : /\ FlattenSeq(seqs) = flat[l]
                  /\ \A i \in 1..l : flat[i] = IF i = 1 THEN seqs[i] ELSE flat[i - 1] \o seqs[i]
  BY <1>2, <1>4, FlatSteps
<1> DEFINE back(k) == [i \in 1..k |-> c[l + 1 - i]]
           Good(k) == Tells(flat[k], back(k)) /\ Len(flat[k]) = 2 * k - 1
           T == {k \in Nat : k + 1 <= l => Good(k + 1)}
<1>6. 0 \in T
  <2>1. PICK t, shown : t = c[l] /\ shown = snap[c[l]].frames
    OBVIOUS
  <2>2. 1 \in 1..l /\ l + 1 - 1 = l
    BY <1>2
  <2>3. flat[1] = ViewerPart(snap, c, l)
    BY <1>4, <1>5, <2>2
  <2>4. ViewerPart(snap, c, l) = <<>> \o Text(t, shown)
    BY <1>2, <2>1 DEF ViewerPart
  <2>5. <<>> \o Text(t, shown) = Text(t, shown)
    BY DEF Text
  <2>6. back(1) = [i \in 1..1 |-> c[l + 1 - i]] /\ Len(back(1)) = 1 /\ back(1)[1] = t
    BY <2>1, <2>2
  <2>7. Tells(flat[1], back(1)) /\ Len(flat[1]) = 1
    <3>1. PICK d : d = back(1)
      OBVIOUS
    <3>2. Tells(Text(t, shown), d) /\ Len(Text(t, shown)) = 1
      BY <2>6, <3>1, TellsOne
    <3> QED
      BY <2>3, <2>4, <2>5, <3>1, <3>2
  <2>8. 2 * 1 - 1 = 1 /\ 0 + 1 = 1
    OBVIOUS
  <2> HIDE DEF back
  <2>9. Good(1)
    BY <2>7, <2>8
  <2> HIDE DEF Good
  <2> QED
    BY <2>8, <2>9
<1>7. ASSUME NEW j \in Nat, j \in T
      PROVE  j + 1 \in T
  <2> SUFFICES ASSUME (j + 1) + 1 <= l PROVE Good((j + 1) + 1)
    OBVIOUS
  <2>1. PICK k \in Nat : k = j + 1 /\ k >= 1 /\ k + 1 <= l
    OBVIOUS
  <2>2. Tells(flat[k], back(k)) /\ Len(flat[k]) = 2 * k - 1
    BY <1>7, <2>1
  <2>3. PICK text, d, e : text = flat[k] /\ d = back(k) /\ e = back(k + 1)
    OBVIOUS
  <2>4. PICK m \in Nat : m = l - k /\ m >= 1 /\ m # l /\ l + 1 - (k + 1) = m
    <3>1. l - k \in Nat /\ l - k >= 1 /\ l - k # l /\ l + 1 - (k + 1) = l - k
      BY <1>2, <2>1
    <3> QED
      BY <3>1
  <2>5. Len(d) = k /\ Len(e) = k + 1 /\ e[k + 1] = c[m] /\ \A i \in 1..k : e[i] = d[i]
    BY <2>1, <2>3, <2>4
  <2>6. flat[k + 1] = text \o ViewerPart(snap, c, m)
    <3>1. k + 1 \in 1..l /\ k + 1 # 1 /\ (k + 1) - 1 = k
      BY <2>1
    <3> QED
      BY <1>4, <1>5, <2>3, <2>4, <3>1
  <2>7. PICK x, y : /\ x = [kind |-> Link(snap, c[m])]
                    /\ y = [kind |-> "traceback", stack |-> c[m], frames |-> snap[c[m]].frames]
    OBVIOUS
  <2>8. x.kind # "traceback" /\ y.kind = "traceback" /\ y.stack = c[m]
    BY <2>7, LinkIs
  <2>9. ViewerPart(snap, c, m) = <<x>> \o <<y>>
    BY <1>2, <2>4, <2>7 DEF ViewerPart, Note, Text
  <2>10. TwoMore(text \o (<<x>> \o <<y>>), text, x, y)
    <3>1. PICK R : text \in Seq(R)
      BY <2>2, <2>3 DEF Tells
    <3> QED
      BY <3>1, JoinTwo
  <2>11. PICK more : more = flat[k + 1] /\ TwoMore(more, text, x, y)
    BY <2>6, <2>9, <2>10
  <2>12. Tells(text, d) /\ Len(text) = 2 * Len(d) - 1
    BY <2>2, <2>3, <2>5
  <2>13. Tells(more, e) /\ Len(more) = 2 * Len(e) - 1
    <3>1. Len(d) \in Nat /\ Len(d) >= 1
      BY <2>1, <2>5
    <3>2. Len(e) = Len(d) + 1 /\ e[Len(d) + 1] = y.stack /\ \A i \in 1..Len(d) : e[i] = d[i]
      BY <2>5, <2>8
    <3>3. x.kind # "traceback" /\ y.kind = "traceback" /\ TwoMore(more, text, x, y)
      BY <2>8, <2>11
    <3>4. Tells(text, d) /\ Len(text) = 2 * Len(d) - 1
      BY <2>12
    <3> HIDE DEF back, Good, T
    <3> QED
      BY <3>1, <3>2, <3>3, <3>4, TellsOn, SMTT(30)
  <2>14. Tells(flat[k + 1], back(k + 1)) /\ Len(flat[k + 1]) = 2 * (k + 1) - 1
    <3> HIDE DEF back
    <3> QED
      BY <2>3, <2>5, <2>11, <2>13
  <2> HIDE DEF back
  <2> QED
    BY <2>1, <2>14
<1>8. Good(l)
  <2>1. Nat \subseteq T
    <3> HIDE DEF T
    <3> QED
      BY <1>6, <1>7, NatInd
  <2>2. l - 1 \in Nat /\ (l - 1) + 1 = l
    BY <1>2
  <2> HIDE DEF Good
  <2> QED
    BY <2>1, <2>2
<1>9. back(l) = Reverse(c)
  <2>1. Reverse(c) = [i \in 1..l |-> c[(l - i) + 1]]
    BY <1>2 DEF Reverse
  <2>2. \A i \in 1..l : l + 1 - i = (l - i) + 1
    OBVIOUS
  <2> QED
    BY <2>1, <2>2
<1>10. FlattenSeq([n \in DOMAIN c |-> ViewerPart(snap, c, Len(c) + 1 - n)]) = flat[l]
  BY <1>2, <1>3, <1>5
<1> HIDE DEF back
<1> QED
  BY <1>8, <1>9, <1>10

LEMMA ViewerTextIs ==
  ASSUME NEW snap, NEW root \in DOMAIN snap, IsFiniteSet(DOMAIN snap)
  PROVE  Traced(ViewerText(snap, root)) = Reverse(ViewerWalk(snap, root))
<1>1. PICK c : c = ViewerWalk(snap, root)
  OBVIOUS
<1>2. IsWay(snap, root, c)
  <2>1. Cardinality(DOMAIN snap) \in Nat
    BY FS_CardinalityType
  <2> QED
    BY <1>1, <2>1, WalkIsWay DEF ViewerWalk
<1>3. ViewerText(snap, root) = FlattenSeq([n \in DOMAIN c |-> ViewerPart(snap, c, Len(c) + 1 - n)])
  BY <1>1 DEF ViewerText, ViewerPart
<1>4. Tells(ViewerText(snap, root), Reverse(c))
  BY <1>2, <1>3, ViewerTextTells
<1>5. Reverse(c) \in Seq(DOMAIN snap)
  <2>1. c \in Seq(DOMAIN snap)
    BY <1>2 DEF IsWay
  <2>2. PICK l \in Nat : l = Len(c)
    BY <2>1
  <2>3. Reverse(c) = [i \in 1..l |-> c[(l - i) + 1]]
    BY <2>2 DEF Reverse
  <2>4. \A i \in 1..l : c[(l - i) + 1] \in DOMAIN snap
    BY <2>1, <2>2
  <2> QED
    BY <2>3, <2>4
<1>6. Traced(ViewerText(snap, root)) = Reverse(c)
  BY <1>4, <1>5, TracedIs
<1> QED
  BY <1>1, <1>6

LEMMA ChainsAre ==
  ASSUME NEW snap, NEW root \in DOMAIN snap, IsFiniteSet(DOMAIN snap)
  PROVE  Len(Walk(snap, root)) <= MaxDepth =>
           Traced(ViewerText(snap, root)) = Reverse(Walk(snap, root))
<1>1. Len(Walk(snap, root)) <= MaxDepth => Walk(snap, root) = ViewerWalk(snap, root)
  BY DepthAssumption, SameWalk DEF Walk
<1>2. Traced(ViewerText(snap, root)) = Reverse(ViewerWalk(snap, root))
  BY ViewerTextIs
<1> QED
  BY <1>1, <1>2

(***************************************************************************)
(* What the renderers say agrees.                                          *)
(***************************************************************************)
LEMMA ChainsAgreeIs ==
  ASSUME IsChainSnapshot(snapshot)
  PROVE  ChainsAgree
<1>1. IsFiniteSet(DOMAIN snapshot)
  BY DEF IsChainSnapshot
<1>2. SUFFICES ASSUME NEW t \in DOMAIN snapshot
      PROVE  LET walk == Walk(snapshot, t)
                 text == RenderedText(snapshot, t)
             IN  /\ Details(snapshot, t) = walk
                 /\ Traced(text) = walk
                 /\ snapshot[t].exc /\ snapshot[t].frames # <<>> =>
                      Stacks(Reconstructed(snapshot, t)) = walk
                 /\ Innermost(snapshot, t) = Last(walk)
                 /\ Len(walk) <= MaxDepth => Traced(ViewerText(snapshot, t)) = Reverse(walk)
                 /\ Follow(snapshot, Last(walk)) # None =>
                      Last(text).kind \in {"truncated", "loops back"}
  BY DEF ChainsAgree
<1>3. PICK walk, text : walk = Walk(snapshot, t) /\ text = RenderedText(snapshot, t)
  OBVIOUS
<1>4. Details(snapshot, t) = walk
  BY <1>3, DetailsAre
<1>5. /\ Traced(text) = walk
      /\ Follow(snapshot, Last(walk)) # None => Last(text).kind \in {"truncated", "loops back"}
  BY <1>3, RenderedTextIs
<1>6. snapshot[t].exc /\ snapshot[t].frames # <<>> => Stacks(Reconstructed(snapshot, t)) = walk
  BY <1>3, ReconstructedIs
<1>7. Innermost(snapshot, t) = Last(walk)
  BY <1>3, InnermostIs
<1>8. Len(walk) <= MaxDepth => Traced(ViewerText(snapshot, t)) = Reverse(walk)
  BY <1>1, <1>3, ChainsAre
<1> QED
  BY <1>3, <1>4, <1>5, <1>6, <1>7, <1>8

\* One sequence starts with another.
BeginsWith(t, s) == Len(s) <= Len(t) /\ \A i \in 1..Len(s) : t[i] = s[i]

LEMMA BeginsWithIs ==
  ASSUME NEW R, NEW s \in Seq(R), NEW t \in Seq(R)
  PROVE  IsPrefix(s, t) <=> BeginsWith(t, s)
<1>1. PICK m \in Nat, n \in Nat : m = Len(s) /\ n = Len(t)
  OBVIOUS
<1>2. CASE m <= n
  <2>1. SubSeq(s, 1, m) = [i \in 1..m |-> s[i]] /\ SubSeq(t, 1, m) = [i \in 1..m |-> t[i]]
    BY <1>1, <1>2
  <2>2. (SubSeq(s, 1, m) = SubSeq(t, 1, m)) <=> \A i \in 1..m : t[i] = s[i]
    BY <2>1
  <2> QED
    BY <1>1, <1>2, <2>2 DEF IsPrefix, BeginsWith
<1>3. CASE ~(m <= n)
  BY <1>1, <1>3 DEF IsPrefix, BeginsWith
<1> QED
  BY <1>2, <1>3

LEMMA BeginsWithJoin ==
  ASSUME NEW R, NEW s \in Seq(R), NEW t \in Seq(R), NEW u \in Seq(R), BeginsWith(t, s)
  PROVE  t \o u \in Seq(R) /\ BeginsWith(t \o u, s)
<1>1. t \o u \in Seq(R) /\ Len(t \o u) = Len(t) + Len(u) /\ \A i \in 1..Len(t) : (t \o u)[i] = t[i]
  OBVIOUS
<1>2. Len(s) <= Len(t) /\ \A i \in 1..Len(s) : t[i] = s[i]
  BY DEF BeginsWith
<1>3. Len(s) \in Nat /\ Len(t) \in Nat /\ Len(u) \in Nat
  OBVIOUS
<1>4. PICK v : v = t \o u
  OBVIOUS
<1>5. Len(s) <= Len(v) /\ \A i \in 1..Len(s) : v[i] = s[i]
  BY <1>1, <1>2, <1>3, <1>4
<1> QED
  BY <1>1, <1>4, <1>5 DEF BeginsWith

LEMMA FlatStarts ==
  ASSUME NEW R, NEW seqs, NEW N \in Nat, N = Len(seqs), N # 0, \A n \in 1..N : seqs[n] \in Seq(R)
  PROVE  FlattenSeq(seqs) \in Seq(R) /\ BeginsWith(FlattenSeq(seqs), seqs[1])
<1>1. PICK flat : /\ FlattenSeq(seqs) = flat[N]
                  /\ \A i \in 1..N : flat[i] = IF i = 1 THEN seqs[i] ELSE flat[i - 1] \o seqs[i]
  BY FlatSteps
<1> DEFINE Good(k) == flat[k] \in Seq(R) /\ BeginsWith(flat[k], seqs[1])
           T == {k \in Nat : k + 1 <= N => Good(k + 1)}
<1>2. 0 \in T
  <2>1. 1 \in 1..N /\ 0 + 1 = 1
    OBVIOUS
  <2>2. flat[1] = seqs[1] /\ seqs[1] \in Seq(R)
    BY <1>1, <2>1
  <2>3. BeginsWith(seqs[1], seqs[1])
    BY <2>2 DEF BeginsWith
  <2>4. Good(1)
    BY <2>2, <2>3
  <2> HIDE DEF Good
  <2> QED
    BY <2>1, <2>4
<1>3. ASSUME NEW j \in Nat, j \in T
      PROVE  j + 1 \in T
  <2> SUFFICES ASSUME (j + 1) + 1 <= N PROVE Good((j + 1) + 1)
    OBVIOUS
  <2>1. PICK k \in Nat : k = j + 1 /\ k + 1 \in 1..N /\ k + 1 # 1 /\ (k + 1) - 1 = k /\ 1 \in 1..N
    OBVIOUS
  <2>2. flat[k] \in Seq(R) /\ BeginsWith(flat[k], seqs[1])
    BY <1>3, <2>1
  <2>3. flat[k + 1] = flat[k] \o seqs[k + 1]
    BY <1>1, <2>1
  <2>4. seqs[1] \in Seq(R) /\ seqs[k + 1] \in Seq(R)
    BY <2>1
  <2>5. flat[k] \o seqs[k + 1] \in Seq(R) /\ BeginsWith(flat[k] \o seqs[k + 1], seqs[1])
    BY <2>2, <2>4, BeginsWithJoin
  <2> QED
    BY <2>1, <2>3, <2>5
<1>4. Good(N)
  <2>1. Nat \subseteq T
    <3> HIDE DEF T
    <3> QED
      BY <1>2, <1>3, NatInd
  <2>2. N - 1 \in Nat /\ (N - 1) + 1 = N
    OBVIOUS
  <2> HIDE DEF Good
  <2> QED
    BY <2>1, <2>2
<1> QED
  BY <1>1, <1>4

\* The first of the numbers of a set is the least.
LEMMA FirstIsLeast ==
  ASSUME NEW S \in SUBSET (Nat \ {0}), IsFiniteSet(S), S # {}
  PROVE  \E c \in Nat : /\ c # 0 /\ DOMAIN Ascending(S) = 1..c
                        /\ Ascending(S)[1] = Min(S) /\ \A i \in 1..c : Ascending(S)[i] \in S
<1>1. PICK b \in Nat : S \in SUBSET (1..b)
  BY FiniteBound
<1>2. PICK c \in Nat : DOMAIN Ascending(S) = 1..c /\ Ascends(Ascending(S), c, S)
  BY <1>1, AscendingOrder
<1>3. PICK a : a = Ascending(S)
  OBVIOUS
<1>4. /\ \A i \in 1..c : a[i] \in S
      /\ \A i, j \in 1..c : i < j => a[i] < a[j]
      /\ \A k \in S : \E i \in 1..c : a[i] = k
  BY <1>2, <1>3 DEF Ascends
<1>5. Min(S) \in S /\ \A k \in S : Min(S) <= k
  <2>1. S \in SUBSET Nat
    OBVIOUS
  <2> QED
    BY <2>1, MinOf
<1>6. PICK i \in 1..c : a[i] = Min(S)
  BY <1>4, <1>5
<1>a. PICK m \in S : m = Min(S) /\ a[i] = m /\ \A k \in S : m <= k
  BY <1>5, <1>6
<1>b. 1 \in 1..c
  OBVIOUS
<1>7. a[1] \in S /\ m <= a[1]
  BY <1>4, <1>a, <1>b
<1>8. i = 1
  <2> SUFFICES ASSUME i # 1 PROVE FALSE
    OBVIOUS
  <2>1. a[1] < a[i]
    <3>1. 1 < i
      OBVIOUS
    <3> QED
      BY <1>4, <1>b, <3>1
  <2>2. \A k \in S : k \in Int
    OBVIOUS
  <2>3. m \in Int /\ a[1] \in Int
    BY <1>7, <2>2
  <2> QED
    BY <1>a, <1>7, <2>1, <2>3
<1>9. c # 0
  OBVIOUS
<1> QED
  BY <1>2, <1>3, <1>4, <1>a, <1>8, <1>9

LEMMA ExceptionsAll ==
  ASSUME NEW snap, IsChainSnapshot(snap)
  PROVE  Exceptions(snap, {}) = {t \in DOMAIN snap : snap[t].exc}
<1>1. ASSUME NEW t \in DOMAIN snap
      PROVE  ~IsFilteredThread(snap[t], {})
  <2>1. PICK shown : shown = snap[t].frames
    OBVIOUS
  <2>2. shown \in Seq(ToSet(shown))
    BY <2>1 DEF IsChainSnapshot
  <2>3. shown # <<>> => 1 \in DOMAIN shown
    BY <2>2
  <2> QED
    BY <2>1, <2>3 DEF IsFilteredThread
<1> QED
  BY <1>1 DEF Exceptions

LEMMA TreeStartsIs ==
  ASSUME NEW snap, IsChainSnapshot(snap), NEW S \in SUBSET (DOMAIN snap), S # {}, NEW others,
         others \in Seq(DOMAIN snap)
  PROVE  IsPrefix(Walk(snap, Min(S)),
                  FlattenSeq([n \in DOMAIN Ascending(S) |-> ViewerWalk(snap, Ascending(S)[n])])
                    \o others)
<1>1. IsFiniteSet(DOMAIN snap) /\ DOMAIN snap \subseteq Nat \ {0}
  BY DEF IsChainSnapshot
<1>2. S \in SUBSET (Nat \ {0}) /\ IsFiniteSet(S)
  BY <1>1, FS_Subset
<1>3. PICK c \in Nat : /\ c # 0 /\ DOMAIN Ascending(S) = 1..c
                       /\ Ascending(S)[1] = Min(S) /\ \A i \in 1..c : Ascending(S)[i] \in S
  BY <1>2, FirstIsLeast
<1>4. PICK seqs : seqs = [n \in 1..c |-> ViewerWalk(snap, Ascending(S)[n])]
  OBVIOUS
<1>5. PICK m \in Nat : m = Cardinality(DOMAIN snap)
  BY <1>1, FS_CardinalityType
<1>6. ASSUME NEW n \in 1..c
      PROVE  seqs[n] \in Seq(DOMAIN snap)
  <2>1. PICK t \in DOMAIN snap : t = Ascending(S)[n]
    BY <1>3
  <2>2. IsWay(snap, t, WalkUpTo(snap, t, m))
    BY WalkIsWay
  <2>3. seqs[n] = WalkUpTo(snap, t, m)
    BY <1>4, <1>5, <2>1 DEF ViewerWalk
  <2> QED
    BY <2>2, <2>3 DEF IsWay
<1>7. Len(seqs) = c /\ 1 \in 1..c /\ seqs[1] = ViewerWalk(snap, Min(S))
  BY <1>3, <1>4
<1>8. PICK flat : flat = FlattenSeq(seqs)
  OBVIOUS
<1>9. flat \in Seq(DOMAIN snap) /\ BeginsWith(flat, seqs[1])
  BY <1>3, <1>6, <1>7, <1>8, FlatStarts
<1>10. PICK root \in DOMAIN snap : root = Min(S)
  BY <1>3, <1>7
<1>11. Walk(snap, root) \in Seq(DOMAIN snap) /\ IsPrefix(Walk(snap, root), seqs[1])
  <2>1. IsWay(snap, root, Walk(snap, root))
    BY DepthAssumption, WalkIsWay DEF Walk
  <2>2. IsPrefix(Walk(snap, root), ViewerWalk(snap, root))
    BY <1>1, DepthAssumption, SameWalk DEF Walk
  <2> QED
    BY <1>7, <1>10, <2>1, <2>2 DEF IsWay
<1>12. PICK walk, first : walk = Walk(snap, root) /\ first = seqs[1]
  OBVIOUS
<1>13. walk \in Seq(DOMAIN snap) /\ first \in Seq(DOMAIN snap) /\ BeginsWith(first, walk)
  <2>1. first \in Seq(DOMAIN snap)
    BY <1>6, <1>7, <1>12
  <2> QED
    BY <1>11, <1>12, <2>1, BeginsWithIs
<1>14. BeginsWith(flat, walk)
  <2>1. Len(walk) \in Nat /\ Len(first) \in Nat /\ Len(flat) \in Nat
    BY <1>9, <1>13
  <2>2. BeginsWith(flat, first)
    BY <1>9, <1>12
  <2> QED
    BY <1>13, <2>1, <2>2 DEF BeginsWith
<1>15. flat \o others \in Seq(DOMAIN snap) /\ BeginsWith(flat \o others, walk)
  BY <1>9, <1>13, <1>14, BeginsWithJoin
<1>16. IsPrefix(walk, flat \o others)
  BY <1>13, <1>15, BeginsWithIs
<1>17. [n \in DOMAIN Ascending(S) |-> ViewerWalk(snap, Ascending(S)[n])] = seqs
  BY <1>3, <1>4
<1> QED
  BY <1>8, <1>10, <1>12, <1>16, <1>17

LEMMA TreeStartsWithChainIs ==
  ASSUME IsChainSnapshot(snapshot)
  PROVE  TreeStartsWithChain
<1> DEFINE excs == {t \in DOMAIN snapshot : snapshot[t].exc}
           children == UNION {{Cause(snapshot, t), Context(snapshot, t)} : t \in excs}
           root == ChainRoot(snapshot, {})
           walk == Walk(snapshot, root)
           orphans == \A t \in excs : \E u \in excs : t \in {Cause(snapshot, u), Context(snapshot, u)}
<1>1. Exceptions(snapshot, {}) = excs
  BY ExceptionsAll
<1>2. root = IF excs = {} THEN None
             ELSE IF excs \subseteq children THEN Min(excs) ELSE Min(excs \ children)
  BY <1>1 DEF ChainRoot
<1>3. excs \subseteq children => orphans
  OBVIOUS
<1>4. ASSUME ~(excs \subseteq children)
      PROVE  IsPrefix(walk, TreeItems(snapshot))
  <2>1. PICK S \in SUBSET (DOMAIN snapshot) : S = excs \ children
    OBVIOUS
  <2>2. S # {} /\ root = Min(S)
    <3> HIDE DEF excs, children
    <3> QED
      BY <1>2, <1>4, <2>1
  <2>3. PICK others : others = Ascending(DOMAIN snapshot \ excs)
    OBVIOUS
  <2>4. others \in Seq(DOMAIN snapshot)
    <3>1. PICK R \in SUBSET (DOMAIN snapshot) : R = DOMAIN snapshot \ excs
      OBVIOUS
    <3>2. R \in SUBSET (Nat \ {0}) /\ IsFiniteSet(R)
      <4>1. IsFiniteSet(DOMAIN snapshot) /\ DOMAIN snapshot \subseteq Nat \ {0}
        BY DEF IsChainSnapshot
      <4> QED
        BY <4>1, FS_Subset
    <3>3. Ascending(R) \in Seq(R)
      BY <3>2, AscendingSeq
    <3> HIDE DEF excs
    <3> QED
      BY <2>3, <3>1, <3>3
  <2>5. TreeItems(snapshot)
          = FlattenSeq([n \in DOMAIN Ascending(S) |-> ViewerWalk(snapshot, Ascending(S)[n])]) \o others
    BY <2>1, <2>3 DEF TreeItems
  <2>6. IsPrefix(Walk(snapshot, Min(S)),
                 FlattenSeq([n \in DOMAIN Ascending(S) |-> ViewerWalk(snapshot, Ascending(S)[n])])
                   \o others)
    BY <2>2, <2>4, TreeStartsIs
  <2> HIDE DEF root
  <2> QED
    BY <2>2, <2>5, <2>6
<1>5. root # None => IsPrefix(walk, TreeItems(snapshot)) \/ orphans
  <2> HIDE DEF excs, children, root, walk, orphans
  <2> QED
    BY <1>3, <1>4
<1> QED
  BY <1>5 DEF TreeStartsWithChain

(***************************************************************************)
(* The rows of the virtual thread.                                         *)
(***************************************************************************)
\* The rows of one exception: its frames, and perhaps one separator behind them.
GroupRows(snap, c, n, paths, hid) ==
  LET shown == ShownFrames(snap[c[n]], paths, hid)
  IN  [i \in DOMAIN shown |-> FrameRow(c[n], i, shown[i])]
      \o (IF n = 1 THEN <<>> ELSE <<SeparatorRow(Link(snap, c[n - 1]))>>)

IsGroup(s, t, l) ==
  /\ \E R : s \in Seq(R)
  /\ l \in Nat /\ Len(s) \in {l, l + 1}
  /\ \A i \in 1..l : s[i].kind = "frame" /\ s[i].stack = t
  /\ Len(s) = l + 1 => s[l + 1].kind = "separator"

LEMMA ShownSeq ==
  ASSUME NEW stack, NEW R, stack.frames \in Seq(R), NEW paths, NEW hid
  PROVE  ShownFrames(stack, paths, hid) \in Seq(R)
<1>1. PICK S \in SUBSET (DOMAIN stack.frames) :
        S = {i \in DOMAIN stack.frames : stack.frames[i].path \notin paths}
  OBVIOUS
<1>2. Picked(stack.frames, S) \in Seq(R)
  BY PickedIs
<1>3. CASE hid
  BY <1>1, <1>2, <1>3 DEF ShownFrames
<1>4. CASE ~hid
  BY <1>4 DEF ShownFrames
<1> QED
  BY <1>3, <1>4

LEMMA GroupIs ==
  ASSUME NEW snap, NEW c, NEW n, NEW paths, NEW hid, NEW R,
         ShownFrames(snap[c[n]], paths, hid) \in Seq(R)
  PROVE  IsGroup(GroupRows(snap, c, n, paths, hid), c[n],
                 Len(ShownFrames(snap[c[n]], paths, hid)))
<1>1. PICK shown \in Seq(R) : shown = ShownFrames(snap[c[n]], paths, hid)
  OBVIOUS
<1>2. PICK l \in Nat : l = Len(shown) /\ DOMAIN shown = 1..l
  OBVIOUS
<1>3. PICK t : t = c[n]
  OBVIOUS
<1> DEFINE row(i) == FrameRow(t, i, shown[i])
<1>4. PICK rows : rows = [i \in 1..l |-> row(i)]
  OBVIOUS
<1>5. \A i \in 1..l : row(i).kind = "frame" /\ row(i).stack = t
  BY DEF FrameRow
<1> HIDE DEF row
<1>6. /\ rows \in Seq(Range(rows)) /\ Len(rows) = l
      /\ \A i \in 1..l : rows[i].kind = "frame" /\ rows[i].stack = t
  <2>1. \A i \in 1..l : rows[i] = row(i)
    BY <1>4
  <2>2. \A i \in 1..l : row(i) \in Range(rows)
    BY <1>4, <2>1 DEF Range
  <2>3. rows \in Seq(Range(rows)) /\ Len(rows) = l
    BY <1>4, <2>2
  <2> QED
    BY <1>5, <2>1, <2>3
<1>7. PICK s : s = GroupRows(snap, c, n, paths, hid)
  OBVIOUS
<1>8. s = rows \o (IF n = 1 THEN <<>> ELSE <<SeparatorRow(Link(snap, c[n - 1]))>>)
  <2>1. GroupRows(snap, c, n, paths, hid)
          = [i \in DOMAIN shown |-> FrameRow(t, i, shown[i])]
              \o (IF n = 1 THEN <<>> ELSE <<SeparatorRow(Link(snap, c[n - 1]))>>)
    BY <1>1, <1>3 DEF GroupRows
  <2>2. [i \in DOMAIN shown |-> FrameRow(t, i, shown[i])] = rows
    BY <1>2, <1>4 DEF row
  <2> QED
    BY <1>7, <2>1, <2>2
<1>9. CASE n = 1
  <2>1. s = rows
    <3>1. s = rows \o <<>>
      BY <1>8, <1>9
    <3> QED
      BY <1>6, <3>1
  <2>2. IsGroup(s, t, l)
    BY <1>6, <2>1 DEF IsGroup
  <2> QED
    BY <1>1, <1>2, <1>3, <1>7, <2>2
<1>10. CASE n # 1
  <2>1. PICK x : x = SeparatorRow(Link(snap, c[n - 1]))
    OBVIOUS
  <2>2. x.kind = "separator"
    BY <2>1 DEF SeparatorRow
  <2>3. s = rows \o <<x>>
    BY <1>8, <1>10, <2>1
  <2>4. /\ s \in Seq(Range(rows) \cup {x}) /\ Len(s) = l + 1 /\ s[l + 1] = x
        /\ \A i \in 1..l : s[i] = rows[i]
    BY <1>6, <2>3
  <2>5. IsGroup(s, t, l)
    <3>1. \A i \in 1..l : s[i].kind = "frame" /\ s[i].stack = t
      BY <1>6, <2>4
    <3> QED
      BY <2>2, <2>4, <3>1 DEF IsGroup
  <2> QED
    BY <1>1, <1>2, <1>3, <1>7, <2>5
<1> QED
  BY <1>9, <1>10

\* The rows of the exceptions from one on: frames of them and separators, and
\* a separator is never between two frames of the same exception.
RowKinds(s, c, low) ==
  \A p \in 1..Len(s) :
    \/ s[p].kind = "separator"
    \/ s[p].kind = "frame" /\ \E g \in low..Len(c) : s[p].stack = c[g]
Separates(s) ==
  \A p, q, r \in 1..Len(s) :
    p < q /\ q < r /\ s[p].kind = "frame" /\ s[q].kind = "separator" /\ s[r].kind = "frame" =>
      s[p].stack # s[r].stack
FlatGood(s, c, low) == (\E R : s \in Seq(R)) /\ RowKinds(s, c, low) /\ Separates(s)

LEMMA GroupGood ==
  ASSUME NEW c, NEW m \in 1..Len(c), Len(c) \in Nat, NEW s, NEW l, IsGroup(s, c[m], l)
  PROVE  FlatGood(s, c, m)
<1>1. /\ \E R : s \in Seq(R)
      /\ l \in Nat /\ Len(s) \in {l, l + 1}
      /\ \A i \in 1..l : s[i].kind = "frame" /\ s[i].stack = c[m]
      /\ Len(s) = l + 1 => s[l + 1].kind = "separator"
  BY DEF IsGroup
<1>2. \A p \in 1..Len(s) : p \in 1..l \/ (p = l + 1 /\ s[p].kind = "separator")
  BY <1>1
<1>3. RowKinds(s, c, m)
  <2>1. m \in m..Len(c)
    OBVIOUS
  <2> QED
    BY <1>1, <1>2, <2>1 DEF RowKinds
<1>4. Separates(s)
  <2>1. \A q \in 1..l : s[q].kind # "separator"
    BY <1>1
  <2>2. \A q, r \in 1..Len(s) : q < r => q \in 1..l
    BY <1>1
  <2> QED
    BY <2>1, <2>2 DEF Separates
<1> QED
  BY <1>1, <1>3, <1>4 DEF FlatGood

LEMMA FlatJoin ==
  ASSUME NEW c, NEW m \in 1..Len(c), Len(c) \in Nat, \A i, j \in 1..Len(c) : c[i] = c[j] => i = j,
         NEW s, FlatGood(s, c, m + 1), NEW t, NEW l, IsGroup(t, c[m], l)
  PROVE  FlatGood(s \o t, c, m)
<1>1. PICK R : s \in Seq(R) /\ RowKinds(s, c, m + 1) /\ Separates(s)
  BY DEF FlatGood
<1>2. PICK Q : t \in Seq(Q) /\ RowKinds(t, c, m)
  BY GroupGood DEF FlatGood
<1>3. PICK u : u = s \o t
  OBVIOUS
<1>4. PICK a \in Nat, b \in Nat : a = Len(s) /\ b = Len(t)
  BY <1>1, <1>2
<1>5. /\ u \in Seq(R \cup Q) /\ Len(u) = a + b
      /\ \A i \in 1..a : u[i] = s[i]
      /\ \A i \in 1..b : u[a + i] = t[i]
  <2>1. /\ s \o t \in Seq(R \cup Q) /\ Len(s \o t) = Len(s) + Len(t)
        /\ \A i \in 1..Len(s) : (s \o t)[i] = s[i]
        /\ \A i \in 1..Len(t) : (s \o t)[Len(s) + i] = t[i]
    BY <1>1, <1>2, JoinIs
  <2> QED
    BY <1>3, <1>4, <2>1
<1>6. \A p \in 1..(a + b) : \/ p \in 1..a /\ u[p] = s[p]
                            \/ p > a /\ p - a \in 1..b /\ u[p] = t[p - a]
  <2>1. \A p \in 1..(a + b) : p \in 1..a \/ (p > a /\ p - a \in 1..b /\ a + (p - a) = p)
    OBVIOUS
  <2> QED
    BY <1>5, <2>1
<1>7. RowKinds(u, c, m)
  <2>1. ASSUME NEW p \in 1..Len(u)
        PROVE  \/ u[p].kind = "separator"
               \/ u[p].kind = "frame" /\ \E g \in m..Len(c) : u[p].stack = c[g]
    <3>1. CASE p \in 1..a /\ u[p] = s[p]
      <4>1. \/ s[p].kind = "separator"
            \/ s[p].kind = "frame" /\ \E g \in (m + 1)..Len(c) : s[p].stack = c[g]
        BY <1>1, <1>4, <3>1 DEF RowKinds
      <4>2. \A g \in (m + 1)..Len(c) : g \in m..Len(c)
        OBVIOUS
      <4> QED
        BY <3>1, <4>1, <4>2
    <3>2. CASE p - a \in 1..b /\ u[p] = t[p - a]
      <4>1. \/ t[p - a].kind = "separator"
            \/ t[p - a].kind = "frame" /\ \E g \in m..Len(c) : t[p - a].stack = c[g]
        BY <1>2, <1>4, <3>2 DEF RowKinds
      <4> QED
        BY <3>2, <4>1
    <3> QED
      BY <1>5, <1>6, <3>1, <3>2
  <2> QED
    BY <2>1 DEF RowKinds
<1>8. Separates(u)
  <2>1. ASSUME NEW p \in 1..Len(u), NEW q \in 1..Len(u), NEW r \in 1..Len(u), p < q, q < r,
               u[p].kind = "frame", u[q].kind = "separator", u[r].kind = "frame"
        PROVE  u[p].stack # u[r].stack
    <3>0. p \in 1..(a + b) /\ q \in 1..(a + b) /\ r \in 1..(a + b)
      BY <1>5
    <3>1. CASE r \in 1..a /\ u[r] = s[r]
      <4>1. p \in 1..a /\ q \in 1..a
        BY <2>1, <3>0, <3>1
      <4>2. u[p] = s[p] /\ u[q] = s[q]
        BY <1>5, <4>1
      <4> QED
        BY <1>1, <1>4, <2>1, <3>1, <4>1, <4>2 DEF Separates
    <3>2. CASE r > a /\ r - a \in 1..b /\ u[r] = t[r - a]
      <4>0. /\ l \in Nat /\ b \in {l, l + 1}
            /\ \A i \in 1..l : t[i].kind = "frame" /\ t[i].stack = c[m]
            /\ b = l + 1 => t[l + 1].kind = "separator"
        BY <1>4 DEF IsGroup
      <4>1. r - a \in 1..l
        <5>1. t[r - a].kind # "separator"
          BY <2>1, <3>2
        <5>2. r - a # l + 1 \/ b # l + 1
          BY <4>0, <5>1
        <5> QED
          BY <3>2, <4>0, <5>2
      <4>2. u[r].stack = c[m]
        BY <3>2, <4>0, <4>1
      <4>3. q \in 1..a
        <5> SUFFICES ASSUME q \notin 1..a PROVE FALSE
          OBVIOUS
        <5>1. q - a \in 1..b /\ u[q] = t[q - a]
          BY <1>6, <3>0
        <5>2. q - a \in 1..l
          BY <2>1, <3>0, <4>0, <4>1, <5>1
        <5>3. t[q - a].kind = "frame"
          BY <4>0, <5>2
        <5> QED
          BY <2>1, <5>1, <5>3
      <4>4. p \in 1..a /\ u[p] = s[p]
        <5>1. p \in 1..a
          BY <2>1, <3>0, <4>3
        <5> QED
          BY <1>5, <5>1
      <4>5. PICK g \in (m + 1)..Len(c) : s[p].stack = c[g]
        <5>1. s[p].kind = "frame"
          BY <2>1, <4>4
        <5> QED
          BY <1>1, <1>4, <4>4, <5>1 DEF RowKinds
      <4>6. c[g] # c[m]
        <5>1. g \in 1..Len(c) /\ g # m
          OBVIOUS
        <5> QED
          BY <5>1
      <4> QED
        BY <4>2, <4>4, <4>5, <4>6
    <3> QED
      BY <1>6, <3>0, <3>1, <3>2
  <2> QED
    BY <2>1 DEF Separates
<1> QED
  BY <1>3, <1>5, <1>7, <1>8 DEF FlatGood

\* The rows start with the frames of the last exception, if those are shown.
StartsAt(s, t) == Len(s) >= 1 /\ s[1].kind = "frame" /\ s[1].stack = t

LEMMA FlatRowsAre ==
  ASSUME NEW snap, IsChainSnapshot(snap), NEW root \in DOMAIN snap, NEW paths, NEW hid
  PROVE  LET c == Walk(snap, root)
             s == FlatRows(snap, root, paths, hid)
         IN  /\ FlatGood(s, c, 1)
             /\ ShownFrames(snap[Last(c)], paths, hid) # <<>> => StartsAt(s, Last(c))
<1>1. PICK c : c = Walk(snap, root) /\ IsWay(snap, root, c)
  BY DepthAssumption, WalkIsWay DEF Walk
<1>2. c \in Seq(DOMAIN snap) /\ \A i, j \in 1..Len(c) : c[i] = c[j] => i = j
  BY <1>1 DEF IsWay
<1>3. PICK n \in Nat : n = Len(c) /\ n >= 1 /\ n # 0 /\ DOMAIN c = 1..n
  BY <1>1 DEF IsWay
<1> DEFINE group(k) == GroupRows(snap, c, k, paths, hid)
           size(k) == Len(ShownFrames(snap[c[k]], paths, hid))
<1>4. ASSUME NEW k \in 1..n
      PROVE  IsGroup(group(k), c[k], size(k)) /\ \E R : ShownFrames(snap[c[k]], paths, hid) \in Seq(R)
  <2>1. PICK t \in DOMAIN snap : t = c[k]
    BY <1>2, <1>3
  <2>2. PICK R : snap[t].frames \in Seq(R)
    BY DEF IsChainSnapshot
  <2>3. ShownFrames(snap[c[k]], paths, hid) \in Seq(R)
    BY <2>1, <2>2, ShownSeq
  <2> QED
    BY <2>3, GroupIs
<1>5. PICK seqs : seqs = [k \in 1..n |-> group(n + 1 - k)]
  OBVIOUS
<1>6. Len(seqs) = n /\ \A k \in 1..n : seqs[k] = group(n + 1 - k)
  BY <1>5
<1>7. FlatRows(snap, root, paths, hid) = FlattenSeq(seqs)
  <2>1. FlatRows(snap, root, paths, hid)
          = FlattenSeq([k \in DOMAIN c |-> GroupRows(snap, c, Len(c) + 1 - k, paths, hid)])
    BY <1>1, Zenon DEF FlatRows, GroupRows
  <2>2. seqs = [k \in DOMAIN c |-> GroupRows(snap, c, Len(c) + 1 - k, paths, hid)]
    BY <1>3, <1>5
  <2> QED
    BY <2>1, <2>2
<1>8. PICK flat : /\ FlattenSeq(seqs) = flat[n]
                  /\ \A i \in 1..n : flat[i] = IF i = 1 THEN seqs[i] ELSE flat[i - 1] \o seqs[i]
  BY <1>3, <1>6, FlatSteps
<1> HIDE DEF group, size
<1>9. Last(c) = c[n]
  BY <1>3 DEF Last
<1> DEFINE starts == ShownFrames(snap[c[n]], paths, hid) # <<>>
           Good(k) == FlatGood(flat[k], c, n + 1 - k) /\ (starts => StartsAt(flat[k], c[n]))
           T == {k \in Nat : k + 1 <= n => Good(k + 1)}
<1>10. 0 \in T
  <2>1. 1 \in 1..n /\ n \in 1..n /\ n + 1 - 1 = n /\ 0 + 1 = 1
    BY <1>3
  <2>2. PICK s : s = flat[1] /\ s = group(n)
    BY <1>6, <1>8, <2>1
  <2>3. IsGroup(s, c[n], size(n))
    BY <1>4, <2>1, <2>2
  <2>4. FlatGood(s, c, n)
    BY <1>3, <2>1, <2>3, GroupGood
  <2>5. starts => StartsAt(s, c[n])
    <3> SUFFICES ASSUME starts PROVE StartsAt(s, c[n])
      OBVIOUS
    <3>1. size(n) \in Nat /\ size(n) >= 1
      <4>1. PICK R : ShownFrames(snap[c[n]], paths, hid) \in Seq(R)
        BY <1>4, <2>1
      <4>2. PICK shown \in Seq(R) : shown = ShownFrames(snap[c[n]], paths, hid) /\ shown # <<>>
        BY <4>1
      <4>3. Len(shown) \in Nat /\ Len(shown) >= 1
        BY <4>2
      <4> QED
        BY <4>2, <4>3 DEF size
    <3>2. PICK l \in Nat : l = size(n) /\ l >= 1
      BY <3>1
    <3>3. IsGroup(s, c[n], l)
      BY <2>3, <3>2
    <3>4. Len(s) \in {l, l + 1} /\ s[1].kind = "frame" /\ s[1].stack = c[n]
      BY <3>2, <3>3 DEF IsGroup
    <3> QED
      BY <3>2, <3>4 DEF StartsAt
  <2>6. Good(1)
    <3> HIDE DEF starts
    <3> QED
      BY <2>1, <2>2, <2>4, <2>5
  <2> HIDE DEF Good
  <2> QED
    BY <2>1, <2>6
<1>11. ASSUME NEW j \in Nat, j \in T
       PROVE  j + 1 \in T
  <2> SUFFICES ASSUME (j + 1) + 1 <= n PROVE Good((j + 1) + 1)
    OBVIOUS
  <2>1. PICK k \in Nat : k = j + 1 /\ k >= 1 /\ k + 1 <= n
    OBVIOUS
  <2>2. PICK m \in 1..n : m = n - k /\ m + 1 = n + 1 - k /\ m = n + 1 - (k + 1)
    <3>1. n - k \in 1..n /\ (n - k) + 1 = n + 1 - k /\ n - k = n + 1 - (k + 1)
      BY <1>3, <2>1
    <3> QED
      BY <3>1
  <2>3. PICK s, t : s = flat[k] /\ t = group(m)
    OBVIOUS
  <2>4. FlatGood(s, c, m + 1) /\ (starts => StartsAt(s, c[n]))
    <3>1. Good(k)
      BY <1>11, <2>1
    <3> QED
      BY <2>2, <2>3, <3>1
  <2>5. IsGroup(t, c[m], size(m))
    BY <1>4, <2>3
  <2>6. flat[k + 1] = s \o t
    <3>1. k + 1 \in 1..n /\ k + 1 # 1 /\ (k + 1) - 1 = k
      BY <2>1
    <3>2. seqs[k + 1] = t
      BY <1>6, <2>2, <2>3, <3>1
    <3> QED
      BY <1>8, <2>3, <3>1, <3>2
  <2>7. FlatGood(s \o t, c, m)
    <3>1. m \in 1..Len(c) /\ Len(c) \in Nat
      BY <1>3
    <3> HIDE DEF T, Good, starts
    <3> QED
      BY <1>2, <2>4, <2>5, <3>1, FlatJoin
  <2>8. starts => StartsAt(s \o t, c[n])
    <3> SUFFICES ASSUME starts PROVE StartsAt(s \o t, c[n])
      OBVIOUS
    <3>1. PICK R, Q : s \in Seq(R) /\ t \in Seq(Q)
      BY <2>4, <2>5 DEF FlatGood, IsGroup
    <3>2. Len(s) >= 1 /\ s[1].kind = "frame" /\ s[1].stack = c[n]
      BY <2>4 DEF StartsAt
    <3>3. PICK u : u = s \o t
      OBVIOUS
    <3>4. Len(u) >= 1 /\ u[1] = s[1]
      BY <3>1, <3>2, <3>3
    <3> QED
      BY <3>2, <3>3, <3>4 DEF StartsAt
  <2>9. Good(k + 1)
    <3> HIDE DEF starts
    <3> QED
      BY <2>2, <2>6, <2>7, <2>8
  <2> HIDE DEF Good
  <2> QED
    BY <2>1, <2>9
<1>12. Good(n)
  <2>1. Nat \subseteq T
    <3> HIDE DEF T
    <3> QED
      BY <1>10, <1>11, NatInd
  <2>2. n - 1 \in Nat /\ (n - 1) + 1 = n
    BY <1>3
  <2> HIDE DEF Good
  <2> QED
    BY <2>1, <2>2
<1>13. n + 1 - n = 1
  BY <1>3
<1>14. PICK s : s = FlatRows(snap, root, paths, hid) /\ s = flat[n]
  BY <1>7, <1>8
<1>15. FlatGood(s, c, 1) /\ (starts => StartsAt(s, c[n]))
  BY <1>12, <1>13, <1>14
<1>16. ShownFrames(snap[Last(c)], paths, hid) # <<>> => StartsAt(s, Last(c))
  BY <1>9, <1>15
<1> QED
  BY <1>1, <1>14, <1>15, <1>16

\* A separator that is kept is between frames of two exceptions.
Between(rows) ==
  \A i \in DOMAIN rows : rows[i].kind = "separator" =>
    /\ i > 1 /\ i < Len(rows)
    /\ rows[i - 1].kind = "frame" /\ rows[i + 1].kind = "frame"
    /\ rows[i - 1].stack # rows[i + 1].stack

\* There is no number of a set between two that follow each other in its order.
LEMMA NextInOrder ==
  ASSUME NEW a, NEW n \in Nat, NEW S \in SUBSET Int, Ascends(a, n, S), NEW i \in 1..n, NEW k \in S
  PROVE  /\ k < a[i] => i > 1 /\ k <= a[i - 1]
         /\ a[i] < k => i < n /\ a[i + 1] <= k
<1>1. /\ \A p \in 1..n : a[p] \in S
      /\ \A p, q \in 1..n : p < q => a[p] < a[q]
      /\ \A j \in S : \E p \in 1..n : a[p] = j
  BY DEF Ascends
<1>2. PICK p \in 1..n : a[p] = k
  BY <1>1
<1>3. \A j \in S : j \in Int
  OBVIOUS
<1>4. a[i] \in Int /\ a[p] \in Int
  BY <1>1, <1>3
<1>5. ASSUME k < a[i]
      PROVE  i > 1 /\ k <= a[i - 1]
  <2>1. p < i
    <3>1. ~(i < p)
      <4>1. i < p => a[i] < a[p]
        BY <1>1
      <4> QED
        BY <1>2, <1>4, <1>5, <4>1
    <3>2. i # p
      BY <1>2, <1>4, <1>5
    <3> QED
      BY <3>1, <3>2
  <2>2. i - 1 \in 1..n
    BY <2>1
  <2>3. p = i - 1 \/ a[p] < a[i - 1]
    <3>1. p < i - 1 => a[p] < a[i - 1]
      BY <1>1, <2>2
    <3> QED
      BY <2>1, <3>1
  <2>4. a[i - 1] \in Int
    BY <1>1, <1>3, <2>2
  <2> QED
    BY <1>2, <1>4, <2>1, <2>3, <2>4
<1>6. ASSUME a[i] < k
      PROVE  i < n /\ a[i + 1] <= k
  <2>1. i < p
    <3>1. ~(p < i)
      <4>1. p < i => a[p] < a[i]
        BY <1>1
      <4> QED
        BY <1>2, <1>4, <1>6, <4>1
    <3>2. i # p
      BY <1>2, <1>4, <1>6
    <3> QED
      BY <3>1, <3>2
  <2>2. i + 1 \in 1..n
    BY <2>1
  <2>3. p = i + 1 \/ a[i + 1] < a[p]
    <3>1. i + 1 < p => a[i + 1] < a[p]
      BY <1>1, <2>2
    <3> QED
      BY <2>1, <3>1
  <2>4. a[i + 1] \in Int
    BY <1>1, <1>3, <2>2
  <2> QED
    BY <1>2, <1>4, <2>1, <2>3, <2>4
<1> QED
  BY <1>5, <1>6

LEMMA PrunedIs ==
  ASSUME NEW flat, NEW c, FlatGood(flat, c, 1)
  PROVE  LET rows == PruneOrphanSeparators(flat)
         IN  /\ \E R : rows \in Seq(R)
             /\ Between(rows)
             /\ \A t : StartsAt(flat, t) => StartsAt(rows, t)
<1> DEFINE isFrame(i) == flat[i].kind = "frame"
           stays(i) == \/ isFrame(i)
                       \/ i > 1 /\ isFrame(i - 1) /\ \E j \in i + 1..Len(flat) : isFrame(j)
           S == {i \in DOMAIN flat : stays(i)}
           a == Ascending(S)
<1>1. PICK Q : flat \in Seq(Q) /\ RowKinds(flat, c, 1) /\ Separates(flat)
  BY DEF FlatGood
<1>2. PICK l \in Nat : l = Len(flat) /\ DOMAIN flat = 1..l
  BY <1>1
<1>3. PICK rows : rows = PruneOrphanSeparators(flat)
  OBVIOUS
<1>4. rows = Picked(flat, S)
  BY <1>3 DEF PruneOrphanSeparators
<1>5. S \in SUBSET (1..l) /\ \A i \in 1..l : i \in S <=> stays(i)
  BY <1>2
<1>6. \A i \in 1..l : isFrame(i) \/ flat[i].kind = "separator"
  BY <1>1, <1>2 DEF RowKinds
<1>7. \A i \in 1..l : isFrame(i) => i \in S
  BY <1>5
<1>8. \A i \in S : ~isFrame(i) =>
        i > 1 /\ isFrame(i - 1) /\ \E j \in 1..l : i < j /\ isFrame(j)
  <2>1. ASSUME NEW i \in S, ~isFrame(i)
        PROVE  i > 1 /\ isFrame(i - 1) /\ \E j \in 1..l : i < j /\ isFrame(j)
    <3>1. i \in 1..l /\ stays(i)
      BY <1>5
    <3>2. i > 1 /\ isFrame(i - 1) /\ \E j \in i + 1..Len(flat) : isFrame(j)
      BY <2>1, <3>1
    <3>3. PICK j \in i + 1..l : isFrame(j)
      BY <1>2, <3>2
    <3>4. j \in 1..l /\ i < j
      BY <3>1
    <3> HIDE DEF isFrame
    <3> QED
      BY <3>2, <3>3, <3>4
  <2> QED
    BY <2>1
<1>9. \E R : rows \in Seq(R)
  <2>1. S \in SUBSET (DOMAIN flat)
    BY <1>2, <1>5
  <2> HIDE DEF S
  <2>2. Picked(flat, S) \in Seq(Q)
    BY <1>1, <2>1, PickedIs
  <2> QED
    BY <1>4, <2>2
<1> HIDE DEF S, stays
<1>10. PICK n \in Nat : DOMAIN a = 1..n /\ Ascends(a, n, S)
  BY <1>5, AscendingOrder
<1>11. rows = [i \in 1..n |-> flat[a[i]]] /\ Len(rows) = n /\ DOMAIN rows = 1..n
  <2>1. rows = [i \in DOMAIN a |-> flat[a[i]]]
    BY <1>4 DEF Picked
  <2>2. rows = [i \in 1..n |-> flat[a[i]]]
    BY <1>10, <2>1
  <2>3. DOMAIN rows = 1..n
    BY <2>2
  <2> HIDE DEF a
  <2>4. Len(rows) = n
    BY <1>9, <2>3
  <2> QED
    BY <2>2, <2>3, <2>4
<1> HIDE DEF a
<1>12. S \in SUBSET Int /\ \A k \in S : k \in 1..l
  BY <1>5
<1>13. \A i \in 1..n : a[i] \in S
  BY <1>10 DEF Ascends
<1>14. Between(rows)
  <2> SUFFICES ASSUME NEW i \in 1..n, rows[i].kind = "separator"
               PROVE  /\ i > 1 /\ i < n
                      /\ rows[i - 1].kind = "frame" /\ rows[i + 1].kind = "frame"
                      /\ rows[i - 1].stack # rows[i + 1].stack
    BY <1>11 DEF Between
  <2>1. PICK p \in S : p = a[i] /\ p \in 1..l /\ flat[p].kind = "separator" /\ ~isFrame(p)
    <3>1. a[i] \in S /\ a[i] \in 1..l
      BY <1>12, <1>13
    <3>2. rows[i] = flat[a[i]]
      BY <1>11
    <3> QED
      BY <3>1, <3>2
  <2>2. p > 1 /\ isFrame(p - 1) /\ \E j \in 1..l : p < j /\ isFrame(j)
    BY <1>8, <2>1
  <2>3. PICK j \in 1..l : p < j /\ isFrame(j)
    BY <2>2
  <2>4. PICK o \in 1..l : o = p - 1 /\ o < p /\ isFrame(o)
    <3>1. p - 1 \in 1..l /\ p - 1 < p
      BY <2>1, <2>2
    <3> QED
      BY <2>2, <3>1
  <2>5. o \in S /\ j \in S
    BY <1>7, <2>3, <2>4
  <2>6. i > 1 /\ o <= a[i - 1]
    BY <1>10, <1>12, <2>1, <2>4, <2>5, NextInOrder
  <2>7. i < n /\ a[i + 1] <= j
    BY <1>10, <1>12, <2>1, <2>3, <2>5, NextInOrder
  <2>8. i - 1 \in 1..n /\ i + 1 \in 1..n
    BY <2>6, <2>7
  <2>9. a[i - 1] < a[i] /\ a[i] < a[i + 1]
    <3>1. i - 1 < i /\ i < i + 1
      OBVIOUS
    <3> QED
      BY <1>10, <2>8, <3>1 DEF Ascends
  <2>10. PICK q \in S : q = a[i + 1] /\ q \in 1..l /\ p < q
    BY <1>12, <1>13, <2>1, <2>8, <2>9
  <2>11. a[i - 1] = o
    <3>1. a[i - 1] \in 1..l
      BY <1>12, <1>13, <2>8
    <3> QED
      BY <2>1, <2>4, <2>6, <2>9, <3>1
  <2>12. isFrame(q)
    <3> SUFFICES ASSUME ~isFrame(q) PROVE FALSE
      OBVIOUS
    <3>1. q > 1 /\ isFrame(q - 1)
      BY <1>8, <2>10
    <3>2. q - 1 \in 1..l
      BY <2>10, <3>1
    <3>3. q - 1 \in S
      BY <1>7, <3>1, <3>2
    <3>4. q - 1 # p
      BY <2>1, <3>1
    <3>5. PICK k \in S : k = q - 1 /\ p < k /\ k < q
      BY <2>10, <3>2, <3>3, <3>4
    <3>6. q <= k
      BY <1>10, <1>12, <2>1, <2>10, <3>5, NextInOrder
    <3> QED
      BY <2>10, <3>2, <3>5, <3>6
  <2>13. flat[o].stack # flat[q].stack
    <3>1. o < p /\ p < q /\ o \in 1..Len(flat) /\ p \in 1..Len(flat) /\ q \in 1..Len(flat)
      BY <1>2, <2>1, <2>4, <2>10
    <3> QED
      BY <1>1, <2>1, <2>4, <2>12, <3>1 DEF Separates
  <2>14. rows[i - 1] = flat[o] /\ rows[i + 1] = flat[q]
    BY <1>11, <2>8, <2>10, <2>11
  <2> QED
    BY <2>4, <2>6, <2>7, <2>12, <2>13, <2>14
<1>15. ASSUME NEW t, StartsAt(flat, t)
       PROVE  StartsAt(rows, t)
  <2>1. l >= 1 /\ isFrame(1) /\ flat[1].stack = t
    BY <1>2, <1>15 DEF StartsAt
  <2>2. 1 \in S
    <3>1. 1 \in 1..l
      BY <2>1
    <3> QED
      BY <1>7, <2>1, <3>1
  <2>3. PICK i \in 1..n : a[i] = 1
    BY <1>10, <2>2 DEF Ascends
  <2>4. 1 \in 1..n /\ a[1] \in 1..l
    <3>1. 1 \in 1..n
      BY <2>3
    <3> QED
      BY <1>12, <1>13, <3>1
  <2>5. a[1] = 1
    <3>1. 1 < i => a[1] < a[i]
      BY <1>10, <2>4 DEF Ascends
    <3> QED
      BY <2>3, <2>4, <3>1
  <2>6. rows[1] = flat[1]
    BY <1>11, <2>4, <2>5
  <2>7. Len(rows) >= 1
    BY <1>11, <2>4
  <2> QED
    BY <2>1, <2>6, <2>7 DEF StartsAt
<1> QED
  BY <1>3, <1>9, <1>14, <1>15

LEMMA ViewRootIs ==
  ASSUME NEW snap, IsChainSnapshot(snap), NEW paths, ChainRoot(snap, paths) # None
  PROVE  ChainRoot(snap, paths) \in DOMAIN snap
<1> DEFINE all == Exceptions(snap, paths)
           inner == UNION {{Cause(snap, t), Context(snap, t)} : t \in all}
<1>1. DOMAIN snap \subseteq Nat \ {0}
  BY DEF IsChainSnapshot
<1>2. all \subseteq DOMAIN snap /\ all \in SUBSET Nat /\ all \ inner \in SUBSET Nat
  BY <1>1 DEF Exceptions
<1>3. /\ all # {}
      /\ ChainRoot(snap, paths) = IF all \subseteq inner THEN Min(all) ELSE Min(all \ inner)
  BY DEF ChainRoot
<1> HIDE DEF all, inner
<1>4. CASE all \subseteq inner
  <2>1. Min(all) \in all
    BY <1>2, <1>3, MinOf
  <2> QED
    BY <1>2, <1>3, <1>4, <2>1
<1>5. CASE ~(all \subseteq inner)
  <2>1. Min(all \ inner) \in all \ inner
    <3>1. all \ inner # {}
      BY <1>5
    <3> QED
      BY <1>2, <3>1, MinOf
  <2> QED
    BY <1>2, <1>3, <1>5, <2>1
<1> QED
  BY <1>4, <1>5

\* The rows of a chain that is shown.
LEMMA RowsAre ==
  ASSUME IsChainSnapshot(snapshot), Root # None
  PROVE  /\ \E R : Rows \in Seq(R)
         /\ Between(Rows)
         /\ LET t == Innermost(snapshot, Root)
            IN  ShownFrames(snapshot[t], Excluded, hideFiltered) # <<>> => StartsAt(Rows, t)
<1>1. PICK root \in DOMAIN snapshot : root = Root /\ root = ChainRoot(snapshot, Excluded)
  BY ViewRootIs DEF Root
<1>2. PICK flat : flat = FlatRows(snapshot, root, Excluded, hideFiltered)
  OBVIOUS
<1>3. PICK c : c = Walk(snapshot, root)
  OBVIOUS
<1>4. /\ FlatGood(flat, c, 1)
      /\ ShownFrames(snapshot[Last(c)], Excluded, hideFiltered) # <<>> => StartsAt(flat, Last(c))
  BY <1>2, <1>3, FlatRowsAre
<1>5. PICK rows : rows = Rows /\ rows = PruneOrphanSeparators(flat)
  BY <1>1, <1>2 DEF Rows, ChainRows
<1>6. /\ \E R : rows \in Seq(R)
      /\ Between(rows)
      /\ \A t : StartsAt(flat, t) => StartsAt(rows, t)
  BY <1>4, <1>5, PrunedIs
<1>7. Innermost(snapshot, root) = Last(c)
  BY <1>3, InnermostIs
<1> QED
  BY <1>1, <1>4, <1>5, <1>6, <1>7

LEMMA StackOfChainIs ==
  ASSUME IsChainSnapshot(snapshot)
  PROVE  StackOfChain
<1>1. SeparatorsBetweenGroups
  <2> SUFFICES ASSUME Root # None PROVE Between(Rows)
    BY DEF SeparatorsBetweenGroups, Between
  <2> QED
    BY RowsAre
<1>2. InnermostOnTop
  <2> SUFFICES ASSUME Root # None,
                      ShownFrames(snapshot[Innermost(snapshot, Root)], Excluded, hideFiltered) # <<>>
               PROVE  /\ Rows # <<>> /\ Rows[1].kind = "frame"
                      /\ Rows[1].stack = Innermost(snapshot, Root)
    BY DEF InnermostOnTop
  <2>1. StartsAt(Rows, Innermost(snapshot, Root))
    BY RowsAre
  <2>2. PICK R : Rows \in Seq(R)
    BY RowsAre
  <2>3. PICK rows \in Seq(R) : rows = Rows
    BY <2>2
  <2>4. Len(rows) >= 1 /\ rows[1].kind = "frame" /\ rows[1].stack = Innermost(snapshot, Root)
    BY <2>1, <2>3 DEF StartsAt
  <2>5. rows # <<>>
    BY <2>4
  <2> QED
    BY <2>3, <2>4, <2>5
<1> QED
  BY <1>1, <1>2 DEF StackOfChain

\* What starts a sequence, with what follows it.
LEMMA PagesJoin ==
  ASSUME NEW R, NEW s \in Seq(R), NEW m \in Nat, NEW n \in Nat, m <= n, n <= Len(s)
  PROVE  SubSeq(s, 1, m) \o SubSeq(s, m + 1, n) = SubSeq(s, 1, n)
<1>1. PICK a : a = SubSeq(s, 1, m)
  OBVIOUS
<1>2. PICK b : b = SubSeq(s, m + 1, n)
  OBVIOUS
<1>3. PICK c : c = SubSeq(s, 1, n)
  OBVIOUS
<1>4. a \in Seq(R) /\ Len(a) = m /\ \A i \in 1..m : a[i] = s[i]
  BY <1>1
<1>5. b \in Seq(R) /\ Len(b) = n - m /\ \A i \in 1..(n - m) : b[i] = s[m + i]
  BY <1>2
<1>6. c \in Seq(R) /\ Len(c) = n /\ \A i \in 1..n : c[i] = s[i]
  BY <1>3
<1>7. PICK d : d = a \o b
  OBVIOUS
<1>8. /\ d \in Seq(R \cup R) /\ Len(d) = m + (n - m)
      /\ \A i \in 1..m : d[i] = a[i]
      /\ \A i \in 1..(n - m) : d[m + i] = b[i]
  <2>1. /\ a \o b \in Seq(R \cup R) /\ Len(a \o b) = Len(a) + Len(b)
        /\ \A i \in 1..Len(a) : (a \o b)[i] = a[i]
        /\ \A i \in 1..Len(b) : (a \o b)[Len(a) + i] = b[i]
    BY <1>4, <1>5, JoinIs
  <2> QED
    BY <1>4, <1>5, <1>7, <2>1
<1>9. \A i \in 1..n : d[i] = c[i]
  <2>1. \A i \in 1..n : i \in 1..m \/ (i - m \in 1..(n - m) /\ m + (i - m) = i)
    OBVIOUS
  <2>2. \A i \in 1..n : i - m \in 1..(n - m) => d[i] = s[i]
    <3> SUFFICES ASSUME NEW i \in 1..n, i - m \in 1..(n - m) PROVE d[i] = s[i]
      OBVIOUS
    <3>1. PICK j \in 1..(n - m) : j = i - m /\ m + j = i
      BY <2>1
    <3>2. d[m + j] = b[j] /\ b[j] = s[m + j]
      BY <1>5, <1>8
    <3> QED
      BY <3>1, <3>2
  <2>3. \A i \in 1..n : i \in 1..m => d[i] = s[i]
    BY <1>4, <1>8
  <2> QED
    BY <1>6, <2>1, <2>2, <2>3
<1>10. Len(d) = n
  BY <1>8
<1>11. d = c
  BY <1>6, <1>8, <1>9, <1>10, SameElements
<1> QED
  BY <1>1, <1>2, <1>3, <1>7, <1>11

(***************************************************************************)
(* The client of the virtual thread.                                       *)
(***************************************************************************)
\* The snapshot is one of those, and the client has asked for so many rows.
PagesInv == snapshot \in Snapshots /\ asked \in Nat /\ PagesAddUp

LEMMA RowsSeq ==
  ASSUME snapshot \in Snapshots
  PROVE  \E R : Rows \in Seq(R)
<1>1. IsChainSnapshot(snapshot)
  BY ViewAssumption
<1>2. CASE Root = None
  <2>1. Rows = <<>>
    BY <1>2 DEF Rows
  <2>2. <<>> \in Seq({})
    OBVIOUS
  <2> QED
    BY <2>1, <2>2
<1>3. CASE Root # None
  BY <1>1, <1>3, RowsAre
<1> QED
  BY <1>2, <1>3

LEMMA ViewInitial == ViewInit => PagesInv
<1> SUFFICES ASSUME ViewInit PROVE PagesInv
  OBVIOUS
<1>1. snapshot \in Snapshots /\ asked = 0 /\ got = <<>>
  BY DEF ViewInit
<1>2. PICK R, rows : rows = Rows /\ rows \in Seq(R)
  BY <1>1, RowsSeq
<1>3. PICK n \in Nat : n = Len(rows)
  BY <1>2
<1>4. Min({0, n}) = 0
  <2>1. 0 \in Int /\ n \in Int
    OBVIOUS
  <2>2. Min({0, n}) \in {0, n} /\ Min({0, n}) <= 0
    BY <2>1, MinOfTwo
  <2> QED
    BY <2>2
<1>5. SubSeq(rows, 1, 0) = <<>>
  BY <1>2
<1> QED
  BY <1>1, <1>2, <1>3, <1>4, <1>5 DEF PagesInv, PagesAddUp

LEMMA ViewStep == PagesInv /\ [ViewNext]_viewVars => PagesInv'
<1> SUFFICES ASSUME PagesInv, [ViewNext]_viewVars PROVE PagesInv'
  OBVIOUS
<1>1. snapshot \in Snapshots /\ asked \in Nat /\ got = SubSeq(Rows, 1, Min({asked, Len(Rows)}))
  BY DEF PagesInv, PagesAddUp
<1>2. CASE UNCHANGED viewVars
  <2>1. snapshot' = snapshot /\ asked' = asked /\ got' = got /\ hideFiltered' = hideFiltered
    BY <1>2 DEF viewVars
  <2>2. Rows' = Rows
    BY <2>1 DEF Rows, Root
  <2> QED
    BY <1>1, <2>1, <2>2 DEF PagesInv, PagesAddUp
<1>3. ASSUME NEW levels \in 0..MaxLevels, StackTracePage(levels)
      PROVE  PagesInv'
  <2>1. /\ asked <= Len(Rows)
        /\ got' = got \o Page(Rows, asked, levels)
        /\ asked' = IF levels = 0 THEN Len(Rows) + 1 ELSE asked + levels
        /\ snapshot' = snapshot /\ hideFiltered' = hideFiltered
    BY <1>3 DEF StackTracePage
  <2>2. Rows' = Rows
    BY <2>1 DEF Rows, Root
  <2>3. PICK R, rows : rows = Rows /\ rows \in Seq(R)
    BY <1>1, RowsSeq
  <2>4. PICK l \in Nat : l = Len(rows)
    BY <2>3
  <2>5. levels \in Nat
    BY ViewAssumption
  <2>6. PICK m \in Nat : m = asked /\ m <= l
    BY <1>1, <2>1, <2>3, <2>4
  <2>7. Min({m, l}) = m
    <3>1. m \in Int /\ l \in Int
      OBVIOUS
    <3>2. Min({m, l}) \in {m, l} /\ Min({m, l}) <= m
      BY <3>1, MinOfTwo
    <3> QED
      BY <2>6, <3>2
  <2>8. got = SubSeq(rows, 1, m)
    BY <1>1, <2>3, <2>4, <2>6, <2>7
  <2>9. PICK b \in Nat : b = asked' /\ b = IF levels = 0 THEN l + 1 ELSE m + levels
    <3>1. asked' = IF levels = 0 THEN l + 1 ELSE m + levels
      BY <2>1, <2>3, <2>4, <2>6
    <3>2. (IF levels = 0 THEN l + 1 ELSE m + levels) \in Nat
      BY <2>5
    <3> QED
      BY <3>1, <3>2
  <2>10. PICK n \in Nat : n = Min({b, l}) /\ m <= n /\ n <= l
    <3>1. Min({b, l}) \in {b, l} /\ Min({b, l}) <= l
      <4>1. b \in Int /\ l \in Int
        OBVIOUS
      <4> QED
        BY <4>1, MinOfTwo
    <3>2. m <= b
      BY <2>5, <2>6, <2>9
    <3> QED
      BY <2>6, <3>1, <3>2
  <2>11. Page(rows, m, levels) = SubSeq(rows, m + 1, n)
    <3>1. CASE levels = 0
      <4>1. n = l
        <5>1. b \in Int /\ l \in Int /\ b = l + 1
          BY <2>9, <3>1
        <5>2. Min({b, l}) \in {b, l} /\ Min({b, l}) <= l
          BY <5>1, MinOfTwo
        <5> QED
          BY <2>10, <5>1, <5>2
      <4> QED
        BY <2>4, <3>1, <4>1 DEF Page
    <3>2. CASE levels # 0
      <4>1. {l, m + levels} = {b, l}
        BY <2>9, <3>2
      <4>2. Page(rows, m, levels) = SubSeq(rows, m + 1, Min({l, m + levels}))
        BY <2>4, <3>2 DEF Page
      <4> QED
        BY <2>10, <4>1, <4>2
    <3> QED
      BY <3>1, <3>2
  <2>12. got' = SubSeq(rows, 1, n)
    <3>1. got' = SubSeq(rows, 1, m) \o SubSeq(rows, m + 1, n)
      BY <2>1, <2>3, <2>6, <2>8, <2>11
    <3> QED
      BY <2>3, <2>4, <2>6, <2>10, <3>1, PagesJoin
  <2> QED
    BY <1>1, <2>1, <2>2, <2>3, <2>4, <2>9, <2>10, <2>12 DEF PagesInv, PagesAddUp
<1> QED
  BY <1>2, <1>3 DEF ViewNext

LEMMA PagesInvariant == ViewSpec => []PagesInv
<1>1. ViewInit => PagesInv
  BY ViewInitial
<1>2. PagesInv /\ [ViewNext]_viewVars => PagesInv'
  BY ViewStep
<1> QED
  BY <1>1, <1>2, PTL DEF ViewSpec

\* The client of the virtual thread's stackTrace requests has the rows that it
\* has asked for, each once, whatever pages it asks for: _stack_trace_response()
\* cuts them by startFrame and levels.
THEOREM PagesCorrect == ViewSpec => []PagesAddUp
<1>1. PagesInv => PagesAddUp
  BY DEF PagesInv
<1> QED
  BY <1>1, PagesInvariant, PTL

\* A separator row is always between the frames of two exceptions, and the
\* exception that exceptionInfo tells of is on top of the stack, for every
\* snapshot, pattern and toggle of the filter: flattening, pruning and the search
\* for the innermost exception are loops of their own.
THEOREM StackCorrect == ViewSpec => []StackOfChain
<1>1. PagesInv => StackOfChain
  BY ViewAssumption, StackOfChainIs DEF PagesInv
<1> QED
  BY <1>1, PagesInvariant, PTL

\* The stack, the nested details, the text of exceptionInfo, the exception that
\* is made again, the viewer's traceback and its tree tell of the same chain of
\* exceptions, for every snapshot and every cap on the depth.
THEOREM RenderersCorrect == ViewSpec => []RenderersAgree
<1>1. PagesInv => RenderersAgree
  <2>1. PagesInv => IsChainSnapshot(snapshot)
    BY ViewAssumption DEF PagesInv
  <2> QED
    BY <2>1, ChainsAgreeIs, TreeStartsWithChainIs DEF RenderersAgree
<1> QED
  BY <1>1, PagesInvariant, PTL

=============================================================================
