------------------------- MODULE ObjectGraph_proof -------------------------
(***************************************************************************)
(* Proofs about ObjectGraph, for any program, any number of addresses,     *)
(* frames, changes and snapshots, and any limit on the depth.  What rests  *)
(* on records found in the cache says that the identity hash sees all of   *)
(* an object's kids: WindowCovers.                                         *)
(***************************************************************************)
EXTENDS ObjectGraph, SequenceTheorems, FiniteSetTheorems, WellFoundedInduction, TLAPS

(***************************************************************************)
(* The inductive invariant.                                                *)
(***************************************************************************)
KidSeqs == SeqsUpTo(Ids, MaxKids)
Busy == phase \in {"objects", "repr"}

\* The frames are captured one after the other, each by a walk of its own.
PhaseInv ==
  /\ phase = "idle" => Mapped = {} /\ missing = {} /\ written = <<>> /\ queue = <<>> /\ frame = 0
  /\ phase = "idle" => depthHit = <<FALSE, FALSE>>
  /\ phase # "idle" => frame > 0
  /\ Busy => Len(written) = frame /\ frame <= FrameCount
  /\ phase \in {"frame", "ended"} => Len(written) = frame - 1 /\ queue = <<>>
  /\ \A k \in DOMAIN written : written[k].stack = Stack(k)
  /\ \A id \in Mapped : truth[id].frame \in 1..frame
  /\ phase = "frame" => \A id \in Mapped : truth[id].frame < frame

\* The object whose repr() runs is not written yet.  Only the elements of an
\* instance of a subclass are queued already.
ReprInv ==
  phase = "repr" =>
    /\ current.id \notin Mapped /\ obj[current.id].type \notin Primitive
    /\ current.limited <=> current.depth >= MaxDepth
    /\ current.kids # <<>> => obj[current.id].type = "sub" /\ ~current.limited

\* A primitive has no kids.
HeapInv == \A k \in DOMAIN heap : heap[k].type \in Primitive => heap[k].kids = <<>>

\* An object in the cache was written in full, and its hash is that of its record.
Keeps(entry, r) ==
  /\ r.full /\ r.type \in {"string"} \cup Containers
  /\ entry.hash = IdentityHash(r, r.kids)
CacheInv == \A id \in Ids : cache[id].off # 0 => Keeps(cache[id], heap[cache[id].off + 1])

\* What is written is counted.
CountInv ==
  /\ IsFiniteSet(Mapped)
  /\ phase # "idle" => Len(heap) - mark <= Cardinality(Mapped)

\* What is cut off is flagged, and was found at the limit.
FlagInv ==
  \A s \in {1, 2} :
    depthHit[s] <=> \E id \in Mapped : Stack(truth[id].frame) = s /\ ~Recorded(id).full
CutInv ==
  \A id \in Mapped :
    Recorded(id).type \notin Primitive => (Recorded(id).full <=> truth[id].depth < MaxDepth)

Base == TypeOK /\ PhaseInv /\ ReprInv /\ HeapInv /\ CacheInv /\ CountInv /\ FlagInv /\ CutInv

(***************************************************************************)
(* The walk of a frame is breadth first.                                   *)
(***************************************************************************)
\* The identity hash sees every kid of an object.
WindowCovers == MaxKids <= HashHead + HashTail

Roots(g) == Elements(written[g].ids)
Here == {id \in Mapped : truth[id].frame = frame}

\* An id has been found, at this depth of frame g at the most, or before.
Done(id, g, d) ==
  \/ id \in missing
  \/ id \in Mapped /\ (truth[id].frame < g \/ (truth[id].frame = g /\ truth[id].depth <= d))

\* An id at this depth is a variable, or the kid of an object one above it.
FromAbove(id, d, g) ==
  \/ d = 0 /\ id \in Roots(g)
  \/ \E p \in Mapped : /\ truth[p].frame = g /\ truth[p].depth + 1 = d
                       /\ id \in Elements(Recorded(p).kids)

Holds(q, id, d) == \E k \in DOMAIN q : q[k].id = id /\ q[k].depth <= d
Sorted(q) ==
  \A j, k \in DOMAIN q : (j <= k => q[j].depth <= q[k].depth) /\ q[k].depth <= q[j].depth + 1

\* The queue has what is still to be found, in the order of depth.
Walk(q) ==
  /\ Sorted(q)
  /\ \A k \in DOMAIN q : FromAbove(q[k].id, q[k].depth, frame)
  /\ \A p \in Here : \A k \in DOMAIN q : truth[p].depth <= q[k].depth
  /\ \A id \in Roots(frame) : Done(id, frame, 0) \/ Holds(q, id, 0)
  /\ \A p \in Here : \A id \in Elements(Recorded(p).kids) :
       Done(id, frame, truth[p].depth + 1) \/ Holds(q, id, truth[p].depth + 1)
  /\ \A id \in Here : FromAbove(id, truth[id].depth, frame)

\* The same while an object e is taken from the queue: the rest of it has these
\* kids of it.
Expanding(e, q, kids) ==
  /\ Sorted(q)
  /\ \A k \in DOMAIN q : e.depth <= q[k].depth /\ q[k].depth <= e.depth + 1
  /\ FromAbove(e.id, e.depth, frame)
  /\ \A k \in DOMAIN q : \/ FromAbove(q[k].id, q[k].depth, frame)
                         \/ q[k].id \in Elements(kids) /\ q[k].depth = e.depth + 1
  /\ \A p \in Here : truth[p].depth <= e.depth
  /\ \A id \in Roots(frame) : Done(id, frame, 0) \/ Holds(q, id, 0) \/ (id = e.id /\ e.depth <= 0)
  /\ \A p \in Here : \A id \in Elements(Recorded(p).kids) :
       \/ Done(id, frame, truth[p].depth + 1)
       \/ Holds(q, id, truth[p].depth + 1)
       \/ id = e.id /\ e.depth <= truth[p].depth + 1
  /\ \A id \in Elements(kids) : Holds(q, id, e.depth + 1)
  /\ \A id \in Here : FromAbove(id, truth[id].depth, frame)

\* Everything that leads from frame g has been found, breadth first.
Finished(g) ==
  /\ \A id \in Roots(g) : Done(id, g, 0)
  /\ \A p \in Mapped : truth[p].frame = g =>
       \A id \in Elements(Recorded(p).kids) : Done(id, g, truth[p].depth + 1)
  /\ \A id \in Mapped : truth[id].frame = g => FromAbove(id, truth[id].depth, g)

WalkInv ==
  /\ \A g \in 1..frame : g < frame => Finished(g)
  /\ phase = "objects" => Walk(queue)
  /\ phase = "repr" => Expanding(current, queue, current.kids)

IInv == Base /\ CacheKeepsStructure /\ WalkInv

(***************************************************************************)
(* Induction: a set of numbers with 0 and every successor has them all.    *)
(* (The library's rule is about a predicate, which is an operator.)        *)
(***************************************************************************)
LEMMA NatMin ==
  ASSUME NEW T \in SUBSET Nat, T # {}
  PROVE  \E m \in T : \A k \in T : m <= k
<1> DEFINE R == OpToRel(<, Nat)
<1>1. IsWellFoundedOn(R, Nat)
  BY NatLessThanWellFounded
<1>2. PICK x \in T : \A y \in T : ~(<<y, x>> \in R)
  <2> HIDE DEF R
  <2> QED
    BY <1>1, WFMin
<1>3. \A y \in T : y < x => <<y, x>> \in R
  BY DEF OpToRel
<1> HIDE DEF R
<1>4. \A y \in T : ~(y < x)
  BY <1>2, <1>3
<1> QED
  BY <1>4

LEMMA NatInd ==
  ASSUME NEW T, 0 \in T, \A n \in Nat : n \in T => n + 1 \in T
  PROVE  Nat \subseteq T
<1> SUFFICES ASSUME NEW b \in Nat, b \notin T PROVE FALSE
  OBVIOUS
<1> DEFINE U == {n \in Nat : n \notin T}
<1>1. U \in SUBSET Nat /\ U # {}
  OBVIOUS
<1>2. PICK m \in U : \A k \in U : m <= k
  <2> HIDE DEF U
  <2> QED
    BY <1>1, NatMin
<1>3. m # 0 /\ m \in Nat /\ m - 1 \in Nat /\ m - 1 \notin U
  BY <1>2
<1> QED
  BY <1>3

(***************************************************************************)
(* Sequences of ids, and the queue.                                        *)
(***************************************************************************)
LEMMA SeqsAre ==
  ASSUME NEW S, NEW n \in Nat
  PROVE  /\ \A s \in SeqsUpTo(S, n) : s \in Seq(S) /\ Len(s) \in 0..n /\ DOMAIN s = 1..Len(s)
         /\ <<>> \in SeqsUpTo(S, n)
<1>1. ASSUME NEW s \in SeqsUpTo(S, n)
      PROVE  s \in Seq(S) /\ Len(s) \in 0..n /\ DOMAIN s = 1..Len(s)
  <2>1. PICK k \in 0..n : s \in [1..k -> S]
    BY DEF SeqsUpTo
  <2>2. s \in Seq(S) /\ Len(s) = k
    BY <2>1
  <2> QED
    BY <2>1, <2>2
<1>2. <<>> \in [1..0 -> S]
  OBVIOUS
<1>3. 0 \in 0..n
  OBVIOUS
<1> QED
  BY <1>1, <1>2, <1>3 DEF SeqsUpTo

LEMMA NoKids == <<>> \in KidSeqs /\ Elements(<<>>) = {}
BY SeqsAre, BoundsAssumption DEF KidSeqs, Elements

LEMMA KidsAre ==
  ASSUME NEW s \in KidSeqs
  PROVE  /\ s \in Seq(Ids) /\ Len(s) \in Nat /\ Len(s) <= MaxKids /\ DOMAIN s = 1..Len(s)
         /\ Elements(s) \subseteq Ids
<1>1. s \in Seq(Ids) /\ Len(s) \in 0..MaxKids /\ DOMAIN s = 1..Len(s) /\ MaxKids \in Nat
  BY SeqsAre, BoundsAssumption DEF KidSeqs
<1>2. \A k \in DOMAIN s : s[k] \in Ids
  BY <1>1
<1> QED
  BY <1>1, <1>2 DEF Elements

Entry == [id : Ids, depth : Nat]

\* A queue with an object's kids, at this depth, behind the rest.
QueuedBehind(q, rest, kids, d) ==
  /\ q \in Seq(Entry)
  /\ \A k \in DOMAIN q : \/ k \in DOMAIN rest /\ q[k] = rest[k]
                         \/ /\ q[k].depth = d /\ q[k].id \in Elements(kids)
                            /\ \A j \in DOMAIN rest : j < k
  /\ \A k \in DOMAIN rest : k \in DOMAIN q /\ q[k] = rest[k]
  /\ \A id \in Elements(kids) : \E k \in DOMAIN q : q[k].id = id /\ q[k].depth = d

LEMMA QueuedIs ==
  ASSUME NEW rest \in Seq(Entry), NEW kids \in KidSeqs, NEW d \in Nat
  PROVE  QueuedBehind(Queued(rest, kids, d), rest, kids, d)
<1> DEFINE q == Queued(rest, kids, d)
           add == [k \in DOMAIN kids |-> [id |-> kids[k], depth |-> d]]
           n == Len(rest)
           m == Len(kids)
<1>1. kids \in Seq(Ids) /\ m \in Nat /\ DOMAIN kids = 1..m
  BY KidsAre
<1>2. n \in Nat /\ DOMAIN rest = 1..n
  OBVIOUS
<1>3. add \in Seq(Entry) /\ Len(add) = m /\ DOMAIN add = 1..m
  BY <1>1 DEF Entry
<1>4. \A k \in 1..m : add[k] = [id |-> kids[k], depth |-> d] /\ kids[k] \in Elements(kids)
  BY <1>1 DEF Elements
<1>5. q = rest \o add
  BY DEF Queued
<1> HIDE DEF q, add, n, m
<1>6. q \in Seq(Entry) /\ Len(q) = n + m
  <2>1. Len(rest) = n
    BY DEF n
  <2>2. q \in Seq(Entry)
    BY <1>3, <1>5
  <2>3. Len(rest \o add) = Len(rest) + Len(add)
    BY <1>3
  <2> QED
    BY <1>3, <1>5, <2>1, <2>2, <2>3
<1>7. DOMAIN q = 1..(n + m)
  BY <1>6, <1>1, <1>2
<1>8. \A k \in 1..n : q[k] = rest[k]
  BY <1>3, <1>5 DEF n
<1>9. \A k \in 1..m : q[n + k] = add[k]
  BY <1>3, <1>5, <1>1, <1>2 DEF n
<1>10. ASSUME NEW k \in DOMAIN q
       PROVE  \/ k \in DOMAIN rest /\ q[k] = rest[k]
              \/ /\ q[k].depth = d /\ q[k].id \in Elements(kids)
                 /\ \A j \in DOMAIN rest : j < k
  <2>1. CASE k <= n
    BY <1>2, <1>7, <1>8, <2>1
  <2>2. CASE k > n
    <3>1. k - n \in 1..m /\ n + (k - n) = k
      BY <1>1, <1>2, <1>7, <2>2
    <3>2. q[k] = add[k - n]
      BY <1>9, <3>1
    <3>3. q[k] = [id |-> kids[k - n], depth |-> d] /\ kids[k - n] \in Elements(kids)
      BY <1>4, <3>1, <3>2
    <3>4. q[k].depth = d /\ q[k].id \in Elements(kids)
      BY <3>3
    <3>5. \A j \in DOMAIN rest : j < k
      BY <1>1, <1>2, <1>7, <2>2
    <3> QED
      BY <3>4, <3>5
  <2> QED
    BY <2>1, <2>2, <1>1, <1>2, <1>7
<1>11. ASSUME NEW id \in Elements(kids)
       PROVE  \E k \in DOMAIN q : q[k].id = id /\ q[k].depth = d
  <2>1. PICK k \in 1..m : kids[k] = id
    BY <1>1 DEF Elements
  <2>2. n + k \in DOMAIN q
    BY <1>1, <1>2, <1>7
  <2>3. q[n + k] = [id |-> id, depth |-> d]
    BY <1>4, <1>9, <2>1
  <2> QED
    BY <2>2, <2>3
<1>12. \A k \in DOMAIN rest : k \in DOMAIN q /\ q[k] = rest[k]
  BY <1>1, <1>2, <1>7, <1>8
<1> QED
  BY <1>6, <1>10, <1>11, <1>12 DEF q, QueuedBehind

LEMMA TailIs ==
  ASSUME NEW q \in Seq(Entry), q # <<>>
  PROVE  /\ Head(q) \in Entry /\ Tail(q) \in Seq(Entry)
         /\ 1 \in DOMAIN q /\ Head(q) = q[1]
         /\ \A k \in DOMAIN Tail(q) : k + 1 \in DOMAIN q /\ Tail(q)[k] = q[k + 1]
         /\ \A k \in DOMAIN q : k # 1 => k - 1 \in DOMAIN Tail(q) /\ Tail(q)[k - 1] = q[k]
<1>1. Len(q) \in Nat /\ Len(q) > 0 /\ DOMAIN q = 1..Len(q)
  OBVIOUS
<1>2. Tail(q) \in Seq(Entry) /\ Len(Tail(q)) = Len(q) - 1
  OBVIOUS
<1>3. DOMAIN Tail(q) = 1..(Len(q) - 1)
  BY <1>1, <1>2
<1>4. \A k \in 1..(Len(q) - 1) : Tail(q)[k] = q[k + 1]
  BY <1>1
<1>5. Head(q) = q[1] /\ 1 \in DOMAIN q
  BY <1>1
<1>6. ASSUME NEW k \in DOMAIN q, k # 1
      PROVE  k - 1 \in DOMAIN Tail(q) /\ Tail(q)[k - 1] = q[k]
  <2>1. k - 1 \in 1..(Len(q) - 1) /\ (k - 1) + 1 = k
    BY <1>1, <1>6
  <2> QED
    BY <1>3, <1>4, <2>1
<1> QED
  BY <1>1, <1>2, <1>3, <1>4, <1>5, <1>6

(***************************************************************************)
(* The identity hash.                                                      *)
(***************************************************************************)
\* What is before the tail of the window, and what is in it.
LEMMA WindowAt ==
  ASSUME NEW s \in KidSeqs, Len(s) > HashHead
  PROVE  /\ \A i \in 1..HashHead : Window(s)[i] = s[i]
         /\ \A i \in 1..HashTail : Window(s)[HashHead + i] = s[Len(s) - HashTail + i]
<1> DEFINE n == Len(s)
           head == SubSeq(s, 1, HashHead)
           m == n - HashTail + 1
           tail == SubSeq(s, m, n)
<1>1. n \in Nat /\ HashHead \in Nat /\ HashTail \in Nat /\ HashTail <= HashHead /\ s \in Seq(Ids)
  BY KidsAre, BoundsAssumption
<1>2. m \in 1..n + 1 /\ m \in Int
  BY <1>1
<1>3. head \in Seq(Ids) /\ Len(head) = HashHead /\ \A i \in 1..HashHead : head[i] = s[i]
  BY <1>1, SubSeqProperties
<1>4. tail \in Seq(Ids) /\ Len(tail) = HashTail /\ \A i \in 1..HashTail : tail[i] = s[m + i - 1]
  <2>1. n - m + 1 = HashTail
    BY <1>1
  <2> HIDE DEF m
  <2>2. tail \in Seq(Ids) /\ Len(tail) = n - m + 1 /\ \A i \in 1..(n - m + 1) : tail[i] = s[m + i - 1]
    BY <1>1, <1>2, SubSeqProperties
  <2> QED
    BY <2>1, <2>2
<1>5. \A i \in 1..HashTail : m + i - 1 = n - HashTail + i
  BY <1>1
<1>6. Window(s) = head \o tail
  BY <1>1 DEF Window
<1> HIDE DEF head, tail, m
<1>7. \A i \in 1..HashHead : Window(s)[i] = head[i]
  BY <1>1, <1>3, <1>4, <1>6
<1>8. \A i \in 1..HashTail : Window(s)[HashHead + i] = tail[i]
  BY <1>1, <1>3, <1>4, <1>6
<1> QED
  BY <1>3, <1>4, <1>5, <1>7, <1>8

LEMMA WindowTells ==
  ASSUME WindowCovers, NEW a \in KidSeqs, NEW b \in KidSeqs, Len(a) = Len(b), Window(a) = Window(b)
  PROVE  a = b
<1>1. CASE Len(a) <= HashHead
  BY <1>1 DEF Window
<1>2. CASE Len(a) > HashHead
  <2> DEFINE n == Len(a)
  <2>1. n \in Nat /\ n <= HashHead + HashTail /\ HashHead \in Nat /\ HashTail \in Nat
    BY KidsAre, BoundsAssumption DEF WindowCovers
  <2>2. \A i \in 1..HashHead : a[i] = b[i]
    BY <1>2, WindowAt
  <2>3. \A i \in 1..HashTail : a[n - HashTail + i] = b[n - HashTail + i]
    BY <1>2, WindowAt
  <2>4. ASSUME NEW i \in 1..n PROVE a[i] = b[i]
    <3>1. CASE i <= HashHead
      BY <2>1, <2>2, <3>1
    <3>2. CASE i > HashHead
      <4> DEFINE j == i - (n - HashTail)
      <4>1. j \in 1..HashTail /\ n - HashTail + j = i
        BY <2>1, <3>2
      <4> HIDE DEF j
      <4> QED
        BY <2>3, <4>1
    <3> QED
      BY <2>1, <3>1, <3>2
  <2> QED
    BY <2>4, KidsAre, SeqEqual
<1> QED
  BY <1>1, <1>2, KidsAre, BoundsAssumption

\* A hash tells the type, of a string the text, and of anything else how many
\* kids there are and what the window shows.
LEMMA HashTells ==
  ASSUME NEW r \in Records, NEW q \in Records, IdentityHash(r, r.kids) = IdentityHash(q, q.kids)
  PROVE  /\ r.type = q.type
         /\ r.type = "string" => r.text = q.text
         /\ r.type # "string" => Len(r.kids) = Len(q.kids) /\ Window(r.kids) = Window(q.kids)
<1> DEFINE u == <<r.type, r.text>>
           v == <<r.type, Len(r.kids), Window(r.kids)>>
           x == <<q.type, q.text>>
           y == <<q.type, Len(q.kids), Window(q.kids)>>
<1>1. (r.type = "string" => IdentityHash(r, r.kids) = u) /\ (r.type # "string" => IdentityHash(r, r.kids) = v)
  BY DEF IdentityHash
<1>2. (q.type = "string" => IdentityHash(q, q.kids) = x) /\ (q.type # "string" => IdentityHash(q, q.kids) = y)
  BY DEF IdentityHash
<1>3. u # y /\ v # x
  OBVIOUS
<1>4. CASE r.type = "string" /\ q.type = "string"
  <2>1. u = x
    BY <1>1, <1>2, <1>4, Zenon
  <2> QED
    BY <1>4, <2>1
<1>5. CASE r.type # "string" /\ q.type # "string"
  <2>1. v = y
    BY <1>1, <1>2, <1>5, Zenon
  <2> QED
    BY <1>5, <2>1
<1>6. CASE r.type = "string" /\ q.type # "string"
  BY <1>1, <1>2, <1>3, <1>6, Zenon
<1>7. CASE r.type # "string" /\ q.type = "string"
  BY <1>1, <1>2, <1>3, <1>7, Zenon
<1> QED
  BY <1>4, <1>5, <1>6, <1>7

(***************************************************************************)
(* What a write to the tables does.                                        *)
(***************************************************************************)
LEMMA ObjectIs ==
  ASSUME ProgramTypes, NEW id \in Ids
  PROVE  /\ obj[id].type \in Types /\ obj[id].kids \in KidSeqs /\ obj[id].text \in Texts /\ obj[id].life \in Nat
         /\ obj[id].type \notin Containers => obj[id].kids = <<>>
<1>1. obj[id] \in Objects
  BY DEF ProgramTypes
<1>2. PICK type \in Types, life \in Nat : obj[id] \in ObjectsOf(type, life)
  BY <1>1 DEF Objects
<1>3. PICK k \in KidsOf(type), t \in TextsOf(type) :
        obj[id] = [type |-> type, kids |-> k, text |-> t, life |-> life]
  BY <1>2 DEF ObjectsOf
<1>4. Plain \in Texts
  BY TypesAssumption DEF Plain
<1> QED
  BY <1>3, <1>4, NoKids DEF KidsOf, TextsOf, KidSeqs

\* An object that is taken from the queue is written, for the first time.
Puts(e, rec) ==
  /\ e.id \in Ids /\ e.depth \in Nat /\ e.id \notin Mapped
  /\ rec \in Records /\ (rec.type \in Primitive => rec.kids = <<>>)
  /\ \/ Write(e, rec) /\ UNCHANGED cache
     \/ /\ rec.full /\ rec.type \in {"string"} \cup Containers
        /\ WriteCached(e, rec, IdentityHash(rec, rec.kids))

\* It is on record, like what it was found to be, and all others are as before.
Entered(e, rec) ==
  /\ e.id \in Ids /\ e.id \notin Mapped
  /\ Mapped' = Mapped \cup {e.id}
  /\ \A id \in Mapped : Recorded(id)' = Recorded(id) /\ truth'[id] = truth[id]
  /\ truth'[e.id].rec = rec /\ truth'[e.id].frame = frame /\ truth'[e.id].depth = e.depth
  /\ Recorded(e.id)'.type = rec.type /\ Recorded(e.id)'.full = rec.full
  /\ missing' = missing

\* The three ways to get there.
LEMMA PutsIs ==
  ASSUME TypeOK, NEW e, NEW rec, Puts(e, rec)
  PROVE  \/ /\ heap' = Append(heap, rec) /\ objectMap' = [objectMap EXCEPT ![e.id] = Len(heap)]
            /\ cache' = cache
         \/ /\ heap' = Append(heap, rec) /\ objectMap' = [objectMap EXCEPT ![e.id] = Len(heap)]
            /\ rec.full /\ rec.type \in {"string"} \cup Containers
            /\ cache' = [cache EXCEPT ![e.id] = [off |-> Len(heap), hash |-> IdentityHash(rec, rec.kids)]]
         \/ /\ heap' = heap /\ objectMap' = [objectMap EXCEPT ![e.id] = cache[e.id].off]
            /\ cache' = cache
            /\ rec.full /\ cache[e.id].hash = IdentityHash(rec, rec.kids) /\ cache[e.id].off # 0
BY DEF Puts, Write, WriteCached, Cached, Found

LEMMA PutsFound ==
  ASSUME NEW e, NEW rec, Puts(e, rec)
  PROVE  /\ truth' = [truth EXCEPT ![e.id] =
                       [rec |-> rec, life |-> obj[e.id].life, frame |-> frame, depth |-> e.depth]]
         /\ missing' = missing
BY DEF Puts, Write, WriteCached, Found

\* An entry of the cache leads to a record of the heap.
LEMMA CacheIs ==
  ASSUME TypeOK, CacheInv, NEW id \in Ids, cache[id].off # 0
  PROVE  /\ cache[id].off \in 1..(Len(heap) - 1) /\ heap[cache[id].off + 1] \in Records
         /\ Keeps(cache[id], heap[cache[id].off + 1])
<1>1. cache[id] # NoEntry
  BY DEF NoEntry
<1>2. cache[id].off \in Nat /\ cache[id].off < Len(heap) /\ Len(heap) \in Nat
  BY <1>1 DEF TypeOK, TableTypes
<1>3. cache[id].off \in 1..(Len(heap) - 1)
  BY <1>2
<1>4. cache[id].off + 1 \in 1..Len(heap)
  BY <1>2
<1>5. heap[cache[id].off + 1] \in Records
  BY <1>4 DEF TypeOK, TableTypes
<1> QED
  BY <1>3, <1>5 DEF CacheInv

\* A mapped id leads to a record of the heap.
LEMMA MappedIs ==
  ASSUME TypeOK, NEW id \in Mapped
  PROVE  /\ id \in Ids /\ objectMap[id] + 1 \in 1..Len(heap) /\ objectMap[id] \in Nat
         /\ Recorded(id) \in Records
         /\ truth[id].frame \in Nat /\ truth[id].depth \in Nat
<1>1. id \in Ids /\ objectMap[id] \in 0..(Len(heap) - 1) /\ Len(heap) \in Nat /\ heap \in Seq(Records)
  BY DEF TypeOK, TableTypes, Mapped
<1>2. objectMap[id] + 1 \in 1..Len(heap)
  BY <1>1
<1>3. heap[objectMap[id] + 1] \in Records
  BY <1>1, <1>2
<1> QED
  BY <1>1, <1>2, <1>3 DEF Recorded, TypeOK, HistoryTypes

LEMMA PutsTables ==
  ASSUME TypeOK, HeapInv, CacheInv, mark' = mark, frame \in Nat, NEW e, NEW rec, Puts(e, rec)
  PROVE  TableTypes' /\ HistoryTypes' /\ HeapInv' /\ CacheInv'
<1>1. e.id \in Ids /\ e.depth \in Nat /\ rec \in Records
  BY DEF Puts
<1>2. heap \in Seq(Records) /\ Len(heap) \in Nat
  BY DEF TypeOK, TableTypes
<1>3. objectMap \in [Ids -> 0..(Len(heap) - 1) \cup {Unmapped}]
  BY DEF TypeOK, TableTypes
<1> DEFINE Hashes == {<<>>} \cup {IdentityHash(r, r.kids) : r \in Records}
           new == [off |-> Len(heap), hash |-> IdentityHash(rec, rec.kids)]
<1>4. cache \in [Ids -> [off : Nat, hash : Hashes]] /\ new \in [off : Nat, hash : Hashes]
  BY <1>1, <1>2 DEF TypeOK, TableTypes
<1>5. \A id \in Ids : cache[id] # NoEntry => cache[id].off < Len(heap)
  BY DEF TypeOK, TableTypes
<1>6. mark \in 0..Len(heap)
  BY DEF TypeOK, TableTypes
<1>7. HistoryTypes'
  <2>1. obj[e.id].life \in Nat
    BY <1>1, ObjectIs DEF TypeOK
  <2> DEFINE T == [rec : Records \cup {<<>>}, life : Nat, frame : Nat, depth : Nat]
             found == [rec |-> rec, life |-> obj[e.id].life, frame |-> frame, depth |-> e.depth]
  <2>2. found \in T
    BY <1>1, <2>1
  <2>3. truth \in [Ids -> T] /\ missing \in SUBSET Ids
    BY DEF TypeOK, HistoryTypes
  <2>4. truth' = [truth EXCEPT ![e.id] = found] /\ missing' = missing
    BY PutsFound
  <2>5. truth' \in [Ids -> T]
    <3> HIDE DEF T, found
    <3> QED
      BY <2>2, <2>3, <2>4
  <2> QED
    BY <2>3, <2>4, <2>5 DEF HistoryTypes
<1>8. CASE heap' = Append(heap, rec) /\ objectMap' = [objectMap EXCEPT ![e.id] = Len(heap)]
  <2>1. heap' \in Seq(Records) /\ Len(heap') = Len(heap) + 1
    BY <1>1, <1>2, <1>8
  <2>2. (\A k \in 1..Len(heap) : heap'[k] = heap[k]) /\ heap'[Len(heap) + 1] = rec
    BY <1>1, <1>2, <1>8
  <2>3. mark \in 0..Len(heap')
    BY <1>2, <1>6, <2>1
  <2>4. objectMap' \in [Ids -> 0..(Len(heap') - 1) \cup {Unmapped}]
    <3>1. 0..(Len(heap) - 1) \subseteq 0..(Len(heap') - 1) /\ Len(heap) \in 0..(Len(heap') - 1)
      BY <1>2, <2>1
    <3> QED
      BY <1>3, <1>8, <3>1
  <2>5. HeapInv'
    <3>1. DOMAIN heap = 1..Len(heap) /\ DOMAIN heap' = 1..(Len(heap) + 1)
      BY <1>2, <2>1
    <3>2. rec.type \in Primitive => rec.kids = <<>>
      BY DEF Puts
    <3>3. \A k \in DOMAIN heap' : k \in DOMAIN heap \/ k = Len(heap) + 1
      BY <1>2, <3>1
    <3> QED
      BY <2>2, <3>1, <3>2, <3>3 DEF HeapInv
  <2>6. \A id \in Ids : cache[id].off # 0 => Keeps(cache[id], heap'[cache[id].off + 1])
    <3>1. \A id \in Ids : cache[id].off # 0 => cache[id].off + 1 \in 1..Len(heap)
      BY <1>2, CacheIs
    <3> QED
      BY <2>2, <3>1, CacheIs
  <2>7. CASE cache' = cache
    <3>1. CacheInv'
      BY <2>6, <2>7 DEF CacheInv, Keeps
    <3>2. \A id \in Ids : cache'[id] # NoEntry => cache'[id].off < Len(heap')
      BY <1>2, <1>4, <1>5, <2>1, <2>7
    <3> QED
      BY <1>4, <1>7, <2>1, <2>3, <2>4, <2>5, <2>7, <3>1, <3>2 DEF TableTypes
  <2>8. CASE cache' = [cache EXCEPT ![e.id] = new] /\ rec.full /\ rec.type \in {"string"} \cup Containers
    <3>1. \A id \in Ids : (id # e.id => cache'[id] = cache[id]) /\ (id = e.id => cache'[id] = new)
      BY <1>4, <2>8
    <3>2. Keeps(new, rec) /\ new.off = Len(heap)
      BY <2>8 DEF Keeps
    <3>3. CacheInv'
      BY <2>2, <2>6, <3>1, <3>2 DEF CacheInv, Keeps
    <3>4. \A id \in Ids : cache'[id] # NoEntry => cache'[id].off < Len(heap')
      <4>1. ASSUME NEW id \in Ids, cache'[id] # NoEntry PROVE cache'[id].off < Len(heap')
        <5> HIDE DEF new, Hashes
        <5>1. CASE id = e.id
          BY <1>2, <2>1, <3>1, <3>2, <5>1
        <5>2. CASE id # e.id
          <6>1. cache'[id] = cache[id] /\ cache[id].off < Len(heap)
            BY <1>5, <3>1, <4>1, <5>2
          <6>2. cache[id].off \in Nat
            BY <1>4
          <6> QED
            BY <1>2, <2>1, <6>1, <6>2
        <5> QED
          BY <5>1, <5>2
      <4> QED
        BY <4>1
    <3>5. cache' \in [Ids -> [off : Nat, hash : Hashes]]
      <4> HIDE DEF new, Hashes
      <4> QED
        BY <1>4, <2>8
    <3> QED
      BY <1>7, <2>1, <2>3, <2>4, <2>5, <3>3, <3>4, <3>5 DEF TableTypes
  <2> QED
    BY <1>8, <2>7, <2>8, PutsIs
<1>9. CASE /\ heap' = heap /\ objectMap' = [objectMap EXCEPT ![e.id] = cache[e.id].off]
           /\ cache' = cache /\ cache[e.id].off # 0
  <2>1. cache[e.id].off \in 0..(Len(heap) - 1)
    BY <1>1, <1>2, <1>9, CacheIs
  <2>2. objectMap' \in [Ids -> 0..(Len(heap') - 1) \cup {Unmapped}]
    BY <1>3, <1>9, <2>1
  <2>3. HeapInv' /\ CacheInv'
    BY <1>9 DEF HeapInv, CacheInv, Keeps
  <2> QED
    BY <1>2, <1>4, <1>5, <1>6, <1>7, <1>9, <2>2, <2>3 DEF TableTypes
<1> QED
  BY <1>8, <1>9, PutsIs

LEMMA PutsEnters ==
  ASSUME TypeOK, HeapInv, CacheInv, NEW e, NEW rec, Puts(e, rec)
  PROVE  /\ Entered(e, rec)
         /\ Len(heap') \in {Len(heap), Len(heap) + 1}
         /\ WindowCovers => Recorded(e.id)'.kids = rec.kids
         /\ rec.type \in Primitive => Recorded(e.id)'.text = rec.text
<1>1. e.id \in Ids /\ e.depth \in Nat /\ rec \in Records /\ e.id \notin Mapped
  BY DEF Puts
<1>2. heap \in Seq(Records) /\ Len(heap) \in Nat
  BY DEF TypeOK, TableTypes
<1>3. DOMAIN objectMap = Ids /\ objectMap[e.id] = Unmapped
  BY <1>1 DEF TypeOK, TableTypes, Mapped
<1>4. DOMAIN truth = Ids
  BY DEF TypeOK, HistoryTypes
<1>5. /\ \A id \in Mapped : truth'[id] = truth[id]
      /\ truth'[e.id].rec = rec /\ truth'[e.id].frame = frame /\ truth'[e.id].depth = e.depth
      /\ missing' = missing
  <2> DEFINE found == [rec |-> rec, life |-> obj[e.id].life, frame |-> frame, depth |-> e.depth]
  <2>1. truth' = [truth EXCEPT ![e.id] = found] /\ missing' = missing
    BY PutsFound
  <2>2. found.rec = rec /\ found.frame = frame /\ found.depth = e.depth
    OBVIOUS
  <2> HIDE DEF found
  <2>3. truth'[e.id] = found /\ \A id \in Ids : id # e.id => truth'[id] = truth[id]
    BY <1>1, <1>4, <2>1
  <2> QED
    BY <1>1, <2>1, <2>2, <2>3 DEF Mapped
<1>6. ASSUME NEW off \in Nat, objectMap' = [objectMap EXCEPT ![e.id] = off]
      PROVE  /\ Mapped' = Mapped \cup {e.id} /\ objectMap'[e.id] = off
             /\ \A id \in Mapped : objectMap'[id] = objectMap[id]
  BY <1>1, <1>3, <1>6 DEF Mapped, Unmapped
<1>7. \A id \in Mapped : objectMap[id] + 1 \in 1..Len(heap)
  BY MappedIs
<1>8. CASE heap' = Append(heap, rec) /\ objectMap' = [objectMap EXCEPT ![e.id] = Len(heap)]
  <2>1. Len(heap') = Len(heap) + 1 /\ (\A k \in 1..Len(heap) : heap'[k] = heap[k]) /\ heap'[Len(heap) + 1] = rec
    BY <1>1, <1>2, <1>8
  <2>2. /\ Mapped' = Mapped \cup {e.id} /\ objectMap'[e.id] = Len(heap)
        /\ \A id \in Mapped : objectMap'[id] = objectMap[id]
    BY <1>2, <1>6, <1>8
  <2>3. Recorded(e.id)' = rec /\ \A id \in Mapped : Recorded(id)' = Recorded(id)
    BY <1>7, <2>1, <2>2 DEF Recorded
  <2> QED
    BY <1>1, <1>5, <2>1, <2>2, <2>3 DEF Entered
<1>9. CASE /\ heap' = heap /\ objectMap' = [objectMap EXCEPT ![e.id] = cache[e.id].off]
           /\ rec.full /\ cache[e.id].hash = IdentityHash(rec, rec.kids) /\ cache[e.id].off # 0
  <2> DEFINE r == heap[cache[e.id].off + 1]
  <2>1. cache[e.id].off \in Nat /\ cache[e.id].off + 1 \in DOMAIN heap /\ r \in Records /\ Keeps(cache[e.id], r)
    BY <1>1, <1>2, <1>9, CacheIs
  <2>2. /\ Mapped' = Mapped \cup {e.id} /\ objectMap'[e.id] = cache[e.id].off
        /\ \A id \in Mapped : objectMap'[id] = objectMap[id]
    BY <1>6, <1>9, <2>1
  <2>3. Recorded(e.id)' = r /\ \A id \in Mapped : Recorded(id)' = Recorded(id)
    BY <1>9, <2>2 DEF Recorded
  <2>4. IdentityHash(r, r.kids) = IdentityHash(rec, rec.kids) /\ r.full = rec.full
    BY <1>1, <1>9, <2>1 DEF Keeps, Records
  <2>5. r.type \in {"string"} \cup Containers
    BY <2>1 DEF Keeps
  <2>6. HeapInv /\ (r.type \in Primitive => r.kids = <<>>) /\ (rec.type \in Primitive => rec.kids = <<>>)
    BY <2>1 DEF HeapInv, Puts
  <2> HIDE DEF r
  <2>7. /\ r.type = rec.type
        /\ r.type = "string" => r.text = rec.text
        /\ r.type # "string" => Len(r.kids) = Len(rec.kids) /\ Window(r.kids) = Window(rec.kids)
    BY <1>1, <2>1, <2>4, HashTells
  <2>8. r.type = "string" => r.kids = rec.kids
    BY <2>6, <2>7 DEF Primitive
  <2>9. WindowCovers /\ r.type # "string" => r.kids = rec.kids
    BY <1>1, <2>1, <2>7, WindowTells DEF Records, KidSeqs
  <2>10. r.type \in Primitive => r.text = rec.text
    BY <2>7, <2>5 DEF Primitive, Containers
  <2> QED
    BY <1>1, <1>2, <1>5, <1>9, <2>2, <2>3, <2>4, <2>7, <2>8, <2>9, <2>10 DEF Entered
<1> QED
  BY <1>8, <1>9, PutsIs

(***************************************************************************)
(* The steps of a walk.                                                    *)
(***************************************************************************)
\* The depths on record are numbers.
Depths == \A id \in Mapped : truth[id].depth \in Nat

LEMMA DepthsAre == TypeOK => Depths
BY MappedIs DEF Depths

LEMMA TakeHead ==
  ASSUME Depths, NEW q \in Seq(Entry), q # <<>>, Walk(q)
  PROVE  Expanding(Head(q), Tail(q), <<>>)
<1> DEFINE e == Head(q)
           t == Tail(q)
<1>1. /\ 1 \in DOMAIN q /\ e = q[1]
      /\ \A k \in DOMAIN t : k + 1 \in DOMAIN q /\ t[k] = q[k + 1]
      /\ \A k \in DOMAIN q : k # 1 => k - 1 \in DOMAIN t /\ t[k - 1] = q[k]
  BY TailIs
<1>2. DOMAIN q \subseteq Nat /\ (\A k \in DOMAIN q : k >= 1 /\ q[k] \in Entry) /\ DOMAIN t \subseteq Nat
  <2>1. t \in Seq(Entry)
    BY TailIs
  <2> QED
    BY <2>1
<1>3. \A k \in DOMAIN q : q[k].depth \in Nat
  BY <1>2 DEF Entry
<1> HIDE DEF e, t
<1>4. Sorted(t)
  <2>1. ASSUME NEW j \in DOMAIN t, NEW k \in DOMAIN t
        PROVE  (j <= k => t[j].depth <= t[k].depth) /\ t[k].depth <= t[j].depth + 1
    <3>1. j + 1 \in DOMAIN q /\ k + 1 \in DOMAIN q /\ t[j] = q[j + 1] /\ t[k] = q[k + 1]
      BY <1>1
    <3>2. j <= k => j + 1 <= k + 1
      BY <1>2
    <3> QED
      BY <3>1, <3>2 DEF Walk, Sorted
  <2> QED
    BY <2>1 DEF Sorted
<1>5. \A k \in DOMAIN t : e.depth <= t[k].depth /\ t[k].depth <= e.depth + 1
  <2>1. \A k \in DOMAIN q : q[1].depth <= q[k].depth /\ q[k].depth <= q[1].depth + 1
    BY <1>1, <1>2 DEF Walk, Sorted
  <2> QED
    BY <1>1, <2>1
<1>6. \A id, d : d \in Nat /\ Holds(q, id, d) => Holds(t, id, d) \/ (id = e.id /\ e.depth <= d)
  BY <1>1 DEF Holds
<1>7. \A p \in Here : truth[p].depth + 1 \in Nat
  BY DEF Depths, Here
<1>8. \A k \in DOMAIN t : FromAbove(t[k].id, t[k].depth, frame)
  BY <1>1 DEF Walk
<1>9. FromAbove(e.id, e.depth, frame) /\ \A p \in Here : truth[p].depth <= e.depth
  BY <1>1 DEF Walk
<1>10. \A id \in Roots(frame) : Done(id, frame, 0) \/ Holds(t, id, 0) \/ (id = e.id /\ e.depth <= 0)
  BY <1>6 DEF Walk
<1>11. \A p \in Here : \A id \in Elements(Recorded(p).kids) :
         \/ Done(id, frame, truth[p].depth + 1)
         \/ Holds(t, id, truth[p].depth + 1)
         \/ id = e.id /\ e.depth <= truth[p].depth + 1
  BY <1>6, <1>7 DEF Walk
<1>12. \A id \in Here : FromAbove(id, truth[id].depth, frame)
  BY DEF Walk
<1> QED
  BY <1>4, <1>5, <1>8, <1>9, <1>10, <1>11, <1>12, NoKids DEF Expanding, e, t

LEMMA QueueKids ==
  ASSUME Depths, NEW e, e.depth \in Nat, NEW rest \in Seq(Entry), NEW kids \in KidSeqs, Expanding(e, rest, <<>>)
  PROVE  Expanding(e, Queued(rest, kids, e.depth + 1), kids)
<1> DEFINE d == e.depth + 1
           q == Queued(rest, kids, d)
<1>1. QueuedBehind(q, rest, kids, d)
  BY QueuedIs
<1> HIDE DEF q
<1>2. d \in Nat /\ QueuedBehind(q, rest, kids, d)
  BY <1>1
<1>3. \A k \in DOMAIN q : k \in Nat /\ q[k].depth \in Nat
  <2>1. \A k \in DOMAIN q : k \in Nat /\ q[k] \in Entry
    BY <1>2 DEF QueuedBehind
  <2> QED
    BY <2>1 DEF Entry
<1>4. \A k \in DOMAIN rest : e.depth <= rest[k].depth /\ rest[k].depth <= e.depth + 1
  BY DEF Expanding
<1>5. \A k \in DOMAIN q : e.depth <= q[k].depth /\ q[k].depth <= e.depth + 1
  BY <1>2, <1>4 DEF QueuedBehind
<1>6. Sorted(q)
  <2>1. ASSUME NEW j \in DOMAIN q, NEW k \in DOMAIN q
        PROVE  (j <= k => q[j].depth <= q[k].depth) /\ q[k].depth <= q[j].depth + 1
    <3>1. q[k].depth <= q[j].depth + 1
      BY <1>3, <1>5
    <3>2. CASE k \in DOMAIN rest /\ q[k] = rest[k] /\ j \in DOMAIN rest /\ q[j] = rest[j]
      BY <3>2 DEF Expanding, Sorted
    <3>3. CASE q[k].depth = d
      BY <1>3, <1>5, <3>1, <3>3
    <3>4. CASE k \in DOMAIN rest /\ \A i \in DOMAIN rest : i < j
      BY <1>3, <3>1, <3>4
    <3> QED
      BY <1>2, <3>2, <3>3, <3>4 DEF QueuedBehind
  <2> QED
    BY <2>1 DEF Sorted
<1>7. \A id, n : Holds(rest, id, n) => Holds(q, id, n)
  BY <1>2 DEF Holds, QueuedBehind
<1>8. \A id \in Elements(kids) : Holds(q, id, d)
  BY <1>2 DEF Holds, QueuedBehind
<1>9. \A k \in DOMAIN q : FromAbove(q[k].id, q[k].depth, frame)
                          \/ (q[k].id \in Elements(kids) /\ q[k].depth = e.depth + 1)
  BY <1>2, NoKids DEF Expanding, QueuedBehind
<1>10. FromAbove(e.id, e.depth, frame) /\ \A p \in Here : truth[p].depth <= e.depth
  BY DEF Expanding
<1>11. \A id \in Roots(frame) : Done(id, frame, 0) \/ Holds(q, id, 0) \/ (id = e.id /\ e.depth <= 0)
  BY <1>7 DEF Expanding
<1>12. \A p \in Here : \A id \in Elements(Recorded(p).kids) :
         \/ Done(id, frame, truth[p].depth + 1)
         \/ Holds(q, id, truth[p].depth + 1)
         \/ id = e.id /\ e.depth <= truth[p].depth + 1
  BY <1>7 DEF Expanding
<1>13. \A id \in Here : FromAbove(id, truth[id].depth, frame)
  BY DEF Expanding
<1> QED
  BY <1>5, <1>6, <1>8, <1>9, <1>10, <1>11, <1>12, <1>13 DEF Expanding, q

\* Nothing but the missing ids may be new.
SameWalk == /\ UNCHANGED <<frame, objectMap, heap, truth>> /\ Roots(frame)' = Roots(frame)
            /\ missing \subseteq missing'

LEMMA SameIs ==
  ASSUME SameWalk
  PROVE  /\ Mapped' = Mapped /\ Here' = Here /\ frame' = frame
         /\ \A id \in Mapped : Recorded(id)' = Recorded(id) /\ truth'[id] = truth[id]
         /\ \A id, d : Done(id, frame, d) => Done(id, frame, d)'
         /\ \A id, d : FromAbove(id, d, frame)' = FromAbove(id, d, frame)
<1>1. Mapped' = Mapped /\ frame' = frame /\ truth' = truth
  BY DEF SameWalk, Mapped
<1>2. Here' = Here
  BY <1>1 DEF Here
<1>3. \A id : Recorded(id)' = Recorded(id)
  BY DEF SameWalk, Recorded
<1>4. \A id, d : Done(id, frame, d) => Done(id, frame, d)'
  BY <1>1 DEF Done, SameWalk
<1>5. \A id, d : FromAbove(id, d, frame)' = FromAbove(id, d, frame)
  BY <1>1, <1>3 DEF FromAbove, SameWalk
<1> QED
  BY <1>1, <1>2, <1>3, <1>4, <1>5

LEMMA WalkSame ==
  ASSUME SameWalk, NEW q, Walk(q)
  PROVE  Walk(q)'
<1>1. \A k \in DOMAIN q : FromAbove(q[k].id, q[k].depth, frame)'
  BY SameIs DEF Walk
<1>2. \A p \in Here' : \A k \in DOMAIN q : truth'[p].depth <= q[k].depth
  BY SameIs DEF Walk, Here
<1>3. \A id \in Roots(frame)' : Done(id, frame, 0)' \/ Holds(q, id, 0)
  BY SameIs DEF Walk, SameWalk
<1>4. \A p \in Here' : \A id \in Elements(Recorded(p).kids)' :
        Done(id, frame, truth[p].depth + 1)' \/ Holds(q, id, truth'[p].depth + 1)
  <2>1. \A p \in Here' : p \in Here /\ Recorded(p)' = Recorded(p) /\ truth'[p] = truth[p]
    BY SameIs DEF Here
  <2>2. \A id, d : Done(id, frame, d) => Done(id, frame, d)'
    BY SameIs
  <2>3. \A p : truth'[p] = truth[p]
    BY DEF SameWalk
  <2>4. ASSUME NEW p \in Here', NEW id \in Elements(Recorded(p).kids)'
        PROVE  Done(id, frame, truth[p].depth + 1)' \/ Holds(q, id, truth'[p].depth + 1)
    <3>1. id \in Elements(Recorded(p).kids) /\ p \in Here
      BY <2>1, <2>4 DEF Elements
    <3>2. Done(id, frame, truth[p].depth + 1) \/ Holds(q, id, truth[p].depth + 1)
      BY <3>1 DEF Walk
    <3> QED
      BY <2>2, <2>3, <3>2
  <2> QED
    BY <2>4
<1>5. \A id \in Here' : FromAbove(id, truth[id].depth, frame)'
  <2>1. \A id \in Here : FromAbove(id, truth[id].depth, frame)
    BY DEF Walk
  <2>2. truth' = truth
    BY DEF SameWalk
  <2> QED
    BY <2>1, <2>2, SameIs
<1>6. Sorted(q)
  BY DEF Walk
<1> QED
  BY <1>1, <1>2, <1>3, <1>4, <1>5, <1>6 DEF Walk, Holds, Sorted

\* The same for an object that is being expanded.
LEMMA ExpandingSame ==
  ASSUME SameWalk, NEW e, NEW q, NEW kids, Expanding(e, q, kids)
  PROVE  Expanding(e, q, kids)'
<1>1. \A id, d : Done(id, frame, d) => Done(id, frame, d)'
  BY SameIs
<1>2. /\ Here' = Here /\ truth' = truth /\ Roots(frame)' = Roots(frame)
      /\ \A p \in Here : Elements(Recorded(p).kids)' = Elements(Recorded(p).kids)
  BY SameIs DEF SameWalk, Here, Elements
<1>3. /\ FromAbove(e.id, e.depth, frame)'
      /\ \A k \in DOMAIN q : \/ FromAbove(q[k].id, q[k].depth, frame)'
                             \/ q[k].id \in Elements(kids) /\ q[k].depth = e.depth + 1
  BY SameIs DEF Expanding
<1>4. \A p \in Here' : truth'[p].depth <= e.depth
  BY <1>2 DEF Expanding
<1>5. \A id \in Roots(frame)' : Done(id, frame, 0)' \/ Holds(q, id, 0) \/ (id = e.id /\ e.depth <= 0)
  BY <1>1, <1>2 DEF Expanding
<1>6. \A p \in Here' : \A id \in Elements(Recorded(p).kids)' :
        \/ Done(id, frame, truth[p].depth + 1)'
        \/ Holds(q, id, truth'[p].depth + 1)
        \/ id = e.id /\ e.depth <= truth'[p].depth + 1
  <2>1. ASSUME NEW p \in Here, NEW id \in Elements(Recorded(p).kids)
        PROVE  \/ Done(id, frame, truth[p].depth + 1)
               \/ Holds(q, id, truth[p].depth + 1)
               \/ id = e.id /\ e.depth <= truth[p].depth + 1
    BY <2>1 DEF Expanding
  <2>2. ASSUME NEW p \in Here, NEW id, Done(id, frame, truth[p].depth + 1)
        PROVE  Done(id, frame, truth[p].depth + 1)'
    <3>1. \A d : d = truth[p].depth + 1 => Done(id, frame, d)'
      BY <1>1, <2>2
    <3> QED
      BY <1>2, <3>1
  <2> QED
    BY <1>2, <2>1, <2>2
<1>7. \A id \in Here' : FromAbove(id, truth[id].depth, frame)'
  <2>1. \A id \in Here : FromAbove(id, truth[id].depth, frame)
    BY DEF Expanding
  <2> QED
    BY <1>2, <2>1, SameIs
<1>8. /\ Sorted(q) /\ \A k \in DOMAIN q : e.depth <= q[k].depth /\ q[k].depth <= e.depth + 1
      /\ \A id \in Elements(kids) : Holds(q, id, e.depth + 1)
  BY DEF Expanding
<1> QED
  BY <1>3, <1>4, <1>5, <1>6, <1>7, <1>8 DEF Expanding, Holds, Sorted, Elements

\* An object that is on record already, or is missing, is passed over.
LEMMA PassOver ==
  ASSUME SameWalk, frame \in Nat, Depths, NEW e, e.depth \in Nat, NEW q \in Seq(Entry), Expanding(e, q, <<>>),
         \A d \in Nat : e.depth <= d => Done(e.id, frame, d)'
  PROVE  Walk(q)'
<1>1. Expanding(e, q, <<>>)'
  BY ExpandingSame
<1>2. Here' = Here /\ truth' = truth /\ \A p \in Here : truth[p].depth \in Nat
  BY SameIs DEF SameWalk, Here, Depths
<1>3. Elements(<<>>) = {}
  BY NoKids
<1>4. \A k \in DOMAIN q : q[k].depth \in Nat
  <2>1. \A k \in DOMAIN q : q[k] \in Entry
    OBVIOUS
  <2> QED
    BY <2>1 DEF Entry
<1>5. \A k \in DOMAIN q : FromAbove(q[k].id, q[k].depth, frame)'
  BY SameIs, <1>3 DEF Expanding
<1>6. \A p \in Here' : \A k \in DOMAIN q : truth'[p].depth <= q[k].depth
  <2>1. \A p \in Here : truth[p].depth <= e.depth
    BY DEF Expanding
  <2>2. \A k \in DOMAIN q : e.depth <= q[k].depth
    BY DEF Expanding
  <2> QED
    BY <1>2, <1>4, <2>1, <2>2
<1>7. \A id \in Roots(frame)' : Done(id, frame, 0)' \/ Holds(q, id, 0)
  <2>1. \A id \in Roots(frame)' : Done(id, frame, 0)' \/ Holds(q, id, 0) \/ (id = e.id /\ e.depth <= 0)
    BY <1>1 DEF Expanding, Holds
  <2> QED
    BY <2>1
<1>8. \A p \in Here' : \A id \in Elements(Recorded(p).kids)' :
        Done(id, frame, truth[p].depth + 1)' \/ Holds(q, id, truth'[p].depth + 1)
  <2>1. ASSUME NEW p \in Here', NEW id \in Elements(Recorded(p).kids)'
        PROVE  Done(id, frame, truth[p].depth + 1)' \/ Holds(q, id, truth'[p].depth + 1)
    <3>1. \/ Done(id, frame, truth[p].depth + 1)'
          \/ Holds(q, id, truth'[p].depth + 1)
          \/ id = e.id /\ e.depth <= truth'[p].depth + 1
      BY <1>1, <2>1 DEF Expanding, Holds
    <3>2. truth'[p].depth + 1 \in Nat
      BY <1>2, <2>1
    <3>3. \A d : d = truth'[p].depth + 1 /\ e.depth <= d => Done(e.id, frame, d)'
      BY <3>2
    <3>4. id = e.id /\ e.depth <= truth'[p].depth + 1 => Done(id, frame, truth[p].depth + 1)'
      BY <3>3 DEF Done
    <3> QED
      BY <3>1, <3>4
  <2> QED
    BY <2>1
<1>9. \A id \in Here' : FromAbove(id, truth[id].depth, frame)'
  BY <1>1 DEF Expanding
<1>10. Sorted(q)
  BY DEF Expanding
<1> QED
  BY <1>5, <1>6, <1>7, <1>8, <1>9, <1>10 DEF Walk, Holds, Sorted

\* An object is written: with its kids in the queue, the walk goes on.
LEMMA EnteredKeeps ==
  ASSUME NEW e, NEW rec, Entered(e, rec), frame' = frame
  PROVE  /\ \A id, g, d : Done(id, g, d) => Done(id, g, d)'
         /\ \A id, g, d : Roots(g)' = Roots(g) /\ FromAbove(id, d, g) => FromAbove(id, d, g)'
         /\ Here' = Here \cup {e.id}
<1>1. /\ Mapped' = Mapped \cup {e.id} /\ missing' = missing /\ truth'[e.id].frame = frame
      /\ \A id \in Mapped : Recorded(id)' = Recorded(id) /\ truth'[id] = truth[id]
  BY DEF Entered
<1>2. \A id, g, d : Done(id, g, d) => Done(id, g, d)'
  BY <1>1 DEF Done
<1>3. ASSUME NEW id, NEW g, NEW d, Roots(g)' = Roots(g), FromAbove(id, d, g)
      PROVE  FromAbove(id, d, g)'
  <2>1. CASE d = 0 /\ id \in Roots(g)
    BY <1>3, <2>1 DEF FromAbove
  <2>2. CASE \E p \in Mapped : /\ truth[p].frame = g /\ truth[p].depth + 1 = d
                               /\ id \in Elements(Recorded(p).kids)
    <3>1. PICK p \in Mapped : truth[p].frame = g /\ truth[p].depth + 1 = d /\ id \in Elements(Recorded(p).kids)
      BY <2>2
    <3>2. p \in Mapped' /\ truth'[p] = truth[p] /\ Recorded(p)' = Recorded(p)
      BY <1>1
    <3>3. truth'[p].frame = g /\ truth'[p].depth + 1 = d
      BY <3>1, <3>2
    <3>4. id \in Elements(Recorded(p).kids)'
      BY <3>1, <3>2 DEF Elements
    <3> QED
      BY <3>2, <3>3, <3>4 DEF FromAbove
  <2> QED
    BY <1>3, <2>1, <2>2 DEF FromAbove
<1>4. Here' = Here \cup {e.id}
  BY <1>1 DEF Here
<1> QED
  BY <1>2, <1>3, <1>4

LEMMA EnterStep ==
  ASSUME Depths, frame \in Nat, NEW e, e.depth \in Nat, NEW rec, NEW q \in Seq(Entry),
         Entered(e, rec), Recorded(e.id)'.kids = rec.kids, frame' = frame, Roots(frame)' = Roots(frame),
         Expanding(e, q, rec.kids)
  PROVE  Walk(q)'
<1>1. /\ \A id, d : Done(id, frame, d) => Done(id, frame, d)'
      /\ \A id, d : FromAbove(id, d, frame) => FromAbove(id, d, frame)'
      /\ Here' = Here \cup {e.id}
  BY EnteredKeeps
<1>2. /\ Mapped' = Mapped \cup {e.id} /\ e.id \notin Mapped
      /\ \A id \in Mapped : Recorded(id)' = Recorded(id) /\ truth'[id] = truth[id]
      /\ truth'[e.id].frame = frame /\ truth'[e.id].depth = e.depth
  BY DEF Entered
<1>3. \A k \in DOMAIN q : q[k].depth \in Nat
  <2>1. \A k \in DOMAIN q : q[k] \in Entry
    OBVIOUS
  <2> QED
    BY <2>1 DEF Entry
<1>4. \A p \in Here : p \in Mapped /\ p # e.id /\ truth[p].depth \in Nat /\ truth'[p] = truth[p] /\ Recorded(p)' = Recorded(p)
  BY <1>2 DEF Here, Depths
<1>5. \A d \in Nat : e.depth <= d => Done(e.id, frame, d)'
  BY <1>2 DEF Done
<1>6. \A k \in DOMAIN q : FromAbove(q[k].id, q[k].depth, frame)'
  <2>1. ASSUME NEW k \in DOMAIN q, q[k].id \in Elements(rec.kids), q[k].depth = e.depth + 1
        PROVE  FromAbove(q[k].id, q[k].depth, frame)'
    <3>1. e.id \in Mapped' /\ truth'[e.id].frame = frame' /\ truth'[e.id].depth + 1 = q[k].depth
      BY <1>2, <2>1
    <3>2. q[k].id \in Elements(Recorded(e.id).kids)'
      BY <2>1 DEF Elements
    <3> QED
      BY <3>1, <3>2 DEF FromAbove
  <2> QED
    BY <1>1, <2>1 DEF Expanding
<1>7. \A p \in Here' : \A k \in DOMAIN q : truth'[p].depth <= q[k].depth
  <2>1. \A k \in DOMAIN q : e.depth <= q[k].depth
    BY DEF Expanding
  <2>2. \A p \in Here : truth[p].depth <= e.depth
    BY DEF Expanding
  <2> QED
    BY <1>1, <1>2, <1>3, <1>4, <2>1, <2>2
<1>8. \A id \in Roots(frame)' : Done(id, frame, 0)' \/ Holds(q, id, 0)
  BY <1>1, <1>5 DEF Expanding
<1>9. \A p \in Here' : \A id \in Elements(Recorded(p).kids)' :
        Done(id, frame, truth[p].depth + 1)' \/ Holds(q, id, truth'[p].depth + 1)
  <2>1. ASSUME NEW p \in Here, NEW id \in Elements(Recorded(p).kids)'
        PROVE  Done(id, frame, truth[p].depth + 1)' \/ Holds(q, id, truth'[p].depth + 1)
    <3>1. id \in Elements(Recorded(p).kids) /\ truth'[p] = truth[p] /\ truth[p].depth + 1 \in Nat
      BY <1>4, <2>1 DEF Elements
    <3>2. \/ Done(id, frame, truth[p].depth + 1)
          \/ Holds(q, id, truth[p].depth + 1)
          \/ id = e.id /\ e.depth <= truth[p].depth + 1
      BY <3>1 DEF Expanding
    <3>3. ASSUME NEW d, d = truth[p].depth + 1, Done(id, frame, d)'
          PROVE  Done(id, frame, truth[p].depth + 1)'
      BY <3>1, <3>3 DEF Done
    <3> QED
      BY <1>1, <1>5, <3>1, <3>2, <3>3
  <2>2. ASSUME NEW id \in Elements(Recorded(e.id).kids)'
        PROVE  Holds(q, id, truth'[e.id].depth + 1)
    <3>1. id \in Elements(rec.kids)
      BY <2>2 DEF Elements
    <3> QED
      BY <1>2, <3>1 DEF Expanding
  <2> QED
    BY <1>1, <2>1, <2>2
<1>10. \A id \in Here' : FromAbove(id, truth[id].depth, frame)'
  <2>1. \A id \in Here : FromAbove(id, truth[id].depth, frame) /\ truth'[id] = truth[id]
    BY <1>4 DEF Expanding
  <2>2. FromAbove(e.id, e.depth, frame) /\ truth'[e.id].depth = e.depth
    BY <1>2 DEF Expanding
  <2>3. ASSUME NEW id \in Here' PROVE FromAbove(id, truth[id].depth, frame)'
    <3> DEFINE d == truth'[id].depth
    <3>1. \E n : n = d /\ FromAbove(id, n, frame)
      BY <1>1, <2>1, <2>2, <2>3
    <3>2. \E n : n = d /\ FromAbove(id, n, frame)'
      BY <1>1, <3>1
    <3> QED
      BY <3>2 DEF FromAbove
  <2> QED
    BY <2>3
<1>11. Sorted(q)
  BY DEF Expanding
<1> QED
  BY <1>6, <1>7, <1>8, <1>9, <1>10, <1>11 DEF Walk, Holds, Sorted

\* A frame that is done stays so.
LEMMA FinishedSame ==
  ASSUME UNCHANGED <<objectMap, heap, truth>>, missing \subseteq missing', NEW g, Roots(g)' = Roots(g), Finished(g)
  PROVE  Finished(g)'
<1>1. Mapped' = Mapped /\ truth' = truth /\ \A id : Recorded(id)' = Recorded(id)
  BY DEF Mapped, Recorded
<1>2. \A id, d : Done(id, g, d) => Done(id, g, d)'
  BY <1>1 DEF Done
<1>3. \A id, d : FromAbove(id, d, g) => FromAbove(id, d, g)'
  BY <1>1 DEF FromAbove
<1>4. \A id \in Roots(g)' : Done(id, g, 0)'
  BY <1>2 DEF Finished
<1>5. ASSUME NEW p \in Mapped', truth'[p].frame = g, NEW id \in Elements(Recorded(p).kids)'
      PROVE  Done(id, g, truth[p].depth + 1)'
  <2>1. Done(id, g, truth[p].depth + 1)
    BY <1>1, <1>5 DEF Finished, Elements
  <2> QED
    BY <1>1, <2>1 DEF Done
<1>6. ASSUME NEW id \in Mapped', truth'[id].frame = g PROVE FromAbove(id, truth[id].depth, g)'
  <2>1. FromAbove(id, truth[id].depth, g)
    BY <1>1, <1>6 DEF Finished
  <2> QED
    BY <1>1, <2>1 DEF FromAbove
<1> QED
  BY <1>4, <1>5, <1>6 DEF Finished

LEMMA FinishedEntered ==
  ASSUME NEW e, NEW rec, Entered(e, rec), frame' = frame, NEW g, g # frame, Roots(g)' = Roots(g), Finished(g)
  PROVE  Finished(g)'
<1>1. /\ \A id, d : Done(id, g, d) => Done(id, g, d)'
      /\ \A id, d : FromAbove(id, d, g) => FromAbove(id, d, g)'
  BY EnteredKeeps
<1>2. /\ Mapped' = Mapped \cup {e.id}
      /\ \A id \in Mapped : Recorded(id)' = Recorded(id) /\ truth'[id] = truth[id]
      /\ truth'[e.id].frame = frame
  BY DEF Entered
<1>3. \A id \in Mapped' : truth'[id].frame = g => id \in Mapped /\ truth[id].frame = g
  BY <1>2
<1>4. \A id \in Roots(g)' : Done(id, g, 0)'
  BY <1>1 DEF Finished
<1>5. ASSUME NEW p \in Mapped', truth'[p].frame = g, NEW id \in Elements(Recorded(p).kids)'
      PROVE  Done(id, g, truth[p].depth + 1)'
  <2>1. p \in Mapped /\ truth[p].frame = g /\ Recorded(p)' = Recorded(p) /\ truth'[p] = truth[p]
    BY <1>2, <1>3, <1>5
  <2>2. Done(id, g, truth[p].depth + 1)
    BY <1>5, <2>1 DEF Finished, Elements
  <2>3. \A d : d = truth[p].depth + 1 => Done(id, g, d)'
    BY <1>1, <2>2
  <2> QED
    BY <2>1, <2>3 DEF Done
<1>6. ASSUME NEW id \in Mapped', truth'[id].frame = g PROVE FromAbove(id, truth[id].depth, g)'
  <2>1. FromAbove(id, truth[id].depth, g) /\ truth'[id] = truth[id]
    BY <1>2, <1>3, <1>6 DEF Finished
  <2>2. \A d : d = truth[id].depth => FromAbove(id, d, g)'
    BY <1>1, <2>1
  <2> QED
    BY <2>1, <2>2 DEF FromAbove
<1> QED
  BY <1>4, <1>5, <1>6 DEF Finished

LEMMA WalkDone ==
  ASSUME Walk(<<>>)
  PROVE  Finished(frame)
<1>1. \A id, d : ~Holds(<<>>, id, d)
  BY DEF Holds
<1> QED
  BY <1>1 DEF Walk, Finished, Here

LEMMA WalkStarts ==
  ASSUME frame \in Nat, NEW ids \in Seq(Ids), Here' = {}, Roots(frame)' = Elements(ids), frame' = frame,
         NEW q, q = [k \in DOMAIN ids |-> [id |-> ids[k], depth |-> 0]]
  PROVE  Walk(q)'
<1>1. DOMAIN q = DOMAIN ids /\ \A k \in DOMAIN q : q[k].id = ids[k] /\ q[k].depth = 0
  OBVIOUS
<1>2. Sorted(q)
  BY <1>1 DEF Sorted
<1>3. \A id \in Roots(frame)' : Holds(q, id, 0)
  BY <1>1 DEF Holds, Elements
<1>4. \A k \in DOMAIN q : FromAbove(q[k].id, q[k].depth, frame)'
  <2>1. \A k \in DOMAIN q : q[k].depth = 0 /\ q[k].id \in Roots(frame)'
    BY <1>1 DEF Elements
  <2> QED
    BY <2>1 DEF FromAbove
<1> QED
  BY <1>2, <1>3, <1>4 DEF Walk, Sorted, Holds

(***************************************************************************)
(* The actions that take an object from the queue.                         *)
(***************************************************************************)
LEMMA BaseIs ==
  ASSUME Base
  PROVE  /\ frame \in Nat /\ queue \in Seq(Entry) /\ written \in Seq([stack : {1, 2}, ids : Seq(Ids)])
         /\ Stack(frame) \in {1, 2} /\ depthHit \in [1..2 -> BOOLEAN] /\ cancel \in BOOLEAN
         /\ FrameCount \in Nat /\ MaxDepth \in Nat
BY BoundsAssumption DEF Base, TypeOK, WalkTypes, Entry, Stack

\* What happens when one is written: q is what is queued then.
WritesObject(e, rec, q) ==
  /\ Busy /\ Puts(e, rec)
  /\ rec.type \notin Primitive => (rec.full <=> e.depth < MaxDepth)
  /\ depthHit' \in [1..2 -> BOOLEAN]
  /\ \A s \in {1, 2} : depthHit'[s] <=> depthHit[s] \/ (s = Stack(frame) /\ ~rec.full)
  /\ q \in Seq(Entry) /\ Proceed(q)
  /\ WalkInv => Expanding(e, q, rec.kids)
  /\ UNCHANGED <<programVars, cancel, frame, mark>>

\* And when one is passed over.
PassesObject(e, q) ==
  /\ Busy /\ e.id \in Ids /\ e.depth \in Nat
  /\ \/ e.id \in Mapped /\ UNCHANGED missing
     \/ missing' = missing \cup {e.id}
  /\ q \in Seq(Entry) /\ Proceed(q)
  /\ WalkInv => Expanding(e, q, <<>>)
  /\ UNCHANGED <<programVars, cancel, frame, mark, depthHit, objectMap, cache, heap, truth>>

LEMMA FirstIs ==
  ASSUME Base, Processing
  PROVE  /\ First \in Entry /\ First.id \in Ids /\ First.depth \in Nat /\ Tail(queue) \in Seq(Entry)
         /\ Busy /\ (WalkInv => Expanding(First, Tail(queue), <<>>))
<1>1. queue \in Seq(Entry) /\ queue # <<>> /\ phase = "objects"
  BY BaseIs DEF Processing
<1>2. First \in Entry /\ Tail(queue) \in Seq(Entry)
  BY <1>1, TailIs DEF First
<1>3. WalkInv => Expanding(First, Tail(queue), <<>>)
  BY <1>1, TakeHead, DepthsAre DEF WalkInv, Base, First
<1> QED
  BY <1>1, <1>2, <1>3 DEF Busy, Entry

LEMMA SkipPasses ==
  ASSUME Base, Skip
  PROVE  \E e, q : PassesObject(e, q)
<1> DEFINE e == First
           q == Tail(queue)
<1>1. Processing /\ objectMap[e.id] # Unmapped /\ Proceed(q)
  BY DEF Skip, AlreadyMapped
<1>2. UNCHANGED <<programVars, cancel, frame, mark, depthHit, objectMap, cache, heap, truth, missing>>
  BY DEF Skip, tableVars
<1>3. e.id \in Ids /\ e.depth \in Nat /\ q \in Seq(Entry) /\ Busy /\ (WalkInv => Expanding(e, q, <<>>))
  BY <1>1, FirstIs
<1>4. e.id \in Mapped
  BY <1>1, <1>3 DEF Mapped
<1> HIDE DEF e, q
<1> QED
  BY <1>1, <1>2, <1>3, <1>4 DEF PassesObject

LEMMA UnwritablePasses ==
  ASSUME Base, ProcessUnwritable
  PROVE  \E e, q : PassesObject(e, q)
<1> DEFINE e == First
           q == Tail(queue)
<1>1. Processing /\ missing' = missing \cup {e.id} /\ Proceed(q)
  BY DEF ProcessUnwritable
<1>2. UNCHANGED <<programVars, cancel, frame, mark, depthHit, objectMap, cache, heap, truth>>
  BY DEF ProcessUnwritable
<1>3. e.id \in Ids /\ e.depth \in Nat /\ q \in Seq(Entry) /\ Busy /\ (WalkInv => Expanding(e, q, <<>>))
  BY <1>1, FirstIs
<1> HIDE DEF e, q
<1> QED
  BY <1>1, <1>2, <1>3 DEF PassesObject

LEMMA LeafWrites ==
  ASSUME Base, ProcessLeaf
  PROVE  \E e, rec, q : WritesObject(e, rec, q)
<1> DEFINE e == First
           q == Tail(queue)
           o == obj[e.id]
           rec == Record("leaf", <<>>, o.text, TRUE)
<1>1. Processing /\ objectMap[e.id] = Unmapped /\ o.type = "leaf" /\ Write(e, rec) /\ Proceed(q)
  BY DEF ProcessLeaf, AlreadyMapped
<1>2. UNCHANGED <<programVars, cancel, frame, mark, depthHit, cache>>
  BY DEF ProcessLeaf
<1>3. e.id \in Ids /\ e.depth \in Nat /\ q \in Seq(Entry) /\ Busy /\ (WalkInv => Expanding(e, q, <<>>))
  BY <1>1, FirstIs
<1>4. o.type \in Types /\ o.text \in Texts
  BY <1>3, ObjectIs DEF Base, TypeOK
<1>5. rec \in Records /\ rec.type = "leaf" /\ rec.kids = <<>> /\ rec.full
  BY <1>1, <1>4, NoKids DEF Record, Records, KidSeqs
<1>6. e.id \notin Mapped
  BY <1>1 DEF Mapped
<1> HIDE DEF e, q, o, rec
<1>7. Puts(e, rec)
  BY <1>1, <1>2, <1>3, <1>5, <1>6 DEF Puts
<1>8. rec.type \in Primitive
  BY <1>5 DEF Primitive
<1> QED
  BY <1>1, <1>2, <1>3, <1>5, <1>7, <1>8, BaseIs DEF WritesObject

LEMMA CachedWrites ==
  ASSUME Base, ProcessCached
  PROVE  \E e, rec, q : WritesObject(e, rec, q)
<1> DEFINE e == First
           o == obj[e.id]
           rec == Record(o.type, o.kids, o.text, TRUE)
           q == Queued(Tail(queue), o.kids, e.depth + 1)
<1>1. /\ Processing /\ objectMap[e.id] = Unmapped /\ ~AtLimit(e) /\ o.type \in {"string", "list"}
      /\ WriteCached(e, rec, IdentityHash(o, o.kids)) /\ Proceed(q)
  BY DEF ProcessCached, AlreadyMapped
<1>2. UNCHANGED <<programVars, cancel, frame, mark, depthHit>>
  BY DEF ProcessCached
<1>3. /\ e \in Entry /\ e.id \in Ids /\ e.depth \in Nat /\ Tail(queue) \in Seq(Entry) /\ Busy
      /\ WalkInv => Expanding(e, Tail(queue), <<>>)
  BY <1>1, FirstIs
<1>4. /\ o.type \in Types /\ o.text \in Texts /\ o.kids \in KidSeqs
      /\ o.type \notin Containers => o.kids = <<>>
  BY <1>3, ObjectIs DEF Base, TypeOK
<1>5. rec \in Records /\ rec.type = o.type /\ rec.kids = o.kids /\ rec.text = o.text /\ rec.full
  BY <1>4 DEF Record, Records, KidSeqs
<1>6. e.id \notin Mapped
  BY <1>1 DEF Mapped
<1>7. q \in Seq(Entry)
  <2>1. e.depth + 1 \in Nat
    BY <1>3
  <2> HIDE DEF e, o
  <2> QED
    BY <1>3, <1>4, <2>1, QueuedIs DEF QueuedBehind
<1>8. WalkInv => Expanding(e, q, o.kids)
  BY <1>3, <1>4, QueueKids, DepthsAre DEF Base
<1>9. o.type \notin Primitive => e.depth < MaxDepth
  BY <1>1, <1>3, BaseIs DEF AtLimit
<1> HIDE DEF e, q, o, rec
<1>10. IdentityHash(o, o.kids) = IdentityHash(rec, rec.kids)
  BY <1>5 DEF IdentityHash
<1>11. rec.type \in {"string"} \cup Containers /\ (rec.type \in Primitive => rec.kids = <<>>)
  BY <1>1, <1>4, <1>5 DEF Containers, Primitive
<1>12. Puts(e, rec)
  BY <1>1, <1>3, <1>5, <1>6, <1>10, <1>11 DEF Puts
<1> QED
  BY <1>1, <1>2, <1>3, <1>5, <1>7, <1>8, <1>9, <1>12, BaseIs DEF WritesObject

LEMMA CallReprs ==
  ASSUME Base, CallRepr
  PROVE  \E e, q, early :
           /\ Busy /\ phase' = "repr" /\ queue' = q /\ q \in Seq(Entry)
           /\ current' = [id |-> e.id, depth |-> e.depth, limited |-> AtLimit(e), kids |-> early]
           /\ e \in Entry /\ early \in KidSeqs /\ e.id \notin Mapped /\ obj[e.id].type \notin Primitive
           /\ early # <<>> => obj[e.id].type = "sub" /\ ~AtLimit(e)
           /\ WalkInv => Expanding(e, q, early)
<1> DEFINE e == First
           o == obj[e.id]
           early == IF o.type = "sub" /\ ~AtLimit(e) THEN o.kids ELSE <<>>
           q == Queued(Tail(queue), early, e.depth + 1)
<1>1. /\ Processing /\ objectMap[e.id] = Unmapped /\ (AtLimit(e) \/ o.type \in Shown)
      /\ phase' = "repr" /\ queue' = q
      /\ current' = [id |-> e.id, depth |-> e.depth, limited |-> AtLimit(e), kids |-> early]
  BY DEF CallRepr, AlreadyMapped
<1>2. /\ e \in Entry /\ e.id \in Ids /\ e.depth \in Nat /\ Tail(queue) \in Seq(Entry) /\ Busy
      /\ WalkInv => Expanding(e, Tail(queue), <<>>)
  BY <1>1, FirstIs
<1>3. o.kids \in KidSeqs
  BY <1>2, ObjectIs DEF Base, TypeOK
<1>4. early \in KidSeqs
  BY <1>3, NoKids
<1>5. e.id \notin Mapped
  BY <1>1 DEF Mapped
<1>6. o.type \notin Primitive
  BY <1>1 DEF AtLimit, Shown, Primitive
<1>7. early # <<>> => o.type = "sub" /\ ~AtLimit(e)
  OBVIOUS
<1> HIDE DEF e, early
<1>8. q \in Seq(Entry)
  <2>1. e.depth + 1 \in Nat
    BY <1>2
  <2> QED
    BY <1>2, <1>4, <2>1, QueuedIs DEF QueuedBehind
<1>9. WalkInv => Expanding(e, q, early)
  BY <1>2, <1>4, QueueKids, DepthsAre DEF Base
<1> HIDE DEF o, q
<1> QED
  BY <1>1, <1>2, <1>4, <1>5, <1>6, <1>7, <1>8, <1>9 DEF o

LEMMA ReprWrites ==
  ASSUME Base, ReprReturns
  PROVE  \E e, rec, q : WritesObject(e, rec, q)
<1> DEFINE c == current
           o == obj[c.id]
           kids == IF o.type = "sub" THEN c.kids ELSE o.kids
<1>1. phase = "repr" /\ NoteHit(Stack(frame)) /\ UNCHANGED <<programVars, cancel, frame, mark>>
  BY DEF ReprReturns
<1>2. c.id \in Ids /\ c.depth \in Nat /\ c.limited \in BOOLEAN /\ c.kids \in KidSeqs
  BY <1>1 DEF Base, TypeOK, WalkTypes, KidSeqs
<1>3. /\ c.id \notin Mapped /\ o.type \notin Primitive
      /\ c.limited <=> c.depth >= MaxDepth
      /\ c.kids # <<>> => o.type = "sub" /\ ~c.limited
  BY <1>1 DEF Base, ReprInv
<1>4. o.type \in Types /\ o.text \in Texts /\ o.kids \in KidSeqs /\ (o.type \notin Containers => o.kids = <<>>)
  BY <1>2, ObjectIs DEF Base, TypeOK
<1>5. queue \in Seq(Entry) /\ Busy /\ (WalkInv => Expanding(c, queue, c.kids))
  BY <1>1, BaseIs DEF WalkInv, Busy
<1>6. /\ depthHit' \in [1..2 -> BOOLEAN]
      /\ \A s \in {1, 2} : depthHit'[s] <=> depthHit[s] \/ (s = Stack(frame) /\ c.limited)
  <2>1. depthHit' = [depthHit EXCEPT ![Stack(frame)] = depthHit[Stack(frame)] \/ c.limited]
    BY <1>1 DEF NoteHit
  <2> HIDE DEF c
  <2> QED
    BY <1>2, <2>1, BaseIs
<1>7. o.type \in Containers \cup {"opaque"}
  BY <1>3, <1>4, TypesAssumption
<1>8. CASE c.limited
  <2> DEFINE rec == Record(o.type, <<>>, o.text, FALSE)
  <2>1. Write(c, rec) /\ Proceed(queue) /\ UNCHANGED cache
    BY <1>8 DEF ReprReturns
  <2>2. rec \in Records /\ rec.type = o.type /\ rec.kids = <<>> /\ ~rec.full
    BY <1>4, NoKids DEF Record, Records, KidSeqs
  <2>3. c.kids = <<>>
    BY <1>3, <1>8
  <2> HIDE DEF rec, o
  <2>4. Puts(c, rec)
    BY <1>2, <1>3, <2>1, <2>2 DEF Puts
  <2>5. ~(c.depth < MaxDepth)
    BY <1>2, <1>3, <1>8, BaseIs
  <2> HIDE DEF c
  <2> QED
    BY <1>1, <1>5, <1>6, <1>8, <2>1, <2>2, <2>3, <2>4, <2>5 DEF WritesObject
<1>9. CASE ~c.limited /\ o.type = "opaque"
  <2> DEFINE rec == Record("string", <<>>, o.text, TRUE)
  <2>1. Write(c, rec) /\ Proceed(queue) /\ UNCHANGED cache
    BY <1>9 DEF ReprReturns
  <2>2. rec \in Records /\ rec.type = "string" /\ rec.kids = <<>> /\ rec.full
    BY <1>4, NoKids DEF Record, Records, KidSeqs
  <2>3. c.kids = <<>>
    BY <1>3, <1>9
  <2> HIDE DEF rec, o
  <2>4. Puts(c, rec)
    BY <1>2, <1>3, <2>1, <2>2 DEF Puts
  <2>5. rec.type \in Primitive
    BY <2>2 DEF Primitive
  <2> HIDE DEF c
  <2> QED
    BY <1>1, <1>5, <1>6, <1>9, <2>1, <2>2, <2>3, <2>4, <2>5 DEF WritesObject
<1>10. CASE ~c.limited /\ o.type # "opaque"
  <2> DEFINE rec == Record(o.type, kids, o.text, TRUE)
             q == IF o.type = "sub" THEN queue ELSE Queued(queue, kids, c.depth + 1)
  <2>1. WriteCached(c, rec, IdentityHash(o, kids)) /\ Proceed(q)
    BY <1>10 DEF ReprReturns
  <2>2. kids \in KidSeqs
    BY <1>2, <1>4
  <2>3. rec \in Records /\ rec.type = o.type /\ rec.kids = kids /\ rec.text = o.text /\ rec.full
    BY <1>4, <2>2 DEF Record, Records, KidSeqs
  <2>4. q \in Seq(Entry) /\ (WalkInv => Expanding(c, q, kids))
    <3>1. CASE o.type = "sub"
      BY <1>5, <3>1
    <3>2. CASE o.type # "sub"
      <4>1. c.kids = <<>> /\ q = Queued(queue, kids, c.depth + 1) /\ c.depth + 1 \in Nat
        BY <1>2, <1>3, <3>2
      <4> HIDE DEF q, kids
      <4>2. Queued(queue, kids, c.depth + 1) \in Seq(Entry)
        BY <1>5, <2>2, <4>1, QueuedIs DEF QueuedBehind
      <4>3. WalkInv => Expanding(c, Queued(queue, kids, c.depth + 1), kids)
        BY <1>2, <1>5, <2>2, <4>1, QueueKids, DepthsAre DEF Base
      <4> QED
        BY <4>1, <4>2, <4>3
    <3> QED
      BY <3>1, <3>2
  <2> HIDE DEF rec, q, kids
  <2>5. IdentityHash(o, kids) = IdentityHash(rec, rec.kids)
    BY <2>3 DEF IdentityHash
  <2>6. rec.type \in Containers /\ rec.type \notin Primitive
    BY <1>3, <1>7, <1>10, <2>3
  <2> HIDE DEF o
  <2>7. Puts(c, rec)
    BY <1>2, <1>3, <2>1, <2>3, <2>5, <2>6 DEF Puts
  <2>8. c.depth < MaxDepth
    BY <1>2, <1>3, <1>10, BaseIs
  <2> HIDE DEF c
  <2> QED
    BY <1>1, <1>5, <1>6, <1>10, <2>1, <2>3, <2>4, <2>7, <2>8 DEF WritesObject
<1> QED
  BY <1>2, <1>8, <1>9, <1>10

(***************************************************************************)
(* What every such action keeps.                                           *)
(***************************************************************************)
LEMMA ProceedIs ==
  ASSUME Base, Busy, NEW q \in Seq(Entry), Proceed(q), UNCHANGED <<cancel, frame>>,
         \A id \in Mapped' : truth'[id].frame \in 1..frame
  PROVE  /\ WalkTypes' /\ PhaseInv' /\ ReprInv' /\ phase' \in {"objects", "ended"}
         /\ \A g \in 1..frame : g < frame => Roots(g)' = Roots(g)
         /\ phase' = "objects" => queue' = q /\ Roots(frame)' = Roots(frame)
<1> DEFINE Frames == [stack : {1, 2}, ids : Seq(Ids)]
<1>1. /\ frame \in 1..FrameCount /\ FrameCount \in Nat /\ written \in Seq(Frames) /\ Len(written) = frame
      /\ cancel \in BOOLEAN
      /\ \A k \in DOMAIN written : written[k].stack = Stack(k)
  <2>1. frame > 0 /\ frame <= FrameCount /\ Len(written) = frame
    BY DEF Base, PhaseInv, Busy
  <2>2. \A k \in DOMAIN written : written[k].stack = Stack(k)
    BY DEF Base, PhaseInv
  <2> QED
    BY <2>1, <2>2, BaseIs
<1> HIDE DEF Frames
<1>2. CASE ~cancel
  <2>1. phase' = "objects" /\ queue' = q /\ written' = written
    BY <1>2 DEF Proceed
  <2>2. WalkTypes'
    BY <1>1, <2>1 DEF WalkTypes, Frames, Entry
  <2>3. PhaseInv'
    BY <1>1, <2>1 DEF PhaseInv, Busy
  <2> QED
    BY <2>1, <2>2, <2>3 DEF ReprInv, Roots
<1>3. CASE cancel
  <2>1. phase' = "ended" /\ queue' = <<>> /\ written' = SubSeq(written, 1, Len(written) - 1)
    BY <1>3 DEF Proceed, DropFrame
  <2>2. Len(written) - 1 \in 0..Len(written)
    BY <1>1
  <2>3. /\ written' \in Seq(Frames) /\ Len(written') = frame - 1
        /\ \A k \in 1..(frame - 1) : written'[k] = written[k]
    <3>1. 1 \in 1..(Len(written) + 1) /\ Len(written) - 1 \in (1 - 1)..Len(written)
      BY <1>1
    <3> QED
      BY <1>1, <2>1, <3>1, SubSeqProperties
  <2>4. \A k \in 1..(frame - 1) : k \in DOMAIN written
    BY <1>1
  <2>5. WalkTypes'
    BY <1>1, <2>1, <2>3 DEF WalkTypes, Frames
  <2>6. DOMAIN written' = 1..(frame - 1)
    BY <1>1, <2>3
  <2>7. PhaseInv'
    BY <1>1, <2>1, <2>3, <2>4, <2>6 DEF PhaseInv, Busy
  <2>8. \A g \in 1..frame : g < frame => Roots(g)' = Roots(g)
    <3>1. \A g \in 1..frame : g < frame => g \in 1..(frame - 1)
      BY <1>1
    <3> QED
      BY <2>3, <3>1 DEF Roots
  <2> QED
    BY <2>1, <2>5, <2>7, <2>8 DEF ReprInv
<1> QED
  BY <1>1, <1>2, <1>3

LEMMA WritesBase ==
  ASSUME Base, NEW e, NEW rec, NEW q, WritesObject(e, rec, q)
  PROVE  Base' /\ phase' \in {"objects", "ended"}
<1>1. /\ Busy /\ Puts(e, rec) /\ q \in Seq(Entry) /\ Proceed(q)
      /\ UNCHANGED <<programVars, cancel, frame, mark>>
  BY DEF WritesObject
<1>2. frame \in Nat /\ TypeOK /\ HeapInv /\ CacheInv
  BY BaseIs DEF Base
<1>3. TableTypes' /\ HistoryTypes' /\ HeapInv' /\ CacheInv'
  BY <1>1, <1>2, PutsTables
<1>4. Entered(e, rec) /\ Len(heap') \in {Len(heap), Len(heap) + 1}
  BY <1>1, <1>2, PutsEnters
<1>5. /\ e.id \in Ids /\ e.id \notin Mapped
      /\ Mapped' = Mapped \cup {e.id}
      /\ \A id \in Mapped : Recorded(id)' = Recorded(id) /\ truth'[id] = truth[id]
      /\ truth'[e.id].frame = frame /\ truth'[e.id].depth = e.depth
      /\ Recorded(e.id)'.type = rec.type /\ Recorded(e.id)'.full = rec.full
  BY <1>4 DEF Entered
<1>6. \A id \in Mapped' : truth'[id].frame \in 1..frame
  <2>1. \A id \in Mapped : truth[id].frame \in 1..frame
    BY DEF Base, PhaseInv
  <2>2. frame \in 1..frame
    BY <1>1, <1>2 DEF Base, PhaseInv, Busy
  <2> QED
    BY <1>5, <2>1, <2>2
<1>7. WalkTypes' /\ PhaseInv' /\ ReprInv' /\ phase' \in {"objects", "ended"}
  BY <1>1, <1>6, ProceedIs
<1>8. TypeOK'
  BY <1>1, <1>2, <1>3, <1>7 DEF TypeOK, ProgramTypes, WritesObject, programVars
<1>9. CountInv'
  <2>1. IsFiniteSet(Mapped) /\ Len(heap) - mark <= Cardinality(Mapped)
    BY <1>1 DEF Base, CountInv, Busy
  <2>2. IsFiniteSet(Mapped') /\ Cardinality(Mapped') = Cardinality(Mapped) + 1
    BY <1>5, <2>1, FS_AddElement
  <2>3. Len(heap) \in Nat /\ mark \in Nat /\ Cardinality(Mapped) \in Nat /\ mark' = mark
    BY <1>1, <1>2, <2>1, FS_CardinalityType DEF TypeOK, TableTypes
  <2> QED
    BY <1>4, <2>1, <2>2, <2>3 DEF CountInv
<1>10. FlagInv'
  <2>1. ASSUME NEW s \in {1, 2}
        PROVE  depthHit'[s] <=> \E id \in Mapped' : Stack(truth'[id].frame) = s /\ ~Recorded(id)'.full
    <3>1. depthHit[s] <=> \E id \in Mapped : Stack(truth[id].frame) = s /\ ~Recorded(id).full
      BY DEF Base, FlagInv
    <3>2. depthHit'[s] <=> depthHit[s] \/ (s = Stack(frame) /\ ~rec.full)
      BY DEF WritesObject
    <3> QED
      BY <1>5, <3>1, <3>2
  <2> QED
    BY <2>1 DEF FlagInv, Stack
<1>11. CutInv'
  <2>1. \A id \in Mapped : Recorded(id).type \notin Primitive => (Recorded(id).full <=> truth[id].depth < MaxDepth)
    BY DEF Base, CutInv
  <2>2. rec.type \notin Primitive => (rec.full <=> e.depth < MaxDepth)
    BY DEF WritesObject
  <2> QED
    BY <1>5, <2>1, <2>2 DEF CutInv
<1> QED
  BY <1>3, <1>7, <1>8, <1>9, <1>10, <1>11 DEF Base

\* What is about the tables stays as it is with them.
LEMMA TablesSame ==
  ASSUME Base, UNCHANGED <<objectMap, cache, heap, truth, mark, depthHit>>, phase' # "idle" => phase # "idle",
         missing' \in SUBSET Ids
  PROVE  /\ TableTypes' /\ HistoryTypes' /\ HeapInv' /\ CacheInv' /\ CountInv' /\ FlagInv' /\ CutInv'
         /\ depthHit' \in [1..2 -> BOOLEAN]
         /\ Mapped' = Mapped /\ \A id : Recorded(id)' = Recorded(id)
<1>1. Mapped' = Mapped /\ \A id : Recorded(id)' = Recorded(id)
  BY DEF Mapped, Recorded
<1>2. TableTypes' /\ HistoryTypes'
  BY DEF Base, TypeOK, TableTypes, HistoryTypes
<1>3. HeapInv' /\ CacheInv'
  BY DEF Base, HeapInv, CacheInv, Keeps
<1>4. CountInv'
  BY <1>1 DEF Base, CountInv
<1>5. FlagInv' /\ CutInv'
  BY <1>1 DEF Base, FlagInv, CutInv
<1> QED
  BY <1>1, <1>2, <1>3, <1>4, <1>5, BaseIs

LEMMA PassesBase ==
  ASSUME Base, NEW e, NEW q, PassesObject(e, q)
  PROVE  Base' /\ phase' \in {"objects", "ended"}
<1>1. /\ Busy /\ e.id \in Ids /\ q \in Seq(Entry) /\ Proceed(q)
      /\ missing' = missing \/ missing' = missing \cup {e.id}
      /\ UNCHANGED <<programVars, cancel, frame, mark, depthHit, objectMap, cache, heap, truth>>
  BY DEF PassesObject
<1>2. missing' \in SUBSET Ids
  BY <1>1 DEF Base, TypeOK, HistoryTypes
<1>3. /\ TableTypes' /\ HistoryTypes' /\ HeapInv' /\ CacheInv' /\ CountInv' /\ FlagInv' /\ CutInv'
      /\ depthHit' \in [1..2 -> BOOLEAN] /\ Mapped' = Mapped
  BY <1>1, <1>2, TablesSame DEF Busy
<1>4. \A id \in Mapped' : truth'[id].frame \in 1..frame
  BY <1>1, <1>3 DEF Base, PhaseInv
<1>5. WalkTypes' /\ PhaseInv' /\ ReprInv' /\ phase' \in {"objects", "ended"}
  BY <1>1, <1>4, ProceedIs
<1>6. ProgramTypes'
  BY <1>1 DEF Base, TypeOK, ProgramTypes, programVars
<1> QED
  BY <1>3, <1>5, <1>6 DEF Base, TypeOK

(***************************************************************************)
(* All actions.                                                            *)
(***************************************************************************)
LEMMA NoHits ==
  /\ <<FALSE, FALSE>> \in [1..2 -> BOOLEAN]
  /\ <<FALSE, FALSE>>[1] = FALSE /\ <<FALSE, FALSE>>[2] = FALSE
<1> DEFINE hit == <<FALSE, FALSE>>
<1>1. hit \in Seq(BOOLEAN) /\ Len(hit) = 2
  OBVIOUS
<1>2. hit[1] = FALSE /\ hit[2] = FALSE
  OBVIOUS
<1> HIDE DEF hit
<1>3. hit \in [1..2 -> BOOLEAN]
  BY <1>1, LenProperties
<1> QED
  BY <1>2, <1>3 DEF hit

LEMMA InitBase == Init => Base
<1> SUFFICES ASSUME Init PROVE Base
  OBVIOUS
<1>1. Mapped = {} /\ heap = <<>> /\ Len(heap) = 0 /\ missing = {}
  BY DEF Init, Mapped
<1>2. ProgramTypes
  <2>1. \A type \in Types : ObjectsOf(type, 0) \subseteq Objects
    BY DEF Objects
  <2>2. obj \in [Ids -> Objects]
    BY <2>1 DEF Init
  <2> QED
    BY <2>2 DEF Init, ProgramTypes
<1>3. WalkTypes
  <2>1. phase = "idle" /\ cancel = FALSE /\ frame = 0 /\ written = <<>> /\ queue = <<>>
    BY DEF Init
  <2>2. \A S : <<>> \in Seq(S)
    OBVIOUS
  <2>3. 0 \in 0..(FrameCount + 1)
    BY BoundsAssumption
  <2> QED
    BY <2>1, <2>2, <2>3 DEF WalkTypes
<1>4. TableTypes
  <2>1. heap \in Seq(Records) /\ mark \in 0..Len(heap)
    BY <1>1 DEF Init
  <2>2. objectMap \in [Ids -> 0..(Len(heap) - 1) \cup {Unmapped}]
    BY DEF Init
  <2>3. cache = [id \in Ids |-> NoEntry] /\ NoEntry.off = 0 /\ NoEntry.hash = <<>>
    BY DEF Init, NoEntry
  <2> DEFINE H == {<<>>} \cup {IdentityHash(r, r.kids) : r \in Records}
  <2>4. NoEntry \in [off : Nat, hash : H]
    BY DEF NoEntry
  <2>5. cache \in [Ids -> [off : Nat, hash : H]]
    <3> HIDE DEF H
    <3> QED
      BY <2>3, <2>4
  <2> QED
    BY <2>1, <2>2, <2>3, <2>5 DEF TableTypes
<1>5. HistoryTypes
  <2> DEFINE T == [rec : Records \cup {<<>>}, life : Nat, frame : Nat, depth : Nat]
  <2>1. Nothing \in T
    BY DEF Nothing
  <2> HIDE DEF T
  <2>2. truth \in [Ids -> T] /\ missing = {}
    BY <2>1 DEF Init
  <2> QED
    BY <2>2 DEF HistoryTypes, T
<1>6. depthHit = <<FALSE, FALSE>> /\ depthHit \in [1..2 -> BOOLEAN] /\ depthHit[1] = FALSE /\ depthHit[2] = FALSE
  BY NoHits DEF Init
<1>7. PhaseInv
  BY <1>1 DEF Init, PhaseInv, Busy
<1>8. ReprInv /\ HeapInv
  BY <1>1 DEF Init, ReprInv, HeapInv
<1>9. CacheInv
  BY DEF Init, CacheInv, NoEntry
<1>10. CountInv
  BY <1>1, FS_EmptySet DEF Init, CountInv
<1>11. FlagInv /\ CutInv
  BY <1>1, <1>6 DEF FlagInv, CutInv
<1> QED
  BY <1>2, <1>3, <1>4, <1>5, <1>6, <1>7, <1>8, <1>9, <1>10, <1>11 DEF Base, TypeOK

\* Whatever the program does, its objects keep their form, and an object that
\* something refers to keeps its type.
ProgramSteps == (\E id \in Ids : Change(id)) \/ (\E f \in 1..FrameCount : Rebind(f))

LEMMA ObjectTyped ==
  ASSUME NEW type \in Types, NEW life \in Nat, NEW o \in ObjectsOf(type, life)
  PROVE  o \in Objects /\ o.type = type /\ o.life = life
<1>1. PICK k \in KidsOf(type), t \in TextsOf(type) :
        o = [type |-> type, kids |-> k, text |-> t, life |-> life]
  BY DEF ObjectsOf
<1> QED
  BY <1>1 DEF Objects

LEMMA AllocateIs ==
  ASSUME ProgramTypes, NEW base \in [Ids -> Objects], NEW ids, NEW news \in [ids \ Live -> NewObjects]
  PROVE  /\ Allocate(base, news) \in [Ids -> Objects]
         /\ \A id \in Ids : id \in Live => Allocate(base, news)[id] = base[id]
<1>1. ASSUME NEW id \in Ids, id \in DOMAIN news
      PROVE  [news[id] EXCEPT !.life = obj[id].life + 1] \in Objects
  <2>1. news[id] \in UNION {ObjectsOf(type, 0) : type \in Types}
    BY <1>1 DEF NewObjects
  <2>2. PICK type \in Types : news[id] \in ObjectsOf(type, 0)
    BY <2>1
  <2>3. PICK k \in KidsOf(type), t \in TextsOf(type) :
          news[id] = [type |-> type, kids |-> k, text |-> t, life |-> 0]
    BY <2>2 DEF ObjectsOf
  <2>4. obj[id].life + 1 \in Nat
    BY <1>1, ObjectIs
  <2>5. [news[id] EXCEPT !.life = obj[id].life + 1]
           = [type |-> type, kids |-> k, text |-> t, life |-> obj[id].life + 1]
    BY <2>3
  <2>6. [news[id] EXCEPT !.life = obj[id].life + 1] \in ObjectsOf(type, obj[id].life + 1)
    BY <2>5 DEF ObjectsOf
  <2> QED
    BY <2>4, <2>6 DEF Objects
<1> QED
  BY <1>1 DEF Allocate

LEMMA ChangeIs ==
  ASSUME ProgramTypes, NEW id \in Ids, Change(id)
  PROVE  /\ obj' \in [Ids -> Objects]
         /\ \A x \in Ids : x \in Live => obj'[x].type = obj[x].type
<1>1. PICK o \in ObjectsOf(obj[id].type, obj[id].life) :
        \E news \in [Elements(o.kids) \ Live -> NewObjects] :
          obj' = Allocate([obj EXCEPT ![id] = o], news)
  BY DEF Change
<1> DEFINE base == [obj EXCEPT ![id] = o]
<1>2. o \in Objects /\ o.type = obj[id].type
  BY ObjectIs, ObjectTyped
<1>3. base \in [Ids -> Objects]
  BY <1>2 DEF ProgramTypes
<1>4. \A x \in Ids : base[x].type = obj[x].type
  BY <1>2 DEF ProgramTypes
<1>5. \E news \in [Elements(o.kids) \ Live -> NewObjects] : obj' = Allocate(base, news)
  BY <1>1
<1> HIDE DEF base
<1> DEFINE ids == Elements(o.kids)
<1>6. PICK news \in [ids \ Live -> NewObjects] : obj' = Allocate(base, news)
  BY <1>5
<1> HIDE DEF ids
<1>7. /\ Allocate(base, news) \in [Ids -> Objects]
      /\ \A x \in Ids : x \in Live => Allocate(base, news)[x] = base[x]
  BY <1>3, <1>6, AllocateIs
<1> QED
  BY <1>4, <1>6, <1>7

LEMMA RebindIs ==
  ASSUME ProgramTypes, NEW f \in 1..FrameCount, Rebind(f)
  PROVE  locals' \in [1..FrameCount -> SeqsUpTo(Ids, MaxLocals)]
<1>1. PICK k \in DOMAIN locals[f], id \in Live : locals' = [locals EXCEPT ![f][k] = id]
  BY DEF Rebind
<1>2. id \in Ids
  BY DEF Live
<1>3. PICK n \in 0..MaxLocals : locals[f] \in [1..n -> Ids]
  BY DEF ProgramTypes, SeqsUpTo
<1>4. [locals[f] EXCEPT ![k] = id] \in [1..n -> Ids]
  BY <1>2, <1>3
<1>5. [locals[f] EXCEPT ![k] = id] \in SeqsUpTo(Ids, MaxLocals)
  BY <1>4 DEF SeqsUpTo
<1>6. locals' = [locals EXCEPT ![f] = [locals[f] EXCEPT ![k] = id]]
  BY <1>1 DEF ProgramTypes
<1> QED
  BY <1>5, <1>6 DEF ProgramTypes

\* What runs its repr() is referred to by the capture.
LEMMA CurrentLives ==
  ASSUME phase = "repr", current.id \in Ids
  PROVE  current.id \in Live
<1>1. current.id \in Held
  BY DEF Held
<1> QED
  BY <1>1 DEF Live

LEMMA ProgramBase ==
  ASSUME Base, ProgramSteps
  PROVE  /\ Base'
         /\ UNCHANGED <<phase, cancel, frame, written, queue, current, depthHit, objectMap, cache, heap, truth, missing, mark>>
<1>1. UNCHANGED <<phase, cancel, frame, written, queue, current, depthHit, objectMap, cache, heap, truth, missing, mark>>
  BY DEF ProgramSteps, Change, Rebind, frameVars, tableVars
<1>2. ProgramTypes
  BY DEF Base, TypeOK
<1>3. ProgramTypes' /\ \A x \in Ids : x \in Live => obj'[x].type = obj[x].type
  <2>1. CASE \E id \in Ids : Change(id)
    <3>1. PICK id \in Ids : Change(id)
      BY <2>1
    <3>2. locals' = locals
      BY <3>1 DEF Change
    <3> QED
      BY <1>2, <3>1, <3>2, ChangeIs DEF ProgramTypes
  <2>2. CASE \E f \in 1..FrameCount : Rebind(f)
    <3>1. PICK f \in 1..FrameCount : Rebind(f)
      BY <2>2
    <3>2. obj' = obj
      BY <3>1 DEF Rebind
    <3> QED
      BY <1>2, <3>1, <3>2, RebindIs DEF ProgramTypes
  <2> QED
    BY <2>1, <2>2 DEF ProgramSteps
<1>4. missing' \in SUBSET Ids
  BY <1>1 DEF Base, TypeOK, HistoryTypes
<1>5. /\ TableTypes' /\ HistoryTypes' /\ HeapInv' /\ CacheInv' /\ CountInv' /\ FlagInv' /\ CutInv'
      /\ depthHit' \in [1..2 -> BOOLEAN] /\ Mapped' = Mapped
  BY <1>1, <1>4, TablesSame
<1>6. WalkTypes'
  BY <1>1 DEF Base, TypeOK, WalkTypes
<1>7. PhaseInv'
  BY <1>1, <1>5 DEF Base, PhaseInv, Busy
<1>8. ReprInv'
  <2> SUFFICES ASSUME phase = "repr"
               PROVE  /\ current.id \notin Mapped /\ obj'[current.id].type \notin Primitive
                      /\ current.limited <=> current.depth >= MaxDepth
                      /\ current.kids # <<>> => obj'[current.id].type = "sub" /\ ~current.limited
    BY <1>1, <1>5 DEF ReprInv
  <2>1. current.id \in Ids
    BY DEF Base, TypeOK, WalkTypes
  <2>2. obj'[current.id].type = obj[current.id].type
    BY <1>3, <2>1, CurrentLives
  <2> QED
    BY <2>2 DEF Base, ReprInv
<1> QED
  BY <1>1, <1>3, <1>5, <1>6, <1>7, <1>8 DEF Base, TypeOK

LEMMA CancelBase == Base /\ Cancel => Base'
<1> SUFFICES ASSUME Base, Cancel PROVE Base'
  OBVIOUS
<1>1. /\ cancel' = TRUE
      /\ UNCHANGED <<obj, locals, phase, frame, written, queue, current, depthHit, objectMap, cache, heap, truth, missing, mark>>
  BY DEF Cancel, frameVars, tableVars, programVars
<1>2. missing' \in SUBSET Ids
  BY <1>1 DEF Base, TypeOK, HistoryTypes
<1>3. /\ TableTypes' /\ HistoryTypes' /\ HeapInv' /\ CacheInv' /\ CountInv' /\ FlagInv' /\ CutInv'
      /\ depthHit' \in [1..2 -> BOOLEAN] /\ Mapped' = Mapped
  BY <1>1, <1>2, TablesSame
<1>4. WalkTypes' /\ ProgramTypes'
  BY <1>1 DEF Base, TypeOK, WalkTypes, ProgramTypes
<1>5. PhaseInv' /\ ReprInv'
  BY <1>1, <1>3 DEF Base, PhaseInv, ReprInv, Busy
<1> QED
  BY <1>3, <1>4, <1>5 DEF Base, TypeOK

LEMMA BeginSnapshotBase == Base /\ BeginSnapshot => Base'
<1> SUFFICES ASSUME Base, BeginSnapshot PROVE Base'
  OBVIOUS
<1>1. /\ phase = "idle" /\ phase' = "frame" /\ frame' = 1 /\ mark' = Len(heap)
      /\ UNCHANGED <<obj, locals, cancel, written, queue, current, depthHit, objectMap, cache, heap, truth, missing>>
  BY DEF BeginSnapshot, tableVars, programVars
<1>2. Mapped = {} /\ missing = {} /\ written = <<>> /\ queue = <<>> /\ Len(heap) \in Nat
  BY <1>1 DEF Base, PhaseInv, TypeOK, TableTypes
<1>3. Mapped' = {} /\ \A id : Recorded(id)' = Recorded(id)
  BY <1>1, <1>2 DEF Mapped, Recorded
<1>4. TableTypes' /\ HistoryTypes' /\ ProgramTypes' /\ depthHit' \in [1..2 -> BOOLEAN]
  <2>1. mark' \in 0..Len(heap')
    BY <1>1, <1>2
  <2> QED
    BY <1>1, <2>1 DEF Base, TypeOK, TableTypes, HistoryTypes, ProgramTypes
<1>5. WalkTypes'
  <2>1. 1 \in 0..(FrameCount + 1)
    BY BoundsAssumption
  <2> QED
    BY <1>1, <2>1 DEF Base, TypeOK, WalkTypes
<1>6. PhaseInv' /\ ReprInv'
  BY <1>1, <1>2, <1>3 DEF Base, PhaseInv, ReprInv, Busy
<1>7. HeapInv' /\ CacheInv'
  BY <1>1 DEF Base, HeapInv, CacheInv, Keeps
<1>8. CountInv'
  BY <1>1, <1>2, <1>3, FS_EmptySet DEF CountInv
<1>9. FlagInv' /\ CutInv'
  BY <1>1, <1>2, <1>3 DEF Base, FlagInv, CutInv
<1> QED
  BY <1>4, <1>5, <1>6, <1>7, <1>8, <1>9 DEF Base, TypeOK

LEMMA BeginFrameBase == Base /\ BeginFrame => Base'
<1> SUFFICES ASSUME Base, BeginFrame PROVE Base'
  OBVIOUS
<1>1. /\ phase = "frame"
      /\ UNCHANGED <<obj, locals, cancel, frame, current, depthHit, objectMap, cache, heap, truth, missing, mark>>
  BY DEF BeginFrame, tableVars, programVars
<1>2. missing' \in SUBSET Ids
  BY <1>1 DEF Base, TypeOK, HistoryTypes
<1>3. /\ TableTypes' /\ HistoryTypes' /\ HeapInv' /\ CacheInv' /\ CountInv' /\ FlagInv' /\ CutInv'
      /\ depthHit' \in [1..2 -> BOOLEAN] /\ Mapped' = Mapped
  BY <1>1, <1>2, TablesSame
<1>4. ProgramTypes'
  BY <1>1 DEF Base, TypeOK, ProgramTypes
<1>5. /\ frame \in Nat /\ frame > 0 /\ Len(written) = frame - 1 /\ queue = <<>>
      /\ \A k \in DOMAIN written : written[k].stack = Stack(k)
      /\ \A id \in Mapped : truth[id].frame \in 1..frame
  BY <1>1, BaseIs DEF Base, PhaseInv
<1>6. CASE cancel \/ frame > FrameCount
  <2>1. phase' = "ended" /\ written' = written /\ queue' = queue
    BY <1>6 DEF BeginFrame
  <2>2. WalkTypes'
    BY <1>1, <2>1 DEF Base, TypeOK, WalkTypes
  <2>3. PhaseInv' /\ ReprInv'
    BY <1>1, <1>3, <1>5, <2>1 DEF PhaseInv, ReprInv, Busy
  <2> QED
    BY <1>3, <1>4, <2>2, <2>3 DEF Base, TypeOK
<1>7. CASE ~(cancel \/ frame > FrameCount)
  <2> DEFINE ids == locals[frame]
             new == [stack |-> Stack(frame), ids |-> ids]
             Frames == [stack : {1, 2}, ids : Seq(Ids)]
  <2>1. phase' = "objects" /\ written' = Append(written, new)
        /\ queue' = [k \in DOMAIN ids |-> [id |-> ids[k], depth |-> 0]]
    BY <1>7 DEF BeginFrame
  <2>2. frame \in 1..FrameCount
    BY <1>5, <1>7, BaseIs
  <2>3. ids \in Seq(Ids)
    BY <2>2, SeqsAre, BoundsAssumption DEF Base, TypeOK, ProgramTypes
  <2>4. new \in Frames
    BY <2>3, BaseIs
  <2>5. queue' \in Seq(Entry)
    <3>1. Len(ids) \in Nat /\ DOMAIN ids = 1..Len(ids) /\ \A k \in DOMAIN ids : ids[k] \in Ids
      BY <2>3
    <3> HIDE DEF ids
    <3> QED
      BY <2>1, <3>1 DEF Entry
  <2> HIDE DEF new, Frames, ids
  <2>6. written \in Seq(Frames)
    BY BaseIs DEF Frames
  <2>7. written' \in Seq(Frames) /\ Len(written') = frame
    BY <1>5, <2>1, <2>4, <2>6
  <2>8. WalkTypes'
    BY <1>1, <2>1, <2>5, <2>7 DEF Base, TypeOK, WalkTypes, Entry, Frames
  <2>9. \A k \in DOMAIN written' : written'[k].stack = Stack(k)
    <3>1. DOMAIN written' = 1..frame /\ DOMAIN written = 1..(frame - 1)
      BY <1>5, <2>6, <2>7
    <3>2. (\A k \in 1..(frame - 1) : written'[k] = written[k]) /\ written'[frame] = new
      BY <1>5, <2>1, <2>4, <2>6
    <3>3. new.stack = Stack(frame)
      BY DEF new
    <3>4. \A k \in 1..frame : k \in 1..(frame - 1) \/ k = frame
      BY <1>5
    <3> QED
      BY <1>5, <3>1, <3>2, <3>3, <3>4
  <2>10. PhaseInv' /\ ReprInv'
    BY <1>1, <1>3, <1>5, <2>1, <2>2, <2>7, <2>9 DEF PhaseInv, ReprInv, Busy
  <2> QED
    BY <1>3, <1>4, <2>8, <2>10 DEF Base, TypeOK
<1> QED
  BY <1>6, <1>7

LEMMA CallReprBase == Base /\ CallRepr => Base'
<1> SUFFICES ASSUME Base, CallRepr PROVE Base'
  OBVIOUS
<1>1. UNCHANGED <<obj, locals, cancel, frame, written, depthHit, objectMap, cache, heap, truth, missing, mark>>
  BY DEF CallRepr, tableVars, programVars
<1>2. PICK e, q, early :
        /\ Busy /\ phase' = "repr" /\ queue' = q /\ q \in Seq(Entry)
        /\ current' = [id |-> e.id, depth |-> e.depth, limited |-> AtLimit(e), kids |-> early]
        /\ e \in Entry /\ early \in KidSeqs /\ e.id \notin Mapped /\ obj[e.id].type \notin Primitive
        /\ early # <<>> => obj[e.id].type = "sub" /\ ~AtLimit(e)
  BY CallReprs
<1>3. missing' \in SUBSET Ids
  BY <1>1 DEF Base, TypeOK, HistoryTypes
<1>4. /\ TableTypes' /\ HistoryTypes' /\ HeapInv' /\ CacheInv' /\ CountInv' /\ FlagInv' /\ CutInv'
      /\ depthHit' \in [1..2 -> BOOLEAN] /\ Mapped' = Mapped
  BY <1>1, <1>2, <1>3, TablesSame DEF Busy
<1>5. ProgramTypes'
  BY <1>1 DEF Base, TypeOK, ProgramTypes
<1>6. AtLimit(e) \in BOOLEAN /\ e.id \in Ids /\ e.depth \in Nat
  BY <1>2 DEF AtLimit, Entry
<1>7. /\ current'.id = e.id /\ current'.depth = e.depth /\ current'.limited = AtLimit(e) /\ current'.kids = early
      /\ current' \in [id : Ids, depth : Nat, limited : BOOLEAN, kids : KidSeqs]
  BY <1>2, <1>6
<1>8. WalkTypes'
  BY <1>1, <1>2, <1>7 DEF Base, TypeOK, WalkTypes, KidSeqs, Entry
<1>9. PhaseInv'
  BY <1>1, <1>2, <1>4 DEF Base, PhaseInv, Busy
<1>10. ReprInv'
  BY <1>1, <1>2, <1>4, <1>7 DEF ReprInv, AtLimit
<1> QED
  BY <1>4, <1>5, <1>8, <1>9, <1>10 DEF Base, TypeOK

LEMMA FrameDoneBase == Base /\ FrameDone => Base'
<1> SUFFICES ASSUME Base, FrameDone PROVE Base'
  OBVIOUS
<1>1. /\ phase = "objects" /\ queue = <<>> /\ phase' = "frame" /\ frame' = frame + 1
      /\ UNCHANGED <<obj, locals, cancel, written, queue, current, depthHit, objectMap, cache, heap, truth, missing, mark>>
  BY DEF FrameDone, tableVars, programVars
<1>2. missing' \in SUBSET Ids
  BY <1>1 DEF Base, TypeOK, HistoryTypes
<1>3. /\ TableTypes' /\ HistoryTypes' /\ HeapInv' /\ CacheInv' /\ CountInv' /\ FlagInv' /\ CutInv'
      /\ depthHit' \in [1..2 -> BOOLEAN] /\ Mapped' = Mapped
  BY <1>1, <1>2, TablesSame
<1>4. frame \in Nat /\ frame <= FrameCount /\ frame > 0 /\ Len(written) = frame
  BY <1>1, BaseIs DEF Base, PhaseInv, Busy
<1>5. ProgramTypes'
  BY <1>1 DEF Base, TypeOK, ProgramTypes
<1>6. WalkTypes'
  <2>1. frame + 1 \in 0..(FrameCount + 1)
    BY <1>4, BaseIs
  <2> QED
    BY <1>1, <2>1 DEF Base, TypeOK, WalkTypes
<1>7. PhaseInv'
  <2>1. \A id \in Mapped' : truth'[id].frame \in 1..frame
    BY <1>1, <1>3 DEF Base, PhaseInv
  <2>2. \A id \in Mapped' : truth'[id].frame \in 1..frame' /\ truth'[id].frame < frame'
    BY <1>1, <1>4, <2>1
  <2>3. \A k \in DOMAIN written' : written'[k].stack = Stack(k)
    BY <1>1 DEF Base, PhaseInv
  <2>4. Len(written') = frame' - 1 /\ frame' > 0
    BY <1>1, <1>4
  <2> QED
    BY <1>1, <2>2, <2>3, <2>4 DEF PhaseInv, Busy
<1>8. ReprInv'
  BY <1>1 DEF ReprInv
<1> QED
  BY <1>3, <1>5, <1>6, <1>7, <1>8 DEF Base, TypeOK

LEMMA EndSnapshotBase == Base /\ EndSnapshot => Base'
<1> SUFFICES ASSUME Base, EndSnapshot PROVE Base'
  OBVIOUS
<1>1. /\ phase = "ended" /\ phase' = "idle" /\ cancel' = FALSE /\ frame' = 0
      /\ written' = <<>> /\ depthHit' = <<FALSE, FALSE>>
      /\ objectMap' = [id \in Ids |-> Unmapped]
      /\ truth' = [id \in Ids |-> Nothing] /\ missing' = {}
      /\ UNCHANGED <<obj, locals, queue, current, cache, heap, mark>>
  BY DEF EndSnapshot, programVars
<1>2. Mapped' = {}
  BY <1>1 DEF Mapped
<1>3. queue = <<>>
  BY <1>1 DEF Base, PhaseInv
<1>4. ProgramTypes' /\ WalkTypes'
  <2>1. \A S : <<>> \in Seq(S)
    OBVIOUS
  <2>2. 0 \in 0..(FrameCount + 1)
    BY BoundsAssumption
  <2> QED
    BY <1>1, <1>3, <2>1, <2>2 DEF Base, TypeOK, WalkTypes, ProgramTypes
<1>5. TableTypes'
  <2>1. objectMap' \in [Ids -> 0..(Len(heap') - 1) \cup {Unmapped}]
    BY <1>1
  <2> QED
    BY <1>1, <2>1 DEF Base, TypeOK, TableTypes
<1>6. HistoryTypes'
  <2> DEFINE T == [rec : Records \cup {<<>>}, life : Nat, frame : Nat, depth : Nat]
  <2>1. Nothing \in T
    BY DEF Nothing
  <2> HIDE DEF T
  <2>2. truth' \in [Ids -> T] /\ missing' = {}
    BY <1>1, <2>1
  <2> QED
    BY <2>2 DEF HistoryTypes, T
<1>7. depthHit' \in [1..2 -> BOOLEAN] /\ depthHit'[1] = FALSE /\ depthHit'[2] = FALSE
  BY <1>1, NoHits
<1>8. PhaseInv'
  BY <1>1, <1>2, <1>3 DEF PhaseInv, Busy
<1>9. HeapInv' /\ CacheInv' /\ ReprInv'
  BY <1>1 DEF Base, HeapInv, CacheInv, Keeps, ReprInv
<1>10. CountInv' /\ FlagInv' /\ CutInv'
  BY <1>1, <1>2, <1>7, FS_EmptySet DEF CountInv, FlagInv, CutInv
<1> QED
  BY <1>4, <1>5, <1>6, <1>7, <1>8, <1>9, <1>10 DEF Base, TypeOK

LEMMA FinalizeBase == Base /\ Finalize => Base'
<1> SUFFICES ASSUME Base, Finalize PROVE Base'
  OBVIOUS
<1>1. /\ phase = "idle" /\ heap' = <<>> /\ mark' = 0 /\ cache' = [id \in Ids |-> NoEntry]
      /\ UNCHANGED <<obj, locals, phase, cancel, frame, written, queue, depthHit, current, objectMap, truth, missing>>
  BY DEF Finalize, ClearCache, programVars, frameVars
<1>2. Mapped = {} /\ Mapped' = {}
  BY <1>1 DEF Base, PhaseInv, Mapped
<1>3. ProgramTypes' /\ WalkTypes' /\ HistoryTypes' /\ depthHit' \in [1..2 -> BOOLEAN]
  BY <1>1 DEF Base, TypeOK, ProgramTypes, WalkTypes, HistoryTypes
<1>4. TableTypes'
  <2> DEFINE H == {<<>>} \cup {IdentityHash(r, r.kids) : r \in Records}
  <2>1. NoEntry \in [off : Nat, hash : H]
    BY DEF NoEntry
  <2>2. cache' \in [Ids -> [off : Nat, hash : H]]
    <3> HIDE DEF H
    <3> QED
      BY <1>1, <2>1
  <2>3. \A id \in Ids : cache'[id] = NoEntry
    BY <1>1
  <2>4. \A id \in Ids : objectMap[id] = Unmapped
    BY <1>2 DEF Mapped
  <2>5. objectMap' \in [Ids -> 0..(Len(heap') - 1) \cup {Unmapped}]
    <3>1. DOMAIN objectMap = Ids /\ objectMap = [id \in Ids |-> objectMap[id]]
      BY DEF Base, TypeOK, TableTypes
    <3> QED
      BY <1>1, <2>4, <3>1
  <2>6. heap' \in Seq(Records) /\ Len(heap') = 0
    BY <1>1
  <2> QED
    BY <1>1, <2>2, <2>3, <2>5, <2>6 DEF TableTypes
<1>5. PhaseInv' /\ ReprInv'
  BY <1>1, <1>2 DEF Base, PhaseInv, ReprInv, Busy
<1>6. HeapInv' /\ CacheInv'
  BY <1>1 DEF HeapInv, CacheInv, NoEntry
<1>7. CountInv' /\ FlagInv' /\ CutInv'
  BY <1>1, <1>2, FS_EmptySet DEF Base, CountInv, FlagInv, CutInv
<1> QED
  BY <1>3, <1>4, <1>5, <1>6, <1>7 DEF Base, TypeOK

LEMMA StutterBase == Base /\ UNCHANGED vars => Base'
<1> SUFFICES ASSUME Base, UNCHANGED vars PROVE Base'
  OBVIOUS
<1>1. UNCHANGED <<obj, locals, phase, cancel, frame, written, queue, depthHit, current, objectMap, cache, heap, truth, missing, mark>>
  BY DEF vars, programVars, frameVars, tableVars
<1>2. missing' \in SUBSET Ids
  BY <1>1 DEF Base, TypeOK, HistoryTypes
<1>3. /\ TableTypes' /\ HistoryTypes' /\ HeapInv' /\ CacheInv' /\ CountInv' /\ FlagInv' /\ CutInv'
      /\ depthHit' \in [1..2 -> BOOLEAN] /\ Mapped' = Mapped
  BY <1>1, <1>2, TablesSame
<1>4. WalkTypes' /\ ProgramTypes'
  BY <1>1 DEF Base, TypeOK, WalkTypes, ProgramTypes
<1>5. PhaseInv' /\ ReprInv'
  BY <1>1, <1>3 DEF Base, PhaseInv, ReprInv, Busy
<1> QED
  BY <1>3, <1>4, <1>5 DEF Base, TypeOK

\* The invariant of the tables and of the phases.
THEOREM TablesInvariance == Spec => []Base
<1>1. ASSUME Base, [Next]_vars PROVE Base'
  <2>1. CASE ProgramSteps
    BY <1>1, <2>1, ProgramBase
  <2>2. CASE Cancel
    BY <1>1, <2>2, CancelBase
  <2>3. CASE BeginSnapshot
    BY <1>1, <2>3, BeginSnapshotBase
  <2>4. CASE BeginFrame
    BY <1>1, <2>4, BeginFrameBase
  <2>5. CASE Skip
    BY <1>1, <2>5, SkipPasses, PassesBase
  <2>6. CASE ProcessUnwritable
    BY <1>1, <2>6, UnwritablePasses, PassesBase
  <2>7. CASE ProcessLeaf
    BY <1>1, <2>7, LeafWrites, WritesBase
  <2>8. CASE ProcessCached
    BY <1>1, <2>8, CachedWrites, WritesBase
  <2>9. CASE CallRepr
    BY <1>1, <2>9, CallReprBase
  <2>10. CASE ReprReturns
    BY <1>1, <2>10, ReprWrites, WritesBase
  <2>11. CASE FrameDone
    BY <1>1, <2>11, FrameDoneBase
  <2>12. CASE EndSnapshot
    BY <1>1, <2>12, EndSnapshotBase
  <2>13. CASE Finalize
    BY <1>1, <2>13, FinalizeBase
  <2>14. CASE UNCHANGED vars
    BY <1>1, <2>14, StutterBase
  <2> QED
    BY <1>1, <2>1, <2>2, <2>3, <2>4, <2>5, <2>6, <2>7, <2>8, <2>9, <2>10, <2>11, <2>12, <2>13, <2>14
       DEF Next, ProgramSteps
<1> QED
  BY <1>1, InitBase, PTL DEF Spec

\* In one snapshot no object is written twice: there are as many records as
\* objects, whatever graph they are in and however they change.
THEOREM WrittenOnceCorrect == Spec => []WrittenOnce
<1>1. Base => WrittenOnce
  BY DEF Base, CountInv, WrittenOnce
<1> QED
  BY <1>1, TablesInvariance, PTL

\* A stacktrace is flagged exactly if an object was cut off in it first.
THEOREM FlagAgreesCorrect == Spec => []FlagAgrees
<1>1. Base => FlagAgrees
  BY DEF Base, FlagInv, FlagAgrees
<1> QED
  BY <1>1, TablesInvariance, PTL

(***************************************************************************)
(* What needs that the hash sees all kids.                                 *)
(***************************************************************************)
LEMMA WritesIInv ==
  ASSUME WindowCovers, IInv, NEW e, NEW rec, NEW q, WritesObject(e, rec, q)
  PROVE  CacheKeepsStructure' /\ WalkInv'
<1>1. /\ Busy /\ Puts(e, rec) /\ q \in Seq(Entry) /\ Proceed(q)
      /\ UNCHANGED <<cancel, frame>> /\ Expanding(e, q, rec.kids)
  BY DEF WritesObject, IInv
<1>2. Base /\ frame \in Nat /\ TypeOK /\ HeapInv /\ CacheInv
  BY BaseIs DEF IInv, Base
<1>3. /\ Entered(e, rec) /\ Recorded(e.id)'.kids = rec.kids
      /\ rec.type \in Primitive => Recorded(e.id)'.text = rec.text
  BY <1>1, <1>2, PutsEnters
<1>4. e.id \in Ids /\ e.depth \in Nat
  BY <1>1 DEF Puts
<1>5. CacheKeepsStructure'
  <2>1. /\ Mapped' = Mapped \cup {e.id}
        /\ \A id \in Mapped : Recorded(id)' = Recorded(id) /\ truth'[id] = truth[id]
        /\ truth'[e.id].rec = rec
        /\ Recorded(e.id)'.type = rec.type /\ Recorded(e.id)'.full = rec.full
    BY <1>3 DEF Entered
  <2>2. \A id \in Mapped : SameStructure(Recorded(id), truth[id].rec)
    BY DEF IInv, CacheKeepsStructure
  <2>3. SameStructure(Recorded(e.id)', truth'[e.id].rec)
    BY <1>3, <2>1 DEF SameStructure
  <2>4. ASSUME NEW id \in Mapped' PROVE SameStructure(Recorded(id)', truth'[id].rec)
    BY <2>1, <2>2, <2>3
  <2> QED
    BY <2>4 DEF CacheKeepsStructure, SameStructure
<1>6. Base' /\ phase' \in {"objects", "ended"}
  BY <1>2, WritesBase
<1>7. /\ \A g \in 1..frame : g < frame => Roots(g)' = Roots(g)
      /\ phase' = "objects" => queue' = q /\ Roots(frame)' = Roots(frame)
  <2>1. \A id \in Mapped' : truth'[id].frame \in 1..frame
    BY <1>1, <1>6 DEF Base, PhaseInv
  <2> QED
    BY <1>1, <1>2, <2>1, ProceedIs
<1>8. \A g \in 1..frame' : g < frame' => Finished(g)'
  <2>1. ASSUME NEW g \in 1..frame, g < frame PROVE Finished(g)'
    <3>1. Finished(g) /\ Roots(g)' = Roots(g) /\ g # frame
      BY <1>2, <1>7, <2>1 DEF IInv, WalkInv
    <3> QED
      BY <1>1, <1>3, <3>1, FinishedEntered
  <2> QED
    BY <1>1, <2>1
<1>9. ASSUME phase' = "objects" PROVE Walk(queue)'
  <2>1. Walk(q)'
    BY <1>1, <1>2, <1>3, <1>4, <1>7, <1>9, DepthsAre, EnterStep
  <2> QED
    BY <1>7, <1>9, <2>1 DEF Walk, Sorted, Holds
<1> QED
  BY <1>5, <1>6, <1>8, <1>9 DEF WalkInv

LEMMA PassesIInv ==
  ASSUME IInv, NEW e, NEW q, PassesObject(e, q)
  PROVE  CacheKeepsStructure' /\ WalkInv'
<1>1. /\ Busy /\ e.id \in Ids /\ e.depth \in Nat /\ q \in Seq(Entry) /\ Proceed(q)
      /\ (e.id \in Mapped /\ missing' = missing) \/ missing' = missing \cup {e.id}
      /\ UNCHANGED <<cancel, frame, objectMap, heap, truth>> /\ Expanding(e, q, <<>>)
  BY DEF PassesObject, IInv
<1>2. Base /\ frame \in Nat /\ Depths
  BY BaseIs, DepthsAre DEF IInv, Base
<1>3. Mapped' = Mapped /\ \A id : Recorded(id)' = Recorded(id)
  BY <1>1 DEF Mapped, Recorded
<1>4. CacheKeepsStructure'
  BY <1>1, <1>3 DEF IInv, CacheKeepsStructure
<1>5. Base' /\ phase' \in {"objects", "ended"}
  BY <1>2, PassesBase
<1>6. /\ \A g \in 1..frame : g < frame => Roots(g)' = Roots(g)
      /\ phase' = "objects" => queue' = q /\ Roots(frame)' = Roots(frame)
  <2>1. \A id \in Mapped' : truth'[id].frame \in 1..frame
    BY <1>1, <1>5 DEF Base, PhaseInv
  <2> QED
    BY <1>1, <1>2, <2>1, ProceedIs
<1>7. missing \subseteq missing'
  BY <1>1
<1>8. \A g \in 1..frame' : g < frame' => Finished(g)'
  <2>1. ASSUME NEW g \in 1..frame, g < frame PROVE Finished(g)'
    BY <1>1, <1>6, <1>7, <2>1, FinishedSame DEF IInv, WalkInv
  <2> QED
    BY <1>1, <2>1
<1>9. ASSUME phase' = "objects" PROVE Walk(queue)'
  <2>1. SameWalk
    BY <1>1, <1>6, <1>7, <1>9 DEF SameWalk
  <2>2. \A d \in Nat : e.depth <= d => Done(e.id, frame, d)'
    <3>1. CASE missing' = missing \cup {e.id}
      BY <3>1 DEF Done
    <3>2. CASE e.id \in Mapped /\ missing' = missing
      <4>1. truth[e.id].frame \in 1..frame /\ truth[e.id].depth \in Nat
        BY <1>2, <3>2 DEF Base, PhaseInv, Depths
      <4>2. truth[e.id].frame < frame \/ truth[e.id].frame = frame
        BY <1>2, <4>1
      <4>3. truth[e.id].frame = frame => truth[e.id].depth <= e.depth
        BY <1>1, <3>2 DEF Expanding, Here
      <4>4. \A d \in Nat : e.depth <= d => Done(e.id, frame, d)
        BY <1>1, <3>2, <4>1, <4>2, <4>3 DEF Done
      <4> QED
        BY <1>1, <1>3, <4>4 DEF Done
    <3> QED
      BY <1>1, <3>1, <3>2
  <2>3. Walk(q)'
    BY <1>1, <1>2, <2>1, <2>2, PassOver
  <2> QED
    BY <1>6, <1>9, <2>3 DEF Walk, Sorted, Holds
<1> QED
  BY <1>4, <1>5, <1>8, <1>9 DEF WalkInv


LEMMA InitIInv == Init => IInv
<1> SUFFICES ASSUME Init PROVE IInv
  OBVIOUS
<1>1. Mapped = {} /\ frame = 0 /\ phase = "idle"
  BY DEF Init, Mapped
<1>2. 1..frame = {}
  BY <1>1
<1> QED
  BY <1>1, <1>2, InitBase DEF IInv, CacheKeepsStructure, WalkInv

\* The program runs, or cancels, while the walk stands still.
LEMMA QuietIInv ==
  ASSUME IInv, UNCHANGED <<phase, frame, written, queue, current, objectMap, heap, truth, missing>>
  PROVE  CacheKeepsStructure' /\ WalkInv'
<1>1. Mapped' = Mapped /\ (\A id : Recorded(id)' = Recorded(id)) /\ truth' = truth
  BY DEF Mapped, Recorded
<1>2. CacheKeepsStructure'
  BY <1>1 DEF IInv, CacheKeepsStructure
<1>3. \A g : Roots(g)' = Roots(g)
  BY DEF Roots
<1>4. ASSUME NEW g \in 1..frame', g < frame' PROVE Finished(g)'
  <2>1. Finished(g)
    BY <1>4 DEF IInv, WalkInv
  <2> QED
    BY <1>3, <2>1, FinishedSame
<1>5. SameWalk
  BY <1>3 DEF SameWalk
<1>6. ASSUME phase' = "objects" PROVE Walk(queue)'
  <2>1. Walk(queue)
    BY <1>6 DEF IInv, WalkInv
  <2>2. \A q : q = queue => Walk(q)'
    BY <1>5, <2>1, WalkSame
  <2> QED
    BY <2>2 DEF Walk, Sorted, Holds
<1>7. ASSUME phase' = "repr" PROVE Expanding(current, queue, current.kids)'
  <2>1. Expanding(current, queue, current.kids)
    BY <1>7 DEF IInv, WalkInv
  <2>2. \A e, q, kids : e = current /\ q = queue /\ kids = current.kids => Expanding(e, q, kids)'
    BY <1>5, <2>1, ExpandingSame
  <2> QED
    BY <2>2 DEF Expanding, Sorted, Holds, Elements
<1> QED
  BY <1>2, <1>4, <1>6, <1>7 DEF WalkInv

LEMMA BeginSnapshotIInv == IInv /\ BeginSnapshot => CacheKeepsStructure' /\ WalkInv'
<1> SUFFICES ASSUME IInv, BeginSnapshot PROVE CacheKeepsStructure' /\ WalkInv'
  OBVIOUS
<1>1. phase = "idle" /\ phase' = "frame" /\ frame' = 1 /\ objectMap' = objectMap
  BY DEF BeginSnapshot, tableVars
<1>2. Mapped' = {}
  BY <1>1 DEF IInv, Base, PhaseInv, Mapped
<1>3. \A g \in 1..frame' : ~(g < frame')
  BY <1>1
<1> QED
  BY <1>1, <1>2, <1>3 DEF CacheKeepsStructure, WalkInv

LEMMA BeginFrameIInv == IInv /\ BeginFrame => CacheKeepsStructure' /\ WalkInv'
<1> SUFFICES ASSUME IInv, BeginFrame PROVE CacheKeepsStructure' /\ WalkInv'
  OBVIOUS
<1>1. phase = "frame" /\ UNCHANGED <<frame, objectMap, heap, truth, missing>>
  BY DEF BeginFrame, tableVars
<1>2. Mapped' = Mapped /\ (\A id : Recorded(id)' = Recorded(id)) /\ truth' = truth
  BY <1>1 DEF Mapped, Recorded
<1>3. CacheKeepsStructure'
  BY <1>2 DEF IInv, CacheKeepsStructure
<1>4. /\ frame \in Nat /\ frame > 0 /\ Len(written) = frame - 1
      /\ \A id \in Mapped : truth[id].frame \in 1..frame /\ truth[id].frame < frame
      /\ written \in Seq([stack : {1, 2}, ids : Seq(Ids)])
  BY <1>1, BaseIs DEF IInv, Base, PhaseInv
<1>5. ASSUME \A g \in 1..frame : g < frame => Roots(g)' = Roots(g)
      PROVE  \A g \in 1..frame' : g < frame' => Finished(g)'
  <2>1. ASSUME NEW g \in 1..frame, g < frame PROVE Finished(g)'
    <3>1. Finished(g) /\ Roots(g)' = Roots(g)
      BY <1>5, <2>1 DEF IInv, WalkInv
    <3> QED
      BY <1>1, <3>1, FinishedSame
  <2> QED
    BY <1>1, <2>1
<1>6. CASE cancel \/ frame > FrameCount
  <2>1. phase' = "ended" /\ written' = written
    BY <1>6 DEF BeginFrame
  <2> QED
    BY <1>3, <1>5, <2>1 DEF WalkInv, Roots
<1>7. CASE ~(cancel \/ frame > FrameCount)
  <2> DEFINE ids == locals[frame]
             new == [stack |-> Stack(frame), ids |-> ids]
             q == [k \in DOMAIN ids |-> [id |-> ids[k], depth |-> 0]]
  <2>1. phase' = "objects" /\ written' = Append(written, new) /\ queue' = q
    BY <1>7 DEF BeginFrame
  <2>2. frame \in 1..FrameCount
    BY <1>4, <1>7, BaseIs DEF IInv
  <2>3. ids \in Seq(Ids)
    BY <2>2, SeqsAre, BoundsAssumption DEF IInv, Base, TypeOK, ProgramTypes
  <2>4. new.ids = ids /\ new \in [stack : {1, 2}, ids : Seq(Ids)]
    BY <2>3, BaseIs DEF IInv
  <2> HIDE DEF new, ids
  <2>5. /\ \A k \in 1..(frame - 1) : written'[k] = written[k]
        /\ written'[frame] = new
    BY <1>4, <2>1, <2>4
  <2>6. \A g \in 1..frame : g < frame => Roots(g)' = Roots(g)
    <3>1. \A g \in 1..frame : g < frame => g \in 1..(frame - 1)
      BY <1>4
    <3> QED
      BY <2>5, <3>1 DEF Roots
  <2>7. Roots(frame)' = Elements(ids)
    BY <1>1, <2>4, <2>5 DEF Roots, Elements
  <2>8. Here' = {}
    <3>1. \A id \in Mapped : truth[id].frame # frame
      BY <1>4
    <3> QED
      BY <1>1, <1>2, <3>1 DEF Here
  <2>9. \A p : p = q => Walk(p)'
    BY <1>1, <1>4, <2>3, <2>7, <2>8, WalkStarts
  <2>10. Walk(queue)'
    <3> HIDE DEF q
    <3> QED
      BY <2>1, <2>9 DEF Walk, Sorted, Holds
  <2> QED
    BY <1>3, <1>5, <2>1, <2>6, <2>10 DEF WalkInv
<1> QED
  BY <1>6, <1>7

LEMMA CallReprIInv == IInv /\ CallRepr => CacheKeepsStructure' /\ WalkInv'
<1> SUFFICES ASSUME IInv, CallRepr PROVE CacheKeepsStructure' /\ WalkInv'
  OBVIOUS
<1>1. UNCHANGED <<frame, written, objectMap, heap, truth, missing>>
  BY DEF CallRepr, tableVars
<1>2. Mapped' = Mapped /\ (\A id : Recorded(id)' = Recorded(id)) /\ truth' = truth
  BY <1>1 DEF Mapped, Recorded
<1>3. CacheKeepsStructure'
  BY <1>2 DEF IInv, CacheKeepsStructure
<1>4. \A g : Roots(g)' = Roots(g)
  BY <1>1 DEF Roots
<1>5. ASSUME NEW g \in 1..frame', g < frame' PROVE Finished(g)'
  <2>1. Finished(g)
    BY <1>1, <1>5 DEF IInv, WalkInv
  <2> QED
    BY <1>1, <1>4, <2>1, FinishedSame
<1>6. PICK e, q, early :
        /\ phase' = "repr" /\ queue' = q
        /\ current' = [id |-> e.id, depth |-> e.depth, limited |-> AtLimit(e), kids |-> early]
        /\ Expanding(e, q, early)
  BY CallReprs DEF IInv
<1>7. Expanding(e, q, early)'
  BY <1>1, <1>4, <1>6, ExpandingSame DEF SameWalk
<1>8. current'.id = e.id /\ current'.depth = e.depth /\ current'.kids = early
  BY <1>6
<1>9. Expanding(current, queue, current.kids)'
  BY <1>6, <1>7, <1>8 DEF Expanding, Sorted, Holds, Elements
<1> QED
  BY <1>3, <1>5, <1>6, <1>9 DEF WalkInv

LEMMA FrameDoneIInv == IInv /\ FrameDone => CacheKeepsStructure' /\ WalkInv'
<1> SUFFICES ASSUME IInv, FrameDone PROVE CacheKeepsStructure' /\ WalkInv'
  OBVIOUS
<1>1. /\ phase = "objects" /\ queue = <<>> /\ phase' = "frame" /\ frame' = frame + 1
      /\ UNCHANGED <<written, objectMap, heap, truth, missing>>
  BY DEF FrameDone, tableVars
<1>2. Mapped' = Mapped /\ (\A id : Recorded(id)' = Recorded(id)) /\ truth' = truth
  BY <1>1 DEF Mapped, Recorded
<1>3. CacheKeepsStructure'
  BY <1>2 DEF IInv, CacheKeepsStructure
<1>4. \A g : Roots(g)' = Roots(g)
  BY <1>1 DEF Roots
<1>5. frame \in Nat
  BY BaseIs DEF IInv
<1>6. Finished(frame)
  <2>1. Walk(<<>>)
    BY <1>1 DEF IInv, WalkInv
  <2> QED
    BY <2>1, WalkDone
<1>7. ASSUME NEW g \in 1..frame', g < frame' PROVE Finished(g)'
  <2>1. g = frame \/ (g \in 1..frame /\ g < frame)
    BY <1>1, <1>5, <1>7
  <2>2. Finished(g)
    BY <1>6, <2>1 DEF IInv, WalkInv
  <2> QED
    BY <1>1, <1>4, <2>2, FinishedSame
<1> QED
  BY <1>1, <1>3, <1>7 DEF WalkInv

LEMMA EndSnapshotIInv == EndSnapshot => CacheKeepsStructure' /\ WalkInv'
<1> SUFFICES ASSUME EndSnapshot PROVE CacheKeepsStructure' /\ WalkInv'
  OBVIOUS
<1>1. phase' = "idle" /\ frame' = 0 /\ objectMap' = [id \in Ids |-> Unmapped]
  BY DEF EndSnapshot
<1>2. Mapped' = {} /\ 1..frame' = {}
  BY <1>1 DEF Mapped
<1> QED
  BY <1>1, <1>2 DEF CacheKeepsStructure, WalkInv

LEMMA FinalizeIInv == IInv /\ Finalize => CacheKeepsStructure' /\ WalkInv'
<1> SUFFICES ASSUME IInv, Finalize PROVE CacheKeepsStructure' /\ WalkInv'
  OBVIOUS
<1>1. phase = "idle" /\ phase' = "idle" /\ UNCHANGED <<frame, objectMap>>
  BY DEF Finalize, frameVars
<1>2. Mapped' = {} /\ frame' = 0
  BY <1>1 DEF IInv, Base, PhaseInv, Mapped
<1>3. 1..frame' = {}
  BY <1>2
<1> QED
  BY <1>1, <1>2, <1>3 DEF CacheKeepsStructure, WalkInv

\* The inductive invariant, where the hash sees all kids.
THEOREM Invariance == WindowCovers => (Spec => []IInv)
<1> SUFFICES ASSUME WindowCovers PROVE Spec => []IInv
  OBVIOUS
<1>1. ASSUME IInv, [Next]_vars PROVE CacheKeepsStructure' /\ WalkInv'
  <2> USE DEF IInv
  <2>1. CASE ProgramSteps
    BY <1>1, <2>1, ProgramBase, QuietIInv
  <2>2. CASE Cancel
    BY <1>1, <2>2, QuietIInv DEF Cancel, frameVars, tableVars
  <2>3. CASE BeginSnapshot
    BY <1>1, <2>3, BeginSnapshotIInv
  <2>4. CASE BeginFrame
    BY <1>1, <2>4, BeginFrameIInv
  <2>5. CASE Skip
    BY <1>1, <2>5, SkipPasses, PassesIInv
  <2>6. CASE ProcessUnwritable
    BY <1>1, <2>6, UnwritablePasses, PassesIInv
  <2>7. CASE ProcessLeaf
    BY <1>1, <2>7, LeafWrites, WritesIInv
  <2>8. CASE ProcessCached
    BY <1>1, <2>8, CachedWrites, WritesIInv
  <2>9. CASE CallRepr
    BY <1>1, <2>9, CallReprIInv
  <2>10. CASE ReprReturns
    BY <1>1, <2>10, ReprWrites, WritesIInv
  <2>11. CASE FrameDone
    BY <1>1, <2>11, FrameDoneIInv
  <2>12. CASE EndSnapshot
    BY <1>1, <2>12, EndSnapshotIInv
  <2>13. CASE Finalize
    BY <1>1, <2>13, FinalizeIInv
  <2>14. CASE UNCHANGED vars
    BY <1>1, <2>14, QuietIInv DEF vars, frameVars, tableVars
  <2> QED
    BY <1>1, <2>1, <2>2, <2>3, <2>4, <2>5, <2>6, <2>7, <2>8, <2>9, <2>10, <2>11, <2>12, <2>13, <2>14
       DEF Next, ProgramSteps
<1>2. IInv /\ Base' /\ [Next]_vars => IInv'
  BY <1>1 DEF IInv
<1> QED
  BY <1>2, InitIInv, TablesInvariance, PTL DEF Spec

\* A record found in the cache, of this snapshot or of an earlier one, has the
\* structure that its object has now.
THEOREM CacheKeepsStructureCorrect == WindowCovers => (Spec => []CacheKeepsStructure)
<1>1. IInv => CacheKeepsStructure
  BY DEF IInv
<1> QED
  BY <1>1, Invariance, PTL

(***************************************************************************)
(* What a reader reaches.                                                  *)
(***************************************************************************)
\* The frames that are kept when a capture ends are those that are done.
LEMMA EndedIs ==
  ASSUME IInv, phase = "ended"
  PROVE  /\ frame \in Nat /\ frame > 0 /\ Len(written) = frame - 1
         /\ DOMAIN written = 1..(frame - 1) /\ \A k \in DOMAIN written : written[k].ids \in Seq(Ids)
         /\ \A g \in 1..(frame - 1) : Finished(g)
         /\ \A id \in Mapped : id \in Ids /\ truth[id].frame \in 1..frame /\ truth[id].depth \in Nat
<1>1. frame \in Nat /\ frame > 0 /\ Len(written) = frame - 1 /\ written \in Seq([stack : {1, 2}, ids : Seq(Ids)])
  BY BaseIs DEF IInv, Base, PhaseInv
<1>2. DOMAIN written = 1..(frame - 1)
  BY <1>1
<1>3. \A k \in DOMAIN written : written[k].ids \in Seq(Ids)
  <2> DEFINE Frames == [stack : {1, 2}, ids : Seq(Ids)]
  <2>1. \A k \in DOMAIN written : written[k] \in Frames
    <3> HIDE DEF Frames
    <3>1. written \in Seq(Frames)
      BY <1>1 DEF Frames
    <3> QED
      BY <3>1
  <2> QED
    BY <2>1
<1>4. \A g \in 1..(frame - 1) : g \in 1..frame /\ g < frame
  BY <1>1
<1>5. \A id \in Mapped : id \in Ids /\ truth[id].frame \in 1..frame /\ truth[id].depth \in Nat
  BY MappedIs DEF IInv, Base, PhaseInv
<1> QED
  BY <1>1, <1>2, <1>3, <1>4, <1>5 DEF IInv, WalkInv

LEMMA ClosedIs == IInv => Closed
<1> SUFFICES ASSUME IInv, phase = "ended", NoneReplaced, NEW s \in {1, 2}, NEW id \in Reached(StackIds(s))
             PROVE  id \in Mapped \cup missing
  BY DEF Closed
<1> DEFINE S == {x \in Mapped : truth[x].frame < frame} \cup missing
<1>1. /\ frame \in Nat /\ DOMAIN written = 1..(frame - 1)
      /\ \A g \in 1..(frame - 1) : Finished(g)
      /\ \A x \in Mapped : x \in Ids /\ truth[x].frame \in 1..frame /\ truth[x].depth \in Nat
  BY EndedIs
<1>2. S \in SUBSET Ids
  BY <1>1 DEF IInv, Base, TypeOK, HistoryTypes
<1>3. ASSUME NEW g \in 1..(frame - 1), NEW x, NEW d, Done(x, g, d)
      PROVE  x \in S
  <2>1. CASE x \in missing
    BY <2>1
  <2>2. CASE x \in Mapped /\ truth[x].frame <= g
    BY <1>1, <2>2
  <2> QED
    BY <1>1, <1>3, <2>1, <2>2 DEF Done
<1>4. StackIds(s) \subseteq S
  <2> SUFFICES ASSUME NEW x \in StackIds(s) PROVE x \in S
    OBVIOUS
  <2>1. PICK k \in DOMAIN written : x \in Elements(written[k].ids)
    BY DEF StackIds
  <2>2. k \in 1..(frame - 1) /\ Done(x, k, 0)
    BY <1>1, <2>1 DEF Finished, Roots
  <2> QED
    BY <1>3, <2>2
<1>5. \A x \in S : Kids(x) \subseteq S
  <2> SUFFICES ASSUME NEW x \in S, NEW y \in Kids(x) PROVE y \in S
    OBVIOUS
  <2>1. x \in Mapped /\ y \in Elements(Recorded(x).kids)
    BY DEF Kids
  <2>2. x \notin missing
    BY <2>1 DEF NoneReplaced
  <2>3. PICK g : g = truth[x].frame
    OBVIOUS
  <2>4. g \in 1..(frame - 1)
    BY <1>1, <2>1, <2>2, <2>3
  <2>5. Done(y, g, truth[x].depth + 1)
    BY <1>1, <2>1, <2>3, <2>4 DEF Finished
  <2> QED
    BY <1>3, <2>4, <2>5
<1>6. id \in S
  <2> HIDE DEF S
  <2> QED
    BY <1>2, <1>4, <1>5 DEF Reached
<1> QED
  BY <1>6

\* Whatever is cancelled, and whatever the program does meanwhile, what is
\* reached from the variables of a frame that is kept is on record, but for
\* strings that cannot be encoded.
THEOREM ClosedCorrect == WindowCovers => (Spec => []Closed)
BY Invariance, ClosedIs, PTL

\* One step further.
Further(S) == S \cup UNION {Kids(x) : x \in S}

\* The function of Near.
NearBy(f, n, ids) ==
  f = [k \in 0..n |-> IF k = 0 THEN {} ELSE IF k = 1 THEN ids ELSE Further(f[k - 1])]

LEMMA NearExists ==
  ASSUME NEW N \in Nat, NEW ids
  PROVE  \E f : NearBy(f, N, ids)
<1> DEFINE T == {m \in Nat : \E f : NearBy(f, m, ids)}
<1>1. 0 \in T
  <2> DEFINE f == [k \in 0..0 |-> {}]
  <2>1. \A k \in 0..0 : k = 0
    OBVIOUS
  <2>2. NearBy(f, 0, ids)
    BY <2>1 DEF NearBy
  <2> HIDE DEF f
  <2> QED
    BY <2>2
<1>2. ASSUME NEW m \in Nat, m \in T PROVE m + 1 \in T
  <2>1. PICK f : NearBy(f, m, ids)
    BY <1>2
  <2> DEFINE g == [k \in 0..m + 1 |-> IF k = 0 THEN {} ELSE IF k = 1 THEN ids ELSE Further(f[k - 1])]
  <2>2. \A k \in 0..m : g[k] = f[k]
    BY <2>1 DEF NearBy
  <2>3. \A k \in 0..m + 1 : k # 0 => k - 1 \in 0..m /\ k - 1 \in 0..m + 1
    OBVIOUS
  <2>4. \A k \in 0..m + 1 : k # 0 => g[k - 1] = f[k - 1]
    BY <2>2, <2>3
  <2>5. NearBy(g, m + 1, ids)
    BY <2>4 DEF NearBy
  <2> HIDE DEF g
  <2> QED
    BY <2>5
<1> HIDE DEF T
<1>3. Nat \subseteq T
  BY <1>1, <1>2, NatInd
<1> QED
  BY <1>3 DEF T

\* The steps in which Near goes.
NearSteps(W, n, ids) ==
  /\ W[0] = {} /\ (n > 0 => W[1] = ids)
  /\ \A k \in 1..n : k + 1 \in 1..n => W[k + 1] = Further(W[k])

LEMMA NearIs ==
  ASSUME NEW N \in Nat, NEW ids
  PROVE  \E W : Near(ids, N) = W[N] /\ NearSteps(W, N, ids)
<1> DEFINE W == CHOOSE f : NearBy(f, N, ids)
<1>1. NearBy(W, N, ids)
  BY NearExists
<1>2. Near(ids, N) = W[N]
  BY DEF Near, NearBy, Further
<1> HIDE DEF W
<1>3. W[0] = {} /\ (N > 0 => W[1] = ids)
  BY <1>1 DEF NearBy
<1>4. ASSUME NEW k \in 1..N, k + 1 \in 1..N PROVE W[k + 1] = Further(W[k])
  <2>1. k + 1 \in 0..N /\ k + 1 # 0 /\ k + 1 # 1 /\ (k + 1) - 1 = k
    BY <1>4
  <2> QED
    BY <1>1, <2>1 DEF NearBy
<1> QED
  BY <1>2, <1>3, <1>4 DEF NearSteps

\* What is found n steps from a frame that is kept is what its walk found at a
\* lower depth, or was found before.
LEMMA NearDone ==
  ASSUME IInv, phase = "ended", NoneReplaced, NEW f \in 1..(frame - 1), NEW N \in Nat, NEW W,
         NearSteps(W, N, Roots(f))
  PROVE  \A k \in Nat : k + 1 \in 1..N =>
           \A id : /\ id \in W[k + 1] => Done(id, f, k)
                   /\ id \in Mapped /\ truth[id].frame = f /\ truth[id].depth <= k => id \in W[k + 1]
<1>1. /\ frame \in Nat /\ \A g \in 1..(frame - 1) : Finished(g)
      /\ \A x \in Mapped : truth[x].frame \in 1..frame /\ truth[x].depth \in Nat
  BY EndedIs
<1>2. f \in Nat /\ f < frame /\ Finished(f)
  BY <1>1
<1>3. /\ N > 0 => W[1] = Roots(f)
      /\ \A k \in 1..N : k + 1 \in 1..N => W[k + 1] = Further(W[k])
  BY DEF NearSteps
<1> DEFINE P(k) == \A id : /\ id \in W[k + 1] => Done(id, f, k)
                           /\ id \in Mapped /\ truth[id].frame = f /\ truth[id].depth <= k => id \in W[k + 1]
           T == {k \in Nat : k + 1 \in 1..N => P(k)}
<1>4. 0 \in T
  <2> SUFFICES ASSUME N > 0, NEW id
               PROVE  /\ id \in W[1] => Done(id, f, 0)
                      /\ id \in Mapped /\ truth[id].frame = f /\ truth[id].depth <= 0 => id \in W[1]
    OBVIOUS
  <2>1. id \in W[1] => Done(id, f, 0)
    BY <1>2, <1>3 DEF Finished
  <2>2. ASSUME id \in Mapped, truth[id].frame = f, truth[id].depth <= 0 PROVE id \in W[1]
    <3>1. truth[id].depth = 0 /\ FromAbove(id, truth[id].depth, f)
      BY <1>1, <1>2, <2>2 DEF Finished
    <3>2. \A p \in Mapped : truth[p].depth + 1 # 0
      BY <1>1
    <3> QED
      BY <1>3, <3>1, <3>2 DEF FromAbove
  <2> QED
    BY <2>1, <2>2
<1>5. ASSUME NEW k \in Nat, k \in T PROVE k + 1 \in T
  <2> SUFFICES ASSUME (k + 1) + 1 \in 1..N PROVE P(k + 1)
    OBVIOUS
  <2>1. k + 1 \in 1..N
    OBVIOUS
  <2>2. P(k)
    BY <1>5, <2>1
  <2>3. W[(k + 1) + 1] = Further(W[k + 1])
    BY <1>3, <2>1
  <2> SUFFICES ASSUME NEW id
               PROVE  /\ id \in W[(k + 1) + 1] => Done(id, f, k + 1)
                      /\ id \in Mapped /\ truth[id].frame = f /\ truth[id].depth <= k + 1 => id \in W[(k + 1) + 1]
    OBVIOUS
  <2>4. ASSUME id \in W[k + 1] PROVE Done(id, f, k + 1)
    <3>1. Done(id, f, k)
      BY <2>2, <2>4
    <3> QED
      BY <1>1, <3>1 DEF Done
  <2>5. ASSUME NEW x \in W[k + 1], id \in Kids(x) PROVE Done(id, f, k + 1)
    <3>1. x \in Mapped /\ id \in Elements(Recorded(x).kids) /\ x \notin missing
      BY <2>5 DEF Kids, NoneReplaced
    <3>2. Done(x, f, k)
      BY <2>2
    <3>3. PICK g, d : g = truth[x].frame /\ d = truth[x].depth
      OBVIOUS
    <3>4. g \in Nat /\ d \in Nat /\ (g < f \/ (g = f /\ d <= k)) /\ g \in 1..(frame - 1)
      BY <1>1, <1>2, <3>1, <3>2, <3>3 DEF Done
    <3>5. Done(id, g, d + 1)
      BY <1>1, <3>1, <3>3, <3>4 DEF Finished
    <3>6. CASE g < f
      BY <1>1, <1>2, <3>4, <3>5, <3>6 DEF Done
    <3>7. CASE g = f /\ d <= k
      BY <1>1, <1>2, <3>4, <3>5, <3>7 DEF Done
    <3> QED
      BY <3>4, <3>6, <3>7
  <2>6. ASSUME id \in Mapped, truth[id].frame = f, truth[id].depth <= k + 1
        PROVE  id \in W[(k + 1) + 1]
    <3>1. CASE truth[id].depth <= k
      BY <2>2, <2>3, <2>6, <3>1 DEF Further
    <3>2. CASE truth[id].depth = k + 1
      <4>1. FromAbove(id, k + 1, f)
        BY <1>2, <2>6, <3>2 DEF Finished
      <4>2. k + 1 # 0
        OBVIOUS
      <4>3. PICK p \in Mapped : truth[p].frame = f /\ truth[p].depth + 1 = k + 1 /\ id \in Elements(Recorded(p).kids)
        BY <4>1, <4>2 DEF FromAbove
      <4>4. truth[p].depth <= k
        BY <1>1, <4>3
      <4>5. p \in W[k + 1] /\ id \in Kids(p)
        BY <2>2, <4>3, <4>4 DEF Kids
      <4> QED
        BY <2>3, <4>5 DEF Further
    <3> QED
      BY <1>1, <2>6, <3>1, <3>2
  <2> QED
    BY <2>3, <2>4, <2>5, <2>6 DEF Further
<1> HIDE DEF T
<1>6. Nat \subseteq T
  BY <1>4, <1>5, NatInd
<1> QED
  BY <1>6 DEF T

LEMMA CutAtDepthIs == IInv => CutAtDepth
<1> SUFFICES ASSUME IInv, phase = "ended", NoneReplaced, NEW id \in Mapped, NEW f, f = truth[id].frame,
                    f <= Len(written), Recorded(id).type \notin Primitive
             PROVE  Recorded(id).full <=> id \in Near(Elements(written[f].ids), MaxDepth)
  BY DEF CutAtDepth
<1>1. /\ frame \in Nat /\ Len(written) = frame - 1
      /\ f \in 1..frame /\ truth[id].depth \in Nat
  BY EndedIs
<1>2. f \in 1..(frame - 1)
  BY <1>1
<1>3. PICK N \in Nat : N = MaxDepth
  BY BoundsAssumption
<1>4. PICK roots : roots = Roots(f)
  OBVIOUS
<1>5. PICK W : Near(roots, N) = W[N] /\ NearSteps(W, N, roots)
  BY NearIs
<1>6. Recorded(id).full <=> truth[id].depth < N
  BY <1>3 DEF IInv, Base, CutInv
<1>7. id \in W[N] <=> truth[id].depth < N
  <2>1. CASE N = 0
    BY <1>1, <1>5, <2>1 DEF NearSteps
  <2>2. CASE N > 0
    <3>1. PICK k \in Nat : k + 1 = N
      <4>1. N - 1 \in Nat /\ (N - 1) + 1 = N
        BY <2>2
      <4> QED
        BY <4>1
    <3>2. k + 1 \in 1..N
      BY <3>1
    <3>3. /\ id \in W[k + 1] => Done(id, f, k)
          /\ truth[id].depth <= k => id \in W[k + 1]
      BY <1>2, <1>3, <1>5, <1>4, <3>2, NearDone
    <3>4. id \notin missing
      BY DEF NoneReplaced
    <3>5. id \in W[k + 1] => truth[id].depth <= k
      BY <1>1, <3>3, <3>4 DEF Done
    <3>6. truth[id].depth < N <=> truth[id].depth <= k
      BY <1>1, <3>1
    <3> QED
      BY <3>1, <3>3, <3>5, <3>6
  <2> QED
    BY <2>1, <2>2
<1>8. Near(Elements(written[f].ids), MaxDepth) = W[N]
  BY <1>3, <1>5, <1>4 DEF Roots
<1> QED
  BY <1>6, <1>7, <1>8

\* The depth at which an object is cut off is its distance from the frame that
\* reached it first, whichever way the queue came upon it.
THEOREM CutAtDepthCorrect == WindowCovers => (Spec => []CutAtDepth)
BY Invariance, CutAtDepthIs, PTL

=============================================================================
