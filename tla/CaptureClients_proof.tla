------------------------ MODULE CaptureClients_proof ------------------------
(***************************************************************************)
(* Proofs about CaptureClients, for any number of threads, hooks, files    *)
(* and snapshots.                                                          *)
(***************************************************************************)
EXTENDS CaptureClients, SequenceTheorems, FiniteSetTheorems, TLAPS

(***************************************************************************)
(* The inductive invariant.                                                *)
(***************************************************************************)
HookPoints == {"hook", "opening", "taking", "writing", "telling"}
Points == HookPoints \cup {"idle", "capturing", "refused", "naming", "saving", "enabling", "body", "disabling"}
HookNames == {"python", "tintype", "library"}
Outputs == [of : Nat, has : SUBSET Nat, written : BOOLEAN]

PointTypes ==
  /\ pc \in [Actors -> Points] /\ claim \in Actors \cup {None}
  /\ sampler \in Threads \cup {None} /\ lost \in BOOLEAN
FileTypes ==
  /\ file \in Nat /\ files \in Nat /\ taken \in Nat
  /\ content \in SUBSET Nat /\ outputs \in Seq(Outputs) /\ result \in [Actors -> Nat]
HookTypes ==
  /\ hooks \in Seq(HookNames) /\ saved \in Seq(HookNames)
  /\ rest \in Seq(HookNames) /\ called \in Seq(HookNames)

\* Whoever is in its block, or leaves it, is the one that enabled sampling.
SamplerInv == \A t \in Threads : pc[t] \in {"body", "disabling"} => sampler = t

\* Whoever captures has the claim, and there is a working file until it is lost.
CaptureInv ==
  /\ \A a \in Actors : pc[a] = "capturing" => claim = a
  /\ claim # None /\ ~lost => file # 0
  /\ file = 0 => content = {}

\* A snapshot is in one place.
Disjoint ==
  /\ \A k \in DOMAIN outputs : outputs[k].has \cap content = {}
  /\ \A j, k \in DOMAIN outputs : j # k => outputs[j].has \cap outputs[k].has = {}
Bounded ==
  /\ content \subseteq 1..taken
  /\ \A k \in DOMAIN outputs : outputs[k].has \subseteq 1..taken
Somewhere == \A n \in 1..taken : n \in content \/ \E k \in DOMAIN outputs : n \in outputs[k].has
KeptInv == Disjoint /\ Bounded /\ Somewhere

\* The last hook is that of the interpreter: tintype's calls one after itself.
EndsInPython(chain) == chain # <<>> /\ chain[Len(chain)] = "python"
ChainInv ==
  /\ EndsInPython(hooks)
  /\ saved # <<>> => EndsInPython(saved)
  /\ rest # <<>> => called \o rest = hooks
  /\ rest # <<>> => pc[Main] \in HookPoints \cup {"capturing", "refused"}
  /\ pc[Main] \in HookPoints \ {"hook"} => rest # <<>>
  /\ pc[Main] = "hook" /\ rest = <<>> => called = hooks

\* Points of the other threads and of the sampling thread.
OthersInv ==
  /\ \A a \in Actors \ {Main} : pc[a] \notin HookPoints
  /\ pc[Sampler] \in {"idle", "capturing", "refused"}

(***************************************************************************)
(* Facts about sequences.                                                  *)
(***************************************************************************)
\* What ends in a sequence of one element ends in that element.
LEMMA LastOfConcat ==
  ASSUME NEW S, NEW s \in Seq(S), NEW t \in Seq(S), t # <<>>, Tail(t) = <<>>
  PROVE  (s \o t)[Len(s \o t)] = t[1]
<1> DEFINE r == Tail(t)
<1>1. r = <<>> /\ Len(r) = Len(t) - 1
  BY HeadTailProperties
<1> HIDE DEF r
<1>2. Len(t) = 1
  BY <1>1, EmptySeq, LenProperties
<1> QED
  BY <1>2, ConcatProperties, LenProperties

\* An element that moves from the head of one sequence to the end of another.
LEMMA MoveHead ==
  ASSUME NEW S, NEW s \in Seq(S), NEW t \in Seq(S), t # <<>>
  PROVE  Append(s, Head(t)) \o Tail(t) = s \o t
<1> DEFINE a == Append(s, Head(t))
<1>1. /\ Head(t) \in S /\ Tail(t) \in Seq(S) /\ Len(Tail(t)) = Len(t) - 1
      /\ \A i \in 1..Len(t) - 1 : Tail(t)[i] = t[i + 1]
  BY HeadTailProperties
<1>2. Head(t) = t[1]
  OBVIOUS
<1>3. /\ a \in Seq(S) /\ Len(a) = Len(s) + 1 /\ a[Len(s) + 1] = t[1]
      /\ \A i \in 1..Len(s) : a[i] = s[i]
  BY <1>1, <1>2
<1> HIDE DEF a
<1> DEFINE r == Tail(t)
<1>4. /\ r \in Seq(S) /\ Len(r) = Len(t) - 1
      /\ \A i \in 1..Len(t) - 1 : r[i] = t[i + 1]
  BY <1>1
<1> HIDE DEF r
<1>5. Len(s) \in Nat /\ Len(t) \in Nat
  BY LenProperties
<1>6. /\ a \o r \in Seq(S) /\ Len(a \o r) = Len(a) + Len(r)
      /\ \A i \in 1..Len(a) + Len(r) : (a \o r)[i] = IF i <= Len(a) THEN a[i] ELSE r[i - Len(a)]
  BY <1>4, <1>3, ConcatProperties
<1>7. /\ s \o t \in Seq(S) /\ Len(s \o t) = Len(s) + Len(t)
      /\ \A i \in 1..Len(s) + Len(t) : (s \o t)[i] = IF i <= Len(s) THEN s[i] ELSE t[i - Len(s)]
  BY ConcatProperties
<1>8. Len(a \o r) = Len(s) + Len(t)
  BY <1>4, <1>3, <1>6, <1>5
<1>9. ASSUME NEW i \in 1..Len(s) + Len(t)
      PROVE  (a \o r)[i] = (s \o t)[i]
  <2>1. CASE i <= Len(s)
    BY <1>4, <1>3, <1>6, <1>7, <1>5, <2>1
  <2>2. CASE i = Len(s) + 1
    BY <1>4, <1>3, <1>6, <1>7, <1>5, <2>2
  <2>3. CASE i > Len(s) + 1
    <3>1. /\ i - Len(a) \in 1..Len(t) - 1 /\ (i - Len(a)) + 1 = i - Len(s)
          /\ i \in 1..Len(a) + Len(r) /\ ~(i <= Len(a)) /\ ~(i <= Len(s))
      BY <1>4, <1>3, <1>5, <2>3
    <3>2. (a \o r)[i] = r[i - Len(a)] /\ (s \o t)[i] = t[i - Len(s)]
      BY <1>6, <1>7, <3>1, Zenon
    <3>3. r[i - Len(a)] = t[i - Len(s)]
      BY <1>4, <3>1, Zenon
    <3> QED
      BY <3>2, <3>3, Zenon
  <2>4. i <= Len(s) \/ i = Len(s) + 1 \/ i > Len(s) + 1
    BY <1>5
  <2> QED
    BY <2>1, <2>2, <2>3, <2>4, Zenon
<1> QED
  BY <1>6, <1>7, <1>8, <1>9, SeqEqual DEF a, r

USE ClientsAssumption
USE DEF Actors, coreVars, fileVars, hookVars, Go, PointTypes, FileTypes, HookTypes, OthersInv, Points, HookPoints

(***************************************************************************)
(* What the operations of the module do to the working file, the claim and *)
(* the snapshots, whoever calls them.                                      *)
(***************************************************************************)
\* A new working file, or the one there is.
LEMMA OpenTypes ==
  ASSUME FileTypes, Open, UNCHANGED <<outputs, taken, result>>
  PROVE  FileTypes'
<1>1. CASE file # 0
  BY <1>1 DEF Open
<1>2. CASE file = 0
  BY <1>2 DEF Open, NewFile
<1> QED
  BY <1>1, <1>2

\* A snapshot is added to the file that the capture began in, or none.
LEMMA EndCaptureKeeps ==
  ASSUME PointTypes, FileTypes, CaptureInv, NEW a \in Actors,
         NEW then \in Points \ {"capturing"}, NEW raised \in Points \ {"capturing"},
         EndCapture(a, then, raised)
  PROVE  FileTypes' /\ CaptureInv' /\ (KeptInv => KeptInv')
<1> USE DEF EndCapture
<1>1. CASE Written(a, then)
  <2>1. FileTypes'
    BY <1>1 DEF Written
  <2>2. CaptureInv'
    BY <1>1 DEF Written, CaptureInv
  <2>3. ASSUME KeptInv PROVE KeptInv'
    <3>1. \A k \in DOMAIN outputs : taken + 1 \notin outputs[k].has
      BY <2>3 DEF KeptInv, Bounded
    <3>2. Disjoint'
      BY <1>1, <2>3, <3>1 DEF Written, KeptInv, Disjoint
    <3>3. Bounded'
      BY <1>1, <2>3 DEF Written, KeptInv, Bounded
    <3>4. Somewhere'
      BY <1>1, <2>3 DEF Written, KeptInv, Somewhere
    <3> QED
      BY <3>2, <3>3, <3>4 DEF KeptInv
  <2> QED
    BY <2>1, <2>2, <2>3
<1>2. CASE Discarded(a, then)
  BY <1>2 DEF Discarded, CaptureInv, KeptInv, Disjoint, Bounded, Somewhere
<1>3. CASE Failed(a, raised)
  BY <1>3 DEF Failed, CaptureInv, KeptInv, Disjoint, Bounded, Somewhere
<1> QED
  BY <1>1, <1>2, <1>3

\* What is in the working file becomes the last output.
LEMMA SaveKeeps ==
  ASSUME FileTypes, Save, UNCHANGED result
  PROVE  FileTypes' /\ (CaptureInv /\ KeptInv => KeptInv')
<1> DEFINE new(written) == [of |-> file, has |-> content, written |-> written]
<1>1. \A written \in BOOLEAN : new(written) \in Outputs
  BY DEF Outputs
<1>2. FileTypes'
  <2>1. CASE file = 0
    BY <2>1 DEF Save
  <2>2. CASE file # 0
    <3>1. PICK written \in BOOLEAN : outputs' = Append(outputs, new(written))
      BY <2>2 DEF Save
    <3>2. outputs' \in Seq(Outputs)
      BY <1>1, <3>1
    <3> QED
      BY <3>2 DEF Save
  <2> QED
    BY <2>1, <2>2
<1>3. ASSUME CaptureInv, KeptInv
      PROVE  KeptInv'
  <2>1. CASE file = 0
    BY <1>3, <2>1 DEF Save, CaptureInv, KeptInv, Disjoint, Bounded, Somewhere
  <2>2. CASE file # 0
    <3>. PICK written \in BOOLEAN : outputs' = Append(outputs, new(written))
      BY <2>2 DEF Save
    <3>1. /\ DOMAIN outputs' = DOMAIN outputs \cup {Len(outputs) + 1}
          /\ Len(outputs) + 1 \notin DOMAIN outputs
          /\ \A k \in DOMAIN outputs : outputs'[k] = outputs[k]
          /\ outputs'[Len(outputs) + 1].has = content
      BY <1>1, <2>2
    <3>2. content' = {} /\ taken' = taken
      BY DEF Save
    <3>3. Disjoint'
      BY <1>3, <3>1, <3>2 DEF KeptInv, Disjoint
    <3>4. Bounded'
      BY <1>3, <3>1, <3>2 DEF KeptInv, Bounded
    <3>5. Somewhere'
      BY <1>3, <3>1, <3>2 DEF KeptInv, Somewhere
    <3> QED
      BY <3>3, <3>4, <3>5 DEF KeptInv
  <2> QED
    BY <2>1, <2>2
<1> QED
  BY <1>2, <1>3

(***************************************************************************)
(* Types and points.                                                       *)
(***************************************************************************)
\* The hook runs in the main thread only.
LEMMA PointStep ==
  ASSUME PointTypes /\ OthersInv, [Next]_vars
  PROVE  (PointTypes /\ OthersInv)'
<1>1. CASE Sample
  BY <1>1 DEF Sample, BeginCapture, Open, NewFile
<1>2. CASE EndSample
  BY <1>2 DEF EndSample, EndCapture, Written, Discarded, Failed
<1>3. ASSUME NEW t \in Threads, EnterBlock(t) PROVE (PointTypes /\ OthersInv)'
  BY <1>3 DEF EnterBlock, Opens, Does, Open, NewFile
<1>4. ASSUME NEW t \in Threads, Enable(t) PROVE (PointTypes /\ OthersInv)'
  BY <1>4 DEF Enable, Enabled, RefusedOutside, Open, NewFile
<1>5. ASSUME NEW t \in Threads, LeaveBlock(t) PROVE (PointTypes /\ OthersInv)'
  BY <1>5 DEF LeaveBlock, Does
<1>6. ASSUME NEW t \in Threads, Disable(t) PROVE (PointTypes /\ OthersInv)'
  BY <1>6 DEF Disable, Does
<1>7. ASSUME NEW t \in Threads, SaveBlock(t) PROVE (PointTypes /\ OthersInv)'
  BY <1>7 DEF SaveBlock, Saves, Does, Save
<1>8. ASSUME NEW t \in Threads, Capture(t) PROVE (PointTypes /\ OthersInv)'
  BY <1>8 DEF Capture, BeginCapture, Open, NewFile
<1>9. ASSUME NEW t \in Threads, Captured(t) PROVE (PointTypes /\ OthersInv)'
  BY <1>9 DEF Captured, InHook, EndCapture, Written, Discarded, Failed, Refused
<1>10. ASSUME NEW t \in Threads, Answer(t) PROVE (PointTypes /\ OthersInv)'
  BY <1>10 DEF Answer, Opens, Does, Open, NewFile
<1>11. ASSUME NEW t \in Threads, BeginFinalize(t) PROVE (PointTypes /\ OthersInv)'
  BY <1>11 DEF BeginFinalize, Opens, Does, Open, NewFile
<1>12. CASE Install
  BY <1>12 DEF Install, InProgram, HooksBecome
<1>13. CASE Uninstall
  BY <1>13 DEF Uninstall, InProgram, HooksBecome
<1>14. CASE Wrap
  BY <1>14 DEF Wrap, InProgram, HooksBecome
<1>15. CASE Throw
  BY <1>15 DEF Throw, InProgram
<1>16. CASE CallHook
  BY <1>16 DEF CallHook
<1>17. CASE HookOpens
  BY <1>17 DEF HookOpens, Opens, Does, Open, NewFile
<1>18. CASE HookTakes
  BY <1>18 DEF HookTakes, BeginCapture, Open, NewFile
<1>19. CASE HookTaken
  BY <1>19 DEF HookTaken, InHook, EndCapture, Written, Discarded, Failed, Refused, AfterFailure
<1>20. CASE HookSaves
  BY <1>20 DEF HookSaves, Saves, Does, Save, AfterFailure
<1>21. CASE Tell
  BY <1>21 DEF Tell, Does
<1>22. CASE HooksDone
  BY <1>22 DEF HooksDone, Does
<1>23. CASE UNCHANGED vars
  BY <1>23 DEF vars
<1> QED
  BY <1>1, <1>2, <1>3, <1>4, <1>5, <1>6, <1>7, <1>8, <1>9, <1>10, <1>11, <1>12,
     <1>13, <1>14, <1>15, <1>16, <1>17, <1>18, <1>19, <1>20, <1>21, <1>22, <1>23 DEF Next

\* A new working file, an output or a snapshot changes no type.
LEMMA FileStep ==
  ASSUME PointTypes /\ FileTypes /\ CaptureInv, [Next]_vars
  PROVE  FileTypes'
<1>1. CASE Sample
  BY <1>1, OpenTypes DEF Sample, BeginCapture, Open, NewFile
<1>2. CASE EndSample
  BY <1>2, EndCaptureKeeps DEF EndSample
<1>3. ASSUME NEW t \in Threads, EnterBlock(t) PROVE FileTypes'
  BY <1>3, OpenTypes DEF EnterBlock, Opens, Does, Open, NewFile
<1>4. ASSUME NEW t \in Threads, Enable(t) PROVE FileTypes'
  BY <1>4, OpenTypes DEF Enable, Enabled, RefusedOutside, Open, NewFile
<1>5. ASSUME NEW t \in Threads, LeaveBlock(t) PROVE FileTypes'
  BY <1>5 DEF LeaveBlock, Does
<1>6. ASSUME NEW t \in Threads, Disable(t) PROVE FileTypes'
  BY <1>6 DEF Disable, Does
<1>7. ASSUME NEW t \in Threads, SaveBlock(t) PROVE FileTypes'
  BY <1>7, SaveKeeps DEF SaveBlock, Saves, Does
<1>8. ASSUME NEW t \in Threads, Capture(t) PROVE FileTypes'
  BY <1>8, OpenTypes DEF Capture, BeginCapture, Open, NewFile
<1>9. ASSUME NEW t \in Threads, Captured(t) PROVE FileTypes'
  <2>1. CASE EndCapture(t, "naming", "idle")
    BY <2>1, EndCaptureKeeps
  <2>2. CASE Refused(t, "naming")
    BY <2>2 DEF Refused
  <2> QED
    BY <1>9, <2>1, <2>2 DEF Captured
<1>10. ASSUME NEW t \in Threads, Answer(t) PROVE FileTypes'
  BY <1>10, OpenTypes DEF Answer, Opens, Does, Open, NewFile
<1>11. ASSUME NEW t \in Threads, BeginFinalize(t) PROVE FileTypes'
  BY <1>11, OpenTypes DEF BeginFinalize, Opens, Does, Open, NewFile
<1>12. CASE Install
  BY <1>12 DEF Install, InProgram, HooksBecome
<1>13. CASE Uninstall
  BY <1>13 DEF Uninstall, InProgram, HooksBecome
<1>14. CASE Wrap
  BY <1>14 DEF Wrap, InProgram, HooksBecome
<1>15. CASE Throw
  BY <1>15 DEF Throw, InProgram
<1>16. CASE CallHook
  BY <1>16 DEF CallHook
<1>17. CASE HookOpens
  BY <1>17, OpenTypes DEF HookOpens, Opens, Does, Open, NewFile
<1>18. CASE HookTakes
  BY <1>18, OpenTypes DEF HookTakes, BeginCapture, Open, NewFile
<1>19. CASE HookTaken
  <2>1. CASE EndCapture(Main, "writing", "hook")
    BY <2>1, EndCaptureKeeps
  <2>2. CASE Refused(Main, "writing")
    BY <2>2 DEF Refused
  <2> QED
    BY <1>19, <2>1, <2>2 DEF HookTaken, AfterFailure
<1>20. CASE HookSaves
  BY <1>20, SaveKeeps DEF HookSaves, Saves, Does, AfterFailure
<1>21. CASE Tell
  BY <1>21 DEF Tell, Does
<1>22. CASE HooksDone
  BY <1>22 DEF HooksDone, Does
<1>23. CASE UNCHANGED vars
  BY <1>23 DEF vars
<1> QED
  BY <1>1, <1>2, <1>3, <1>4, <1>5, <1>6, <1>7, <1>8, <1>9, <1>10, <1>11, <1>12,
     <1>13, <1>14, <1>15, <1>16, <1>17, <1>18, <1>19, <1>20, <1>21, <1>22, <1>23 DEF Next

\* Hooks are put in front, taken away and called.
LEMMA HookStep ==
  ASSUME HookTypes, [Next]_vars
  PROVE  HookTypes'
<1>1. CASE Sample
  BY <1>1 DEF HookNames, Sample, BeginCapture, Open, NewFile
<1>2. CASE EndSample
  BY <1>2 DEF HookNames, EndSample, EndCapture, Written, Discarded, Failed
<1>3. ASSUME NEW t \in Threads, EnterBlock(t) PROVE HookTypes'
  BY <1>3 DEF HookNames, EnterBlock, Opens, Does, Open, NewFile
<1>4. ASSUME NEW t \in Threads, Enable(t) PROVE HookTypes'
  BY <1>4 DEF HookNames, Enable, Enabled, RefusedOutside, Open, NewFile
<1>5. ASSUME NEW t \in Threads, LeaveBlock(t) PROVE HookTypes'
  BY <1>5 DEF HookNames, LeaveBlock, Does
<1>6. ASSUME NEW t \in Threads, Disable(t) PROVE HookTypes'
  BY <1>6 DEF HookNames, Disable, Does
<1>7. ASSUME NEW t \in Threads, SaveBlock(t) PROVE HookTypes'
  BY <1>7 DEF HookNames, SaveBlock, Saves, Does, Save
<1>8. ASSUME NEW t \in Threads, Capture(t) PROVE HookTypes'
  BY <1>8 DEF HookNames, Capture, BeginCapture, Open, NewFile
<1>9. ASSUME NEW t \in Threads, Captured(t) PROVE HookTypes'
  BY <1>9 DEF HookNames, Captured, InHook, EndCapture, Written, Discarded, Failed, Refused
<1>10. ASSUME NEW t \in Threads, Answer(t) PROVE HookTypes'
  BY <1>10 DEF HookNames, Answer, Opens, Does, Open, NewFile
<1>11. ASSUME NEW t \in Threads, BeginFinalize(t) PROVE HookTypes'
  BY <1>11 DEF HookNames, BeginFinalize, Opens, Does, Open, NewFile
<1>12. CASE Install
  BY <1>12 DEF HookNames, Install, InProgram, HooksBecome
<1>13. CASE Uninstall
  BY <1>13 DEF HookNames, Uninstall, InProgram, HooksBecome
<1>14. CASE Wrap
  BY <1>14 DEF HookNames, Wrap, InProgram, HooksBecome
<1>15. CASE Throw
  BY <1>15 DEF HookNames, Throw, InProgram
<1>16. CASE CallHook
  BY <1>16 DEF HookNames, CallHook
<1>17. CASE HookOpens
  BY <1>17 DEF HookNames, HookOpens, Opens, Does, Open, NewFile
<1>18. CASE HookTakes
  BY <1>18 DEF HookNames, HookTakes, BeginCapture, Open, NewFile
<1>19. CASE HookTaken
  BY <1>19 DEF HookNames, HookTaken, InHook, EndCapture, Written, Discarded, Failed, Refused, AfterFailure
<1>20. CASE HookSaves
  BY <1>20 DEF HookNames, HookSaves, Saves, Does, Save, AfterFailure
<1>21. CASE Tell
  BY <1>21 DEF HookNames, Tell, Does
<1>22. CASE HooksDone
  BY <1>22 DEF HookNames, HooksDone, Does
<1>23. CASE UNCHANGED vars
  BY <1>23 DEF vars, HookNames
<1> QED
  BY <1>1, <1>2, <1>3, <1>4, <1>5, <1>6, <1>7, <1>8, <1>9, <1>10, <1>11, <1>12,
     <1>13, <1>14, <1>15, <1>16, <1>17, <1>18, <1>19, <1>20, <1>21, <1>22, <1>23 DEF Next


(***************************************************************************)
(* The invariants, one step for each action.                               *)
(***************************************************************************)
\* Only the thread that enabled sampling leaves a block.
LEMMA SamplerStep ==
  ASSUME PointTypes /\ OthersInv /\ SamplerInv, [Next]_vars
  PROVE  SamplerInv'
<1>1. CASE Sample
  BY <1>1 DEF SamplerInv, Sample, BeginCapture, Open, NewFile
<1>2. CASE EndSample
  BY <1>2 DEF SamplerInv, EndSample, EndCapture, Written, Discarded, Failed
<1>3. ASSUME NEW t \in Threads, EnterBlock(t) PROVE SamplerInv'
  BY <1>3 DEF SamplerInv, EnterBlock, Opens, Does, Open, NewFile
<1>4. ASSUME NEW t \in Threads, Enable(t) PROVE SamplerInv'
  BY <1>4 DEF SamplerInv, Enable, Enabled, RefusedOutside, Open, NewFile
<1>5. ASSUME NEW t \in Threads, LeaveBlock(t) PROVE SamplerInv'
  BY <1>5 DEF SamplerInv, LeaveBlock, Does
<1>6. ASSUME NEW t \in Threads, Disable(t) PROVE SamplerInv'
  BY <1>6 DEF SamplerInv, Disable, Does
<1>7. ASSUME NEW t \in Threads, SaveBlock(t) PROVE SamplerInv'
  BY <1>7 DEF SamplerInv, SaveBlock, Saves, Does, Save
<1>8. ASSUME NEW t \in Threads, Capture(t) PROVE SamplerInv'
  BY <1>8 DEF SamplerInv, Capture, BeginCapture, Open, NewFile
<1>9. ASSUME NEW t \in Threads, Captured(t) PROVE SamplerInv'
  BY <1>9 DEF SamplerInv, Captured, InHook, EndCapture, Written, Discarded, Failed, Refused
<1>10. ASSUME NEW t \in Threads, Answer(t) PROVE SamplerInv'
  BY <1>10 DEF SamplerInv, Answer, Opens, Does, Open, NewFile
<1>11. ASSUME NEW t \in Threads, BeginFinalize(t) PROVE SamplerInv'
  BY <1>11 DEF SamplerInv, BeginFinalize, Opens, Does, Open, NewFile
<1>12. CASE Install
  BY <1>12 DEF SamplerInv, Install, InProgram, HooksBecome
<1>13. CASE Uninstall
  BY <1>13 DEF SamplerInv, Uninstall, InProgram, HooksBecome
<1>14. CASE Wrap
  BY <1>14 DEF SamplerInv, Wrap, InProgram, HooksBecome
<1>15. CASE Throw
  BY <1>15 DEF SamplerInv, Throw, InProgram
<1>16. CASE CallHook
  BY <1>16 DEF SamplerInv, CallHook
<1>17. CASE HookOpens
  BY <1>17 DEF SamplerInv, HookOpens, Opens, Does, Open, NewFile
<1>18. CASE HookTakes
  BY <1>18 DEF SamplerInv, HookTakes, BeginCapture, Open, NewFile
<1>19. CASE HookTaken
  BY <1>19 DEF SamplerInv, HookTaken, InHook, EndCapture, Written, Discarded, Failed, Refused, AfterFailure
<1>20. CASE HookSaves
  BY <1>20 DEF SamplerInv, HookSaves, Saves, Does, Save, AfterFailure
<1>21. CASE Tell
  BY <1>21 DEF SamplerInv, Tell, Does
<1>22. CASE HooksDone
  BY <1>22 DEF SamplerInv, HooksDone, Does
<1>23. CASE UNCHANGED vars
  BY <1>23 DEF vars, SamplerInv
<1> QED
  BY <1>1, <1>2, <1>3, <1>4, <1>5, <1>6, <1>7, <1>8, <1>9, <1>10, <1>11, <1>12,
     <1>13, <1>14, <1>15, <1>16, <1>17, <1>18, <1>19, <1>20, <1>21, <1>22, <1>23 DEF Next

\* finalize() marks the capture that loses its file.
LEMMA CaptureStep ==
  ASSUME PointTypes /\ FileTypes /\ CaptureInv, [Next]_vars
  PROVE  CaptureInv'
<1>1. CASE Sample
  BY <1>1 DEF CaptureInv, Sample, BeginCapture, Open, NewFile
<1>2. CASE EndSample
  BY <1>2, EndCaptureKeeps DEF EndSample
<1>3. ASSUME NEW t \in Threads, EnterBlock(t) PROVE CaptureInv'
  BY <1>3 DEF CaptureInv, EnterBlock, Opens, Does, Open, NewFile
<1>4. ASSUME NEW t \in Threads, Enable(t) PROVE CaptureInv'
  BY <1>4 DEF CaptureInv, Enable, Enabled, RefusedOutside, Open, NewFile
<1>5. ASSUME NEW t \in Threads, LeaveBlock(t) PROVE CaptureInv'
  BY <1>5 DEF CaptureInv, LeaveBlock, Does
<1>6. ASSUME NEW t \in Threads, Disable(t) PROVE CaptureInv'
  BY <1>6 DEF CaptureInv, Disable, Does
<1>7. ASSUME NEW t \in Threads, SaveBlock(t) PROVE CaptureInv'
  BY <1>7 DEF CaptureInv, SaveBlock, Saves, Does, Save
<1>8. ASSUME NEW t \in Threads, Capture(t) PROVE CaptureInv'
  BY <1>8 DEF CaptureInv, Capture, BeginCapture, Open, NewFile
<1>9. ASSUME NEW t \in Threads, Captured(t) PROVE CaptureInv'
  <2>1. CASE EndCapture(t, "naming", "idle")
    BY <2>1, EndCaptureKeeps
  <2>2. CASE Refused(t, "naming")
    BY <2>2 DEF CaptureInv, Refused
  <2> QED
    BY <1>9, <2>1, <2>2 DEF Captured
<1>10. ASSUME NEW t \in Threads, Answer(t) PROVE CaptureInv'
  BY <1>10 DEF CaptureInv, Answer, Opens, Does, Open, NewFile
<1>11. ASSUME NEW t \in Threads, BeginFinalize(t) PROVE CaptureInv'
  BY <1>11 DEF CaptureInv, BeginFinalize, Opens, Does, Open, NewFile
<1>12. CASE Install
  BY <1>12 DEF CaptureInv, Install, InProgram, HooksBecome
<1>13. CASE Uninstall
  BY <1>13 DEF CaptureInv, Uninstall, InProgram, HooksBecome
<1>14. CASE Wrap
  BY <1>14 DEF CaptureInv, Wrap, InProgram, HooksBecome
<1>15. CASE Throw
  BY <1>15 DEF CaptureInv, Throw, InProgram
<1>16. CASE CallHook
  BY <1>16 DEF CaptureInv, CallHook
<1>17. CASE HookOpens
  BY <1>17 DEF CaptureInv, HookOpens, Opens, Does, Open, NewFile
<1>18. CASE HookTakes
  BY <1>18 DEF CaptureInv, HookTakes, BeginCapture, Open, NewFile
<1>19. CASE HookTaken
  <2>1. CASE EndCapture(Main, "writing", "hook")
    BY <2>1, EndCaptureKeeps
  <2>2. CASE Refused(Main, "writing")
    BY <2>2 DEF CaptureInv, Refused
  <2> QED
    BY <1>19, <2>1, <2>2 DEF HookTaken, AfterFailure
<1>20. CASE HookSaves
  BY <1>20 DEF CaptureInv, HookSaves, Saves, Does, Save, AfterFailure
<1>21. CASE Tell
  BY <1>21 DEF CaptureInv, Tell, Does
<1>22. CASE HooksDone
  BY <1>22 DEF CaptureInv, HooksDone, Does
<1>23. CASE UNCHANGED vars
  BY <1>23 DEF vars, CaptureInv
<1> QED
  BY <1>1, <1>2, <1>3, <1>4, <1>5, <1>6, <1>7, <1>8, <1>9, <1>10, <1>11, <1>12,
     <1>13, <1>14, <1>15, <1>16, <1>17, <1>18, <1>19, <1>20, <1>21, <1>22, <1>23 DEF Next

\* Snapshots move, all together, from the working file to an output.
LEMMA KeptStep ==
  ASSUME PointTypes /\ FileTypes /\ CaptureInv /\ KeptInv, [Next]_vars
  PROVE  KeptInv'
<1>1. CASE Sample
  BY <1>1 DEF CaptureInv, KeptInv, Disjoint, Bounded, Somewhere, Sample, BeginCapture, Open, NewFile
<1>2. CASE EndSample
  BY <1>2, EndCaptureKeeps DEF EndSample
<1>3. ASSUME NEW t \in Threads, EnterBlock(t) PROVE KeptInv'
  BY <1>3 DEF CaptureInv, KeptInv, Disjoint, Bounded, Somewhere, EnterBlock, Opens, Does, Open, NewFile
<1>4. ASSUME NEW t \in Threads, Enable(t) PROVE KeptInv'
  BY <1>4 DEF CaptureInv, KeptInv, Disjoint, Bounded, Somewhere, Enable, Enabled, RefusedOutside, Open, NewFile
<1>5. ASSUME NEW t \in Threads, LeaveBlock(t) PROVE KeptInv'
  BY <1>5 DEF CaptureInv, KeptInv, Disjoint, Bounded, Somewhere, LeaveBlock, Does
<1>6. ASSUME NEW t \in Threads, Disable(t) PROVE KeptInv'
  BY <1>6 DEF CaptureInv, KeptInv, Disjoint, Bounded, Somewhere, Disable, Does
<1>7. ASSUME NEW t \in Threads, SaveBlock(t) PROVE KeptInv'
  BY <1>7, SaveKeeps DEF KeptInv, Disjoint, Bounded, Somewhere, SaveBlock, Saves, Does
<1>8. ASSUME NEW t \in Threads, Capture(t) PROVE KeptInv'
  BY <1>8 DEF CaptureInv, KeptInv, Disjoint, Bounded, Somewhere, Capture, BeginCapture, Open, NewFile
<1>9. ASSUME NEW t \in Threads, Captured(t) PROVE KeptInv'
  <2>1. CASE EndCapture(t, "naming", "idle")
    BY <2>1, EndCaptureKeeps
  <2>2. CASE Refused(t, "naming")
    BY <2>2 DEF KeptInv, Disjoint, Bounded, Somewhere, Refused
  <2> QED
    BY <1>9, <2>1, <2>2 DEF Captured
<1>10. ASSUME NEW t \in Threads, Answer(t) PROVE KeptInv'
  BY <1>10 DEF CaptureInv, KeptInv, Disjoint, Bounded, Somewhere, Answer, Opens, Does, Open, NewFile
<1>11. ASSUME NEW t \in Threads, BeginFinalize(t) PROVE KeptInv'
  BY <1>11 DEF CaptureInv, KeptInv, Disjoint, Bounded, Somewhere, BeginFinalize, Opens, Does, Open, NewFile
<1>12. CASE Install
  BY <1>12 DEF CaptureInv, KeptInv, Disjoint, Bounded, Somewhere, Install, InProgram, HooksBecome
<1>13. CASE Uninstall
  BY <1>13 DEF CaptureInv, KeptInv, Disjoint, Bounded, Somewhere, Uninstall, InProgram, HooksBecome
<1>14. CASE Wrap
  BY <1>14 DEF CaptureInv, KeptInv, Disjoint, Bounded, Somewhere, Wrap, InProgram, HooksBecome
<1>15. CASE Throw
  BY <1>15 DEF CaptureInv, KeptInv, Disjoint, Bounded, Somewhere, Throw, InProgram
<1>16. CASE CallHook
  BY <1>16 DEF CaptureInv, KeptInv, Disjoint, Bounded, Somewhere, CallHook
<1>17. CASE HookOpens
  BY <1>17 DEF CaptureInv, KeptInv, Disjoint, Bounded, Somewhere, HookOpens, Opens, Does, Open, NewFile
<1>18. CASE HookTakes
  BY <1>18 DEF CaptureInv, KeptInv, Disjoint, Bounded, Somewhere, HookTakes, BeginCapture, Open, NewFile
<1>19. CASE HookTaken
  <2>1. CASE EndCapture(Main, "writing", "hook")
    BY <2>1, EndCaptureKeeps
  <2>2. CASE Refused(Main, "writing")
    BY <2>2 DEF KeptInv, Disjoint, Bounded, Somewhere, Refused
  <2> QED
    BY <1>19, <2>1, <2>2 DEF HookTaken, AfterFailure
<1>20. CASE HookSaves
  BY <1>20, SaveKeeps DEF KeptInv, Disjoint, Bounded, Somewhere, HookSaves, Saves, Does, AfterFailure
<1>21. CASE Tell
  BY <1>21 DEF CaptureInv, KeptInv, Disjoint, Bounded, Somewhere, Tell, Does
<1>22. CASE HooksDone
  BY <1>22 DEF CaptureInv, KeptInv, Disjoint, Bounded, Somewhere, HooksDone, Does
<1>23. CASE UNCHANGED vars
  BY <1>23 DEF vars, CaptureInv, KeptInv, Disjoint, Bounded, Somewhere
<1> QED
  BY <1>1, <1>2, <1>3, <1>4, <1>5, <1>6, <1>7, <1>8, <1>9, <1>10, <1>11, <1>12,
     <1>13, <1>14, <1>15, <1>16, <1>17, <1>18, <1>19, <1>20, <1>21, <1>22, <1>23 DEF Next


\* The interpreter's hook is the last: tintype's hook has one to call.
LEMMA NotLast ==
  ASSUME HookTypes, ChainInv, rest # <<>>, Head(rest) = "tintype"
  PROVE  Tail(rest) # <<>>
<1>1. /\ hooks = called \o rest /\ hooks[Len(hooks)] = "python"
      /\ rest[1] = "tintype"
  BY DEF ChainInv, EndsInPython
<1> QED
  BY <1>1, LastOfConcat

\* Each hook calls the next, and nobody changes the chain meanwhile.
LEMMA ChainStep ==
  ASSUME PointTypes /\ OthersInv /\ HookTypes /\ ChainInv, [Next]_vars
  PROVE  ChainInv'
<1>1. CASE Sample
  BY <1>1 DEF ChainInv, EndsInPython, Sample, BeginCapture, Open, NewFile
<1>2. CASE EndSample
  BY <1>2 DEF ChainInv, EndsInPython, EndSample, EndCapture, Written, Discarded, Failed
<1>3. ASSUME NEW t \in Threads, EnterBlock(t) PROVE ChainInv'
  BY <1>3 DEF ChainInv, EndsInPython, EnterBlock, Opens, Does, Open, NewFile
<1>4. ASSUME NEW t \in Threads, Enable(t) PROVE ChainInv'
  BY <1>4 DEF ChainInv, EndsInPython, Enable, Enabled, RefusedOutside, Open, NewFile
<1>5. ASSUME NEW t \in Threads, LeaveBlock(t) PROVE ChainInv'
  BY <1>5 DEF ChainInv, EndsInPython, LeaveBlock, Does
<1>6. ASSUME NEW t \in Threads, Disable(t) PROVE ChainInv'
  BY <1>6 DEF ChainInv, EndsInPython, Disable, Does
<1>7. ASSUME NEW t \in Threads, SaveBlock(t) PROVE ChainInv'
  BY <1>7 DEF ChainInv, EndsInPython, SaveBlock, Saves, Does, Save
<1>8. ASSUME NEW t \in Threads, Capture(t) PROVE ChainInv'
  BY <1>8 DEF ChainInv, EndsInPython, Capture, BeginCapture, Open, NewFile
<1>9. ASSUME NEW t \in Threads, Captured(t) PROVE ChainInv'
  BY <1>9 DEF ChainInv, EndsInPython, Captured, InHook, EndCapture, Written, Discarded, Failed, Refused
<1>10. ASSUME NEW t \in Threads, Answer(t) PROVE ChainInv'
  BY <1>10 DEF ChainInv, EndsInPython, Answer, Opens, Does, Open, NewFile
<1>11. ASSUME NEW t \in Threads, BeginFinalize(t) PROVE ChainInv'
  BY <1>11 DEF ChainInv, EndsInPython, BeginFinalize, Opens, Does, Open, NewFile
<1>12. CASE Install
  BY <1>12 DEF ChainInv, EndsInPython, Install, InProgram, HooksBecome
<1>13. CASE Uninstall
  BY <1>13 DEF ChainInv, EndsInPython, Uninstall, InProgram, HooksBecome
<1>14. CASE Wrap
  BY <1>14 DEF ChainInv, EndsInPython, Wrap, InProgram, HooksBecome
<1>15. CASE Throw
  BY <1>15 DEF ChainInv, EndsInPython, Throw, InProgram
<1>16. CASE CallHook
  <2>1. rest # <<>> /\ called' = Append(called, Head(rest)) /\ rest' = Tail(rest) /\ hooks' = hooks /\ saved' = saved
    BY <1>16 DEF CallHook
  <2>2. called' \o rest' = hooks'
    <3>1. called' \o rest' = called \o rest
      <4>1. \A s, t \in Seq(HookNames) : t # <<>> => Append(s, Head(t)) \o Tail(t) = s \o t
        BY MoveHead
      <4>2. called \in Seq(HookNames) /\ rest \in Seq(HookNames)
        BY DEF HookTypes
      <4> QED
        BY <2>1, <4>1, <4>2
    <3> QED
      BY <2>1, <3>1 DEF ChainInv
  <2>3. CASE Head(rest) = "tintype"
    <3>1. rest' # <<>>
      BY <2>1, <2>3, NotLast
    <3>2. pc'[Main] \in {"hook", "opening"}
      BY <1>16 DEF CallHook
    <3> QED
      BY <2>1, <2>2, <3>1, <3>2 DEF ChainInv
  <2>4. CASE Head(rest) # "tintype"
    <3>1. pc'[Main] = "hook"
      BY <1>16, <2>4 DEF CallHook
    <3>2. called' \in Seq(HookNames)
      BY <2>1, MoveHead
    <3>3. rest' = <<>> => called' \o rest' = called'
      BY <3>2, ConcatEmptySeq
    <3> QED
      BY <2>1, <2>2, <3>1, <3>3 DEF ChainInv
  <2> QED
    BY <2>3, <2>4
<1>17. CASE HookOpens
  BY <1>17 DEF ChainInv, EndsInPython, HookOpens, Opens, Does, Open, NewFile
<1>18. CASE HookTakes
  BY <1>18 DEF ChainInv, EndsInPython, HookTakes, BeginCapture, Open, NewFile
<1>19. CASE HookTaken
  BY <1>19 DEF ChainInv, EndsInPython, HookTaken, InHook, EndCapture, Written, Discarded, Failed, Refused, AfterFailure
<1>20. CASE HookSaves
  BY <1>20 DEF ChainInv, EndsInPython, HookSaves, Saves, Does, Save, AfterFailure
<1>21. CASE Tell
  BY <1>21 DEF ChainInv, EndsInPython, Tell, Does
<1>22. CASE HooksDone
  BY <1>22 DEF ChainInv, EndsInPython, HooksDone, Does
<1>23. CASE UNCHANGED vars
  BY <1>23 DEF vars, ChainInv, EndsInPython
<1> QED
  BY <1>1, <1>2, <1>3, <1>4, <1>5, <1>6, <1>7, <1>8, <1>9, <1>10, <1>11, <1>12,
     <1>13, <1>14, <1>15, <1>16, <1>17, <1>18, <1>19, <1>20, <1>21, <1>22, <1>23 DEF Next


(***************************************************************************)
(* The theorems.                                                           *)
(***************************************************************************)
BaseInv == PointTypes /\ OthersInv /\ FileTypes /\ HookTypes /\ CaptureInv

LEMMA InitInv == Init => BaseInv /\ SamplerInv /\ KeptInv /\ ChainInv
<1> SUFFICES ASSUME Init PROVE BaseInv /\ SamplerInv /\ KeptInv /\ ChainInv
  OBVIOUS
<1> USE DEF Init
<1>1. PointTypes /\ OthersInv /\ CaptureInv /\ SamplerInv
  BY DEF CaptureInv, SamplerInv
<1>2. FileTypes /\ KeptInv
  BY EmptySeq DEF KeptInv, Disjoint, Bounded, Somewhere
<1>3. HookTypes
  BY EmptySeq DEF HookNames
<1>4. ChainInv
  BY DEF ChainInv, EndsInPython
<1> QED
  BY <1>1, <1>2, <1>3, <1>4 DEF BaseInv

\* The types, who is where, and that a capture has a working file until
\* finalize() takes it away.
THEOREM Invariance == Spec => []BaseInv
<1>1. BaseInv /\ [Next]_vars => BaseInv'
  BY PointStep, FileStep, HookStep, CaptureStep DEF BaseInv
<1> QED
  BY <1>1, InitInv, PTL DEF Spec

\* A sampling() block is sampled until it ends: the refusal of another block
\* does not stop it (_sampling.py).
THEOREM BlockSampledCorrect == Spec => []BlockSampled
<1>1. BaseInv /\ SamplerInv /\ [Next]_vars => SamplerInv'
  BY SamplerStep DEF BaseInv
<1>2. SamplerInv => BlockSampled
  BY DEF SamplerInv, BlockSampled
<1> QED
  BY <1>1, <1>2, InitInv, Invariance, PTL DEF Spec

\* For an unhandled exception every hook is called, whatever fails in tintype's
\* (_exception_hook.py).
THEOREM HooksAllRunCorrect == Spec => []HooksAllRun
<1>1. BaseInv /\ ChainInv /\ [Next]_vars => ChainInv'
  BY ChainStep DEF BaseInv
<1>2. ChainInv => HooksAllRun
  BY DEF ChainInv, HooksAllRun
<1> QED
  BY <1>1, <1>2, InitInv, Invariance, PTL DEF Spec

\* A snapshot is in the working file, or one finalize() has taken it.
LEMMA KeptOnce ==
  ASSUME FileTypes, KeptInv
  PROVE  LostOnlyByFinalize
<1> SUFFICES ASSUME NEW n \in 1..taken
             PROVE  Cardinality(Finalized(n)) + (IF n \in content THEN 1 ELSE 0) = 1
  BY DEF LostOnlyByFinalize
<1>1. CASE n \in content
  <2>1. Finalized(n) = {}
    BY <1>1 DEF KeptInv, Disjoint, Finalized
  <2> QED
    BY <1>1, <2>1, FS_EmptySet
<1>2. CASE n \notin content
  <2>1. PICK k \in DOMAIN outputs : n \in outputs[k].has
    BY <1>2 DEF KeptInv, Somewhere
  <2>2. Finalized(n) = {k}
    BY <2>1 DEF KeptInv, Disjoint, Finalized
  <2>3. Cardinality({k}) = 1
    BY FS_Singleton
  <2> QED
    BY <1>2, <2>2, <2>3
<1> QED
  BY <1>1, <1>2

\* A snapshot stays in the working file until one finalize() takes that file, and
\* is in no other output, whoever captures and calls finalize() and when.
THEOREM LostOnlyByFinalizeCorrect == Spec => []LostOnlyByFinalize
<1>1. BaseInv /\ KeptInv /\ [Next]_vars => KeptInv'
  BY KeptStep DEF BaseInv
<1>2. BaseInv /\ KeptInv => LostOnlyByFinalize
  BY KeptOnce DEF BaseInv
<1> QED
  BY <1>1, <1>2, InitInv, Invariance, PTL DEF Spec
=============================================================================
