------------------------ MODULE SnapshotCapture_proof ------------------------
(***************************************************************************)
(* Proofs about SnapshotCapture, for any number of Python threads.         *)
(***************************************************************************)
EXTENDS SnapshotCapture, TLAPS

(***************************************************************************)
(* The inductive invariant.                                                *)
(***************************************************************************)

\* Where the sampling thread has the claim and no timer.
Unarmed == {"claimed", "starting", "unclaiming"}

\* The claim belongs to one actor: whoever captures, and the sampling thread
\* for as long as it keeps the claim it took without the GIL.
ClaimInv ==
  /\ claim <=> holder # None
  /\ \A a \in Actors : Busy(a) => holder = a
  /\ pc[Sampler] \in Unarmed => holder = Sampler

\* Where an actor cannot lose the GIL.
GilKept == {"calling", "writing", "joining", "reading", "unclaiming", "leaving"}

GilInv == \A a \in Actors : pc[a] \in GilKept => gil = a

TimerInv ==
  /\ TimerWithinClaim
  /\ pc[Sampler] \in Unarmed => timer = "none"

SamplerInv ==
  /\ op[Sampler] \in {"none", "all"}
  /\ ~samplingActive => pc[Sampler] = "off"

\* Who has written a snapshot wrote the latest one, until the GIL goes.
LatestInv ==
  \A t \in Callers : /\ pc[t] \in {"capturing", "writing"} => ~written[t]
                     /\ pc[t] = "joining" /\ written[t] => latest = t
                     /\ pc[t] = "reading" => latest = t

IInv == TypeOK /\ ClaimInv /\ GilInv /\ TimerInv /\ SamplerInv /\ LatestInv

USE ActorsAssumption
USE DEF Actors, Go, CallerPoints, SamplerPoints, Ops, CaptureOps, Busy,
        Unarmed, GilKept, IInv, TypeOK, OwnerTypes, PointTypes, FlagTypes, ClaimInv, GilInv, TimerInv, TimerWithinClaim,
        SamplerInv, LatestInv

(***************************************************************************)
(* One step for each action, by groups of actions.                         *)
(***************************************************************************)
USE DEF actorVars, claimVars, timerVars, writerVars, samplingVars

LEMMA InitInv == Init => IInv
BY EnvironmentAssumption DEF Init

LEMMA GilSteps ==
  ASSUME IInv, NEW a \in Actors, TakeGil(a) \/ DropGil(a)
  PROVE  IInv'
<1>1. CASE TakeGil(a)
  BY <1>1 DEF TakeGil, Waiting
<1>2. CASE DropGil(a)
  BY <1>2 DEF DropGil, Yielding
<1> QED
  BY <1>1, <1>2

LEMMA CallSteps ==
  ASSUME IInv, NEW t \in Callers, Calls(t)
  PROVE  IInv'
<1>1. CASE Call(t)
  BY <1>1, OfferedAssumption DEF Call
<1>2. CASE CancelSnapshot(t)
  BY <1>2 DEF CancelSnapshot
<1>3. CASE CallDisable(t)
  BY <1>3 DEF CallDisable
<1> QED
  BY <1>1, <1>2, <1>3 DEF Calls

LEMMA CaptureInv ==
  ASSUME IInv, NEW a \in Actors, CaptureSteps(a)
  PROVE  IInv'
<1>1. CASE CallWriter(a)
  BY <1>1 DEF CallWriter
<1>2. CASE Write(a)
  BY <1>2 DEF Write, InWriter
<1>3. CASE EndSnapshot(a)
  BY <1>3 DEF EndSnapshot, InWriter, StopTimer
<1>4. CASE DiscardSnapshot(a)
  BY <1>4 DEF DiscardSnapshot, InWriter, StopTimer
<1>5. CASE Caught(a)
  BY <1>5 DEF Caught, Throws, InWriter, StopTimer
<1>6. CASE Uncaught(a)
  BY <1>6 DEF Uncaught, Throws, InWriter
<1> QED
  BY <1>1, <1>2, <1>3, <1>4, <1>5, <1>6 DEF CaptureSteps, CaptureEnds

LEMMA FinishInv ==
  ASSUME IInv, NEW a \in Actors, Finish(a)
  PROVE  IInv'
<1>1. TypeOK'
  <2>1. PointTypes'
    BY DEF Finish, ClaimedItself, TimerJoined, Unclaim
  <2>2. OwnerTypes' /\ FlagTypes'
    BY DEF Finish, ClaimedItself, TimerJoined, Unclaim
  <2> QED
    BY <2>1, <2>2
<1>2. ClaimInv'
  BY DEF Finish, ClaimedItself, TimerJoined, Unclaim
<1>3. GilInv'
  BY DEF Finish, ClaimedItself, TimerJoined, Unclaim
<1>4. TimerInv'
  BY DEF Finish, ClaimedItself, TimerJoined, Unclaim
<1>5. SamplerInv'
  BY DEF Finish, ClaimedItself, TimerJoined, Unclaim
<1>6. LatestInv'
  BY DEF Finish, ClaimedItself, TimerJoined, Unclaim
<1> QED
  BY <1>1, <1>2, <1>3, <1>4, <1>5, <1>6

LEMMA ProgressInv ==
  ASSUME IInv, NEW t \in Callers, Progress(t)
  PROVE  IInv'
<1>1. CASE Refused(t)
  BY <1>1 DEF Refused, Answered, KeepRequests
<1>2. CASE Begin(t)
  <2>1. TypeOK'
    <3>1. OwnerTypes'
      BY <1>2 DEF Begin, Answered, Claim, ClaimFree, BeginCapture, StartTimer
    <3>2. PointTypes'
      BY <1>2 DEF Begin, Answered, Claim, ClaimFree, BeginCapture, StartTimer
    <3>3. FlagTypes'
      BY <1>2 DEF Begin, Answered, Claim, ClaimFree, BeginCapture, StartTimer
    <3> QED
      BY <3>1, <3>2, <3>3
  <2>2. ClaimInv'
    BY <1>2 DEF Begin, Answered, Claim, ClaimFree, BeginCapture, StartTimer
  <2>3. GilInv'
    BY <1>2 DEF Begin, Answered, Claim, ClaimFree, BeginCapture, StartTimer
  <2>4. TimerInv'
    BY <1>2 DEF Begin, Answered, Claim, ClaimFree, BeginCapture, StartTimer
  <2>5. SamplerInv'
    BY <1>2 DEF Begin, Answered, Claim, ClaimFree, BeginCapture, StartTimer
  <2>6. LatestInv'
    BY <1>2 DEF Begin, Answered, Claim, ClaimFree, BeginCapture, StartTimer
  <2> QED
    BY <2>1, <2>2, <2>3, <2>4, <2>5, <2>6
<1>3. CASE ReadLatest(t)
  BY <1>3 DEF ReadLatest
<1>4. CASE Finalize(t)
  <2>1. TypeOK'
    <3>1. OwnerTypes'
      BY <1>4 DEF Finalize, Answered, CloseWriter
    <3>2. PointTypes'
      BY <1>4 DEF Finalize, Answered, CloseWriter
    <3>3. FlagTypes'
      <4>1. lost' \in [Actors -> BOOLEAN]
        <5>1. CASE initialized
          <6>1. lost' = [a \in Actors |-> lost[a] \/ Busy(a)]
            BY <1>4, <5>1 DEF Finalize, CloseWriter
          <6> DEFINE gone(a) == lost[a] \/ Busy(a)
          <6>2. \A a \in Actors : gone(a) \in BOOLEAN
            BY Zenon
          <6> HIDE DEF gone, Actors
          <6> QED
            BY <6>1, <6>2, Zenon DEF gone
        <5>2. CASE ~initialized
          BY <1>4, <5>2, Zenon DEF Finalize
        <5> QED
          BY <5>1, <5>2
      <4>2. initialized' \in BOOLEAN
        BY <1>4, Zenon DEF Finalize, CloseWriter
      <4> QED
        BY <1>4, <4>1, <4>2, Zenon DEF Finalize
    <3> QED
      BY <3>1, <3>2, <3>3
  <2>2. ClaimInv'
    BY <1>4 DEF Finalize, Answered, CloseWriter
  <2>3. GilInv'
    BY <1>4 DEF Finalize, Answered, CloseWriter
  <2>4. TimerInv'
    BY <1>4 DEF Finalize, Answered, CloseWriter
  <2>5. SamplerInv'
    BY <1>4 DEF Finalize, Answered, CloseWriter
  <2>6. LatestInv'
    BY <1>4 DEF Finalize, Answered, CloseWriter
  <2> QED
    BY <2>1, <2>2, <2>3, <2>4, <2>5, <2>6
<1>5. CASE BeginFinalize(t)
  BY <1>5 DEF BeginFinalize, Answered
<1>6. CASE EndFinalize(t)
  <2>1. TypeOK'
    <3>1. OwnerTypes'
      BY <1>6 DEF EndFinalize, CloseWriter
    <3>2. PointTypes'
      BY <1>6 DEF EndFinalize, CloseWriter
    <3>3. FlagTypes'
      BY <1>6 DEF EndFinalize, CloseWriter
    <3> QED
      BY <3>1, <3>2, <3>3
  <2>2. ClaimInv'
    BY <1>6 DEF EndFinalize, CloseWriter
  <2>3. GilInv'
    BY <1>6 DEF EndFinalize, CloseWriter
  <2>4. TimerInv'
    BY <1>6 DEF EndFinalize, CloseWriter
  <2>5. SamplerInv'
    BY <1>6 DEF EndFinalize, CloseWriter
  <2>6. LatestInv'
    BY <1>6 DEF EndFinalize, CloseWriter
  <2> QED
    BY <2>1, <2>2, <2>3, <2>4, <2>5, <2>6
<1>7. CASE EnableSampling(t)
  <2>1. TypeOK'
    <3>1. OwnerTypes'
      BY <1>7 DEF EnableSampling, Answered
    <3>2. PointTypes'
      BY <1>7 DEF EnableSampling, Answered
    <3>3. FlagTypes'
      BY <1>7 DEF EnableSampling, Answered
    <3> QED
      BY <3>1, <3>2, <3>3
  <2>2. ClaimInv'
    BY <1>7 DEF EnableSampling, Answered
  <2>3. GilInv'
    BY <1>7 DEF EnableSampling, Answered
  <2>4. TimerInv'
    BY <1>7 DEF EnableSampling, Answered
  <2>5. SamplerInv'
    BY <1>7 DEF EnableSampling, Answered
  <2>6. LatestInv'
    BY <1>7 DEF EnableSampling, Answered
  <2> QED
    BY <2>1, <2>2, <2>3, <2>4, <2>5, <2>6
<1>8. CASE Disable(t)
  <2>1. TypeOK'
    <3>1. OwnerTypes'
      BY <1>8 DEF Disable
    <3>2. PointTypes'
      BY <1>8 DEF Disable
    <3>3. FlagTypes'
      BY <1>8 DEF Disable
    <3> QED
      BY <3>1, <3>2, <3>3
  <2>2. ClaimInv'
    BY <1>8 DEF Disable
  <2>3. GilInv'
    BY <1>8 DEF Disable
  <2>4. TimerInv'
    BY <1>8 DEF Disable
  <2>5. SamplerInv'
    BY <1>8 DEF Disable
  <2>6. LatestInv'
    BY <1>8 DEF Disable
  <2> QED
    BY <2>1, <2>2, <2>3, <2>4, <2>5, <2>6
<1>9. CASE JoinSampler(t)
  <2>1. TypeOK'
    <3>1. OwnerTypes'
      BY <1>9 DEF JoinSampler
    <3>2. PointTypes'
      BY <1>9 DEF JoinSampler
    <3>3. FlagTypes'
      BY <1>9 DEF JoinSampler
    <3> QED
      BY <3>1, <3>2, <3>3
  <2>2. ClaimInv'
    BY <1>9 DEF JoinSampler
  <2>3. GilInv'
    BY <1>9 DEF JoinSampler
  <2>4. TimerInv'
    BY <1>9 DEF JoinSampler
  <2>5. SamplerInv'
    BY <1>9 DEF JoinSampler
  <2>6. LatestInv'
    BY <1>9 DEF JoinSampler
  <2> QED
    BY <2>1, <2>2, <2>3, <2>4, <2>5, <2>6
<1>10. CASE Return(t)
  BY <1>10 DEF Return
<1> QED
  BY <1>1, <1>2, <1>3, <1>4, <1>5, <1>6, <1>7, <1>8, <1>9, <1>10 DEF Progress

LEMMA TimerSteps ==
  ASSUME IInv, TimerFires \/ TimerStopped
  PROVE  IInv'
<1>1. TypeOK'
  <2>1. OwnerTypes'
    BY DEF TimerFires, TimerStopped
  <2>2. PointTypes'
    BY DEF TimerFires, TimerStopped
  <2>3. FlagTypes'
    BY DEF TimerFires, TimerStopped
  <2> QED
    BY <2>1, <2>2, <2>3
<1>2. ClaimInv'
  BY DEF TimerFires, TimerStopped
<1>3. GilInv'
  BY DEF TimerFires, TimerStopped
<1>4. TimerInv'
  BY DEF TimerFires, TimerStopped
<1>5. SamplerInv'
  BY DEF TimerFires, TimerStopped
<1>6. LatestInv'
  BY DEF TimerFires, TimerStopped
<1> QED
  BY <1>1, <1>2, <1>3, <1>4, <1>5, <1>6

LEMMA SamplerInvariant ==
  ASSUME IInv, SamplerSteps
  PROVE  IInv'
<1> USE DEF SamplerMoves
<1>1. CASE Wake
  BY <1>1 DEF Wake, StopSeen
<1>2. CASE CheckStop
  BY <1>2 DEF CheckStop
<1>3. CASE SkipSample
  BY <1>3 DEF SkipSample
<1>4. CASE ClaimSample
  BY <1>4 DEF ClaimSample, Claim, ClaimFree
<1>5. CASE CheckStopAgain
  <2>1. TypeOK'
    <3>1. OwnerTypes'
      BY <1>5 DEF CheckStopAgain, ExitUnclaimed, Unclaim
    <3>2. PointTypes'
      BY <1>5 DEF CheckStopAgain, ExitUnclaimed, Unclaim
    <3>3. FlagTypes'
      BY <1>5 DEF CheckStopAgain, ExitUnclaimed, Unclaim
    <3> QED
      BY <3>1, <3>2, <3>3
  <2>2. ClaimInv'
    BY <1>5 DEF CheckStopAgain, ExitUnclaimed, Unclaim
  <2>3. GilInv'
    BY <1>5 DEF CheckStopAgain, ExitUnclaimed, Unclaim
  <2>4. TimerInv'
    BY <1>5 DEF CheckStopAgain, ExitUnclaimed, Unclaim
  <2>5. SamplerInv'
    BY <1>5 DEF CheckStopAgain, ExitUnclaimed, Unclaim
  <2>6. LatestInv'
    BY <1>5 DEF CheckStopAgain, ExitUnclaimed, Unclaim
  <2> QED
    BY <2>1, <2>2, <2>3, <2>4, <2>5, <2>6
<1>6. CASE Sample
  <2>1. TypeOK'
    <3>1. OwnerTypes'
      BY <1>6 DEF Sample, BeginCapture, StartTimer, StopTimer
    <3>2. PointTypes'
      BY <1>6 DEF Sample, BeginCapture, StartTimer, StopTimer
    <3>3. FlagTypes'
      <4>1. CASE initialized
        <5>1. cancel' \in BOOLEAN /\ written' \in [Actors -> BOOLEAN] /\ lost' \in [Actors -> BOOLEAN]
          BY <1>6, <4>1, ZenonT(40) DEF Sample, BeginCapture
        <5>2. timer' \in {"none", "waiting", "done"} /\ timerStop' \in BOOLEAN
          BY <1>6, <4>1, ZenonT(40) DEF Sample, BeginCapture, StartTimer
        <5> QED
          BY <1>6, <5>1, <5>2, Zenon DEF Sample
      <4>2. CASE ~initialized
        <5>1. timer' \in {"none", "waiting", "done"} /\ timerStop' \in BOOLEAN
          BY <1>6, <4>2, ZenonT(40) DEF Sample, StopTimer
        <5>2. cancel' \in BOOLEAN /\ written' \in [Actors -> BOOLEAN] /\ lost' \in [Actors -> BOOLEAN]
          BY <1>6, <4>2, ZenonT(40) DEF Sample
        <5> QED
          BY <1>6, <5>1, <5>2, Zenon DEF Sample
      <4> QED
        BY <4>1, <4>2
    <3> QED
      BY <3>1, <3>2, <3>3
  <2>2. ClaimInv'
    BY <1>6 DEF Sample, BeginCapture, StartTimer, StopTimer
  <2>3. GilInv'
    BY <1>6 DEF Sample, BeginCapture, StartTimer, StopTimer
  <2>4. TimerInv'
    BY <1>6 DEF Sample, BeginCapture, StartTimer, StopTimer
  <2>5. SamplerInv'
    BY <1>6 DEF Sample, BeginCapture, StartTimer, StopTimer
  <2>6. LatestInv'
    BY <1>6 DEF Sample, BeginCapture, StartTimer, StopTimer
  <2> QED
    BY <2>1, <2>2, <2>3, <2>4, <2>5, <2>6
<1>7. CASE FinishSample
  <2>1. TypeOK'
    <3>1. OwnerTypes'
      BY <1>7 DEF FinishSample, TimerJoined
    <3>2. PointTypes'
      BY <1>7 DEF FinishSample, TimerJoined
    <3>3. FlagTypes'
      BY <1>7 DEF FinishSample, TimerJoined
    <3> QED
      BY <3>1, <3>2, <3>3
  <2>2. ClaimInv'
    BY <1>7 DEF FinishSample, TimerJoined
  <2>3. GilInv'
    BY <1>7 DEF FinishSample, TimerJoined
  <2>4. TimerInv'
    BY <1>7 DEF FinishSample, TimerJoined
  <2>5. SamplerInv'
    BY <1>7 DEF FinishSample, TimerJoined
  <2>6. LatestInv'
    BY <1>7 DEF FinishSample, TimerJoined
  <2> QED
    BY <2>1, <2>2, <2>3, <2>4, <2>5, <2>6
<1>8. CASE UnclaimSample
  <2>1. TypeOK'
    <3>1. OwnerTypes'
      BY <1>8 DEF UnclaimSample, Unclaim
    <3>2. PointTypes'
      BY <1>8 DEF UnclaimSample, Unclaim
    <3>3. FlagTypes'
      BY <1>8 DEF UnclaimSample, Unclaim
    <3> QED
      BY <3>1, <3>2, <3>3
  <2>2. ClaimInv'
    BY <1>8 DEF UnclaimSample, Unclaim
  <2>3. GilInv'
    BY <1>8 DEF UnclaimSample, Unclaim
  <2>4. TimerInv'
    BY <1>8 DEF UnclaimSample, Unclaim
  <2>5. SamplerInv'
    BY <1>8 DEF UnclaimSample, Unclaim
  <2>6. LatestInv'
    BY <1>8 DEF UnclaimSample, Unclaim
  <2> QED
    BY <2>1, <2>2, <2>3, <2>4, <2>5, <2>6
<1>9. CASE LeaveSample
  BY <1>9 DEF LeaveSample
<1> QED
  BY <1>1, <1>2, <1>3, <1>4, <1>5, <1>6, <1>7, <1>8, <1>9 DEF SamplerSteps

LEMMA NextInv ==
  ASSUME IInv, [Next]_vars
  PROVE  IInv'
<1>1. CASE Next
  BY <1>1, GilSteps, CallSteps, CaptureInv, FinishInv, ProgressInv, TimerSteps, SamplerInvariant
  DEF Next
<1>2. CASE UNCHANGED vars
  BY <1>2 DEF vars
<1> QED
  BY <1>1, <1>2

(***************************************************************************)
(* The theorems.                                                           *)
(***************************************************************************)

\* Every reachable state satisfies the inductive invariant.
THEOREM Invariance == Spec => []IInv
<1> HIDE DEF IInv
<1> QED
  BY InitInv, NextInv, PTL DEF Spec

\* The state has its types, and the sampling thread and the callers stay at
\* their own points of the code.
THEOREM TypeCorrect == Spec => []TypeOK
<1>1. IInv => TypeOK
  OBVIOUS
<1> HIDE DEF IInv, TypeOK
<1> QED
  BY <1>1, Invariance, PTL

\* However many threads call, whenever the sampling thread claims, and
\* wherever an exception or finalize() comes between: one actor captures.
THEOREM OneCaptureCorrect == Spec => []OneCapture
<1>1. IInv => OneCapture
  BY DEF OneCapture
<1> HIDE DEF IInv
<1> QED
  BY <1>1, Invariance, PTL

\* No timer thread is there without the claim of the actor that started it.
THEOREM TimerWithinClaimCorrect == Spec => []TimerWithinClaim
<1>1. IInv => TimerWithinClaim
  OBVIOUS
<1> HIDE DEF IInv, TimerWithinClaim
<1> QED
  BY <1>1, Invariance, PTL

\* Which steps forget a request to cancel, and who has the claim there.
LEMMA Forgetting ==
  ASSUME IInv, Next, cancel, ~cancel'
  PROVE  gil # None /\ (holder = gil \/ holder' = gil)
<1>1. CASE \E t \in Callers : Begin(t)
  BY <1>1 DEF Begin, Answered, Claim
<1>2. CASE \E t \in Actors : Finish(t)
  BY <1>2 DEF Finish
<1>3. CASE Sample
  BY <1>3 DEF Sample
<1>4. CASE FinishSample
  BY <1>4 DEF FinishSample, SamplerMoves
<1>5. CASE UNCHANGED cancel
  BY <1>5
<1>6. CASE cancel'
  BY <1>6
<1> QED
  BY <1>1, <1>2, <1>3, <1>4, <1>5, <1>6
  DEF Next, TakeGil, DropGil, CaptureSteps, CaptureEnds, CallWriter, Write, EndSnapshot,
      DiscardSnapshot, Caught, Uncaught, Calls, Call, CancelSnapshot, CallDisable, Progress,
      Refused, KeepRequests, ReadLatest, Finalize, BeginFinalize, EndFinalize, EnableSampling,
      Disable, JoinSampler, Return, TimerFires, TimerStopped, SamplerSteps, Wake, CheckStop,
      SkipSample, ClaimSample, CheckStopAgain, UnclaimSample, LeaveSample

\* A call that is refused, a finalize() or a thread that only runs Python code
\* never makes the running snapshot forget that it has been cancelled.
THEOREM CancelNotStolenCorrect == Spec => CancelNotStolen
<1>1. IInv /\ [Next]_vars =>
        [cancel /\ ~cancel' => gil # None /\ (holder = gil \/ holder' = gil)]_vars
  BY Forgetting
<1> HIDE DEF IInv
<1> QED
  BY <1>1, Invariance, PTL DEF Spec, CancelNotStolen

\* The snapshot that take_snapshot() returns is its own.
THEOREM OwnSnapshotCorrect == Spec => OwnSnapshot
<1>1. IInv => \A t \in Callers : pc[t] = "reading" => latest = t
  OBVIOUS
<1>2. IInv /\ [Next]_vars =>
        [\A t \in Callers : pc[t] = "reading" /\ pc'[t] = "python" => latest = t]_vars
  BY <1>1
<1> HIDE DEF IInv
<1> QED
  BY <1>2, Invariance, PTL DEF Spec, OwnSnapshot

\* Every step of the code is a step of the service, or is none of its business.
LEMMA ServiceStep ==
  ASSUME IInv, Next
  PROVE  Service!Next \/ UNCHANGED Service!serviceVars
<1> USE DEF Service!Next, Service!serviceVars
<1>1. CASE \E t \in Callers : Begin(t)
  <2>1. PICK t \in Callers : Begin(t)
    BY <1>1
  <2>2. holder = None /\ holder' = t /\ cancel' \in {cancel, FALSE}
    BY <2>1 DEF Begin, Claim, ClaimFree, BeginCapture
  <2> QED
    BY <2>2 DEF Service!Begin
<1>2. CASE ClaimSample
  BY <1>2 DEF ClaimSample, Claim, ClaimFree, Service!Begin
<1>3. CASE \E t \in Actors : Finish(t)
  <2>1. PICK a \in Actors : Finish(a)
    BY <1>3
  <2>2. holder = a /\ holder' = None /\ cancel' = FALSE
    BY <2>1 DEF Finish, Unclaim
  <2>3. holder # None
    BY <2>2
  <2> QED
    BY <2>2, <2>3 DEF Service!End
<1>4. CASE CheckStopAgain
  BY <1>4 DEF CheckStopAgain, SamplerMoves, ExitUnclaimed, Unclaim, Service!End
<1>5. CASE UnclaimSample
  BY <1>5 DEF UnclaimSample, SamplerMoves, Unclaim, Service!End
<1>6. CASE Sample
  <2>1. holder = Sampler /\ holder' = holder
    BY <1>6 DEF Sample
  <2>2. cancel' = FALSE \/ cancel' = cancel
    BY <1>6 DEF Sample, BeginCapture
  <2> QED
    BY <2>1, <2>2 DEF Service!Forget
<1>7. CASE FinishSample
  BY <1>7 DEF FinishSample, SamplerMoves, Service!Forget
<1>8. CASE \E t \in Callers : CancelSnapshot(t)
  BY <1>8 DEF CancelSnapshot, Service!Cancel
<1>9. CASE TimerFires
  BY <1>9 DEF TimerFires, Service!Cancel
<1>10. CASE UNCHANGED <<holder, cancel>>
  BY <1>10
<1> QED
  BY <1>1, <1>2, <1>3, <1>4, <1>5, <1>6, <1>7, <1>8, <1>9, <1>10
  DEF Next, TakeGil, DropGil, CaptureSteps, CaptureEnds, CallWriter, Write, EndSnapshot,
      DiscardSnapshot, Caught, Uncaught, Calls, Call, CallDisable, Progress, Refused,
      KeepRequests, ReadLatest, Finalize, BeginFinalize, EndFinalize, EnableSampling, Disable,
      JoinSampler, Return, TimerStopped, SamplerSteps, Wake, CheckStop, SkipSample, LeaveSample

\* The captures of all the threads together are one SnapshotService, with the
\* holder of the claim as the thread whose snapshot is in progress.
THEOREM Implementation == Spec => ImplementsService
<1>1. Init => Service!Init
  BY DEF Init, Service!Init
<1>2. IInv /\ [Next]_vars => [Service!Next]_(Service!serviceVars)
  <2>1. ASSUME UNCHANGED vars
        PROVE  UNCHANGED Service!serviceVars
    BY <2>1 DEF vars, Service!serviceVars
  <2> QED
    BY <2>1, ServiceStep
<1> HIDE DEF IInv
<1> QED
  BY <1>1, <1>2, Invariance, PTL DEF Spec, ImplementsService, Service!Spec

=============================================================================
