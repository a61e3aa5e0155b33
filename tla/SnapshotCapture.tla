-------------------------- MODULE SnapshotCapture --------------------------
(***************************************************************************)
(* The coordination of captures in snapshot_lib/SnapshotCapture.cpp: who   *)
(* may capture, who may cancel, and who waits for whom.                    *)
(*                                                                         *)
(* The actors are the Python threads that call the module, the sampling    *)
(* thread, and the timer thread of the snapshot in progress.  They share   *)
(* the interpreter lock (GIL), the atomic claim snapshotInProgress_, the   *)
(* cancel flag, the timer, and the writer's mutex_.  The sampling thread   *)
(* claims before it has the GIL; the timer thread never has it; everything *)
(* else runs with it, and a thread gives it up only where Python code      *)
(* runs: in the program, in repr() of a captured object, and in linecache  *)
(* when finalize() reads source files.  What is between two such points    *)
(* and touches only what the GIL protects is one step.                     *)
(*                                                                         *)
(* What a capture writes is in SnapshotWriter.tla.                         *)
(***************************************************************************)
EXTENDS Naturals, FiniteSets

CONSTANTS
  Callers,        \* Python threads
  Sampler,        \* the sampling thread
  None,           \* no thread
  SpaceMayRunOut, \* the writer may refuse to grow its file
  SourceFiles,    \* finalize() has source files to read through linecache
  Offered         \* bound: the operations that the threads call

CaptureOps == {"take", "frame", "all"}
Ops == CaptureOps \cup {"enable", "finalize", "none"}

Actors == Callers \cup {Sampler}

ASSUME ActorsAssumption == Sampler \notin Callers /\ None \notin Actors
ASSUME EnvironmentAssumption == SpaceMayRunOut \in BOOLEAN /\ SourceFiles \in BOOLEAN
ASSUME OfferedAssumption == Offered \subseteq Ops \ {"none"}

VARIABLES
  gil,            \* the thread that holds the interpreter lock
  pc,             \* the point each actor has reached
  op,             \* the operation it runs
  written,        \* its capture has written a snapshot
  lost,           \* finalize() ran since its capture began
  claim,          \* snapshotInProgress_
  holder,         \* history: the actor that claimed it
  cancel,         \* cancelRequested_
  timer,          \* timeoutThread_: "none", "waiting" or "done"
  timerStop,      \* timeoutShouldStop_
  timerOwner,     \* history: the actor that started the timer
  mutex,          \* holder of the writer's mutex_, across steps
  initialized,    \* initialized_ of the writer
  latest,         \* the actor that wrote the latest snapshot
  samplingActive, \* samplingActive_
  stop            \* samplingShouldStop_

actorVars == <<pc, op, written, lost>>
claimVars == <<claim, holder>>
timerVars == <<timer, timerStop, timerOwner>>
writerVars == <<mutex, initialized, latest>>
samplingVars == <<samplingActive, stop>>
vars == <<gil, actorVars, claimVars, cancel, timerVars, writerVars, samplingVars>>

Go(a, to) == pc' = [pc EXCEPT ![a] = to]

\* Where an actor without the GIL needs it, and where it may lose it.
Waiting == {"python", "capturing", "finalizing", "reading", "returning", "starting"}

\* Faulty: the GIL is given up before the latest snapshot is read.
YieldingToRead == {"python", "capturing", "finalizing", "reading"}

Yielding == {"python", "capturing", "finalizing"}

\* Where an actor is between its claim and the end of its capture.
Busy(a) == pc[a] \in {"capturing", "writing", "joining"}

Init ==
  /\ gil = None
  /\ pc = [a \in Actors |-> IF a = Sampler THEN "off" ELSE "python"]
  /\ op = [a \in Actors |-> "none"]
  /\ written = [a \in Actors |-> FALSE] /\ lost = [a \in Actors |-> FALSE]
  /\ claim = FALSE /\ holder = None
  /\ cancel = FALSE
  /\ timer = "none" /\ timerStop = FALSE /\ timerOwner = None
  /\ mutex = None /\ initialized = FALSE /\ latest = None
  /\ samplingActive = FALSE /\ stop = FALSE

(***************************************************************************)
(* The interpreter lock.                                                   *)
(***************************************************************************)

TakeGil(a) ==
  /\ pc[a] \in Waiting
  /\ gil = None
  /\ gil' = a
  /\ UNCHANGED <<actorVars, claimVars, cancel, timerVars, writerVars, samplingVars>>

DropGil(a) ==
  /\ pc[a] \in Yielding /\ gil = a
  /\ gil' = None
  /\ UNCHANGED <<actorVars, claimVars, cancel, timerVars, writerVars, samplingVars>>

(***************************************************************************)
(* Calls.  Every function of the module first asks the writer whether it   *)
(* is initialized: it waits for mutex_, and keeps the GIL while it waits.  *)
(***************************************************************************)
Call(t) ==
  /\ pc[t] = "python" /\ gil = t
  /\ \E o \in Offered : op' = [op EXCEPT ![t] = o]
  /\ Go(t, "calling")
  /\ UNCHANGED <<gil, written, lost, claimVars, cancel, timerVars, writerVars, samplingVars>>

Answered(t) == pc[t] = "calling" /\ gil = t /\ mutex = None

\* cancel_snapshot() takes no lock.
CancelSnapshot(t) ==
  /\ pc[t] = "python" /\ gil = t
  /\ cancel' = TRUE
  /\ UNCHANGED <<gil, actorVars, claimVars, timerVars, writerVars, samplingVars>>

\* startTimeoutTimer: not when there is a timer thread already.
StartTimer(a) ==
  IF timer = "none"
    THEN timer' = "waiting" /\ timerStop' = FALSE /\ timerOwner' = a
    ELSE UNCHANGED timerVars

\* Faulty: a refused call clears the flag, as one that has run does.
ForgetRequests == cancel' = FALSE

KeepRequests == UNCHANGED cancel

\* Another snapshot is in progress: the call returns None, at once.
Refused(t) ==
  /\ Answered(t) /\ op[t] \in CaptureOps
  /\ claim
  /\ initialized' = TRUE
  /\ Go(t, "python")
  /\ op' = [op EXCEPT ![t] = "none"]
  /\ KeepRequests
  /\ UNCHANGED <<gil, written, lost, claimVars, timerVars, mutex, latest, samplingVars>>

\* Faulty: the claim is read, and then written, instead of exchanged.
ClaimUnseen == TRUE

ClaimFree == ~claim

\* The claim is exchanged, the timer starts, and so does the capture.  Only
\* snapshotAllThreads forgets requests made before it, and always has a time
\* limit.
Claim(a) ==
  /\ ClaimFree
  /\ claim' = TRUE /\ holder' = a

BeginCapture(a) ==
  /\ cancel' = (cancel /\ op[a] # "all")
  /\ \/ StartTimer(a)
     \/ op[a] # "all" /\ UNCHANGED timerVars
  /\ Go(a, "capturing")
  /\ written' = [written EXCEPT ![a] = FALSE]
  /\ lost' = [lost EXCEPT ![a] = FALSE]

Begin(t) ==
  /\ Answered(t) /\ op[t] \in CaptureOps
  /\ Claim(t)
  /\ BeginCapture(t)
  /\ initialized' = TRUE
  /\ UNCHANGED <<gil, op, mutex, latest, samplingVars>>

(***************************************************************************)
(* A capture.  Between two calls of the writer it runs Python code.        *)
(***************************************************************************)
CallWriter(a) ==
  /\ pc[a] = "capturing" /\ gil = a
  /\ Go(a, "writing")
  /\ UNCHANGED <<gil, op, written, lost, claimVars, cancel, timerVars, writerVars, samplingVars>>

InWriter(a) == pc[a] = "writing" /\ mutex = None

Write(a) ==
  /\ InWriter(a) /\ ~lost[a]
  /\ Go(a, "capturing")
  /\ UNCHANGED <<gil, op, written, lost, claimVars, cancel, timerVars, writerVars, samplingVars>>

\* The first half of stopTimeoutTimer; then the timer thread is joined.
StopTimer == timerStop' = (timerStop \/ timer # "none") /\ UNCHANGED <<timer, timerOwner>>

\* endSnapshot
EndSnapshot(a) ==
  /\ InWriter(a) /\ ~lost[a]
  /\ written' = [written EXCEPT ![a] = TRUE]
  /\ latest' = a
  /\ StopTimer
  /\ Go(a, "joining")
  /\ UNCHANGED <<gil, op, lost, claimVars, cancel, mutex, initialized, samplingVars>>

\* discardCurrentSnapshot, which does nothing if there is no snapshot.
DiscardSnapshot(a) ==
  /\ InWriter(a)
  /\ StopTimer
  /\ Go(a, "joining")
  /\ UNCHANGED <<gil, op, written, lost, claimVars, cancel, writerVars, samplingVars>>

Throws(a) == InWriter(a) /\ (lost[a] \/ SpaceMayRunOut)

\* snapshotAllThreads and takeSnapshotFromFrame clean up.
Caught(a) ==
  /\ Throws(a) /\ op[a] # "take"
  /\ StopTimer
  /\ Go(a, "joining")
  /\ UNCHANGED <<gil, op, written, lost, claimVars, cancel, writerVars, samplingVars>>

\* takeSnapshot and takeSnapshotFromException do not: the exception goes to
\* the caller, and the claim and the timer stay.
Uncaught(a) ==
  /\ Throws(a) /\ op[a] = "take"
  /\ Go(a, "python")
  /\ op' = [op EXCEPT ![a] = "none"]
  /\ UNCHANGED <<gil, written, lost, claimVars, cancel, timerVars, writerVars, samplingVars>>

\* Faulty: the timer thread is not waited for.
TimerLeft == UNCHANGED timerVars

TimerJoined ==
  /\ timer \in {"none", "done"}
  /\ timer' = "none" /\ UNCHANGED <<timerStop, timerOwner>>

Unclaim == claim' = FALSE /\ holder' = None

\* Faulty: alreadyHoldsLock is not looked at.
ClaimedByAnybody(a) == TRUE

\* !alreadyHoldsLock
ClaimedItself(a) == a # Sampler

\* The timer has been joined: the requests are forgotten and the claim is
\* given back.
Finish(t) ==
  /\ pc[t] = "joining" /\ gil = t
  /\ ClaimedItself(t)
  /\ TimerJoined
  /\ cancel' = FALSE
  /\ Unclaim
  /\ Go(t, IF written[t] THEN "reading" ELSE "python")
  /\ op' = [op EXCEPT ![t] = "none"]
  /\ UNCHANGED <<gil, written, lost, writerVars, samplingVars>>

\* The binding returns the latest snapshot of the file.
ReadLatest(t) ==
  /\ pc[t] = "reading" /\ gil = t
  /\ Go(t, "python")
  /\ UNCHANGED <<gil, op, written, lost, claimVars, cancel, timerVars, writerVars, samplingVars>>

(***************************************************************************)
(* The timer thread.                                                       *)
(***************************************************************************)
TimerFires ==
  /\ timer = "waiting" /\ ~timerStop
  /\ timer' = "done"
  /\ cancel' = TRUE
  /\ UNCHANGED <<gil, actorVars, claimVars, timerStop, timerOwner, writerVars, samplingVars>>

TimerStopped ==
  /\ timer = "waiting" /\ timerStop
  /\ timer' = "done"
  /\ UNCHANGED <<gil, actorVars, claimVars, cancel, timerStop, timerOwner, writerVars, samplingVars>>

(***************************************************************************)
(* finalize()                                                              *)
(***************************************************************************)
CloseWriter ==
  /\ initialized' = FALSE
  /\ latest' = None
  /\ lost' = [a \in Actors |-> lost[a] \/ Busy(a)]

\* Nothing to finalize, or nothing to read for it.
Finalize(t) ==
  /\ Answered(t) /\ op[t] = "finalize"
  /\ IF initialized THEN CloseWriter ELSE UNCHANGED <<initialized, latest, lost>>
  /\ Go(t, "python")
  /\ op' = [op EXCEPT ![t] = "none"]
  /\ UNCHANGED <<gil, written, claimVars, cancel, timerVars, mutex, samplingVars>>

\* linecache runs with mutex_ held.
BeginFinalize(t) ==
  /\ SourceFiles /\ initialized
  /\ Answered(t) /\ op[t] = "finalize"
  /\ mutex' = t
  /\ Go(t, "finalizing")
  /\ UNCHANGED <<gil, op, written, lost, claimVars, cancel, timerVars, initialized, latest, samplingVars>>

EndFinalize(t) ==
  /\ pc[t] = "finalizing" /\ gil = t
  /\ CloseWriter
  /\ mutex' = None
  /\ Go(t, "python")
  /\ op' = [op EXCEPT ![t] = "none"]
  /\ UNCHANGED <<gil, written, claimVars, cancel, timerVars, samplingVars>>

(***************************************************************************)
(* Sampling.                                                               *)
(***************************************************************************)

\* enable_sampling(); it raises an exception when sampling is active.
EnableSampling(t) ==
  /\ Answered(t) /\ op[t] = "enable"
  /\ initialized' = TRUE
  /\ IF samplingActive
       THEN /\ Go(t, "python")
            /\ UNCHANGED samplingVars
            /\ op' = [op EXCEPT ![t] = "none"]
       ELSE /\ pc' = [pc EXCEPT ![t] = "python", ![Sampler] = "sleeping"]
            /\ op' = [op EXCEPT ![t] = "none", ![Sampler] = "all"]
            /\ samplingActive' = TRUE /\ stop' = FALSE
  /\ UNCHANGED <<gil, written, lost, claimVars, cancel, timerVars, mutex, latest>>

\* disable_sampling() runs without the GIL.
CallDisable(t) ==
  /\ pc[t] = "python" /\ gil = t
  /\ gil' = None
  /\ Go(t, "disabling")
  /\ UNCHANGED <<op, written, lost, claimVars, cancel, timerVars, writerVars, samplingVars>>

\* Two calls at a time would join one std::thread twice, which is undefined:
\* here the second waits for the first.
Disable(t) ==
  /\ pc[t] = "disabling"
  /\ \A u \in Callers : pc[u] # "joinSampler"
  /\ IF samplingActive
       THEN stop' = TRUE /\ Go(t, "joinSampler")
       ELSE UNCHANGED stop /\ Go(t, "returning")
  /\ UNCHANGED <<gil, op, written, lost, claimVars, cancel, timerVars, writerVars, samplingActive>>

JoinSampler(t) ==
  /\ pc[t] = "joinSampler" /\ pc[Sampler] = "exited"
  /\ pc' = [pc EXCEPT ![t] = "returning", ![Sampler] = "off"]
  /\ samplingActive' = FALSE
  /\ UNCHANGED <<gil, op, written, lost, claimVars, cancel, timerVars, writerVars, stop>>

Return(t) ==
  /\ pc[t] = "returning" /\ gil = t
  /\ Go(t, "python")
  /\ UNCHANGED <<gil, op, written, lost, claimVars, cancel, timerVars, writerVars, samplingVars>>

SamplerMoves(from, to) == pc[Sampler] = from /\ Go(Sampler, to)

\* Faulty: the wait has no predicate.
StopUnseen == FALSE

StopSeen == stop

\* The wait for the next sample, under samplingMutex_.
Wake ==
  /\ SamplerMoves("sleeping", IF StopSeen THEN "exited" ELSE "woken")
  /\ UNCHANGED <<gil, op, written, lost, claimVars, cancel, timerVars, writerVars, samplingVars>>

\* samplingShouldStop_ is read again without samplingMutex_: the read races
\* with disableSampling, and may miss it.
CheckStop ==
  /\ \/ SamplerMoves("woken", "trying")
     \/ stop /\ SamplerMoves("woken", "exited")
  /\ UNCHANGED <<gil, op, written, lost, claimVars, cancel, timerVars, writerVars, samplingVars>>

\* Another snapshot is in progress: this sample is left out.
SkipSample ==
  /\ claim
  /\ SamplerMoves("trying", "sleeping")
  /\ UNCHANGED <<gil, op, written, lost, claimVars, cancel, timerVars, writerVars, samplingVars>>

ClaimSample ==
  /\ SamplerMoves("trying", "claimed")
  /\ Claim(Sampler)
  /\ UNCHANGED <<gil, op, written, lost, cancel, timerVars, writerVars, samplingVars>>

\* Faulty: the sampling thread exits with its claim.
ExitClaimed == UNCHANGED claimVars

ExitUnclaimed == Unclaim

\* The second read that races.
CheckStopAgain ==
  /\ \/ SamplerMoves("claimed", "starting") /\ UNCHANGED claimVars
     \/ stop /\ SamplerMoves("claimed", "exited") /\ ExitUnclaimed
  /\ UNCHANGED <<gil, op, written, lost, cancel, timerVars, writerVars, samplingVars>>

\* PyGILState_Ensure has returned: snapshotAllThreads under the claim that the
\* sampling thread has.  If the writer is not initialized, it cleans up.
Sample ==
  /\ pc[Sampler] = "starting" /\ gil = Sampler /\ mutex = None
  /\ IF initialized
       THEN BeginCapture(Sampler)
       ELSE /\ StopTimer
            /\ Go(Sampler, "joining")
            /\ written' = [written EXCEPT ![Sampler] = FALSE]
            /\ UNCHANGED <<lost, cancel>>
  /\ UNCHANGED <<gil, op, claimVars, writerVars, samplingVars>>

FinishSample ==
  /\ SamplerMoves("joining", "unclaiming") /\ gil = Sampler
  /\ TimerJoined
  /\ cancel' = FALSE
  /\ UNCHANGED <<gil, op, written, lost, claimVars, writerVars, samplingVars>>

UnclaimSample ==
  /\ SamplerMoves("unclaiming", "leaving")
  /\ Unclaim
  /\ UNCHANGED <<gil, op, written, lost, cancel, timerVars, writerVars, samplingVars>>

\* PyGILState_Release
LeaveSample ==
  /\ SamplerMoves("leaving", "sleeping")
  /\ gil' = None
  /\ UNCHANGED <<op, written, lost, claimVars, cancel, timerVars, writerVars, samplingVars>>

(***************************************************************************)
(* The specification.                                                      *)
(***************************************************************************)
Calls(t) ==
  \/ Call(t) \/ CancelSnapshot(t) \/ CallDisable(t)

Progress(t) ==
  \/ Refused(t) \/ Begin(t) \/ ReadLatest(t)
  \/ Finalize(t) \/ BeginFinalize(t) \/ EndFinalize(t)
  \/ EnableSampling(t) \/ Disable(t) \/ JoinSampler(t) \/ Return(t)

CaptureEnds(a) == EndSnapshot(a) \/ DiscardSnapshot(a) \/ Caught(a) \/ Uncaught(a)
CaptureSteps(a) == CallWriter(a) \/ Write(a) \/ CaptureEnds(a)

SamplerSteps ==
  \/ Wake \/ CheckStop \/ SkipSample \/ ClaimSample \/ CheckStopAgain
  \/ Sample \/ FinishSample \/ UnclaimSample \/ LeaveSample

Next ==
  \/ \E a \in Actors : TakeGil(a) \/ DropGil(a) \/ CaptureSteps(a) \/ Finish(a)
  \/ \E t \in Callers : Calls(t) \/ Progress(t)
  \/ TimerFires \/ TimerStopped
  \/ SamplerSteps

Spec == Init /\ [][Next]_vars

\* A thread that runs Python code gives the GIL up when another asks for it, and
\* gets it back in time; a capture has finitely many objects, and finalize()
\* finitely many files; a thread that is not blocked goes on.  Nobody has to
\* call anything.
Fairness ==
  /\ SF_vars(\E a \in Actors : DropGil(a))
  /\ \A a \in Actors : /\ SF_vars(TakeGil(a))
                       /\ SF_vars(CallWriter(a)) /\ SF_vars(CaptureEnds(a))
                       /\ WF_vars(Finish(a))
  /\ \A t \in Callers : WF_vars(Progress(t)) /\ SF_vars(EndFinalize(t)) /\ SF_vars(Disable(t))
  /\ WF_vars(TimerFires \/ TimerStopped)
  /\ WF_vars(SamplerSteps)

FairSpec == Spec /\ Fairness

(***************************************************************************)
(* Properties.                                                             *)
(***************************************************************************)
CallerPoints == {"python", "calling", "capturing", "writing", "joining", "reading",
                 "finalizing", "disabling", "joinSampler", "returning"}
SamplerPoints == {"off", "sleeping", "woken", "trying", "claimed", "starting", "capturing",
                  "writing", "joining", "unclaiming", "leaving", "exited"}

OwnerTypes ==
  /\ gil \in Actors \cup {None} /\ holder \in Actors \cup {None}
  /\ timerOwner \in Actors \cup {None} /\ mutex \in Callers \cup {None}
  /\ latest \in Actors \cup {None}

PointTypes ==
  /\ pc \in [Actors -> CallerPoints \cup SamplerPoints]
  /\ pc[Sampler] \in SamplerPoints /\ \A t \in Callers : pc[t] \in CallerPoints
  /\ op \in [Actors -> Ops]

FlagTypes ==
  /\ written \in [Actors -> BOOLEAN] /\ lost \in [Actors -> BOOLEAN]
  /\ claim \in BOOLEAN /\ cancel \in BOOLEAN /\ timerStop \in BOOLEAN
  /\ initialized \in BOOLEAN /\ samplingActive \in BOOLEAN /\ stop \in BOOLEAN
  /\ timer \in {"none", "waiting", "done"}

\* The types of the shared state, and of every actor's point and operation.
TypeOK == OwnerTypes /\ PointTypes /\ FlagTypes

\* At most one actor captures, although the sampling thread claims without the
\* GIL and gives its claim back before it gives back the GIL.
OneCapture == \A a, b \in Actors : Busy(a) /\ Busy(b) => a = b

\* A timer thread never outlives the capture that started it, except where an
\* uncaught exception left both the claim and the timer: so no timer can
\* cancel a later snapshot.
TimerWithinClaim == timer # "none" => claim /\ holder = timerOwner

\* A request to cancel is only ever forgotten by the actor that has, or gets,
\* the claim; a call that is refused does not lose it.
CancelNotStolen ==
  [][cancel /\ ~cancel' => gil # None /\ (holder = gil \/ holder' = gil)]_vars

\* take_snapshot() returns the snapshot it took, and not one that the sampling
\* thread or another caller wrote since.
OwnSnapshot ==
  [][\A t \in Callers : pc[t] = "reading" /\ pc'[t] = "python" => latest = t]_vars

\* The captures together are a SnapshotService.
Service == INSTANCE SnapshotService WITH running <- holder, cancelled <- cancel
ImplementsService == Service!Spec

\* Every call returns: disable_sampling() too, which waits for a sample that
\* may need the GIL, the claim and the timer thread to end.
CallsReturn == \A t \in Callers : pc[t] # "python" ~> pc[t] = "python"

\* The claim is never left behind: whichever way a capture, a sample or the
\* sampling thread ends, the next snapshot can be taken.
ClaimReleased == claim ~> ~claim

\* SnapshotCapture.h says of the claim that it is cleared after the snapshot
\* has been ended or discarded.  A caller that does not capture has no claim.
ClaimGivenBack == claim => Busy(holder) \/ holder = Sampler

\* The timeout of take_snapshot() is the "maximum time in seconds for the
\* entire snapshot operation" (PYTHON_API.md): no capture lasts for ever.
CapturesReturn == \A t \in Callers : op[t] \in CaptureOps ~> op[t] \notin CaptureOps

=============================================================================
