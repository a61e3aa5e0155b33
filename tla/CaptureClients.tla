--------------------------- MODULE CaptureClients ---------------------------
(***************************************************************************)
(* The Python code that uses the capture functions on behalf of a program: *)
(* the sampling() block (_sampling.py), the hook for unhandled exceptions  *)
(* (_exception_hook.py) and the functions that the VS Code extension calls *)
(* (vscode.py).  Each of them makes several calls, and other threads run   *)
(* between them.                                                           *)
(*                                                                         *)
(* The module has one working file at a time.  initialize() begins one if  *)
(* there is none, as do the functions that capture; finalize() writes it   *)
(* to an output file, if it is given a path and can write there, and       *)
(* deletes it in any case, whosever snapshots are in it.                   *)
(***************************************************************************)
EXTENDS Naturals, Sequences, FiniteSets

CONSTANTS
  Threads,      \* Python threads
  Main,         \* the one in which sys.excepthook runs
  Sampler,      \* the sampling thread
  None,         \* no thread
  MaxTaken,     \* bound: snapshots
  MaxFiles,     \* bound: working files
  MaxHooks      \* bound: functions that call each other as sys.excepthook

ASSUME ClientsAssumption ==
  /\ Main \in Threads /\ {Sampler, None} \cap Threads = {} /\ Sampler # None
  /\ {MaxTaken, MaxFiles, MaxHooks} \subseteq Nat

Actors == Threads \cup {Sampler}

VARIABLES
  file,     \* the working file, or 0
  files,    \* the working files there have been
  content,  \* the snapshots in the working file
  outputs,  \* what finalize() has made of each working file that there was
  claim,    \* the actor that captures, or has failed to give up its claim
  lost,     \* the working file of the capture has been deleted
  sampler,  \* the thread that has enabled sampling
  pc,       \* the next call of each actor, "idle" in the program
  result,   \* the last snapshot of each actor, or 0
  hooks,    \* sys.excepthook, and the hooks that each calls after itself
  saved,    \* _saved_excepthook
  rest,     \* the hooks that are still to be called for an exception
  taken,    \* history: the snapshots that have been written
  called,   \* history: the hooks that have been called
  told,     \* history: the callback was last told of a file with the exception
  event     \* the last event for the extension

coreVars == <<file, files, content, outputs, claim, lost, sampler, taken>>
fileVars == <<file, files, content>>
hookVars == <<hooks, saved, rest, called, told>>
vars == <<coreVars, pc, result, hookVars, event>>

NoEvent == [captured |-> 0, file |-> 0]

Go(a, to) == pc' = [pc EXCEPT ![a] = to]

Init ==
  /\ file = 0 /\ files = 0 /\ content = {} /\ outputs = <<>>
  /\ claim = None /\ lost = FALSE /\ sampler = None
  /\ pc = [a \in Actors |-> "idle"] /\ result = [a \in Actors |-> 0]
  /\ hooks = <<"python">> /\ saved = <<>> /\ rest = <<>>
  /\ taken = 0 /\ called = <<>> /\ told = TRUE /\ event = NoEvent

(***************************************************************************)
(* What the module does.                                                   *)
(***************************************************************************)
NewFile ==
  /\ files < MaxFiles
  /\ files' = files + 1 /\ file' = files + 1 /\ content' = {}

\* Faulty: there is a new file for every caller.
OpenAnew == NewFile

\* initialize(): the reader of the file that there is, or a new file.
Open == IF file # 0 THEN UNCHANGED fileVars ELSE NewFile

\* A capture is refused while there is one.
BeginCapture(a) ==
  /\ Open
  /\ IF claim = None
       THEN claim' = a /\ lost' = FALSE /\ Go(a, "capturing")
       ELSE UNCHANGED <<claim, lost>> /\ Go(a, "refused")
  /\ UNCHANGED <<outputs, sampler, taken>>

Written(a, then) ==
  /\ ~lost /\ taken < MaxTaken
  /\ taken' = taken + 1 /\ content' = content \cup {taken + 1}
  /\ result' = [result EXCEPT ![a] = taken + 1]
  /\ claim' = None
  /\ Go(a, then)

\* It was cancelled before its first frame.
Discarded(a, then) ==
  /\ claim' = None /\ result' = [result EXCEPT ![a] = 0] /\ Go(a, then)
  /\ UNCHANGED <<content, taken>>

\* The writer has no file, or no space for it.  take_snapshot(), which the hook
\* calls, then keeps its claim; snapshot_all_threads(), which the sampling thread
\* and, in a build with the GIL, capture() call, does not.
Failed(a, then) ==
  /\ claim' = (IF a = Main /\ rest # <<>> THEN claim ELSE None)
  /\ result' = [result EXCEPT ![a] = 0] /\ Go(a, then)
  /\ UNCHANGED <<content, taken>>

EndCapture(a, then, raised) ==
  /\ pc[a] = "capturing"
  /\ Written(a, then) \/ Discarded(a, then) \/ Failed(a, raised)
  /\ UNCHANGED <<file, files, outputs, lost, sampler, hookVars, event>>

Refused(a, then) ==
  /\ pc[a] = "refused"
  /\ Go(a, then) /\ result' = [result EXCEPT ![a] = 0]
  /\ UNCHANGED <<coreVars, hookVars, event>>

\* finalize(): without a working file it does nothing.  Without a path, which
\* is the default, it throws the file away; and so does it, without a word,
\* with one that cannot be written.
Save ==
  /\ lost' = (lost \/ (claim # None /\ file # 0))
  /\ IF file = 0
       THEN UNCHANGED outputs
       ELSE \E written \in BOOLEAN :
              outputs' = Append(outputs, [of |-> file, has |-> content, written |-> written])
  /\ file' = 0 /\ content' = {}
  /\ UNCHANGED <<files, claim, sampler, taken>>

Does(t, from, to) == pc[t] = from /\ Go(t, to)

Opens(t, from, to) ==
  /\ Does(t, from, to) /\ Open
  /\ UNCHANGED <<outputs, claim, lost, sampler, taken, result, hookVars>>

Saves(t, from, to) == Does(t, from, to) /\ Save /\ UNCHANGED <<result, hookVars, event>>

(***************************************************************************)
(* The sampling thread, and the sampling() block.                          *)
(***************************************************************************)
\* A sample is left out while there is a capture, or no working file.
Sample ==
  /\ sampler # None /\ pc[Sampler] = "idle"
  /\ claim = None /\ file # 0
  /\ BeginCapture(Sampler)
  /\ UNCHANGED <<result, hookVars, event>>

EndSample == EndCapture(Sampler, "idle", "idle")

EnterBlock(t) == Opens(t, "idle", "enabling") /\ UNCHANGED event

Enabled(t, then) ==
  /\ sampler = None /\ sampler' = t /\ Go(t, then)

\* Faulty: enable_sampling() is inside the try.
RefusedInside == "disabling"

\* The exception leaves sampling().
RefusedOutside == "idle"

Enable(t) ==
  /\ pc[t] = "enabling" /\ Open
  /\ \/ Enabled(t, "body")
     \/ sampler # None /\ Go(t, RefusedOutside) /\ UNCHANGED sampler
  /\ UNCHANGED <<outputs, claim, lost, taken, result, hookVars, event>>

\* The block ends, or an exception does.
LeaveBlock(t) == Does(t, "body", "disabling") /\ UNCHANGED <<coreVars, result, hookVars, event>>

\* disable_sampling() waits for the sample that is being taken.
Disable(t) ==
  /\ pc[Sampler] = "idle"
  /\ \E to \in {"saving", "idle"} : Does(t, "disabling", IF sampler = None THEN "idle" ELSE to)
  /\ sampler' = None
  /\ UNCHANGED <<fileVars, outputs, claim, lost, taken, result, hookVars, event>>

\* finalize_on_exit, with the block's path or none.
SaveBlock(t) == Saves(t, "saving", "idle")

(***************************************************************************)
(* The hook for unhandled exceptions.                                      *)
(***************************************************************************)
InProgram == pc[Main] = "idle"
HooksBecome(chain) ==
  /\ hooks' = chain
  /\ UNCHANGED <<coreVars, pc, result, rest, called, told, event>>

\* It is refused if there is one, also one that an exception_hook() block has
\* left behind.
Install ==
  /\ InProgram /\ saved = <<>> /\ Len(hooks) < MaxHooks
  /\ saved' = hooks /\ HooksBecome(<<"tintype">> \o hooks)

\* A call, or the end of an exception_hook() block without an exception.
Uninstall ==
  /\ InProgram /\ saved # <<>>
  /\ saved' = <<>> /\ HooksBecome(saved)

\* Another library installs a hook that calls the one before it.
Wrap ==
  /\ InProgram /\ Len(hooks) < MaxHooks
  /\ HooksBecome(<<"library">> \o hooks) /\ UNCHANGED saved

Throw ==
  /\ InProgram /\ rest = <<>>
  /\ rest' = hooks /\ called' = <<>> /\ Go(Main, "hook")
  /\ UNCHANGED <<coreVars, result, hooks, saved, told, event>>

\* The temporary output file may not be created.
CallHook ==
  /\ pc[Main] = "hook" /\ rest # <<>>
  /\ called' = Append(called, Head(rest)) /\ rest' = Tail(rest)
  /\ \/ Head(rest) = "tintype" /\ Go(Main, "opening")
     \/ Go(Main, "hook")
  /\ UNCHANGED <<coreVars, result, hooks, saved, told, event>>

InHook(t) == t = Main /\ rest # <<>>

HookOpens == Opens(Main, "opening", "taking") /\ UNCHANGED event

HookTakes ==
  /\ pc[Main] = "taking" /\ BeginCapture(Main)
  /\ UNCHANGED <<result, hookVars, event>>

\* Faulty: the exception of a call leaves the hook.
AfterFailureLeaves == "idle"

\* finally: the hook that was there before is called in any case.
AfterFailure == "hook"

\* What take_snapshot() returns is not looked at.
HookTaken ==
  /\ InHook(Main)
  /\ EndCapture(Main, "writing", AfterFailure) \/ Refused(Main, "writing")

\* metadata that is no JSON raises an exception.
HookSaves ==
  \/ Saves(Main, "writing", "telling")
  \/ Does(Main, "writing", AfterFailure) /\ UNCHANGED <<coreVars, result, hookVars, event>>

\* The callback may raise an exception as well.
Tell ==
  /\ Does(Main, "telling", "hook")
  /\ told' = \E k \in DOMAIN outputs : outputs[k].written /\ result[Main] \in outputs[k].has
  /\ UNCHANGED <<coreVars, result, hooks, saved, rest, called, event>>

HooksDone ==
  /\ rest = <<>> /\ Does(Main, "hook", "idle")
  /\ UNCHANGED <<coreVars, result, hookVars, event>>

(***************************************************************************)
(* The extension: capture(), also for a snappoint, and finalize().         *)
(***************************************************************************)
Capture(t) ==
  /\ pc[t] = "idle" /\ BeginCapture(t)
  /\ UNCHANGED <<result, hookVars, event>>

\* snappoint() makes an event of the exception as well.
Captured(t) == ~InHook(t) /\ (EndCapture(t, "naming", "idle") \/ Refused(t, "naming"))

\* The event has the working file that there is now.
Answer(t) ==
  /\ Opens(t, "naming", "idle")
  /\ event' = [captured |-> result[t], file |-> file']

BeginFinalize(t) == Opens(t, "idle", "saving") /\ UNCHANGED event

Next ==
  \/ Sample \/ EndSample
  \/ \E t \in Threads :
       \/ EnterBlock(t) \/ Enable(t) \/ LeaveBlock(t) \/ Disable(t) \/ SaveBlock(t)
       \/ Capture(t) \/ Captured(t) \/ Answer(t) \/ BeginFinalize(t)
  \/ Install \/ Uninstall \/ Wrap \/ Throw \/ CallHook \/ HookOpens \/ HookTakes
  \/ HookTaken \/ HookSaves \/ Tell \/ HooksDone

Spec == Init /\ [][Next]_vars

(***************************************************************************)
(* Properties.                                                             *)
(***************************************************************************)
\* Whatever fails in the hook, the hooks that there were before it are called,
\* each once and in their order, down to the one of the interpreter.
HooksAllRun ==
  IF pc[Main] \in {"hook", "opening", "taking", "capturing", "refused", "writing", "telling"} /\ rest # <<>>
    THEN called \o rest = hooks
    ELSE /\ rest = <<>>
         /\ pc[Main] = "hook" => called = hooks

\* While a thread is in its sampling() block, sampling is on and was enabled by
\* that thread: no block that was refused has stopped it.
BlockSampled == \A t \in Threads : pc[t] = "body" => sampler = t

\* Whoever begins and finalizes working files meanwhile: a snapshot that was
\* taken stays in the working file, with all the others, until one finalize()
\* takes that file away; and it is in no other output.  No new file, no refused
\* or failed capture and no finalize() in the middle of a capture drops it or
\* doubles it.  (A finalize() that writes nothing loses what it takes.)
Finalized(n) == {k \in DOMAIN outputs : n \in outputs[k].has}
LostOnlyByFinalize ==
  \A n \in 1..taken : Cardinality(Finalized(n)) + (IF n \in content THEN 1 ELSE 0) = 1

\* The hook's callback says that the exception's snapshot has been written to
\* the output file.
CallbackTruthful == told

\* capture() says that it returns "the updated working file", the one that has
\* the snapshot: it is there, or was written to the output file.
EventNamesItsFile ==
  event.captured # 0 =>
    \/ event.file = file /\ event.captured \in content
    \/ \E k \in DOMAIN outputs :
         outputs[k].written /\ outputs[k].of = event.file /\ event.captured \in outputs[k].has
=============================================================================
