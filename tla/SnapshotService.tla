-------------------------- MODULE SnapshotService --------------------------
(***************************************************************************)
(* What the capture functions of SnapshotCapture.cpp promise together: one *)
(* snapshot at a time; anybody may ask for the running one to be cancelled *)
(* at any time; and a request, once made, is forgotten only by a snapshot  *)
(* that begins anew or by the one that ends.                               *)
(***************************************************************************)
CONSTANTS
  Actors,   \* threads that capture
  None      \* no thread

VARIABLES
  running,  \* the thread whose snapshot is in progress
  cancelled \* a cancellation has been asked for

serviceVars == <<running, cancelled>>

Init == running = None /\ cancelled = FALSE

\* A snapshot begins with the requests so far, or without them.
Begin(a) ==
  /\ running = None
  /\ running' = a
  /\ cancelled' \in {cancelled, FALSE}

Cancel ==
  /\ cancelled' = TRUE
  /\ UNCHANGED running

\* The running snapshot forgets the requests that it has answered ...
Forget ==
  /\ running # None
  /\ cancelled' = FALSE
  /\ UNCHANGED running

\* ... and ends.
End ==
  /\ running # None
  /\ running' = None
  /\ cancelled' \in {cancelled, FALSE}

Next == (\E a \in Actors : Begin(a)) \/ Cancel \/ Forget \/ End

Spec == Init /\ [][Next]_serviceVars

=============================================================================
