--------------------------- MODULE AdapterService ---------------------------
(***************************************************************************)
(* What a client can rely on of the debug adapter: its requests are        *)
(* answered one after the other in the order in which they were made, each *)
(* once and as the command demands, until the adapter is gone.             *)
(***************************************************************************)
EXTENDS Naturals, Sequences

CONSTANTS
  Requests,   \* what a client can ask for
  Succeeding  \* the requests that succeed

VARIABLES
  asked,     \* the requests that have been made
  answered,  \* the requests that have been answered, each with its success
  left,      \* the client has closed the connection
  gone       \* the adapter has ended

serviceVars == <<asked, answered, left, gone>>

Init == asked = <<>> /\ answered = <<>> /\ left = FALSE /\ gone = FALSE

Ask(r) == ~left /\ asked' = Append(asked, r) /\ UNCHANGED <<answered, left, gone>>

Leave == left' = TRUE /\ UNCHANGED <<asked, answered, gone>>

\* Only for a client that has left, a request may fail that would succeed.
Answer(r, success) ==
  /\ ~gone /\ Len(answered) < Len(asked) /\ r = asked[Len(answered) + 1]
  /\ success # (r \in Succeeding) => left /\ ~success
  /\ answered' = Append(answered, <<r, success>>)
  /\ gone' \in BOOLEAN
  /\ UNCHANGED <<asked, left>>

End == gone' = TRUE /\ UNCHANGED <<asked, answered, left>>

Next ==
  \/ \E r \in Requests : Ask(r)
  \/ \E r \in Requests, success \in BOOLEAN : Answer(r, success)
  \/ Leave \/ End

Spec == Init /\ [][Next]_serviceVars
=============================================================================
