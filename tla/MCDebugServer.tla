--------------------------- MODULE MCDebugServer ---------------------------
EXTENDS DebugServer

MCHandlers ==
  [launch |-> [events |-> 2, ends |-> "body"],
   pause |-> [events |-> 0, ends |-> "refused"],
   continue |-> [events |-> 1, ends |-> "failed"],
   next |-> [events |-> 2, ends |-> "unsent"],
   evaluate |-> [events |-> 0, ends |-> "unencodable"],
   terminate |-> [events |-> 1, ends |-> "body"]]
MCKinds == DOMAIN MCHandlers \cup {"unknown", "surrogate", "event", "garbled", "lengthless"}
=============================================================================
