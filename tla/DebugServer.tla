---------------------------- MODULE DebugServer ----------------------------
(***************************************************************************)
(* The process of the debug adapter: how it is started (dap/cli.py), waits *)
(* for its client (dap/server.py), cuts the byte stream into messages      *)
(* (dap/transport.py) and answers them one at a time (dap/dispatcher.py),  *)
(* and how it ends.                                                        *)
(*                                                                         *)
(* A message is HeadLen + BodyLen bytes; the last byte of the head stands  *)
(* for the separator.  What a handler does to the session is the subject   *)
(* of DebugSession.tla; here it is the events that it sends and how it     *)
(* ends.                                                                   *)
(***************************************************************************)
EXTENDS Naturals, Sequences, FiniteSets, SequencesExt, FiniteSetsExt

CONSTANTS
  Kinds,        \* the kinds of messages that the client sends
  Handlers,     \* of each command: the events its handler sends, and how it ends
  HeadLen, BodyLen,
  ChunkSize,    \* _READ_CHUNK_SIZE
  MaxMessages   \* bound: messages of the client

\* It returns "body", or raises an exception that says so ("refused") or does not
\* ("failed"); its last event has no UTF-8 form ("unsent"); or what it returns or
\* says has none ("unencodable").
Endings == {"body", "refused", "failed", "unsent", "unencodable"}

ASSUME ServerAssumption ==
  /\ HeadLen \in Nat \ {0} /\ BodyLen \in Nat \ {0} /\ ChunkSize \in Nat \ {0}
  /\ MaxMessages \in Nat
  /\ \A c \in DOMAIN Handlers :
       Handlers[c].events \in Nat /\ Handlers[c].ends \in Endings

\* Kinds that are no commands: a request that is not known, one that has a lone
\* surrogate for a command, a message that is no request, one whose body is no
\* JSON, and one without a length.
ASSUME KindsAssumption ==
  Kinds \subseteq DOMAIN Handlers
                   \cup {"unknown", "surrogate", "event", "garbled", "lengthless"}

VARIABLES
  transport,  \* "tcp" or "stdio"
  phase,      \* where the process is
  announced,  \* the announcements on stdout
  exit,       \* its exit code
  sent,       \* client: the messages it has begun to send
  parts,      \* client: bytes of the last one that it has sent
  closed,     \* client: it has closed the connection
  asked,      \* history: the messages that were requests, when they are complete
  wire,       \* bytes that are under way to the server
  readBuf,    \* _read_buf
  head, body, \* the bytes read of the current message
  seq,        \* _seq
  pending,    \* events that the handler has still to send
  response,   \* the response to be sent
  terminated, \* _terminated
  broken,     \* writing has failed
  out,        \* what was written to the client
  answered    \* history: the responses of out

clientVars == <<sent, parts, closed, asked>>
readVars == <<readBuf, head, body>>
writeVars == <<seq, pending, response, terminated, broken, out, answered>>
vars == <<transport, phase, announced, exit, clientVars, wire, readVars, writeVars>>

NoResponse == [seq |-> 0, request |-> 0, success |-> FALSE]
Running == 256

FrameLen == HeadLen + BodyLen
Byte(m, i) == [message |-> m, part |-> i]

Init ==
  /\ transport \in {"tcp", "stdio"} /\ phase = "start" /\ announced = <<>> /\ exit = Running
  /\ sent = <<>> /\ parts = FrameLen /\ closed = FALSE /\ asked = <<>>
  /\ wire = <<>> /\ readBuf = <<>> /\ head = <<>> /\ body = <<>>
  /\ seq = 0 /\ pending = 0 /\ response = NoResponse /\ terminated = FALSE
  /\ broken = FALSE /\ out = <<>> /\ answered = <<>>

(***************************************************************************)
(* The client.  Over TCP it can connect when it has read the announcement. *)
(***************************************************************************)
Connected == phase \notin {"start", "listening", "exited"}

IsRequest(kind) == kind \notin {"event", "garbled", "lengthless"}

\* The bytes of a message go out in pieces.
Send(bytes) ==
  /\ ~closed /\ Connected /\ parts < FrameLen /\ bytes <= FrameLen - parts
  /\ wire' = wire \o [i \in 1..bytes |-> Byte(Len(sent), parts + i)]
  /\ parts' = parts + bytes
  /\ asked' = IF parts' = FrameLen /\ IsRequest(sent[Len(sent)])
              THEN Append(asked, Len(sent)) ELSE asked
  /\ UNCHANGED <<transport, phase, announced, exit, sent, closed, readVars, writeVars>>

Begin(kind) ==
  /\ ~closed /\ Connected /\ parts = FrameLen /\ Len(sent) < MaxMessages
  /\ sent' = Append(sent, kind) /\ parts' = 0
  /\ UNCHANGED <<transport, phase, announced, exit, closed, asked, wire, readVars, writeVars>>

\* Also in the middle of a message.
Close ==
  /\ ~closed /\ Connected /\ closed' = TRUE
  /\ UNCHANGED <<transport, phase, announced, exit, sent, parts, asked, wire, readVars, writeVars>>

(***************************************************************************)
(* Start: main() and serve().                                              *)
(***************************************************************************)
Exit(code) == phase' = "exited" /\ exit' = code

\* The exit code of main() for what serve() and run_session_on_stdio() return.
ExitCode(rc) == IF rc = 0 THEN 0 ELSE 1

StartStdio ==
  /\ phase = "start" /\ transport = "stdio"
  /\ phase' = "head"
  /\ UNCHANGED <<transport, announced, exit, clientVars, wire, readVars, writeVars>>

\* bind() and listen(), then the announcement.
Listen ==
  /\ phase = "start" /\ transport = "tcp"
  /\ phase' = "listening" /\ announced' = Append(announced, "ready")
  /\ UNCHANGED <<transport, exit, clientVars, wire, readVars, writeVars>>

BindFails ==
  /\ phase = "start" /\ transport = "tcp"
  /\ announced' = Append(announced, "bind_failed")
  /\ Exit(ExitCode(1))
  /\ UNCHANGED <<transport, clientVars, wire, readVars, writeVars>>

Accept ==
  /\ phase = "listening" /\ phase' = "head"
  /\ UNCHANGED <<transport, announced, exit, clientVars, wire, readVars, writeVars>>

AcceptTimeout ==
  /\ phase = "listening" /\ Exit(ExitCode(2))
  /\ UNCHANGED <<transport, announced, clientVars, wire, readVars, writeVars>>

\* Ctrl-C is not caught by the handlers of Exception.
Interrupt ==
  /\ phase # "exited" /\ Exit(130)
  /\ UNCHANGED <<transport, announced, clientVars, wire, readVars, writeVars>>

(***************************************************************************)
(* read_message().                                                         *)
(***************************************************************************)
\* BufferedSocketIO.read: only when the buffer is empty, and any part of what
\* has arrived.
Receive(bytes) ==
  /\ phase \in {"head", "body"} /\ readBuf = <<>>
  /\ bytes <= ChunkSize /\ bytes <= Len(wire)
  /\ readBuf' = SubSeq(wire, 1, bytes) /\ wire' = SubSeq(wire, bytes + 1, Len(wire))
  /\ UNCHANGED <<transport, phase, announced, exit, clientVars, head, body, writeVars>>

\* Faulty: what is behind the separator in the buffer is dropped.
ReadHeadAll ==
  /\ phase = "head" /\ readBuf # <<>>
  /\ head' = Append(head, Head(readBuf))
  /\ readBuf' = IF Head(readBuf).part = HeadLen THEN <<>> ELSE Tail(readBuf)
  /\ IF Head(readBuf).part # HeadLen THEN UNCHANGED <<phase, exit>>
     ELSE IF sent[Head(readBuf).message] = "lengthless" THEN Exit(ExitCode(1))
     ELSE phase' = "body" /\ UNCHANGED exit
  /\ UNCHANGED <<transport, announced, clientVars, wire, body, writeVars>>

\* _read_until takes one byte after the other; then the length is looked for.
ReadHead ==
  /\ phase = "head" /\ readBuf # <<>>
  /\ head' = Append(head, Head(readBuf)) /\ readBuf' = Tail(readBuf)
  /\ IF Head(readBuf).part # HeadLen THEN UNCHANGED <<phase, exit>>
     ELSE IF sent[Head(readBuf).message] = "lengthless" THEN Exit(ExitCode(1))
     ELSE phase' = "body" /\ UNCHANGED exit
  /\ UNCHANGED <<transport, announced, clientVars, wire, body, writeVars>>

\* _read_exact: as much as it needs of what the buffer has.
ReadBody ==
  LET take == Min({BodyLen - Len(body), Len(readBuf)})
  IN  /\ phase = "body" /\ readBuf # <<>> /\ Len(body) < BodyLen
      /\ body' = body \o SubSeq(readBuf, 1, take)
      /\ readBuf' = SubSeq(readBuf, take + 1, Len(readBuf))
      /\ UNCHANGED <<transport, phase, announced, exit, clientVars, wire, head, writeVars>>

\* Faulty: an empty read is tried again.
EofRetried ==
  /\ phase \in {"head", "body"} /\ readBuf = <<>> /\ wire = <<>> /\ closed
  /\ UNCHANGED vars

\* The stream ends: TransportClosed if nothing has been read of the head, or of
\* the body; else TransportError.
Eof ==
  /\ phase \in {"head", "body"} /\ readBuf = <<>> /\ wire = <<>> /\ closed
  /\ phase = "body" => Len(body) < BodyLen
  /\ Exit(ExitCode(IF (IF phase = "head" THEN head ELSE body) = <<>> THEN 0 ELSE 1))
  /\ UNCHANGED <<transport, announced, clientVars, wire, readVars, writeVars>>

\* recv() raises if a client that has gone refuses what was written to it.
Reset ==
  /\ phase \in {"head", "body"} /\ readBuf = <<>> /\ closed /\ transport = "tcp"
  /\ Exit(1)
  /\ UNCHANGED <<transport, announced, clientVars, wire, readVars, writeVars>>

(***************************************************************************)
(* Dispatcher.handle().                                                    *)
(***************************************************************************)
Current == body[1].message

\* A message is complete.  The bytes of two messages are no JSON either.
Complete(kind) ==
  /\ phase = "body" /\ Len(body) = BodyLen
  /\ kind = IF \A i \in DOMAIN body : body[i] = Byte(Current, HeadLen + i) THEN sent[Current]
            ELSE "garbled"

BadBody ==
  /\ Complete("garbled") /\ Exit(ExitCode(1))
  /\ UNCHANGED <<transport, announced, clientVars, wire, readVars, writeVars>>

\* A message that is no request is ignored.
Ignore ==
  /\ Complete("event") /\ phase' = "head" /\ head' = <<>> /\ body' = <<>>
  /\ UNCHANGED <<transport, announced, exit, clientVars, wire, readBuf, writeVars>>

\* The response has the number before those of the events of its handler.
Dispatch(command) ==
  LET known == command \in DOMAIN Handlers
  IN  /\ Complete(command) /\ command \notin {"garbled", "event"}
      /\ phase' = "handling"
      /\ seq' = seq + 1
      /\ pending' = IF known THEN Handlers[command].events ELSE 0
      /\ response' = [seq |-> seq + 1, request |-> Current,
                      success |-> known /\ Handlers[command].ends = "body"]
      /\ terminated' = (terminated \/ command \in {"terminate", "disconnect"})
      /\ UNCHANGED <<transport, announced, exit, clientVars, wire, readVars, broken, out,
                     answered>>

\* encode_message: what cannot be encoded in UTF-8 is not written, and the stream
\* stays as it is.
Handled == sent[response.request]
EventEncodes == Handled \in DOMAIN Handlers => ~(Handlers[Handled].ends = "unsent" /\ pending = 1)
ResponseEncodes ==
  /\ Handled # "surrogate"
  /\ Handled \in DOMAIN Handlers => Handlers[Handled].ends # "unencodable"

\* write_message: to a client that has gone it may fail, and then always does.
Written(message) == ~broken /\ out' = Append(out, message) /\ UNCHANGED broken
WriteFails == closed /\ broken' = TRUE /\ UNCHANGED out

\* Faulty: the number is taken from the response.
SendEventSameSeq ==
  /\ phase = "handling" /\ pending > 0 /\ EventEncodes
  /\ Written([type |-> "event", seq |-> seq, request |-> response.request])
  /\ pending' = pending - 1
  /\ UNCHANGED <<transport, phase, announced, exit, clientVars, wire, readVars, seq, response,
                 terminated, answered>>

SendEvent ==
  /\ phase = "handling" /\ pending > 0 /\ EventEncodes
  /\ seq' = seq + 1
  /\ Written([type |-> "event", seq |-> seq + 1, request |-> response.request])
  /\ pending' = pending - 1
  /\ UNCHANGED <<transport, phase, announced, exit, clientVars, wire, readVars, response,
                 terminated, answered>>

\* The failure ends the handler; it is caught and becomes the response.
EventFails ==
  /\ phase = "handling" /\ pending > 0
  /\ seq' = seq + 1
  /\ IF EventEncodes THEN WriteFails ELSE UNCHANGED <<broken, out>>
  /\ pending' = 0 /\ response' = [response EXCEPT !.success = FALSE]
  /\ UNCHANGED <<transport, phase, announced, exit, clientVars, wire, readVars, terminated,
                 answered>>

\* Faulty: a request that fails is not answered.
RespondToSuccess ==
  /\ phase = "handling" /\ pending = 0 /\ ResponseEncodes
  /\ IF ~response.success THEN UNCHANGED <<broken, out, answered>>
     ELSE /\ Written([type |-> "response", seq |-> response.seq, request |-> response.request,
                      success |-> response.success])
          /\ answered' = Append(answered, response)
  /\ IF terminated THEN Exit(ExitCode(0)) ELSE phase' = "head" /\ UNCHANGED exit
  /\ head' = <<>> /\ body' = <<>>
  /\ UNCHANGED <<transport, announced, clientVars, wire, readBuf, seq, pending, response,
                 terminated>>

\* The loop ends when the session is terminated.
Respond ==
  /\ phase = "handling" /\ pending = 0 /\ ResponseEncodes
  /\ Written([type |-> "response", seq |-> response.seq, request |-> response.request,
              success |-> response.success])
  /\ answered' = Append(answered, response)
  /\ IF terminated THEN Exit(ExitCode(0)) ELSE phase' = "head" /\ UNCHANGED exit
  /\ head' = <<>> /\ body' = <<>>
  /\ UNCHANGED <<transport, announced, clientVars, wire, readBuf, seq, pending, response,
                 terminated>>

\* Nothing catches a failure to encode or to write the response.
RespondFails ==
  /\ phase = "handling" /\ pending = 0
  /\ IF ResponseEncodes THEN WriteFails ELSE UNCHANGED <<broken, out>>
  /\ Exit(1)
  /\ UNCHANGED <<transport, announced, clientVars, wire, readVars, seq, pending, response,
                 terminated, answered>>

Serve ==
  \/ StartStdio \/ Listen \/ BindFails \/ AcceptTimeout
  \/ \E bytes \in 1..Len(wire) : Receive(bytes)
  \/ ReadHead \/ ReadBody \/ Eof \/ Reset
  \/ BadBody \/ Ignore \/ \E command \in Kinds : Dispatch(command)
  \/ SendEvent \/ EventFails \/ Respond \/ RespondFails

Next ==
  \/ \E kind \in Kinds : Begin(kind)
  \/ \E bytes \in 1..FrameLen : Send(bytes)
  \/ Close \/ Accept \/ Interrupt
  \/ Serve

Spec == Init /\ [][Next]_vars
\* The server does what it can, and waits for a client no longer than the timeout.
FairSpec == Spec /\ WF_vars(Serve)

(***************************************************************************)
(* Properties.                                                             *)
(***************************************************************************)
\* Every number is used once, and those of the messages that answer a request
\* come behind those of earlier requests, though the response takes its number
\* before the events and is written after them.
SeqOnce ==
  \A i, j \in DOMAIN out :
    i < j => /\ out[i].seq # out[j].seq
             /\ out[i].request < out[j].request => out[i].seq < out[j].seq

Asked == [i \in DOMAIN asked |-> sent[asked[i]]]
Answered == [i \in DOMAIN answered |-> <<sent[answered[i].request], answered[i].success>>]

\* The exit code tells how it ended.  Without an error: the client has asked for
\* it, or has closed the connection and had an answer to each request.  With an
\* error: never while the client is there, sends messages that can be read, and
\* makes no request whose answer has no UTF-8 form.
Unanswerable(kind) ==
  \/ kind \in {"garbled", "lengthless", "surrogate"}
  \/ kind \in DOMAIN Handlers /\ Handlers[kind].ends = "unencodable"
ExitTells ==
  /\ exit = 0 => terminated \/ (closed /\ wire = <<>> /\ Len(answered) = Len(asked))
  /\ exit = 1 /\ sent # <<>> => closed \/ \E i \in DOMAIN sent : Unanswerable(sent[i])

\* "Unhandled exceptions shouldn't kill the server", says the dispatcher: while
\* the client is there and sends messages that can be read, there is no error.
\* It does not hold: a response that cannot be encoded ends the process.
ServerSurvives ==
  exit = 1 /\ sent # <<>> => closed \/ \E i \in DOMAIN sent : sent[i] \in {"garbled", "lengthless"}

\* No error also means that the client has not gone in the middle of a message
\* ("the peer cleanly closed the stream").  It does not hold: the end between
\* head and body counts as clean.
CleanExit == exit = 0 => terminated \/ parts = FrameLen

\* The requests are answered in their order, each once and as its command
\* demands, however the bytes arrive and are read.
Service == INSTANCE AdapterService WITH
  Requests <- {kind \in Kinds : IsRequest(kind)},
  Succeeding <- {command \in DOMAIN Handlers : Handlers[command].ends = "body"},
  asked <- Asked, answered <- Answered, left <- closed, gone <- phase = "exited"
ImplementsService == Service!Spec

\* Nobody waits forever: the server ends if no client comes, or if its client
\* goes, and answers every request that is not followed or preceded by its end.
NobodyWaits ==
  /\ (phase \in {"start", "listening"}) ~> (phase \notin {"start", "listening"})
  /\ closed ~> (phase = "exited")
  /\ \A n \in 1..MaxMessages : (Len(asked) >= n) ~> (Len(answered) >= n \/ phase = "exited")
=============================================================================
