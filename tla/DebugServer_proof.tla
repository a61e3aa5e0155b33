------------------------- MODULE DebugServer_proof -------------------------
(***************************************************************************)
(* Proofs about DebugServer, for messages of any length that arrive and    *)
(* are read in any pieces, any commands and any number of messages.        *)
(***************************************************************************)
EXTENDS DebugServer, SequenceTheorems, TLAPS

(***************************************************************************)
(* The inductive invariant.                                                *)
(***************************************************************************)
Bytes == [message : Nat, part : Nat]
Responses == [seq : Nat, request : Nat, success : BOOLEAN]
Outs == [type : {"event"}, seq : Nat, request : Nat]
        \cup [type : {"response"}, seq : Nat, request : Nat, success : BOOLEAN]

ProcessTypes ==
  /\ transport \in {"tcp", "stdio"}
  /\ phase \in {"start", "listening", "head", "body", "handling", "exited"}
  /\ exit \in {Running, 0, 1, 2, 130} /\ (exit # Running => phase = "exited")
ClientTypes ==
  /\ sent \in Seq(Kinds) /\ parts \in 0..FrameLen /\ (parts < FrameLen => sent # <<>>)
  /\ closed \in BOOLEAN /\ asked \in Seq(Nat)
ReadTypes ==
  /\ wire \in Seq(Bytes) /\ readBuf \in Seq(Bytes)
  /\ head \in Seq(Bytes) /\ body \in Seq(Bytes)
WriteTypes ==
  /\ seq \in Nat /\ pending \in Nat /\ response \in Responses
  /\ terminated \in BOOLEAN /\ broken \in BOOLEAN
  /\ out \in Seq(Outs) /\ answered \in Seq(Responses)
TypeOK == ProcessTypes /\ ClientTypes /\ ReadTypes /\ WriteTypes

\* How many bytes the client sends before the m-th message.
Start(m) == (m - 1) * FrameLen

\* What has arrived and was not read.
Rest == readBuf \o wire

\* The m-th message is complete at the client.
Sent(m) == m \in 1..Len(sent) /\ (m < Len(sent) \/ parts = FrameLen)

\* The server reads, or handles, message number m: what it has read is the
\* beginning of that, and what it has not read follows without a gap.
ReadsMessage(m) ==
  /\ m \in 1..Len(sent) + 1
  /\ \A k \in DOMAIN head : head[k] = Byte(m, k)
  /\ \A k \in DOMAIN body : body[k] = Byte(m, HeadLen + k)
  /\ \A k \in DOMAIN Rest :
       /\ Rest[k].part \in 1..FrameLen
       /\ Start(Rest[k].message) + Rest[k].part = Start(m) + Len(head) + Len(body) + k
  /\ Start(m) + Len(head) + Len(body) + Len(Rest) = Start(Len(sent)) + parts

\* How much it has read at each point.
Lengths(m) ==
  /\ phase \in {"start", "listening"} => sent = <<>> /\ head = <<>>
  /\ phase \in {"start", "listening", "head"} => Len(head) < HeadLen /\ body = <<>>
  /\ phase \in {"body", "handling"} =>
       Len(head) = HeadLen /\ Len(body) <= BodyLen /\ sent[m] # "lengthless"
  /\ phase = "handling" => Len(body) = BodyLen /\ IsRequest(sent[m])

\* The requests that are complete at the client, in their order; those before
\* message number m are answered, and no other.
Requested == {k \in 1..Len(sent) : Sent(k) /\ IsRequest(sent[k])}
AskedInv ==
  /\ \A i, j \in DOMAIN asked : i < j => asked[i] < asked[j]
  /\ Range(asked) = Requested
AnsweredUpTo(m) ==
  /\ Len(answered) <= Len(asked)
  /\ \A i \in DOMAIN answered : answered[i].request = asked[i]
  /\ \A i \in DOMAIN asked : i <= Len(answered) <=> asked[i] < m

\* The response to be sent is the one to message number m.
ResponseInv(m) ==
  phase = "handling" =>
    /\ response.request = m /\ response.seq \in 1..seq
    /\ response.success # (sent[m] \in {c \in DOMAIN Handlers : Handlers[c].ends = "body"}) =>
         closed /\ ~response.success

\* What has been written was for message number m, which is being handled, or
\* for an earlier one, and has numbers behind, or before, that of the response.
SeqInv(m) ==
  \A i \in DOMAIN out :
    /\ out[i].seq <= seq
    /\ out[i].request < m \/ (phase = "handling" /\ out[i].request = m)
    /\ phase = "handling" => IF out[i].request = m THEN out[i].seq > response.seq
                             ELSE out[i].seq < response.seq

AtMessage(m) == ReadsMessage(m) /\ Lengths(m) /\ AnsweredUpTo(m) /\ ResponseInv(m) /\ SeqInv(m)

IInv ==
  /\ TypeOK /\ SeqOnce /\ ExitTells
  /\ phase # "exited" => AskedInv /\ \E m \in Nat : AtMessage(m)

(***************************************************************************)
(* Positions of bytes.                                                     *)
(***************************************************************************)
LEMMA FrameLenType == FrameLen \in Nat /\ FrameLen > 0 /\ HeadLen < FrameLen
BY ServerAssumption DEF FrameLen

\* Where a message starts, and where the next one does.
LEMMA StartNext ==
  ASSUME NEW m \in Int
  PROVE  Start(m) \in Int /\ Start(m + 1) = Start(m) + FrameLen
<1> DEFINE F == FrameLen
<1>1. F \in Int
  BY FrameLenType
<1> HIDE DEF F
<1>2. (m - 1) * F \in Int /\ ((m + 1) - 1) * F = (m - 1) * F + F
  BY <1>1
<1> QED
  BY <1>2 DEF Start, F

LEMMA StartGrows ==
  ASSUME NEW m \in Int, NEW n \in Int, m < n
  PROVE  Start(m) + FrameLen <= Start(n)
<1> DEFINE F == FrameLen
<1>1. F \in Nat
  BY FrameLenType
<1> HIDE DEF F
<1>2. PICK d \in Nat : n = m + 1 + d
  <2>1. n - m - 1 \in Nat /\ n = m + 1 + (n - m - 1)
    OBVIOUS
  <2> QED
    BY <2>1
<1>3. d * F \in Nat
  BY <1>1
<1>4. (n - 1) * F = (m - 1) * F + F + d * F /\ (m - 1) * F \in Int
  BY <1>1, <1>2
<1> QED
  BY <1>1, <1>3, <1>4 DEF Start, F

\* A position is that of one byte of one message.
LEMMA OnePosition ==
  ASSUME NEW m \in Int, NEW n \in Int, NEW i \in 1..FrameLen, NEW j \in 1..FrameLen,
         Start(m) + i = Start(n) + j
  PROVE  m = n /\ i = j
<1>1. Start(m) \in Int /\ Start(n) \in Int
  BY StartNext
<1>2. ~(m < n)
  BY <1>1, StartGrows, FrameLenType
<1>3. ~(n < m)
  BY <1>1, StartGrows, FrameLenType
<1>4. m = n
  BY <1>2, <1>3
<1> QED
  BY <1>1, <1>4, FrameLenType

(***************************************************************************)
(* Types.                                                                  *)
(***************************************************************************)
USE DEF clientVars, readVars, writeVars, ProcessTypes, ClientTypes, ReadTypes, WriteTypes, Exit, ExitCode, Running

\* What is behind the first bytes of a buffer, and those bytes.
LEMMA Split ==
  ASSUME NEW S, NEW s \in Seq(S), NEW n \in 0..Len(s)
  PROVE  /\ SubSeq(s, 1, n) \in Seq(S) /\ Len(SubSeq(s, 1, n)) = n
         /\ SubSeq(s, n + 1, Len(s)) \in Seq(S) /\ Len(SubSeq(s, n + 1, Len(s))) = Len(s) - n
         /\ \A k \in 1..n : SubSeq(s, 1, n)[k] = s[k]
         /\ \A k \in 1..Len(s) - n : SubSeq(s, n + 1, Len(s))[k] = s[n + k]
OBVIOUS

\* The elements of a concatenation.
LEMMA Joined ==
  ASSUME NEW S, NEW s \in Seq(S), NEW t \in Seq(S)
  PROVE  /\ s \o t \in Seq(S) /\ Len(s \o t) = Len(s) + Len(t)
         /\ DOMAIN (s \o t) = 1..Len(s) + Len(t)
         /\ \A k \in 1..Len(s) : (s \o t)[k] = s[k]
         /\ \A k \in Len(s) + 1..Len(s) + Len(t) : (s \o t)[k] = t[k - Len(s)]
OBVIOUS

LEMMA JoinedBytes ==
  \A s, t \in Seq(Bytes) :
    /\ Len(s \o t) = Len(s) + Len(t)
    /\ DOMAIN (s \o t) = 1..Len(s) + Len(t)
    /\ \A k \in 1..Len(s) : (s \o t)[k] = s[k]
    /\ \A k \in Len(s) + 1..Len(s) + Len(t) : (s \o t)[k] = t[k - Len(s)]
BY Joined

\* _read_exact takes what it needs, or all there is.
Taken == Min({BodyLen - Len(body), Len(readBuf)})
LEMMA TakenType ==
  ASSUME ReadTypes, readBuf # <<>>, Len(body) < BodyLen
  PROVE  Taken \in 1..Len(readBuf) /\ Taken <= BodyLen - Len(body)
<1> DEFINE a == BodyLen - Len(body)
           b == Len(readBuf)
<1>1. a \in Nat \ {0} /\ b \in Nat \ {0}
  BY ServerAssumption
<1> HIDE DEF a, b
<1>2. Min({a, b}) = IF a <= b THEN a ELSE b
  BY <1>1 DEF Min
<1> QED
  BY <1>1, <1>2 DEF Taken, a, b

LEMMA TypeStep ==
  ASSUME TypeOK, [Next]_vars
  PROVE  TypeOK'
<1> USE FrameLenType DEF TypeOK
<1>1. ASSUME NEW kind \in Kinds, Begin(kind) PROVE TypeOK'
  BY <1>1 DEF Begin
<1>2. ASSUME NEW bytes \in 1..FrameLen, Send(bytes) PROVE TypeOK'
  <2>1. [i \in 1..bytes |-> Byte(Len(sent), parts + i)] \in Seq(Bytes)
    BY <1>2 DEF Byte, Bytes
  <2>2. wire' \in Seq(Bytes)
    BY <1>2, <2>1 DEF Send
  <2>3. asked' \in Seq(Nat) /\ parts' \in 0..FrameLen
    BY <1>2 DEF Send
  <2> QED
    BY <1>2, <2>2, <2>3 DEF Send
<1>3. CASE Close
  BY <1>3 DEF Close
<1>4. CASE StartStdio \/ Listen \/ BindFails \/ Accept \/ AcceptTimeout \/ Interrupt
  <2>1. UNCHANGED <<clientVars, readVars, wire>>
    BY <1>4 DEF StartStdio, Listen, BindFails, Accept, AcceptTimeout, Interrupt
  <2>2. ClientTypes' /\ ReadTypes'
    BY <2>1 DEF clientVars, readVars
  <2>3. WriteTypes'
    BY <1>4 DEF StartStdio, Listen, BindFails, Accept, AcceptTimeout, Interrupt, writeVars
  <2>4. ProcessTypes'
    <3>1. CASE StartStdio \/ Listen \/ BindFails
      BY <3>1 DEF StartStdio, Listen, BindFails
    <3>2. CASE Accept \/ AcceptTimeout \/ Interrupt
      BY <3>2 DEF Accept, AcceptTimeout, Interrupt
    <3> QED
      BY <1>4, <3>1, <3>2
  <2> HIDE DEF TypeOK
  <2> QED
    BY <2>2, <2>3, <2>4 DEF TypeOK
<1>5. ASSUME NEW bytes \in 1..Len(wire), Receive(bytes) PROVE TypeOK'
  <2>1. wire' \in Seq(Bytes) /\ readBuf' \in Seq(Bytes)
    <3>1. SubSeq(wire, 1, bytes) \in Seq(Bytes) /\ SubSeq(wire, bytes + 1, Len(wire)) \in Seq(Bytes)
      BY <1>5, Split
    <3>2. readBuf' = SubSeq(wire, 1, bytes) /\ wire' = SubSeq(wire, bytes + 1, Len(wire))
      BY <1>5 DEF Receive
    <3> QED
      BY <3>1, <3>2
  <2> QED
    BY <1>5, <2>1 DEF Receive
<1>6. CASE ReadHead
  <2>1. Head(readBuf) \in Bytes /\ Tail(readBuf) \in Seq(Bytes)
    BY <1>6 DEF ReadHead
  <2>2. head' \in Seq(Bytes) /\ readBuf' \in Seq(Bytes)
    BY <1>6, <2>1 DEF ReadHead
  <2> QED
    BY <1>6, <2>2 DEF ReadHead
<1>7. CASE ReadBody
  <2>1. Taken \in 0..Len(readBuf)
    BY <1>7, TakenType DEF ReadBody
  <2>2. SubSeq(readBuf, 1, Taken) \in Seq(Bytes) /\ SubSeq(readBuf, Taken + 1, Len(readBuf)) \in Seq(Bytes)
    BY <2>1, Split
  <2>3. body' = body \o SubSeq(readBuf, 1, Taken) /\ readBuf' = SubSeq(readBuf, Taken + 1, Len(readBuf))
    BY <1>7 DEF ReadBody, Taken
  <2>5. body \in Seq(Bytes)
    OBVIOUS
  <2> HIDE DEF TypeOK
  <2>4. body' \in Seq(Bytes) /\ readBuf' \in Seq(Bytes)
    BY <2>2, <2>3, <2>5, Joined
  <2> USE DEF TypeOK
  <2> QED
    BY <1>7, <2>4 DEF ReadBody
<1>8. CASE Eof \/ Reset \/ BadBody
  <2>1. phase' = "exited" /\ exit' \in {0, 1}
    BY <1>8 DEF Eof, Reset, BadBody
  <2>2. UNCHANGED <<transport, clientVars, wire, readVars, writeVars>>
    BY <1>8 DEF Eof, Reset, BadBody
  <2> QED
    BY <2>1, <2>2
<1>15. CASE Ignore
  <2>1. phase = "body"
    BY <1>15 DEF Ignore, Complete
  <2> QED
    BY <1>15, <2>1 DEF Ignore
<1>9. ASSUME NEW command \in Kinds, Dispatch(command) PROVE TypeOK'
  <2>1. Current \in Nat
    <3>1. Len(body) = BodyLen /\ BodyLen \in Nat \ {0}
      BY <1>9, ServerAssumption DEF Dispatch, Complete
    <3>2. body[1] \in Bytes
      BY <3>1
    <3> QED
      BY <3>2 DEF Current, Bytes
  <2>2. response' \in Responses /\ pending' \in Nat /\ seq' \in Nat
    <3>1. seq' = seq + 1 /\ pending' = IF command \in DOMAIN Handlers THEN Handlers[command].events ELSE 0
      BY <1>9 DEF Dispatch
    <3>2. pending' \in Nat /\ seq' \in Nat
      BY <3>1, ServerAssumption
    <3>3. response' = [seq |-> seq + 1, request |-> Current,
                       success |-> command \in DOMAIN Handlers /\ Handlers[command].ends = "body"]
      BY <1>9 DEF Dispatch
    <3> QED
      BY <2>1, <3>2, <3>3 DEF Responses
  <2>3. terminated' \in BOOLEAN
    BY <1>9 DEF Dispatch
  <2>4. ProcessTypes' /\ ClientTypes' /\ ReadTypes'
    <3>1. phase = "body"
      BY <1>9 DEF Dispatch, Complete
    <3> QED
      BY <1>9, <3>1 DEF Dispatch
  <2>5. WriteTypes'
    BY <1>9, <2>2, <2>3 DEF Dispatch
  <2> QED
    BY <2>4, <2>5
<1>10. CASE SendEvent
  <2>1. [type |-> "event", seq |-> seq + 1, request |-> response.request] \in Outs
    BY DEF Outs, Responses
  <2> QED
    BY <1>10, <2>1 DEF SendEvent, Written
<1>11. CASE EventFails
  <2>1. response' \in Responses
    BY <1>11 DEF EventFails, Responses
  <2>2. broken' \in BOOLEAN /\ out' = out
    BY <1>11 DEF EventFails, WriteFails
  <2> QED
    BY <1>11, <2>1, <2>2 DEF EventFails
<1>12. CASE Respond
  <2>1. [type |-> "response", seq |-> response.seq, request |-> response.request,
         success |-> response.success] \in Outs
    BY DEF Outs, Responses
  <2> QED
    BY <1>12, <2>1 DEF Respond, Written
<1>13. CASE RespondFails
  BY <1>13 DEF RespondFails, WriteFails
<1>14. CASE UNCHANGED vars
  BY <1>14 DEF vars
<1> QED
  BY <1>1, <1>2, <1>3, <1>4, <1>5, <1>6, <1>7, <1>8, <1>9, <1>10, <1>11, <1>12, <1>13, <1>14, <1>15
  DEF Next, Serve

(***************************************************************************)
(* What the invariant says of message number m.                            *)
(***************************************************************************)
LEMMA RestType ==
  ASSUME TypeOK
  PROVE  /\ Rest \in Seq(Bytes) /\ Len(Rest) \in Nat /\ DOMAIN Rest = 1..Len(Rest)
         /\ Len(head) \in Nat /\ DOMAIN head = 1..Len(head)
         /\ Len(body) \in Nat /\ DOMAIN body = 1..Len(body)
         /\ Len(sent) \in Nat /\ parts \in 0..FrameLen
BY DEF TypeOK, Rest

\* If any byte of it has arrived, or the client has not sent the last byte of
\* its last message, the client has begun to send message number m.
LEMMA MessageBegun ==
  ASSUME TypeOK, NEW m \in Nat, ReadsMessage(m),
         Len(head) + Len(body) + Len(Rest) > 0 \/ parts < FrameLen
  PROVE  m \in 1..Len(sent)
<1> DEFINE read == Len(head) + Len(body) + Len(Rest)
           last == Len(sent)
<1>5. /\ read \in Nat /\ last \in Nat /\ parts \in 0..FrameLen /\ m \in 1..last + 1
      /\ read > 0 \/ parts < FrameLen
      /\ Len(head) \in Nat /\ Len(body) \in Nat /\ Len(Rest) \in Nat
  BY DEF TypeOK, ReadsMessage, Rest
<1>2. Start(m) \in Int /\ Start(last) \in Int /\ Start(last + 1) = Start(last) + FrameLen
  BY <1>5, StartNext
<1>6. Start(m) + Len(head) + Len(body) + Len(Rest) = Start(last) + parts
  BY DEF ReadsMessage
<1>1. Start(m) + read = Start(last) + parts
  BY <1>2, <1>5, <1>6
<1> HIDE DEF read, last
<1>3. m # last + 1
  BY <1>1, <1>2, <1>5, FrameLenType
<1>4. m \in 1..last
  BY <1>3, <1>5
<1> QED
  BY <1>4 DEF last

\* If all of it has been read, the client has sent all of it.
LEMMA MessageSent ==
  ASSUME TypeOK, NEW m \in Nat, ReadsMessage(m), Len(head) + Len(body) = FrameLen
  PROVE  Sent(m)
<1> DEFINE r == Len(Rest)
           last == Len(sent)
<1>1. r \in Nat /\ last \in Nat /\ parts \in 0..FrameLen
  BY DEF TypeOK, Rest
<1>4. Start(m) \in Int /\ Start(last) \in Int
  BY <1>1, StartNext
<1>6. Start(m) + Len(head) + Len(body) + r = Start(last) + parts
  BY DEF ReadsMessage
<1>2. Start(m) + FrameLen + r = Start(last) + parts
  <2>1. Len(head) \in Nat /\ Len(body) \in Nat
    BY DEF TypeOK
  <2> HIDE DEF r, last
  <2> QED
    BY <1>1, <1>4, <1>6, <2>1
<1>3. m \in 1..last
  BY <1>1, FrameLenType, MessageBegun
<1>5. m = last => parts = FrameLen
  BY <1>1, <1>2, <1>4, FrameLenType
<1> QED
  BY <1>1, <1>3, <1>5 DEF Sent

\* The next byte that is read is the next one of message number m.
LEMMA NextByte ==
  ASSUME TypeOK, NEW m \in Nat, ReadsMessage(m), NEW k \in DOMAIN Rest,
         Len(head) + Len(body) + k <= FrameLen
  PROVE  Rest[k] = Byte(m, Len(head) + Len(body) + k)
<1> DEFINE b == Rest[k]
           i == Len(head) + Len(body) + k
<1>1. b \in Bytes /\ i \in 1..FrameLen
  <2>1. Rest \in Seq(Bytes) /\ Len(head) \in Nat /\ Len(body) \in Nat
    BY RestType
  <2> QED
    BY <2>1
<1>2. b.part \in 1..FrameLen /\ Start(b.message) + b.part = Start(m) + i
  <2>1. b.part \in 1..FrameLen /\ Start(b.message) + b.part = Start(m) + Len(head) + Len(body) + k
    BY DEF ReadsMessage
  <2>2. Len(head) \in Nat /\ Len(body) \in Nat /\ k \in Nat
    BY RestType
  <2>3. Start(m) \in Int
    BY StartNext
  <2> QED
    BY <2>1, <2>2, <2>3
<1> HIDE DEF b, i
<1>3. b.message = m /\ b.part = i
  BY <1>1, <1>2, OnePosition DEF Bytes
<1>4. b = Byte(m, i)
  BY <1>1, <1>3 DEF Bytes, Byte
<1> QED
  BY <1>4 DEF b, i

\* What is being handled is message number m.
LEMMA HandledMessage ==
  ASSUME TypeOK, NEW m \in Nat, AtMessage(m), phase = "handling"
  PROVE  Handled = sent[m] /\ m \in DOMAIN sent
<1>1. Len(head) = HeadLen /\ Len(body) = BodyLen /\ response.request = m
  BY DEF AtMessage, Lengths, ResponseInv
<1>2. Len(head) + Len(body) = FrameLen
  BY <1>1 DEF FrameLen
<1>3. m \in 1..Len(sent)
  BY <1>2, MessageSent DEF AtMessage, Sent
<1>4. sent \in Seq(Kinds)
  BY DEF TypeOK
<1> QED
  BY <1>1, <1>3, <1>4 DEF Handled

\* What is dispatched is message number m, and complete.
LEMMA CompleteMessage ==
  ASSUME TypeOK, NEW m \in Nat, ReadsMessage(m), Lengths(m), NEW kind, Complete(kind)
  PROVE  Current = m /\ kind = sent[m] /\ Sent(m) /\ m \in 1..Len(sent)
<1>1. phase = "body" /\ Len(head) = HeadLen /\ Len(body) = BodyLen
  BY DEF Complete, Lengths
<1>2. Len(head) + Len(body) = FrameLen
  BY <1>1 DEF FrameLen
<1>3. Sent(m)
  BY <1>2, MessageSent
<1>4. \A k \in DOMAIN body : body[k] = Byte(m, HeadLen + k)
  BY DEF ReadsMessage
<1>5. 1 \in DOMAIN body
  BY <1>1, ServerAssumption DEF TypeOK
<1>6. Current = m
  BY <1>4, <1>5 DEF Current, Byte
<1>7. kind = sent[m]
  BY <1>4, <1>6 DEF Complete
<1> QED
  BY <1>3, <1>6, <1>7 DEF Sent

\* The first request that is not answered is the one that is handled.
LEMMA NextAsked ==
  ASSUME TypeOK, AskedInv, NEW m \in Nat, AnsweredUpTo(m), Sent(m), IsRequest(sent[m])
  PROVE  Len(answered) + 1 \in DOMAIN asked /\ asked[Len(answered) + 1] = m
<1>1. PICK j \in DOMAIN asked : asked[j] = m
  BY DEF AskedInv, Requested, Range, Sent
<1>5. Len(answered) \in Nat /\ DOMAIN asked = 1..Len(asked) /\ Len(asked) \in Nat
  BY DEF TypeOK
<1>2. j > Len(answered)
  BY <1>1, <1>5 DEF AnsweredUpTo
<1>3. Len(answered) + 1 \in DOMAIN asked
  BY <1>2, <1>5
<1>4. ASSUME j # Len(answered) + 1
      PROVE  FALSE
  <2>1. Len(answered) + 1 < j
    BY <1>2, <1>4, <1>5
  <2>2. asked[Len(answered) + 1] < m
    BY <1>1, <1>3, <2>1 DEF AskedInv
  <2>3. Len(answered) + 1 <= Len(answered)
    BY <1>3, <2>2 DEF AnsweredUpTo
  <2> QED
    BY <1>5, <2>3
<1> QED
  BY <1>1, <1>3, <1>4

(***************************************************************************)
(* Steps of the client.                                                    *)
(***************************************************************************)
LEMMA BeginStep ==
  ASSUME TypeOK, TypeOK', AskedInv, NEW m \in Nat, AtMessage(m), NEW kind \in Kinds, Begin(kind)
  PROVE  AskedInv' /\ AtMessage(m)'
<1>0. PICK last \in Nat : last = Len(sent)
  BY DEF TypeOK
<1>1. /\ Len(sent') = last + 1 /\ parts = FrameLen /\ parts' = 0 /\ Connected
      /\ \A k \in 1..last : sent'[k] = sent[k]
      /\ UNCHANGED <<phase, closed, asked, wire, readVars, writeVars>>
  BY <1>0 DEF Begin, TypeOK
<1>2. \A k \in 1..last : Sent(k) /\ Sent(k)'
  BY <1>0, <1>1 DEF Sent
<1>3. ~Sent(last + 1)'
  BY <1>1, FrameLenType DEF Sent
<1>10. Requested' = Requested
  <2>1. \A k \in 1..last : (Sent(k) /\ IsRequest(sent[k])) <=> (Sent(k) /\ IsRequest(sent[k]))'
    BY <1>1, <1>2
  <2>2. Requested' = {k \in 1..last + 1 : (Sent(k) /\ IsRequest(sent[k]))'}
    BY <1>1 DEF Requested
  <2>3. Requested = {k \in 1..last : Sent(k) /\ IsRequest(sent[k])}
    BY <1>0 DEF Requested
  <2> QED
    BY <1>3, <2>1, <2>2, <2>3
<1>4. AskedInv'
  BY <1>1, <1>10 DEF AskedInv
<1>5. ReadsMessage(m)'
  <2>1. Start(last + 1) = Start(last) + FrameLen /\ Start(last) \in Int
    BY <1>1, StartNext
  <2>2. m \in 1..Len(sent') + 1
    BY <1>0, <1>1 DEF AtMessage, ReadsMessage
  <2>3. Start(m) + Len(head) + Len(body) + Len(Rest) = Start(Len(sent')) + parts'
    <3>1. Start(m) + Len(head) + Len(body) + Len(Rest) = Start(last) + parts
      BY <1>0 DEF AtMessage, ReadsMessage
    <3> QED
      BY <1>1, <2>1, <3>1, FrameLenType
  <2>4. Rest' = Rest
    BY <1>1 DEF Rest, readVars
  <2> QED
    BY <1>1, <2>2, <2>3, <2>4 DEF AtMessage, ReadsMessage, readVars
<1>6. phase \in {"body", "handling"} => m \in 1..last
  <2>1. ASSUME phase \in {"body", "handling"}
        PROVE  Len(head) > 0 /\ Len(body) \in Nat /\ Len(Rest) \in Nat
    <3>1. Len(head) = HeadLen
      BY <2>1 DEF AtMessage, Lengths
    <3> QED
      BY <3>1, ServerAssumption, RestType
  <2> QED
    BY <1>0, <2>1, MessageBegun DEF AtMessage
<1>7. Lengths(m)'
  BY <1>0, <1>1, <1>6 DEF AtMessage, Lengths, Connected, readVars
<1>8. AnsweredUpTo(m)' /\ SeqInv(m)'
  BY <1>1 DEF AtMessage, AnsweredUpTo, SeqInv, writeVars
<1>9. ResponseInv(m)'
  BY <1>1, <1>6 DEF AtMessage, ResponseInv, writeVars
<1> QED
  BY <1>4, <1>5, <1>7, <1>8, <1>9 DEF AtMessage

LEMMA SendStep ==
  ASSUME TypeOK, TypeOK', AskedInv, NEW m \in Nat, AtMessage(m), NEW bytes \in 1..FrameLen, Send(bytes)
  PROVE  AskedInv' /\ AtMessage(m)'
<1>0. PICK last \in Nat : last = Len(sent)
  BY DEF TypeOK
<1> DEFINE new == [i \in 1..bytes |-> Byte(last, parts + i)]
<1>1. /\ parts < FrameLen /\ parts \in Nat /\ parts' = parts + bytes
      /\ bytes \in Nat /\ bytes > 0 /\ parts' <= FrameLen /\ Connected
      /\ UNCHANGED <<phase, sent, closed, readVars, writeVars>>
      /\ wire' = wire \o new
  BY <1>0 DEF Send, TypeOK
<1>2. m \in 1..last
  BY <1>0, <1>1, MessageBegun DEF AtMessage
<1>3. \A k \in 1..last - 1 : Sent(k) /\ Sent(k)'
  BY <1>0, <1>1 DEF Sent
<1>4. ~Sent(last) /\ (Sent(last)' <=> parts' = FrameLen)
  BY <1>0, <1>1, <1>2, FrameLenType DEF Sent
<1>10. Requested' = IF parts' = FrameLen /\ IsRequest(sent[last]) THEN Requested \cup {last} ELSE Requested
  <2>1. \A k \in 1..last - 1 : (Sent(k) /\ IsRequest(sent[k])) <=> (Sent(k) /\ IsRequest(sent[k]))'
    BY <1>1, <1>3
  <2>2. Requested' = {k \in 1..last : (Sent(k) /\ IsRequest(sent[k]))'}
    BY <1>0, <1>1 DEF Requested
  <2>3. Requested = {k \in 1..last : Sent(k) /\ IsRequest(sent[k])}
    BY <1>0 DEF Requested
  <2> QED
    BY <1>1, <1>2, <1>4, <2>1, <2>2, <2>3
<1>5. AskedInv' /\ AnsweredUpTo(m)'
  <2>1. CASE parts' = FrameLen /\ IsRequest(sent[last])
    <3>1. asked' = Append(asked, last) /\ answered' = answered
      BY <1>0, <1>1, <2>1 DEF Send, writeVars
    <3> DEFINE a == Len(asked)
    <3>2. /\ asked \in Seq(Nat) /\ a \in Nat
          /\ Len(answered) \in Nat /\ DOMAIN answered = 1..Len(answered)
      <4>1. asked \in Seq(Nat)
        BY DEF TypeOK
      <4>2. answered \in Seq(Responses)
        BY DEF TypeOK
      <4> QED
        BY <4>1, <4>2
    <3>3. /\ DOMAIN asked = 1..a /\ DOMAIN asked' = 1..a + 1 /\ asked'[a + 1] = last
          /\ Len(asked') = a + 1 /\ \A i \in 1..a : asked'[i] = asked[i] /\ asked[i] \in Nat
      <4>1. last \in Nat
        BY <1>1
      <4> HIDE DEF new
      <4>2. DOMAIN asked = 1..a /\ \A i \in 1..a : asked[i] \in Nat
        BY <3>2
      <4>3. DOMAIN asked' = 1..a + 1 /\ Len(asked') = a + 1
        BY <3>1, <3>2, <4>1
      <4>4. asked'[a + 1] = last /\ \A i \in 1..a : asked'[i] = asked[i]
        BY <3>1, <3>2, <4>1
      <4> QED
        BY <4>2, <4>3, <4>4
    <3> HIDE DEF new, a
    <3>4. \A i \in 1..a : asked[i] \in Requested
      BY <3>3 DEF AskedInv, Range
    <3>5. last \notin Requested /\ Requested \subseteq 1..last
      BY <1>0, <1>4 DEF Requested
    <3>6. \A i \in 1..a : asked[i] < last
      BY <1>1, <3>3, <3>4, <3>5
    <3>7. \A i, j \in 1..a + 1 : i < j => asked'[i] < asked'[j]
      <4>1. \A i, j \in 1..a : i < j => asked[i] < asked[j]
        BY <3>3 DEF AskedInv
      <4> TAKE i, j \in 1..a + 1
      <4> HAVE i < j
      <4>2. i \in 1..a
        BY <3>2
      <4>3. CASE j = a + 1
        BY <3>3, <3>6, <4>2, <4>3
      <4>4. CASE j \in 1..a
        BY <3>3, <4>1, <4>2, <4>4
      <4> QED
        BY <3>2, <4>3, <4>4
    <3>8. Range(asked') = Range(asked) \cup {last}
      <4>1. DOMAIN asked' = DOMAIN asked \cup {a + 1}
        BY <3>2, <3>3
      <4>2. Range(asked') = {asked'[i] : i \in DOMAIN asked \cup {a + 1}}
        BY <4>1 DEF Range
      <4>3. Range(asked) = {asked[i] : i \in DOMAIN asked}
        BY DEF Range
      <4> QED
        BY <3>3, <4>2, <4>3
    <3>9. AskedInv'
      BY <1>10, <2>1, <3>3, <3>7, <3>8 DEF AskedInv
    <3>10. ASSUME NEW i \in 1..a + 1
           PROVE  i <= Len(answered) <=> asked'[i] < m
      <4>1. Len(answered) <= a /\ \A j \in 1..a : j <= Len(answered) <=> asked[j] < m
        BY <3>3 DEF AtMessage, AnsweredUpTo, a
      <4>2. i \in 1..a \/ i = a + 1
        BY <3>2
      <4>3. ~(last < m)
        BY <1>2
      <4>4. CASE i \in 1..a
        BY <3>3, <4>1, <4>4
      <4>5. CASE i = a + 1
        <5>1. asked'[i] = last /\ ~(i <= Len(answered))
          BY <3>2, <3>3, <4>1, <4>5
        <5> QED
          BY <4>3, <5>1
      <4> QED
        BY <4>2, <4>4, <4>5
    <3>11. Len(answered) <= a /\ \A i \in DOMAIN answered : i \in 1..a /\ answered[i].request = asked[i]
      BY <3>2 DEF AtMessage, AnsweredUpTo, a
    <3>12. AnsweredUpTo(m)'
      BY <3>1, <3>2, <3>3, <3>10, <3>11 DEF AnsweredUpTo
    <3> QED
      BY <3>9, <3>12
  <2>2. CASE ~(parts' = FrameLen /\ IsRequest(sent[last]))
    <3>1. asked' = asked /\ answered' = answered
      BY <1>0, <1>1, <2>2 DEF Send, writeVars
    <3>2. AskedInv'
      BY <1>10, <2>2, <3>1 DEF AskedInv
    <3>3. AnsweredUpTo(m)'
      BY <3>1 DEF AtMessage, AnsweredUpTo
    <3> QED
      BY <3>2, <3>3
  <2> QED
    BY <2>1, <2>2
<1>6. ReadsMessage(m)'
  <2> DEFINE n == Len(Rest)
             h == Len(head)
             b == Len(body)
             F == FrameLen
             s == Start(m)
             e == Start(last)
  <2>1. new \in Seq(Bytes) /\ Len(new) = bytes /\ \A k \in 1..bytes : new[k] = Byte(last, parts + k)
    BY <1>1 DEF Byte, Bytes
  <2>2. Rest \in Seq(Bytes) /\ n \in Nat /\ DOMAIN Rest = 1..n /\ h \in Nat /\ b \in Nat
    BY RestType
  <2>3. s \in Int /\ e \in Int
    BY <1>1, StartNext
  <2>4. readBuf' = readBuf /\ head' = head /\ body' = body
    BY <1>1 DEF readVars
  <2>5. Rest' = Rest \o new
    <3>1. readBuf \in Seq(Bytes) /\ wire \in Seq(Bytes)
      BY DEF TypeOK
    <3> HIDE DEF new
    <3>2. readBuf \o (wire \o new) = (readBuf \o wire) \o new
      BY <2>1, <3>1
    <3> QED
      BY <1>1, <2>4, <3>2 DEF Rest
  <2>6. s + h + b + n = e + parts
    BY <1>0 DEF AtMessage, ReadsMessage
  <2> HIDE DEF new, n, s, e, h, b, F
  <2>7. /\ Len(Rest') = n + bytes /\ DOMAIN Rest' = 1..n + bytes /\ \A k \in 1..n : Rest'[k] = Rest[k]
        /\ \A k \in n + 1..n + bytes : Rest'[k] = new[k - n]
    <3>1. Len(Rest) = n
      BY DEF n
    <3> QED
      BY <2>1, <2>2, <2>5, <3>1, JoinedBytes
  <2>8. ASSUME NEW k \in 1..n + bytes
        PROVE  Rest'[k].part \in 1..FrameLen /\ Start(Rest'[k].message) + Rest'[k].part = s + h + b + k
    <3>1. CASE k <= n
      <4>1. k \in DOMAIN Rest /\ Rest'[k] = Rest[k]
        BY <2>2, <2>7, <3>1
      <4> QED
        BY <4>1 DEF AtMessage, ReadsMessage, s, h, b
    <3>2. CASE k > n
      <4>0. bytes \in Nat /\ n \in Nat /\ k \in n + 1..n + bytes
        BY <1>1, <2>2, <3>2
      <4>1. Rest'[k] = new[k - n] /\ k - n \in 1..bytes
        <5>1. Rest'[k] = new[k - n]
          BY <2>7, <4>0
        <5>2. k - n \in 1..bytes
          BY <4>0
        <5> QED
          BY <5>1, <5>2
      <4>2. Rest'[k] = Byte(last, parts + (k - n))
        BY <2>1, <4>1
      <4>3. Rest'[k].part = parts + (k - n) /\ Rest'[k].message = last
        BY <4>2 DEF Byte
      <4>4. parts + (k - n) \in 1..FrameLen
        BY <1>1, <4>1, FrameLenType
      <4>5. e + (parts + (k - n)) = s + h + b + k
        BY <1>1, <2>2, <2>3, <2>6
      <4> QED
        BY <4>3, <4>4, <4>5 DEF e
    <3> QED
      BY <2>2, <3>1, <3>2
  <2>9. s + h + b + Len(Rest') = e + parts'
    BY <1>1, <2>2, <2>3, <2>6, <2>7
  <2>10. Len(sent') = last /\ m \in 1..last + 1
    BY <1>0, <1>1, <1>2
  <2>11. ReadsMessage(m) /\ s' = s /\ h' = h /\ b' = b
    BY <2>4 DEF AtMessage, s, h, b
  <2> QED
    BY <1>1, <2>4, <2>7, <2>8, <2>9, <2>10, <2>11 DEF ReadsMessage, s, h, b, e
<1>7. Lengths(m)' /\ ResponseInv(m)' /\ SeqInv(m)'
  BY <1>1 DEF AtMessage, Lengths, ResponseInv, SeqInv, readVars, writeVars
<1> QED
  BY <1>5, <1>6, <1>7 DEF AtMessage

LEMMA CloseStep ==
  ASSUME TypeOK, AskedInv, NEW m \in Nat, AtMessage(m), Close
  PROVE  AskedInv' /\ AtMessage(m)'
BY DEF Close, AskedInv, Requested, AtMessage, ReadsMessage, Lengths, AnsweredUpTo, ResponseInv, SeqInv,
       Sent, Rest, TypeOK

(***************************************************************************)
(* Steps of the server: what it reads.                                     *)
(***************************************************************************)
LEMMA AskedUnchanged ==
  ASSUME AskedInv, UNCHANGED clientVars
  PROVE  AskedInv'
BY DEF AskedInv, Requested, Sent

LEMMA StartStep ==
  ASSUME TypeOK, NEW m \in Nat, AtMessage(m), StartStdio \/ Listen \/ Accept
  PROVE  AtMessage(m)'
<1>1. /\ phase \in {"start", "listening"} /\ phase' \in {"listening", "head"}
      /\ UNCHANGED <<clientVars, wire, readVars, writeVars>>
  BY DEF StartStdio, Listen, Accept
<1>2. ReadsMessage(m)' /\ AnsweredUpTo(m)' /\ ResponseInv(m)'
  BY <1>1 DEF AtMessage, ReadsMessage, Rest, AnsweredUpTo, ResponseInv
<1>3. Lengths(m)'
  BY <1>1 DEF AtMessage, Lengths
<1>4. SeqInv(m)'
  BY <1>1 DEF AtMessage, SeqInv
<1> QED
  BY <1>2, <1>3, <1>4 DEF AtMessage

\* What is received is only moved.
LEMMA ReceiveStep ==
  ASSUME TypeOK, NEW m \in Nat, AtMessage(m), NEW bytes \in 1..Len(wire), Receive(bytes)
  PROVE  AtMessage(m)'
<1>1. /\ readBuf = <<>> /\ readBuf' = SubSeq(wire, 1, bytes) /\ wire' = SubSeq(wire, bytes + 1, Len(wire))
      /\ UNCHANGED <<phase, clientVars, head, body, writeVars>>
  BY DEF Receive
<1>2. Rest' = Rest
  <2>1. wire \in Seq(Bytes) /\ Len(wire) \in Nat
    BY DEF TypeOK
  <2>2. SubSeq(wire, 1, bytes) \o SubSeq(wire, bytes + 1, Len(wire)) = SubSeq(wire, 1, Len(wire))
    BY <2>1, ConcatAdjacentSubSeq
  <2>3. SubSeq(wire, 1, Len(wire)) = wire
    BY <2>1, SubSeqFull
  <2>4. <<>> \o wire = wire
    BY <2>1
  <2> QED
    BY <1>1, <2>2, <2>3, <2>4 DEF Rest
<1>3. ReadsMessage(m)'
  BY <1>1, <1>2 DEF AtMessage, ReadsMessage
<1>4. Lengths(m)' /\ AnsweredUpTo(m)' /\ ResponseInv(m)' /\ SeqInv(m)'
  BY <1>1 DEF AtMessage, Lengths, AnsweredUpTo, ResponseInv, SeqInv
<1> QED
  BY <1>3, <1>4 DEF AtMessage

\* Bytes are taken from the front of the buffer.
LEMMA RestLess ==
  ASSUME TypeOK, NEW n \in 1..Len(readBuf), readBuf' = SubSeq(readBuf, n + 1, Len(readBuf)), wire' = wire
  PROVE  /\ Len(Rest') = Len(Rest) - n /\ DOMAIN Rest' = 1..Len(Rest) - n
         /\ \A k \in 1..Len(Rest) - n : Rest'[k] = Rest[n + k]
         /\ \A k \in 1..n : k \in DOMAIN Rest /\ Rest[k] = readBuf[k]
<1>1. readBuf \in Seq(Bytes) /\ wire \in Seq(Bytes) /\ n \in 0..Len(readBuf)
  BY DEF TypeOK
<1> DEFINE t == SubSeq(readBuf, n + 1, Len(readBuf))
           b == Len(readBuf)
           w == Len(wire)
<1>2. t \in Seq(Bytes) /\ Len(t) = b - n /\ \A k \in 1..b - n : t[k] = readBuf[n + k]
  BY <1>1, Split
<1>3. b \in Nat /\ w \in Nat
  BY <1>1
<1>4. Rest' = t \o wire
  BY DEF Rest
<1>5. Rest = readBuf \o wire
  BY DEF Rest
<1>6. /\ Len(Rest') = (b - n) + w /\ DOMAIN Rest' = 1..(b - n) + w
      /\ \A k \in 1..b - n : Rest'[k] = readBuf[n + k]
      /\ \A k \in (b - n) + 1..(b - n) + w : Rest'[k] = wire[k - (b - n)]
  <2> HIDE DEF t
  <2>1. /\ Len(t \o wire) = (b - n) + w /\ DOMAIN (t \o wire) = 1..(b - n) + w
        /\ \A k \in 1..b - n : (t \o wire)[k] = t[k]
        /\ \A k \in (b - n) + 1..(b - n) + w : (t \o wire)[k] = wire[k - (b - n)]
    <3>1. /\ Len(t \o wire) = Len(t) + w /\ DOMAIN (t \o wire) = 1..Len(t) + w
          /\ \A k \in 1..Len(t) : (t \o wire)[k] = t[k]
          /\ \A k \in Len(t) + 1..Len(t) + w : (t \o wire)[k] = wire[k - Len(t)]
      <4>1. Len(wire) = w
        OBVIOUS
      <4>2. t \in Seq(Bytes) /\ wire \in Seq(Bytes)
        BY <1>1, <1>2
      <4> HIDE DEF w, b, t
      <4> QED
        BY <4>1, <4>2, Joined
    <3> HIDE DEF w, b
    <3> QED
      BY <1>2, <3>1
  <2> QED
    BY <1>2, <1>4, <2>1
<1>7. /\ Len(Rest) = b + w /\ DOMAIN Rest = 1..b + w
      /\ \A k \in 1..b : Rest[k] = readBuf[k]
      /\ \A k \in b + 1..b + w : Rest[k] = wire[k - b]
  BY <1>1, <1>5, Joined
<1> HIDE DEF t, b, w
<1>8. n \in 1..b
  BY DEF b
<1>9. Len(Rest') = Len(Rest) - n /\ DOMAIN Rest' = 1..Len(Rest) - n
  BY <1>3, <1>6, <1>7, <1>8
<1>10. ASSUME NEW k \in 1..Len(Rest) - n
       PROVE  Rest'[k] = Rest[n + k]
  <2>1. CASE k <= b - n
    BY <1>3, <1>6, <1>7, <1>8, <2>1
  <2>2. CASE k > b - n
    <3>1. k \in (b - n) + 1..(b - n) + w /\ n + k \in b + 1..b + w /\ k - (b - n) = (n + k) - b
      BY <1>3, <1>7, <1>8, <2>2
    <3> QED
      BY <1>6, <1>7, <3>1
  <2> QED
    BY <1>3, <1>7, <1>8, <2>1, <2>2
<1>11. \A k \in 1..n : k \in DOMAIN Rest /\ Rest[k] = readBuf[k]
  BY <1>3, <1>7, <1>8
<1> QED
  BY <1>9, <1>10, <1>11

\* They are the next ones of the message.
LEMMA Advance ==
  ASSUME TypeOK, TypeOK', NEW m \in Nat, ReadsMessage(m), UNCHANGED <<clientVars, wire>>,
         NEW n \in 1..Len(readBuf), readBuf' = SubSeq(readBuf, n + 1, Len(readBuf)),
         Len(head') + Len(body') = Len(head) + Len(body) + n,
         \A k \in DOMAIN head' : head'[k] = Byte(m, k),
         \A k \in DOMAIN body' : body'[k] = Byte(m, HeadLen + k)
  PROVE  ReadsMessage(m)'
<1> DEFINE r == Len(Rest)
           h == Len(head)
           b == Len(body)
           h1 == Len(head')
           b1 == Len(body')
           s == Start(m)
           e == Start(Len(sent)) + parts
<1>1. r \in Nat /\ DOMAIN Rest = 1..r /\ h \in Nat /\ b \in Nat /\ n \in Nat \ {0}
  BY RestType DEF TypeOK
<1>2. s \in Int /\ e \in Int
  <2>1. Len(sent) \in Nat /\ parts \in 0..FrameLen
    BY RestType
  <2>2. Start(Len(sent)) \in Int /\ Start(m) \in Int
    BY <2>1, StartNext
  <2> QED
    BY <2>1, <2>2, FrameLenType
<1>3. h1 \in Nat /\ b1 \in Nat
  <2>1. head' \in Seq(Bytes) /\ body' \in Seq(Bytes)
    BY DEF TypeOK
  <2> QED
    BY <2>1
<1>9. h1 + b1 = h + b + n
  OBVIOUS
<1>4. /\ Len(Rest') = r - n /\ DOMAIN Rest' = 1..r - n
      /\ \A k \in 1..r - n : Rest'[k] = Rest[n + k]
  BY RestLess
<1>5. ASSUME NEW k \in DOMAIN Rest'
      PROVE  Rest'[k].part \in 1..FrameLen /\ Start(Rest'[k].message) + Rest'[k].part = s + Len(head') + Len(body') + k
  <2>1. n + k \in 1..r /\ Rest'[k] = Rest[n + k] /\ k \in Nat
    BY <1>1, <1>4
  <2>2. /\ Rest[n + k].part \in 1..FrameLen
        /\ Start(Rest[n + k].message) + Rest[n + k].part = s + Len(head) + Len(body) + (n + k)
    BY <1>1, <2>1 DEF ReadsMessage
  <2>3. s + h + b + (n + k) = s + h1 + b1 + k
    <3>1. h + b + n = h1 + b1
      BY <1>9
    <3> HIDE DEF s, h, b, h1, b1, r
    <3>2. s + (h + b + n) + k = s + (h1 + b1) + k
      BY <3>1
    <3>3. /\ s + (h + b + n) + k = s + h + b + (n + k)
          /\ s + (h1 + b1) + k = s + h1 + b1 + k
      BY <1>1, <1>2, <1>3, <2>1
    <3> QED
      BY <3>2, <3>3
  <2> QED
    BY <2>1, <2>2, <2>3
<1>6. s + h + b + r = e
  BY DEF ReadsMessage
<1>7. s + h1 + b1 + (r - n) = e
  <2> HIDE DEF s, e, r, h, b, h1, b1
  <2> QED
    BY <1>1, <1>2, <1>3, <1>6, <1>9
<1>8. m \in 1..Len(sent) + 1
  BY DEF ReadsMessage
<1> QED
  BY <1>4, <1>5, <1>7, <1>8 DEF ReadsMessage

LEMMA ReadHeadStep ==
  ASSUME TypeOK, TypeOK', NEW m \in Nat, AtMessage(m), ReadHead
  PROVE  /\ phase' # "exited" => AtMessage(m)'
         /\ phase' = "exited" => m \in 1..Len(sent) /\ sent[m] = "lengthless"
<1> DEFINE h == Len(head)
<1>1. /\ phase = "head" /\ readBuf # <<>> /\ head' = Append(head, Head(readBuf)) /\ readBuf' = Tail(readBuf)
      /\ UNCHANGED <<clientVars, wire, body, writeVars>>
  BY DEF ReadHead
<1>2. h < HeadLen /\ body = <<>> /\ Len(body) = 0 /\ h \in Nat
  BY <1>1, RestType DEF AtMessage, Lengths
<1>3. readBuf \in Seq(Bytes) /\ 1 \in 1..Len(readBuf) /\ Head(readBuf) = readBuf[1]
      /\ readBuf' = SubSeq(readBuf, 1 + 1, Len(readBuf))
  BY <1>1 DEF TypeOK
<1>4. 1 \in DOMAIN Rest /\ Rest[1] = readBuf[1]
  <2>1. 1 \in 1..1 /\ wire' = wire
    BY <1>1
  <2> QED
    BY <1>3, <2>1, RestLess
<1>5. Rest[1] = Byte(m, h + 1)
  <2>1. Len(head) + Len(body) + 1 <= FrameLen /\ Len(head) + Len(body) + 1 = h + 1
    BY <1>2, FrameLenType, ServerAssumption
  <2> QED
    BY <1>4, <2>1, NextByte DEF AtMessage
<1>6. Head(readBuf).part = h + 1 /\ Head(readBuf).message = m
  BY <1>3, <1>4, <1>5 DEF Byte
<1>7. m \in 1..Len(sent)
  <2>1. Len(Rest) > 0
    BY <1>4, RestType
  <2>2. Len(head) + Len(body) + Len(Rest) > 0
    BY <1>2, <2>1, RestType
  <2> QED
    BY <2>2, MessageBegun DEF AtMessage
<1>8. /\ Len(head') = h + 1 /\ DOMAIN head' = 1..h + 1 /\ head'[h + 1] = Head(readBuf)
      /\ \A k \in 1..h : head'[k] = head[k] /\ k \in DOMAIN head
  <2>1. head \in Seq(Bytes) /\ Head(readBuf) \in Bytes
    <3>1. head \in Seq(Bytes)
      BY DEF TypeOK
    <3>2. readBuf[1] \in Bytes
      BY <1>3
    <3> QED
      BY <1>3, <3>1, <3>2
  <2> QED
    BY <1>1, <2>1
<1>9. ReadsMessage(m)'
  <2>1. \A k \in DOMAIN head' : head'[k] = Byte(m, k)
    <3>1. \A k \in 1..h : head'[k] = Byte(m, k)
      BY <1>8 DEF AtMessage, ReadsMessage
    <3>2. head'[h + 1] = Byte(m, h + 1)
      BY <1>3, <1>4, <1>5, <1>8
    <3> QED
      BY <1>2, <1>8, <3>1, <3>2
  <2>2. Len(head') + Len(body') = Len(head) + Len(body) + 1
    BY <1>1, <1>2, <1>8
  <2>3. \A k \in DOMAIN body' : body'[k] = Byte(m, HeadLen + k)
    BY <1>1 DEF AtMessage, ReadsMessage
  <2> QED
    BY <1>1, <1>3, <2>1, <2>2, <2>3, Advance DEF AtMessage
<1>10. CASE h + 1 # HeadLen
  <2>1. phase' = "head" /\ exit' = exit
    BY <1>1, <1>6, <1>10 DEF ReadHead
  <2>2. Lengths(m)'
    BY <1>1, <1>2, <1>8, <1>10, <2>1, ServerAssumption DEF AtMessage, Lengths
  <2>3. AnsweredUpTo(m)' /\ ResponseInv(m)' /\ SeqInv(m)'
    BY <1>1, <2>1 DEF AtMessage, AnsweredUpTo, ResponseInv, SeqInv
  <2> QED
    BY <1>9, <2>1, <2>2, <2>3 DEF AtMessage
<1>11. CASE h + 1 = HeadLen /\ sent[m] = "lengthless"
  BY <1>6, <1>7, <1>11 DEF ReadHead
<1>12. CASE h + 1 = HeadLen /\ sent[m] # "lengthless"
  <2>1. phase' = "body" /\ exit' = exit
    BY <1>1, <1>6, <1>12 DEF ReadHead
  <2>2. Lengths(m)'
    BY <1>1, <1>2, <1>8, <1>12, <2>1, ServerAssumption DEF AtMessage, Lengths
  <2>3. AnsweredUpTo(m)' /\ ResponseInv(m)' /\ SeqInv(m)'
    BY <1>1, <2>1 DEF AtMessage, AnsweredUpTo, ResponseInv, SeqInv
  <2> QED
    BY <1>9, <2>1, <2>2, <2>3 DEF AtMessage
<1> QED
  BY <1>10, <1>11, <1>12

LEMMA ReadBodyStep ==
  ASSUME TypeOK, TypeOK', NEW m \in Nat, AtMessage(m), ReadBody
  PROVE  AtMessage(m)'
<1> DEFINE b == Len(body)
           n == Taken
           part == SubSeq(readBuf, 1, n)
<1>1. /\ phase = "body" /\ readBuf # <<>> /\ b < BodyLen /\ body' = body \o part
      /\ readBuf' = SubSeq(readBuf, n + 1, Len(readBuf))
      /\ UNCHANGED <<phase, clientVars, wire, head, writeVars>>
  BY DEF ReadBody, Taken
<1>2. n \in 1..Len(readBuf) /\ n <= BodyLen - b
  BY <1>1, TakenType DEF TypeOK
<1>3. Len(head) = HeadLen /\ b \in Nat
  BY <1>1, RestType DEF AtMessage, Lengths
<1>4. readBuf \in Seq(Bytes) /\ body \in Seq(Bytes) /\ n \in 0..Len(readBuf)
  BY <1>2 DEF TypeOK
<1>5. part \in Seq(Bytes) /\ Len(part) = n /\ \A k \in 1..n : part[k] = readBuf[k]
  BY <1>4, Split
<1> HIDE DEF b, n, part
<1>6. \A k \in 1..n : k \in DOMAIN Rest /\ Rest[k] = readBuf[k]
  BY <1>1, <1>2, RestLess
<1>7. ASSUME NEW k \in 1..n
      PROVE  part[k] = Byte(m, HeadLen + b + k)
  <2>1. Len(head) + Len(body) + k <= FrameLen /\ Len(head) + Len(body) + k = HeadLen + b + k
    BY <1>2, <1>3, <1>4, ServerAssumption DEF FrameLen, b
  <2> QED
    BY <1>5, <1>6, <2>1, NextByte DEF AtMessage
<1>8. /\ Len(body') = b + n /\ DOMAIN body' = 1..b + n
      /\ \A k \in 1..b : body'[k] = body[k]
      /\ \A k \in b + 1..b + n : body'[k] = part[k - b]
  <2>1. body' = body \o part /\ Len(body) = b
    BY <1>1 DEF b, part
  <2> QED
    BY <1>4, <1>5, <2>1, JoinedBytes
<1>9. \A k \in DOMAIN body' : body'[k] = Byte(m, HeadLen + k)
  <2>1. \A k \in 1..b : body[k] = Byte(m, HeadLen + k)
    BY RestType DEF AtMessage, ReadsMessage, b
  <2>2. ASSUME NEW k \in b + 1..b + n
        PROVE  body'[k] = Byte(m, HeadLen + k)
    <3>1. k - b \in 1..n /\ HeadLen + b + (k - b) = HeadLen + k
      BY <1>2, <1>3, <1>4, ServerAssumption
    <3> QED
      BY <1>7, <1>8, <3>1
  <2>3. \A k \in 1..b + n : k \in 1..b \/ k \in b + 1..b + n
    BY <1>3, <1>4
  <2> QED
    BY <1>8, <2>1, <2>2, <2>3
<1>10. ReadsMessage(m)'
  <2>1. Len(head') + Len(body') = Len(head) + Len(body) + n
    BY <1>1, <1>3, <1>4, <1>8, ServerAssumption DEF b
  <2>2. \A k \in DOMAIN head' : head'[k] = Byte(m, k)
    BY <1>1 DEF AtMessage, ReadsMessage
  <2> QED
    BY <1>1, <1>2, <1>9, <2>1, <2>2, Advance DEF AtMessage
<1>11. Lengths(m)'
  BY <1>1, <1>2, <1>3, <1>4, <1>8, ServerAssumption DEF AtMessage, Lengths
<1>12. AnsweredUpTo(m)' /\ ResponseInv(m)' /\ SeqInv(m)'
  BY <1>1 DEF AtMessage, AnsweredUpTo, ResponseInv, SeqInv
<1> QED
  BY <1>10, <1>11, <1>12 DEF AtMessage

(***************************************************************************)
(* Steps of the server: what it does with a message.                       *)
(***************************************************************************)
\* With an end of a message the next one is read.
LEMMA NextMessage ==
  ASSUME TypeOK, NEW m \in Nat, ReadsMessage(m), Len(head) = HeadLen, Len(body) = BodyLen,
         head' = <<>>, body' = <<>>, UNCHANGED <<clientVars, wire, readBuf>>
  PROVE  ReadsMessage(m + 1)'
<1> DEFINE s == Start(m)
           s1 == Start(m + 1)
           e == Start(Len(sent)) + parts
           r == Len(Rest)
<1>1. Sent(m)
  <2>1. Len(head) + Len(body) = FrameLen
    BY DEF FrameLen
  <2> QED
    BY <2>1, MessageSent
<1>2. m + 1 \in 1..Len(sent) + 1
  BY <1>1, RestType DEF Sent
<1>3. s \in Int /\ s1 = s + FrameLen
  BY StartNext
<1>4. Rest' = Rest /\ DOMAIN Rest = 1..r /\ r \in Nat
  BY RestType DEF Rest
<1>5. s + HeadLen + BodyLen = s1 /\ s1 \in Int
  BY <1>3, ServerAssumption DEF FrameLen
<1> HIDE DEF s1
<1>6. s1 + Len(Rest') = e
  <2>1. s + HeadLen + BodyLen + r = e
    BY DEF ReadsMessage
  <2> QED
    BY <1>4, <1>5, <2>1
<1>7. ASSUME NEW k \in DOMAIN Rest'
      PROVE  Rest'[k].part \in 1..FrameLen /\ Start(Rest'[k].message) + Rest'[k].part = s1 + k
  <2>1. Rest[k].part \in 1..FrameLen /\ Start(Rest[k].message) + Rest[k].part = s + HeadLen + BodyLen + k
    BY <1>4 DEF ReadsMessage
  <2> QED
    BY <1>4, <1>5, <2>1
<1>8. Len(head') = 0 /\ Len(body') = 0
  OBVIOUS
<1>9. s1 + Len(head') + Len(body') + Len(Rest') = e /\ \A k \in Nat : s1 + Len(head') + Len(body') + k = s1 + k
  <2> HIDE DEF e
  <2> QED
    BY <1>4, <1>5, <1>6, <1>8
<1>10. DOMAIN Rest' \subseteq Nat /\ DOMAIN head' = {} /\ DOMAIN body' = {}
  BY <1>4
<1> QED
  BY <1>2, <1>7, <1>9, <1>10 DEF ReadsMessage, s1

\* What has been written.
LEMMA OutType ==
  ASSUME TypeOK, NEW i \in DOMAIN out
  PROVE  out[i] \in Outs /\ out[i].seq \in Nat /\ out[i].request \in Nat
<1>1. out \in Seq(Outs)
  BY DEF TypeOK
<1>2. out[i] \in Outs
  BY <1>1
<1> QED
  BY <1>2 DEF Outs

LEMMA IgnoreStep ==
  ASSUME TypeOK, AskedInv, NEW m \in Nat, AtMessage(m), Ignore
  PROVE  AtMessage(m + 1)'
<1>1. /\ phase = "body" /\ phase' = "head" /\ head' = <<>> /\ body' = <<>> /\ Len(body) = BodyLen
      /\ Complete("event") /\ UNCHANGED <<clientVars, wire, readBuf, writeVars>>
  BY DEF Ignore, Complete
<1>2. Len(head) = HeadLen
  BY <1>1 DEF AtMessage, Lengths
<1>3. sent[m] = "event"
  BY <1>1, CompleteMessage DEF AtMessage
<1>4. ReadsMessage(m + 1)'
  BY <1>1, <1>2, NextMessage DEF AtMessage
<1>5. AnsweredUpTo(m + 1)'
  <2>1. ASSUME NEW i \in DOMAIN asked
        PROVE  i <= Len(answered) <=> asked[i] < m + 1
    <3>1. i <= Len(answered) <=> asked[i] < m
      BY DEF AtMessage, AnsweredUpTo
    <3>2. asked[i] \in Requested
      BY DEF AskedInv, Range
    <3>3. asked[i] # m /\ asked[i] \in Nat
      BY <1>3, <3>2, RestType DEF Requested, IsRequest
    <3> QED
      BY <3>1, <3>3
  <2> QED
    BY <1>1, <2>1 DEF AtMessage, AnsweredUpTo
<1>6. Lengths(m + 1)'
  BY <1>1, ServerAssumption DEF Lengths
<1>7. SeqInv(m + 1)'
  <2>1. ASSUME NEW i \in DOMAIN out
        PROVE  out[i].seq <= seq /\ out[i].request < m + 1
    <3>1. out[i].request \in Nat
      BY OutType
    <3> QED
      BY <1>1, <3>1 DEF AtMessage, SeqInv
  <2> QED
    BY <1>1, <2>1 DEF SeqInv
<1> QED
  BY <1>1, <1>4, <1>5, <1>6, <1>7 DEF AtMessage, ResponseInv

LEMMA DispatchStep ==
  ASSUME TypeOK, TypeOK', NEW m \in Nat, AtMessage(m), NEW command \in Kinds, Dispatch(command)
  PROVE  AtMessage(m)'
<1>1. /\ phase = "body" /\ phase' = "handling" /\ Len(body) = BodyLen /\ Complete(command)
      /\ command \notin {"garbled", "event"} /\ seq' = seq + 1 /\ seq \in Nat
      /\ response' = [seq |-> seq + 1, request |-> Current,
                      success |-> command \in DOMAIN Handlers /\ Handlers[command].ends = "body"]
      /\ UNCHANGED <<clientVars, wire, readVars, out, answered>>
  BY DEF Dispatch, Complete, TypeOK
<1>2. Current = m /\ command = sent[m]
  BY <1>1, CompleteMessage DEF AtMessage
<1>3. ReadsMessage(m)' /\ AnsweredUpTo(m)'
  BY <1>1 DEF AtMessage, ReadsMessage, Rest, AnsweredUpTo
<1>4. Lengths(m)'
  BY <1>1, <1>2 DEF AtMessage, Lengths, IsRequest
<1>5. ResponseInv(m)'
  <2>1. response'.request = m /\ response'.seq = seq + 1
    BY <1>1, <1>2
  <2>2. response'.success = (sent[m] \in {c \in DOMAIN Handlers : Handlers[c].ends = "body"})
    BY <1>1, <1>2
  <2>3. sent' = sent /\ seq + 1 \in 1..seq'
    BY <1>1
  <2> QED
    BY <2>1, <2>2, <2>3 DEF ResponseInv
<1>6. SeqInv(m)'
  <2>1. ASSUME NEW i \in DOMAIN out
        PROVE  out[i].seq <= seq + 1 /\ out[i].request < m /\ out[i].request # m /\ out[i].seq < seq + 1
    <3>1. out[i].request \in Nat /\ out[i].seq \in Nat
      BY OutType
    <3> QED
      BY <1>1, <3>1 DEF AtMessage, SeqInv
  <2> QED
    BY <1>1, <2>1 DEF SeqInv
<1> QED
  BY <1>3, <1>4, <1>5, <1>6 DEF AtMessage

\* Something is written behind what was.
LEMMA OutAppended ==
  ASSUME TypeOK, NEW x \in Outs, out' = Append(out, x)
  PROVE  /\ Len(out) \in Nat /\ DOMAIN out = 1..Len(out) /\ DOMAIN out' = 1..Len(out) + 1
         /\ out'[Len(out) + 1] = x /\ \A i \in 1..Len(out) : out'[i] = out[i] /\ out[i] \in Outs
<1>1. out \in Seq(Outs)
  BY DEF TypeOK
<1> QED
  BY <1>1

LEMMA SeqAppended ==
  ASSUME TypeOK, SeqOnce, NEW x \in Outs, out' = Append(out, x),
         \A i \in DOMAIN out : out[i].seq # x.seq /\ (out[i].request < x.request => out[i].seq < x.seq)
  PROVE  SeqOnce'
<1> SUFFICES ASSUME NEW i \in DOMAIN out', NEW j \in DOMAIN out', i < j
             PROVE  /\ out'[i].seq # out'[j].seq
                    /\ out'[i].request < out'[j].request => out'[i].seq < out'[j].seq
  BY DEF SeqOnce
<1> DEFINE n == Len(out)
<1>1. /\ n \in Nat /\ DOMAIN out = 1..n /\ DOMAIN out' = 1..n + 1
      /\ out'[n + 1] = x /\ \A k \in 1..n : out'[k] = out[k]
  BY OutAppended
<1> HIDE DEF n
<1>2. i \in 1..n
  BY <1>1
<1>3. CASE j \in 1..n
  BY <1>1, <1>2, <1>3 DEF SeqOnce
<1>4. CASE j = n + 1
  BY <1>1, <1>2, <1>4
<1> QED
  BY <1>1, <1>3, <1>4

LEMMA SendEventStep ==
  ASSUME TypeOK, SeqOnce, NEW m \in Nat, AtMessage(m), SendEvent
  PROVE  AtMessage(m)' /\ SeqOnce'
<1> DEFINE x == [type |-> "event", seq |-> seq + 1, request |-> response.request]
<1>1. /\ phase = "handling" /\ seq' = seq + 1 /\ out' = Append(out, x) /\ seq \in Nat
      /\ UNCHANGED <<phase, clientVars, wire, readVars, response, answered>>
  BY DEF SendEvent, Written, TypeOK
<1>2. response.request = m /\ response.seq \in 1..seq
  BY <1>1 DEF AtMessage, ResponseInv
<1>3. x \in Outs /\ x.request = m /\ x.seq = seq + 1
  BY <1>1, <1>2 DEF Outs
<1> HIDE DEF x
<1>4. ASSUME NEW i \in DOMAIN out
      PROVE  /\ out[i].seq \in Nat /\ out[i].request \in Nat /\ out[i].seq <= seq
             /\ out[i].request < m \/ out[i].request = m
             /\ IF out[i].request = m THEN out[i].seq > response.seq ELSE out[i].seq < response.seq
  <2>1. out[i].seq \in Nat /\ out[i].request \in Nat
    BY OutType
  <2> QED
    BY <1>1, <2>1 DEF AtMessage, SeqInv
<1>5. SeqOnce'
  <2>1. \A i \in DOMAIN out : out[i].seq < x.seq
    BY <1>1, <1>3, <1>4
  <2>2. \A i \in DOMAIN out : out[i].seq # x.seq
    BY <1>1, <1>3, <1>4
  <2> QED
    BY <1>1, <1>3, <2>1, <2>2, SeqAppended
<1>6. SeqInv(m)'
  <2> SUFFICES ASSUME NEW i \in DOMAIN out'
               PROVE  /\ out'[i].seq <= seq + 1 /\ (out'[i].request < m \/ out'[i].request = m)
                      /\ IF out'[i].request = m THEN out'[i].seq > response.seq
                         ELSE out'[i].seq < response.seq
    BY <1>1 DEF SeqInv
  <2> DEFINE n == Len(out)
  <2>1. /\ n \in Nat /\ DOMAIN out = 1..n /\ DOMAIN out' = 1..n + 1
        /\ out'[n + 1] = x /\ \A k \in 1..n : out'[k] = out[k]
    BY <1>1, <1>3, OutAppended
  <2> HIDE DEF n
  <2>2. CASE i \in 1..n
    <3>1. out'[i] = out[i] /\ i \in DOMAIN out
      BY <2>1, <2>2
    <3> QED
      BY <1>1, <1>4, <3>1
  <2>3. CASE i = n + 1
    BY <1>1, <1>2, <1>3, <2>1, <2>3
  <2> QED
    BY <2>1, <2>2, <2>3
<1>7. ReadsMessage(m)' /\ Lengths(m)' /\ AnsweredUpTo(m)'
  BY <1>1 DEF AtMessage, ReadsMessage, Rest, Lengths, AnsweredUpTo
<1>8. ResponseInv(m)'
  BY <1>1 DEF AtMessage, ResponseInv
<1> QED
  BY <1>5, <1>6, <1>7, <1>8 DEF AtMessage

LEMMA EventFailsStep ==
  ASSUME TypeOK, NEW m \in Nat, AtMessage(m), EventFails
  PROVE  AtMessage(m)'
<1>1. /\ phase = "handling" /\ seq' = seq + 1 /\ seq \in Nat
      /\ response' = [response EXCEPT !.success = FALSE] /\ response \in Responses
      /\ UNCHANGED <<phase, clientVars, wire, readVars, out, answered>>
  BY DEF EventFails, WriteFails, TypeOK
<1>2. response'.request = response.request /\ response'.seq = response.seq /\ ~response'.success
  BY <1>1 DEF Responses
<1>3. ReadsMessage(m)' /\ Lengths(m)' /\ AnsweredUpTo(m)'
  BY <1>1 DEF AtMessage, ReadsMessage, Rest, Lengths, AnsweredUpTo
<1>4. ResponseInv(m)'
  <2>1. /\ response.request = m /\ response.seq \in 1..seq
        /\ response.success # (sent[m] \in {c \in DOMAIN Handlers : Handlers[c].ends = "body"}) =>
             closed /\ ~response.success
    BY <1>1 DEF AtMessage, ResponseInv
  <2>2. closed \/ sent[m] \notin {c \in DOMAIN Handlers : Handlers[c].ends = "body"}
    BY <2>1 DEF EventFails, WriteFails, EventEncodes, Handled
  <2>3. response'.seq \in 1..seq'
    BY <1>1, <1>2, <2>1
  <2>4. response'.success = FALSE /\ sent' = sent /\ closed' = closed /\ response'.request = m
    BY <1>1, <1>2, <2>1 DEF Responses
  <2> DEFINE bodies == {c \in DOMAIN Handlers : Handlers[c].ends = "body"}
  <2>5. (FALSE # (sent[m] \in bodies)) => closed
    <3>1. closed \/ ~(sent[m] \in bodies)
      BY <2>2
    <3> HIDE DEF bodies
    <3>2. CASE closed
      BY <3>2
    <3>3. CASE ~(sent[m] \in bodies)
      <4>1. (sent[m] \in bodies) = FALSE
        BY <3>3
      <4> QED
        BY <4>1
    <3> QED
      BY <3>1, <3>2, <3>3
  <2>6. (response'.success # (sent'[m] \in bodies)) => closed' /\ ~response'.success
    <3> HIDE DEF bodies
    <3> QED
      BY <2>4, <2>5
  <2> QED
    BY <2>3, <2>4, <2>6 DEF ResponseInv
<1>5. SeqInv(m)'
  <2>1. ASSUME NEW i \in DOMAIN out
        PROVE  out[i].seq <= seq + 1
    <3>1. out[i].seq \in Nat
      BY OutType
    <3> QED
      BY <1>1, <3>1 DEF AtMessage, SeqInv
  <2> QED
    BY <1>1, <1>2, <2>1 DEF AtMessage, SeqInv
<1> QED
  BY <1>3, <1>4, <1>5 DEF AtMessage

LEMMA RespondStep ==
  ASSUME TypeOK, SeqOnce, AskedInv, NEW m \in Nat, AtMessage(m), Respond
  PROVE  SeqOnce' /\ (phase' # "exited" => AtMessage(m + 1)')
<1> DEFINE x == [type |-> "response", seq |-> response.seq, request |-> response.request,
                 success |-> response.success]
           a == Len(answered)
<1>1. /\ phase = "handling" /\ phase' \in {"head", "exited"} /\ out' = Append(out, x)
      /\ answered' = Append(answered, response) /\ head' = <<>> /\ body' = <<>>
      /\ UNCHANGED <<clientVars, wire, readBuf, seq, response>>
  BY DEF Respond, Written, Exit
<1>2. response \in Responses /\ response.request = m /\ response.seq \in 1..seq /\ seq \in Nat
  BY <1>1 DEF AtMessage, ResponseInv, TypeOK
<1>3. x \in Outs /\ x.request = m /\ x.seq = response.seq
  BY <1>2 DEF Outs, Responses
<1> HIDE DEF x
<1>4. ASSUME NEW i \in DOMAIN out
      PROVE  /\ out[i].seq <= seq /\ out[i].request < m + 1
             /\ IF out[i].request = m THEN out[i].seq > response.seq ELSE out[i].seq < response.seq
  <2>1. out[i].seq \in Nat /\ out[i].request \in Nat
    BY OutType
  <2> QED
    BY <1>1, <2>1 DEF AtMessage, SeqInv
<1>5. SeqOnce'
  <2>1. ASSUME NEW i \in DOMAIN out
        PROVE  out[i].seq # x.seq /\ (out[i].request < x.request => out[i].seq < x.seq)
    <3>1. out[i].seq \in Nat /\ out[i].request \in Nat
      BY OutType
    <3> QED
      BY <1>2, <1>3, <1>4, <3>1
  <2> QED
    BY <1>1, <1>3, <2>1, SeqAppended
<1>6. /\ Len(head) = HeadLen /\ Len(body) = BodyLen /\ IsRequest(sent[m]) /\ ReadsMessage(m)
  BY <1>1 DEF AtMessage, Lengths
<1>7. ReadsMessage(m + 1)'
  BY <1>1, <1>6, NextMessage
<1>8. Sent(m)
  <2>1. Len(head) + Len(body) = FrameLen
    BY <1>6 DEF FrameLen
  <2> QED
    BY <1>6, <2>1, MessageSent
<1>9. AnsweredUpTo(m + 1)'
  <2>1. a + 1 \in DOMAIN asked /\ asked[a + 1] = m
    BY <1>6, <1>8, NextAsked DEF AtMessage
  <2>2. /\ a \in Nat /\ Len(answered') = a + 1 /\ DOMAIN answered = 1..a /\ DOMAIN answered' = 1..a + 1
        /\ answered'[a + 1] = response /\ \A i \in 1..a : answered'[i] = answered[i]
    <3>1. answered \in Seq(Responses)
      BY DEF TypeOK
    <3> QED
      BY <1>1, <1>2, <3>1
  <2>3. asked \in Seq(Nat) /\ DOMAIN asked = 1..Len(asked) /\ Len(asked) \in Nat /\ asked' = asked
    <3>1. asked \in Seq(Nat)
      BY DEF TypeOK
    <3> QED
      BY <1>1, <3>1
  <2>4. /\ \A i \in 1..a : answered[i].request = asked[i]
        /\ \A i \in DOMAIN asked : i <= a <=> asked[i] < m
    BY <2>2 DEF AtMessage, AnsweredUpTo
  <2> HIDE DEF a
  <2>5. \A i \in DOMAIN answered' : answered'[i].request = asked[i]
    BY <1>2, <2>1, <2>2, <2>4
  <2>6. ASSUME NEW i \in DOMAIN asked
        PROVE  i <= a + 1 <=> asked[i] < m + 1
    <3>1. asked[i] \in Nat /\ i \in Nat
      BY <2>3
    <3>2. CASE i <= a
      BY <2>2, <2>4, <3>1, <3>2
    <3>3. CASE i = a + 1
      BY <2>1, <2>2, <3>3
    <3>4. CASE i > a + 1
      <4>1. asked[a + 1] < asked[i]
        BY <2>1, <2>2, <3>1, <3>4 DEF AskedInv
      <4> QED
        BY <2>1, <2>2, <3>1, <3>4, <4>1
    <3> QED
      BY <2>2, <3>1, <3>2, <3>3, <3>4
  <2>7. a + 1 <= Len(asked)
    BY <2>1, <2>3
  <2> QED
    BY <2>2, <2>3, <2>5, <2>6, <2>7 DEF AnsweredUpTo
<1>10. ASSUME phase' # "exited"
       PROVE  AtMessage(m + 1)'
  <2>1. phase' = "head"
    BY <1>1, <1>10
  <2>2. Lengths(m + 1)' /\ ResponseInv(m + 1)'
    BY <1>1, <2>1, ServerAssumption DEF Lengths, ResponseInv
  <2>3. SeqInv(m + 1)'
    <3>1. ASSUME NEW i \in DOMAIN out'
          PROVE  out'[i].seq <= seq /\ out'[i].request < m + 1
      <4> DEFINE n == Len(out)
      <4>1. /\ n \in Nat /\ DOMAIN out = 1..n /\ DOMAIN out' = 1..n + 1
            /\ out'[n + 1] = x /\ \A k \in 1..n : out'[k] = out[k]
        BY <1>1, <1>3, OutAppended
      <4> HIDE DEF n
      <4>2. CASE i \in 1..n
        BY <1>4, <4>1, <4>2
      <4>3. CASE i = n + 1
        BY <1>2, <1>3, <4>1, <4>3
      <4> QED
        BY <4>1, <4>2, <4>3
    <3> QED
      BY <1>1, <2>1, <3>1 DEF SeqInv
  <2> QED
    BY <1>7, <1>9, <2>2, <2>3 DEF AtMessage
<1> QED
  BY <1>5, <1>10

\* If all that has arrived is read and the next message is not complete, each
\* request is answered.
LEMMA AllAnswered ==
  ASSUME TypeOK, AskedInv, NEW m \in Nat, AtMessage(m), Rest = <<>>, Len(head) + Len(body) < FrameLen
  PROVE  Len(answered) = Len(asked)
<1> DEFINE last == Len(sent)
           q == Len(head) + Len(body)
<1>1. last \in Nat /\ parts \in 0..FrameLen /\ q \in Nat /\ q < FrameLen /\ m \in 1..last + 1
  BY RestType DEF AtMessage, ReadsMessage
<1>2. Start(m) \in Int /\ Start(last) \in Int
  BY <1>1, StartNext
<1>3. Start(m) + q = Start(last) + parts
  <2>1. Start(m) + Len(head) + Len(body) + Len(Rest) = Start(last) + parts
    BY DEF AtMessage, ReadsMessage
  <2>2. Len(Rest) = 0 /\ Len(head) \in Nat /\ Len(body) \in Nat
    BY RestType
  <2> HIDE DEF last
  <2> QED
    BY <1>2, <2>1, <2>2
<1> HIDE DEF q
<1>4. ASSUME NEW i \in DOMAIN asked
      PROVE  asked[i] < m
  <2> DEFINE k == asked[i]
  <2>1. k \in Requested
    BY DEF AskedInv, Range
  <2>2. k \in 1..last /\ (k < last \/ parts = FrameLen)
    BY <2>1 DEF Requested, Sent
  <2> HIDE DEF k, last
  <2>3. Start(k) \in Int
    BY <1>1, <2>2, StartNext
  <2>4. Start(k) + FrameLen <= Start(last) + parts
    <3>1. CASE k < last
      BY <1>1, <1>2, <2>2, <2>3, <3>1, StartGrows, FrameLenType
    <3>2. CASE k = last
      BY <1>1, <1>2, <2>2, <3>2, FrameLenType
    <3> QED
      BY <1>1, <2>2, <3>1, <3>2
  <2>5. k # m
    BY <1>1, <1>2, <1>3, <2>4, FrameLenType
  <2>6. ~(m < k)
    <3>1. SUFFICES ASSUME m < k PROVE FALSE
      OBVIOUS
    <3>2. Start(m) + FrameLen <= Start(k)
      BY <1>1, <2>2, <3>1, StartGrows
    <3> QED
      BY <1>1, <1>2, <1>3, <2>3, <2>4, <3>2, FrameLenType
  <2>7. k < m
    BY <1>1, <2>2, <2>5, <2>6
  <2> QED
    BY <2>7 DEF k
<1>5. asked \in Seq(Nat) /\ answered \in Seq(Responses)
  BY DEF TypeOK
<1>6. Len(asked) \in Nat /\ Len(answered) \in Nat /\ DOMAIN asked = 1..Len(asked)
  BY <1>5
<1>7. Len(answered) <= Len(asked) /\ \A i \in DOMAIN asked : i <= Len(answered)
  BY <1>4 DEF AtMessage, AnsweredUpTo
<1>8. Len(asked) > 0 => Len(asked) \in DOMAIN asked
  BY <1>6
<1> QED
  BY <1>6, <1>7, <1>8

(***************************************************************************)
(* The invariant.                                                          *)
(***************************************************************************)
\* How the process ends.
LEMMA ExitStep ==
  ASSUME IInv, [Next]_vars, TypeOK'
  PROVE  ExitTells'
<1> SUFFICES ASSUME phase # "exited", phase' = "exited"
             PROVE  ExitTells'
  <2>1. CASE phase' # "exited"
    BY <2>1 DEF TypeOK, ExitTells
  <2>2. CASE phase = "exited"
    <3>1. phase = "exited" => UNCHANGED <<exit, terminated, sent, wire, answered, asked>> /\ (closed => closed')
      BY <2>2 DEF Next, Serve, vars, Begin, Send, Close, Connected, StartStdio, Listen, BindFails, Accept,
         AcceptTimeout, Interrupt, Receive, ReadHead, ReadBody, Eof, Reset, BadBody, Ignore, Complete,
         Dispatch, SendEvent, EventFails, Respond, RespondFails
    <3> QED
      BY <2>2, <3>1 DEF IInv, ExitTells
  <2> QED
    BY <2>1, <2>2
<1> PICK m \in Nat : AtMessage(m)
  BY DEF IInv
<1> USE DEF IInv
<1>1. CASE BindFails
  <2>1. sent' = <<>> /\ exit' = 1
    BY <1>1 DEF BindFails, AtMessage, Lengths
  <2> QED
    BY <2>1 DEF ExitTells
<1>2. CASE AcceptTimeout
  <2>1. sent' = <<>> /\ exit' = 1
    BY <1>2 DEF AcceptTimeout, AtMessage, Lengths
  <2> QED
    BY <2>1 DEF ExitTells
<1>3. CASE Interrupt
  BY <1>3 DEF Interrupt, ExitTells
<1>4. CASE ReadHead
  <2>1. m \in 1..Len(sent) /\ sent[m] = "lengthless"
    BY <1>4, ReadHeadStep
  <2>2. exit' = 1 /\ sent' = sent /\ m \in DOMAIN sent
    BY <1>4, <2>1 DEF ReadHead, TypeOK
  <2> QED
    BY <2>1, <2>2 DEF ExitTells, Unanswerable
<1>5. CASE Eof
  <2>1. closed /\ readBuf = <<>> /\ wire = <<>> /\ exit' \in {0, 1}
        /\ UNCHANGED <<closed, wire, answered, asked>>
    BY <1>5 DEF Eof
  <2>2. Len(head) + Len(body) < FrameLen
    <3>1. CASE phase = "head"
      <4>1. Len(head) < HeadLen /\ body = <<>> /\ Len(body) = 0 /\ Len(head) \in Nat
        BY <3>1, RestType DEF AtMessage, Lengths
      <4> QED
        BY <4>1, FrameLenType, ServerAssumption
    <3>2. CASE phase = "body"
      <4>1. Len(head) = HeadLen /\ Len(body) < BodyLen /\ Len(body) \in Nat
        BY <1>5, <3>2, RestType DEF Eof, AtMessage, Lengths
      <4> QED
        BY <4>1, ServerAssumption DEF FrameLen
    <3> QED
      BY <1>5, <3>1, <3>2 DEF Eof
  <2>3. Rest = <<>>
    BY <2>1 DEF Rest
  <2>4. Len(answered) = Len(asked)
    BY <2>2, <2>3, AllAnswered
  <2> QED
    BY <2>1, <2>4 DEF ExitTells
<1>6. CASE Reset
  BY <1>6 DEF Reset, ExitTells
<1>7. CASE BadBody
  <2>1. sent[m] = "garbled" /\ m \in 1..Len(sent)
    <3>1. Complete("garbled")
      BY <1>7 DEF BadBody
    <3> QED
      BY <3>1, CompleteMessage DEF AtMessage
  <2>2. exit' = 1 /\ sent' = sent /\ m \in DOMAIN sent
    BY <1>7, <2>1 DEF BadBody, TypeOK
  <2> QED
    BY <2>1, <2>2 DEF ExitTells, Unanswerable
<1>8. CASE Respond
  <2>1. terminated' = terminated /\ terminated /\ exit' = 0
    BY <1>8 DEF Respond
  <2> QED
    BY <2>1 DEF ExitTells
<1>9. CASE RespondFails
  <2>1. /\ phase = "handling" /\ exit' = 1 /\ sent' = sent /\ closed' = closed
        /\ closed \/ ~ResponseEncodes
    BY <1>9 DEF RespondFails, WriteFails, Exit
  <2>2. Handled = sent[m] /\ m \in DOMAIN sent
    BY <2>1, HandledMessage
  <2>3. ~ResponseEncodes => Unanswerable(sent[m])
    BY <2>2 DEF ResponseEncodes, Unanswerable
  <2> QED
    BY <2>1, <2>2, <2>3 DEF ExitTells
<1> QED
  BY <1>1, <1>2, <1>3, <1>4, <1>5, <1>6, <1>7, <1>8, <1>9 DEF Next, Serve, vars, Begin, Send, Close,
     StartStdio, Listen, Accept, Receive, ReadBody, Ignore, Dispatch, SendEvent, EventFails

LEMMA Initially == Init => IInv
<1> SUFFICES ASSUME Init PROVE IInv
  OBVIOUS
<1>1. TypeOK
  <2>1. ProcessTypes /\ ReadTypes
    BY DEF Init
  <2>2. ClientTypes
    <3>1. sent = <<>> /\ asked = <<>> /\ parts = FrameLen /\ closed = FALSE
      BY DEF Init
    <3>2. sent \in Seq(Kinds) /\ asked \in Seq(Nat)
      BY <3>1
    <3>3. parts \in 0..FrameLen /\ ~(parts < FrameLen)
      BY <3>1, FrameLenType
    <3> QED
      BY <3>1, <3>2, <3>3
  <2>3. WriteTypes
    <3>1. out \in Seq(Outs) /\ answered \in Seq(Responses)
      BY DEF Init
    <3> QED
      BY <3>1 DEF Init, NoResponse, Responses
  <2> QED
    BY <2>1, <2>2, <2>3 DEF TypeOK
<1>2. SeqOnce /\ ExitTells
  BY DEF Init, SeqOnce, ExitTells
<1>3. AskedInv
  BY DEF Init, AskedInv, Requested, Range
<1>4. ReadsMessage(1)
  <2>1. Start(0) \in Int /\ Start(0 + 1) = Start(0) + FrameLen /\ 0 + 1 = 1
    BY StartNext
  <2>2. Rest = <<>> /\ Len(Rest) = 0 /\ Len(head) = 0 /\ Len(body) = 0 /\ Len(sent) = 0 /\ parts = FrameLen
    BY DEF Init, Rest
  <2>3. Start(1) + Len(head) + Len(body) + Len(Rest) = Start(Len(sent)) + parts
    BY <2>1, <2>2, FrameLenType
  <2>4. DOMAIN head = {} /\ DOMAIN body = {} /\ DOMAIN Rest = {} /\ 1 \in 1..Len(sent) + 1
    BY <2>2 DEF Init
  <2> QED
    BY <2>3, <2>4 DEF ReadsMessage
<1>5. Lengths(1) /\ AnsweredUpTo(1) /\ ResponseInv(1) /\ SeqInv(1)
  BY ServerAssumption DEF Init, Lengths, AnsweredUpTo, ResponseInv, SeqInv
<1> QED
  BY <1>1, <1>2, <1>3, <1>4, <1>5 DEF IInv, AtMessage

LEMMA Inductive ==
  ASSUME IInv, [Next]_vars
  PROVE  IInv'
<1>1. TypeOK /\ SeqOnce
  BY DEF IInv
<1>2. TypeOK' /\ ExitTells'
  BY <1>1, TypeStep, ExitStep
<1>3. CASE phase = "exited"
  <2>1. phase' = "exited" /\ out' = out
    BY <1>3 DEF Next, Serve, vars, Begin, Send, Close, Connected, StartStdio, Listen, BindFails, Accept,
       AcceptTimeout, Interrupt, Receive, ReadHead, ReadBody, Eof, Reset, BadBody, Ignore, Complete,
       Dispatch, SendEvent, EventFails, Respond, RespondFails
  <2> QED
    BY <1>1, <1>2, <2>1 DEF IInv, SeqOnce
<1>4. CASE phase # "exited"
  <2>1. AskedInv
    BY <1>4 DEF IInv
  <2>2. PICK m \in Nat : AtMessage(m)
    BY <1>4 DEF IInv
  <2> DEFINE Kept == SeqOnce' /\ (phase' # "exited" => AskedInv' /\ \E n \in Nat : AtMessage(n)')
  <2>3. SUFFICES Kept
    BY <1>2 DEF IInv
  <2> USE <1>1, <1>2, <2>1, <2>2
  <2>4. ASSUME NEW kind \in Kinds, Begin(kind) PROVE Kept
    <3>1. SeqOnce'
      BY <2>4 DEF Begin, SeqOnce
    <3> QED
      BY <2>4, <3>1, BeginStep
  <2>5. ASSUME NEW bytes \in 1..FrameLen, Send(bytes) PROVE Kept
    <3>1. SeqOnce'
      BY <2>5 DEF Send, SeqOnce
    <3> QED
      BY <2>5, <3>1, SendStep
  <2>6. CASE Close
    <3>1. SeqOnce'
      BY <2>6 DEF Close, SeqOnce
    <3> QED
      BY <2>6, <3>1, CloseStep
  <2>7. CASE StartStdio \/ Listen \/ Accept
    <3>1. SeqOnce' /\ AskedInv'
      BY <2>7, AskedUnchanged DEF StartStdio, Listen, Accept, SeqOnce
    <3> QED
      BY <2>7, <3>1, StartStep
  <2>8. CASE BindFails \/ AcceptTimeout \/ Interrupt \/ Eof \/ Reset \/ BadBody \/ RespondFails
    BY <2>8 DEF BindFails, AcceptTimeout, Interrupt, Eof, Reset, BadBody, RespondFails, WriteFails, SeqOnce
  <2>9. ASSUME NEW bytes \in 1..Len(wire), Receive(bytes) PROVE Kept
    <3>1. SeqOnce' /\ AskedInv'
      BY <2>9, AskedUnchanged DEF Receive, SeqOnce
    <3> QED
      BY <2>9, <3>1, ReceiveStep
  <2>10. CASE ReadHead
    <3>1. SeqOnce' /\ AskedInv'
      BY <2>10, AskedUnchanged DEF ReadHead, SeqOnce
    <3> QED
      BY <2>10, <3>1, ReadHeadStep
  <2>11. CASE ReadBody
    <3>1. SeqOnce' /\ AskedInv'
      BY <2>11, AskedUnchanged DEF ReadBody, SeqOnce
    <3> QED
      BY <2>11, <3>1, ReadBodyStep
  <2>12. CASE Ignore
    <3>1. SeqOnce' /\ AskedInv'
      BY <2>12, AskedUnchanged DEF Ignore, SeqOnce
    <3> QED
      BY <2>12, <3>1, IgnoreStep
  <2>13. ASSUME NEW command \in Kinds, Dispatch(command) PROVE Kept
    <3>1. SeqOnce' /\ AskedInv'
      BY <2>13, AskedUnchanged DEF Dispatch, SeqOnce
    <3> QED
      BY <2>13, <3>1, DispatchStep
  <2>14. CASE SendEvent
    <3>1. AskedInv'
      BY <2>14, AskedUnchanged DEF SendEvent
    <3> QED
      BY <2>14, <3>1, SendEventStep
  <2>15. CASE EventFails
    <3>1. SeqOnce' /\ AskedInv'
      BY <2>15, AskedUnchanged DEF EventFails, WriteFails, SeqOnce
    <3> QED
      BY <2>15, <3>1, EventFailsStep
  <2>16. CASE Respond
    <3>1. AskedInv'
      BY <2>16, AskedUnchanged DEF Respond
    <3> QED
      BY <2>16, <3>1, RespondStep
  <2>17. CASE UNCHANGED vars
    <3>1. SeqOnce' /\ AskedInv'
      BY <2>17, AskedUnchanged DEF vars, SeqOnce
    <3>2. AtMessage(m)'
      BY <2>17 DEF vars, AtMessage, ReadsMessage, Rest, Lengths, AnsweredUpTo, ResponseInv, SeqInv
    <3> QED
      BY <3>1, <3>2
  <2> QED
    BY <2>4, <2>5, <2>6, <2>7, <2>8, <2>9, <2>10, <2>11, <2>12, <2>13, <2>14, <2>15, <2>16, <2>17
    DEF Next, Serve
<1> QED
  BY <1>3, <1>4

\* The invariant holds throughout.
THEOREM Invariance == Spec => []IInv
<1>1. IInv /\ [Next]_vars => IInv'
  BY Inductive
<1> QED
  BY <1>1, Initially, PTL DEF Spec

\* Numbers of messages to the client, given by Dispatcher.handle before the
\* events of the handler and written after them, are unique and grow from one
\* request to the next.
THEOREM SeqOnceCorrect == Spec => []SeqOnce
<1>1. IInv => SeqOnce
  BY DEF IInv
<1> QED
  BY <1>1, Invariance, PTL

\* What the exit code of main() tells a parent process is true, however the
\* stream was cut and read, and whenever the client has gone.
THEOREM ExitTellsCorrect == Spec => []ExitTells
<1>1. IInv => ExitTells
  BY DEF IInv
<1> QED
  BY <1>1, Invariance, PTL

(***************************************************************************)
(* The server implements AdapterService.                                   *)
(***************************************************************************)
LEMMA AppendEqual ==
  ASSUME NEW S, NEW s \in Seq(S), NEW x \in S, NEW t \in Seq(S), Len(t) = Len(s) + 1,
         t[Len(s) + 1] = x, \A i \in 1..Len(s) : t[i] = s[i]
  PROVE  t = Append(s, x)
<1>1. /\ Append(s, x) \in Seq(S) /\ Len(Append(s, x)) = Len(s) + 1
      /\ Append(s, x)[Len(s) + 1] = x /\ \A i \in 1..Len(s) : Append(s, x)[i] = s[i]
  OBVIOUS
<1>2. \A i \in 1..Len(t) : i \in 1..Len(s) \/ i = Len(s) + 1
  OBVIOUS
<1>3. \A i \in 1..Len(t) : t[i] = Append(s, x)[i]
  BY <1>1, <1>2
<1> HIDE <1>2
<1> QED
  BY <1>1, <1>3, SeqEqual

\* The requests that have been made and answered, while there is a server.
LEMMA ServiceType ==
  ASSUME TypeOK, AskedInv, NEW m \in Nat, AtMessage(m)
  PROVE  /\ DOMAIN asked = 1..Len(asked) /\ Len(asked) \in Nat
         /\ DOMAIN answered = 1..Len(answered) /\ Len(answered) \in Nat
         /\ Asked \in Seq(Kinds) /\ Len(Asked) = Len(asked)
         /\ Answered \in Seq(Kinds \X BOOLEAN) /\ Len(Answered) = Len(answered)
         /\ \A i \in DOMAIN asked : asked[i] \in 1..Len(sent)
         /\ \A i \in DOMAIN answered : answered[i].request \in 1..Len(sent)
<1>1. sent \in Seq(Kinds) /\ asked \in Seq(Nat)
  BY DEF TypeOK
<1>2. answered \in Seq(Responses)
  BY DEF TypeOK
<1>3. /\ DOMAIN asked = 1..Len(asked) /\ Len(asked) \in Nat
      /\ DOMAIN answered = 1..Len(answered) /\ Len(answered) \in Nat
  BY <1>1, <1>2
<1>4. \A i \in DOMAIN asked : asked[i] \in 1..Len(sent)
  BY DEF AskedInv, Requested, Range
<1>5. \A i \in DOMAIN answered : answered[i].request \in 1..Len(sent) /\ answered[i].success \in BOOLEAN
  <2> TAKE i \in DOMAIN answered
  <2>1. answered[i].request = asked[i] /\ i \in DOMAIN asked
    BY <1>3 DEF AtMessage, AnsweredUpTo
  <2>2. answered[i] \in Responses
    BY <1>2
  <2> QED
    BY <1>4, <2>1, <2>2 DEF Responses
<1>6. Asked \in Seq(Kinds) /\ Len(Asked) = Len(asked)
  BY <1>1, <1>3, <1>4 DEF Asked
<1>7. Answered \in Seq(Kinds \X BOOLEAN) /\ Len(Answered) = Len(answered)
  BY <1>1, <1>3, <1>5 DEF Answered
<1> QED
  BY <1>3, <1>4, <1>5, <1>6, <1>7

LEMMA SendServes ==
  ASSUME TypeOK, TypeOK', AskedInv, AskedInv', NEW m \in Nat, AtMessage(m), AtMessage(m)',
         NEW bytes \in 1..FrameLen, Send(bytes)
  PROVE  (\E r \in {kind \in Kinds : IsRequest(kind)} : Service!Ask(r)) \/ UNCHANGED Service!serviceVars
<1> DEFINE a == Len(asked)
           x == sent[Len(sent)]
<1>1. ~closed /\ UNCHANGED <<sent, closed, phase, answered>>
  BY DEF Send
<1>2. Answered' = Answered
  BY <1>1 DEF Answered
<1>3. CASE parts' = FrameLen /\ IsRequest(x)
  <2>1. x \in Kinds
    <3>1. Len(sent) \in 1..Len(sent) /\ sent \in Seq(Kinds)
      BY DEF Send, TypeOK
    <3> QED
      BY <3>1
  <2>2. asked' = Append(asked, Len(sent)) /\ asked \in Seq(Nat) /\ Len(sent) \in Nat /\ a \in Nat
    BY <1>3 DEF Send, TypeOK
  <2>3. Len(asked') = a + 1 /\ asked'[a + 1] = Len(sent) /\ \A i \in 1..a : asked'[i] = asked[i]
    BY <2>2
  <2>4. /\ Asked \in Seq(Kinds) /\ Len(Asked) = a /\ DOMAIN asked = 1..a
    BY ServiceType
  <2>5. Asked' \in Seq(Kinds) /\ Len(Asked') = a + 1 /\ DOMAIN asked' = 1..a + 1
    <3>1. DOMAIN asked' = 1..Len(asked') /\ Asked' \in Seq(Kinds) /\ Len(Asked') = Len(asked')
      <4>1. asked' \in Seq(Nat) /\ sent \in Seq(Kinds)
        BY DEF TypeOK
      <4>2. \A i \in DOMAIN asked' : asked'[i] \in 1..Len(sent)
        BY <1>1 DEF AskedInv, Requested, Range
      <4>3. DOMAIN asked' = 1..Len(asked') /\ Len(asked') \in Nat
        BY <4>1
      <4>4. Asked' = [i \in 1..Len(asked') |-> sent[asked'[i]]]
        BY <1>1, <4>3 DEF Asked
      <4>5. \A i \in 1..Len(asked') : sent[asked'[i]] \in Kinds
        BY <4>1, <4>2, <4>3
      <4> QED
        BY <4>3, <4>4, <4>5
    <3> QED
      BY <2>3, <3>1
  <2>6. Asked' = Append(Asked, x)
    <3>1. Asked'[a + 1] = x /\ \A i \in 1..a : Asked'[i] = Asked[i]
      BY <1>1, <2>2, <2>3, <2>4, <2>5 DEF Asked
    <3> HIDE DEF a, x
    <3> QED
      BY <2>1, <2>4, <2>5, <3>1, AppendEqual
  <2> QED
    BY <1>1, <1>2, <1>3, <2>1, <2>6 DEF Service!Ask
<1>4. CASE ~(parts' = FrameLen /\ IsRequest(x))
  <2>1. asked' = asked
    BY <1>4 DEF Send
  <2>2. Asked' = Asked
    BY <1>1, <2>1 DEF Asked
  <2> QED
    BY <1>1, <1>2, <2>2 DEF Service!serviceVars
<1> QED
  BY <1>3, <1>4

LEMMA RespondServes ==
  ASSUME TypeOK, TypeOK', AskedInv, NEW m \in Nat, AtMessage(m), Respond
  PROVE  \E r \in {kind \in Kinds : IsRequest(kind)}, success \in BOOLEAN : Service!Answer(r, success)
<1> DEFINE a == Len(answered)
           r == sent[m]
           success == response.success
<1>1. /\ phase = "handling" /\ answered' = Append(answered, response)
      /\ UNCHANGED <<sent, closed, asked>>
  BY DEF Respond
<1>2. /\ Len(head) + Len(body) = FrameLen /\ IsRequest(r) /\ ReadsMessage(m)
      /\ response.request = m /\ (success # (r \in {c \in DOMAIN Handlers : Handlers[c].ends = "body"})
                                  => closed /\ ~success)
  BY <1>1 DEF AtMessage, Lengths, ResponseInv, FrameLen
<1>3. Sent(m)
  BY <1>2, MessageSent
<1>4. a + 1 \in DOMAIN asked /\ asked[a + 1] = m
  BY <1>2, <1>3, NextAsked DEF AtMessage
<1>5. r \in Kinds /\ success \in BOOLEAN /\ response \in Responses
  <2>1. sent \in Seq(Kinds) /\ response \in Responses
    BY DEF TypeOK
  <2> QED
    BY <1>3, <2>1 DEF Sent, Responses
<1>6. /\ Answered \in Seq(Kinds \X BOOLEAN) /\ Len(Answered) = a /\ a \in Nat /\ DOMAIN answered = 1..a
      /\ Len(Asked) = Len(asked) /\ DOMAIN asked = 1..Len(asked) /\ Len(asked) \in Nat
      /\ \A i \in DOMAIN answered : answered[i].request \in 1..Len(sent) /\ answered[i] \in Responses
  <2>1. answered \in Seq(Responses)
    BY DEF TypeOK
  <2>2. \A i \in DOMAIN answered : answered[i] \in Responses
    BY <2>1
  <2> QED
    BY <2>2, ServiceType
<1>7. /\ Len(answered') = a + 1 /\ DOMAIN answered' = 1..a + 1 /\ answered'[a + 1] = response
      /\ \A i \in 1..a : answered'[i] = answered[i]
  <2>1. answered \in Seq(Responses)
    BY DEF TypeOK
  <2> QED
    BY <1>1, <1>5, <2>1
<1>8. Answered' = Append(Answered, <<r, success>>)
  <2>1. Answered'[a + 1] = <<r, success>> /\ \A i \in 1..a : Answered'[i] = Answered[i]
    BY <1>1, <1>2, <1>6, <1>7 DEF Answered
  <2>2. Answered' \in Seq(Kinds \X BOOLEAN) /\ Len(Answered') = a + 1
    <3>1. \A i \in 1..a + 1 : Answered'[i] \in Kinds \X BOOLEAN
      <4>1. \A i \in 1..a : Answered[i] \in Kinds \X BOOLEAN
        BY <1>6
      <4>2. <<r, success>> \in Kinds \X BOOLEAN
        BY <1>5
      <4>3. \A i \in 1..a + 1 : i \in 1..a \/ i = a + 1
        BY <1>6
      <4> HIDE DEF r, success, a
      <4> QED
        BY <2>1, <4>1, <4>2, <4>3
    <3>2. Answered' = [i \in 1..a + 1 |-> Answered'[i]]
      BY <1>7 DEF Answered
    <3> QED
      BY <1>6, <3>1, <3>2
  <2>3. <<r, success>> \in Kinds \X BOOLEAN
    BY <1>5
  <2> HIDE DEF a, r, success
  <2> QED
    BY <1>6, <2>1, <2>2, <2>3, AppendEqual
<1>9. Asked' = Asked /\ Asked[a + 1] = r
  BY <1>1, <1>4 DEF Asked
<1>10. Len(Answered) < Len(Asked)
  BY <1>4, <1>6
<1>11. Service!Answer(r, success)
  BY <1>1, <1>2, <1>6, <1>8, <1>9, <1>10 DEF Service!Answer
<1> QED
  BY <1>2, <1>5, <1>11

LEMMA ServiceStep ==
  ASSUME IInv, IInv', Next
  PROVE  Service!Next \/ UNCHANGED Service!serviceVars
<1> DEFINE Serves == Service!Next \/ UNCHANGED Service!serviceVars
<1>1. TypeOK /\ TypeOK'
  BY DEF IInv
<1>2. ASSUME UNCHANGED <<sent, closed, asked, answered>>, phase = "exited" => phase' = "exited"
      PROVE  Serves
  <2>1. Asked' = Asked /\ Answered' = Answered
    BY <1>2 DEF Asked, Answered
  <2>2. CASE phase' = "exited"
    BY <1>2, <2>1, <2>2 DEF Service!Next, Service!End
  <2>3. CASE phase' # "exited"
    BY <1>2, <2>1, <2>3 DEF Service!serviceVars
  <2> QED
    BY <2>2, <2>3
<1>3. ASSUME NEW kind \in Kinds, Begin(kind) PROVE Serves
  <2>1. phase # "exited" /\ sent' = Append(sent, kind) /\ UNCHANGED <<phase, closed, asked, answered>>
    BY <1>3 DEF Begin, Connected
  <2>2. PICK m \in Nat : AtMessage(m)
    BY <2>1 DEF IInv
  <2>3. /\ \A i \in DOMAIN asked : asked[i] \in 1..Len(sent)
        /\ \A i \in DOMAIN answered : answered[i].request \in 1..Len(sent)
    BY <1>1, <2>1, <2>2, ServiceType DEF IInv
  <2>4. \A k \in 1..Len(sent) : sent'[k] = sent[k]
    BY <1>1, <2>1 DEF TypeOK
  <2>5. Asked' = Asked /\ Answered' = Answered
    BY <2>1, <2>3, <2>4 DEF Asked, Answered
  <2> QED
    BY <2>1, <2>5 DEF Service!serviceVars
<1>4. ASSUME NEW bytes \in 1..FrameLen, Send(bytes) PROVE Serves
  <2>1. phase # "exited"
    BY <1>4 DEF Send, Connected
  <2>2. AskedInv
    BY <2>1 DEF IInv
  <2>3. PICK m \in Nat : AtMessage(m)
    BY <2>1 DEF IInv
  <2>4. AskedInv' /\ AtMessage(m)'
    BY <1>1, <1>4, <2>2, <2>3, SendStep
  <2> QED
    BY <1>1, <1>4, <2>2, <2>3, <2>4, SendServes DEF Service!Next
<1>5. CASE Close
  <2>1. Asked' = Asked /\ Answered' = Answered
    BY <1>5 DEF Close, Asked, Answered
  <2> QED
    BY <1>5, <2>1 DEF Close, Service!Next, Service!Leave
<1>6. CASE Respond
  <2>1. phase # "exited"
    BY <1>6 DEF Respond
  <2>2. AskedInv
    BY <2>1 DEF IInv
  <2>3. PICK m \in Nat : AtMessage(m)
    BY <2>1 DEF IInv
  <2> QED
    BY <1>1, <1>6, <2>2, <2>3, RespondServes DEF Service!Next
<1>7. ASSUME ~Close, ~Respond, ~\E kind \in Kinds : Begin(kind), ~\E bytes \in 1..FrameLen : Send(bytes)
      PROVE  UNCHANGED <<sent, closed, asked, answered>> /\ phase # "exited"
  BY <1>7 DEF Next, Serve, StartStdio, Listen, BindFails, Accept,
     AcceptTimeout, Interrupt, Receive, ReadHead, ReadBody, Eof, Reset, BadBody, Ignore, Complete,
     Dispatch, SendEvent, EventFails, RespondFails
<1> QED
  BY <1>2, <1>3, <1>4, <1>5, <1>6, <1>7

\* Whatever the cuts of the stream and the failures of writes, the requests are
\* answered in their order, each at most once and as its handler ended.
THEOREM Implementation == Spec => ImplementsService
<1>1. Init => Service!Init
  BY DEF Init, Service!Init, Asked, Answered
<1>2. IInv /\ IInv' /\ [Next]_vars => [Service!Next]_(Service!serviceVars)
  <2>1. ASSUME UNCHANGED vars
        PROVE  UNCHANGED Service!serviceVars
    BY <2>1 DEF vars, Service!serviceVars, Asked, Answered
  <2> QED
    BY <2>1, ServiceStep
<1> HIDE DEF IInv
<1> QED
  BY <1>1, <1>2, Invariance, PTL DEF Spec, ImplementsService, Service!Spec

=============================================================================
