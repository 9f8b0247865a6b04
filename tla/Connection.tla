----------------------------- MODULE Connection -----------------------------
(***************************************************************************)
(* One connection of the web server and the client at its other end: the   *)
(* handlers of Connection with the HttpProtocolHandler, RequestParser,     *)
(* ResponseWriter, TcpSource and TcpSinker they drive, on a socket whose   *)
(* send buffer fills up.                                                   *)
(*                                                                         *)
(* A connection belongs to one thread: a handler is one action.  Requests  *)
(* arrive in pieces; a piece is << request, number >>.  A byte of an       *)
(* answer is << request it answers, position, what it ends >>.             *)
(***************************************************************************)
EXTENDS Integers, Sequences

CONSTANTS Scripts,      \* what a client may have to send: sequences of requests
          Requests,     \* the requests in them
          HeadLen,      \* the bytes of an answer's header
          ErrorLen,     \* the bytes of an error answer's body
          Room          \* the bytes the send buffer of the socket holds

ASSUME RequestsAreRecords ==
    /\ Requests \subseteq [pieces : Nat \ {0}, bad : BOOLEAN, keep : BOOLEAN,
                           file : BOOLEAN, len : Nat]
    /\ Scripts \subseteq Seq(Requests)
ASSUME LengthsAreNumbers == {HeadLen, ErrorLen, Room} \subseteq Nat \ {0}

VARIABLES
    script,     \* the requests this client sends
    patient,    \* it sends a request when the one before has been answered
    next,       \* the piece it sends next
    peer,       \* the client's side: open, half (it has sent FIN), reset
    consumed,   \* the bytes it has read
    inbound,    \* the pieces in the receive buffer of the socket
    soError,    \* an error is pending on the socket
    wire,       \* the bytes written to the socket so far
    killed,     \* SIGPIPE has ended the server
    state,      \* Connection::state_
    proto,      \* HttpProtocolHandler::_state
    buffer,     \* RequestParser::_buffer, in pieces
    resp,       \* the response the writer is bound to
    writer      \* the writer's place in the header and in the body

client == << script, patient, next, peer, consumed >>
socket == << inbound, soError, wire, killed >>
server == << state, proto, buffer, resp, writer >>
vars   == << client, socket, server >>

NoResponse == [of |-> 0, keep |-> FALSE, file |-> FALSE, len |-> 0]
AtStart    == [head |-> 0, body |-> 0]

MaxOf(a, b) == IF a > b THEN a ELSE b
MinOf(a, b) == IF a < b THEN a ELSE b

TypeOK == /\ script \in Scripts
          /\ patient \in BOOLEAN
          /\ next \in Nat \X Nat
          /\ peer \in {"open", "half", "reset"}
          /\ consumed \in 0 .. Len(wire)
          /\ inbound \in Seq(Nat \X Nat)
          /\ soError \in BOOLEAN
          /\ wire \in Seq(Nat \X Nat \X {"more", "keep", "close"})
          /\ killed \in BOOLEAN
          /\ state \in {"READING", "WRITING", "CLOSING", "CLOSED"}
          /\ proto \in {"WaitingForHeaders", "SendingResponse", "Finished"}
          /\ buffer \in Seq(Nat \X Nat)
          /\ resp \in [of : Nat, keep : BOOLEAN, file : BOOLEAN, len : Nat]
          /\ writer.head \in 0 .. HeadLen
          /\ writer.body \in 0 .. (IF resp.file THEN 2 ELSE 1) * resp.len

Init == /\ script \in Scripts
        /\ patient \in BOOLEAN
        /\ next = << 1, 1 >>
        /\ peer = "open"
        /\ consumed = 0
        /\ inbound = << >>
        /\ soError = FALSE
        /\ wire = << >>
        /\ killed = FALSE
        /\ state = "READING"
        /\ proto = "WaitingForHeaders"
        /\ buffer = << >>
        /\ resp = NoResponse
        /\ writer = AtStart

-----------------------------------------------------------------------------
(* The client.  It sends pieces, reads, half-closes when it likes, or goes. *)

\* The client has read the end of the answer to request i.
Answered(i, end) == \E n \in 1 .. consumed : wire[n][1] = i /\ wire[n][3] = end

Following(p) == IF p[2] < script[p[1]].pieces THEN << p[1], p[2] + 1 >>
                                              ELSE << p[1] + 1, 1 >>

Send == /\ peer = "open" /\ state # "CLOSED"
        /\ next[1] \in DOMAIN script
        /\ patient /\ next[1] > 1 => Answered(next[1] - 1, "keep")
        /\ inbound' = Append(inbound, next)
        /\ next' = Following(next)
        /\ UNCHANGED << script, patient, peer, consumed, soError, wire, killed, server >>

Consume == /\ consumed < Len(wire)
           /\ consumed' = consumed + 1
           /\ UNCHANGED << script, patient, next, peer, socket, server >>

HalfClose == /\ peer = "open"
             /\ peer' = "half"
             /\ UNCHANGED << script, patient, next, consumed, socket, server >>

\* What was received is gone; the pending error is ECONNRESET, unless the FIN
\* came first: then the next write is a broken pipe.
Reset == /\ peer # "reset"
         /\ peer' = "reset"
         /\ inbound' = << >>
         /\ soError' = (peer = "open")
         /\ UNCHANGED << script, patient, next, consumed, wire, killed, server >>

-----------------------------------------------------------------------------
(* onReadable: the events of interest are Read in READING and in CLOSING.   *)

\* What parse may say of the pieces so far.  Of the end of a request whose
\* beginning was lost it can make nothing, or an error.
Parse(buf) == LET r == script[buf[1][1]] IN
              IF buf[1][2] # 1          THEN {"Parsing", "Error"}
              ELSE IF r.bad             THEN {"Error"}
              ELSE IF Len(buf) < r.pieces THEN {"Parsing"}
              ELSE {"Completed"}

\* handleRequest, or handleError: the connection stays open after an answer
\* below 400 to a client that wants it so; `keep` says both of the request.
Answer(i)      == [of |-> i, keep |-> script[i].keep,
                   file |-> script[i].file, len |-> script[i].len]
ErrorAnswer(i) == [of |-> i, keep |-> FALSE, file |-> FALSE, len |-> ErrorLen]

Bind(r) == /\ resp' = r
           /\ proto' = "SendingResponse"
           /\ UNCHANGED writer

\* Mutant: nothing is done about an answer that waits to be written.
UpdateStateForReading == CASE proto' = "WaitingForHeaders" -> state' = "READING"
                           [] proto' = "SendingResponse"   -> UNCHANGED state
                           [] proto' = "Finished" -> state' \in {"CLOSING", "CLOSED"}

\* updateStateFromProtocol, from the protocol's state after the handler.  The
\* peer may be gone when the socket is shut down for writing.
UpdateState == CASE proto' = "WaitingForHeaders" -> state' = "READING"
                 [] proto' = "SendingResponse"   -> state' = "WRITING"
                 [] proto' = "Finished"          -> state' \in {"CLOSING", "CLOSED"}

ReadData == /\ state = "READING"
            /\ \E k \in 1 .. Len(inbound) :
                 LET buf == buffer \o SubSeq(inbound, 1, k)
                     i   == buf[1][1]
                 IN  /\ inbound' = SubSeq(inbound, k + 1, Len(inbound))
                     /\ \/ /\ "Parsing" \in Parse(buf)
                           /\ buffer' = buf
                           /\ UNCHANGED << proto, resp, writer >>
                        \/ /\ "Completed" \in Parse(buf)
                           /\ buffer' = SubSeq(buf, script[i].pieces + 1, Len(buf))
                           /\ Bind(Answer(i))
                        \/ /\ "Error" \in Parse(buf)
                           /\ buffer' = Tail(buf)
                           /\ Bind(ErrorAnswer(i))
            /\ UpdateState
            /\ UNCHANGED << client, soError, wire, killed >>

AtEof == inbound = << >> /\ peer # "open" /\ ~soError

\* read() says EOF or fails: onReadEOF and CLOSED, or CLOSED.
ReadEnd == /\ state = "READING"
           /\ \/ AtEof /\ proto' = "Finished"
              \/ soError /\ UNCHANGED proto
           /\ state' = "CLOSED"
           /\ soError' = FALSE
           /\ UNCHANGED << client, inbound, wire, killed, buffer, resp, writer >>

\* Mutant: EOF is dropped, too.
DiscardAll == /\ state = "CLOSING"
              /\ \/ \E k \in 1 .. Len(inbound) :
                      /\ inbound' = SubSeq(inbound, k + 1, Len(inbound))
                      /\ UNCHANGED soError
                 \/ soError /\ soError' = FALSE /\ UNCHANGED inbound
              /\ UNCHANGED << client, wire, killed, state, proto, buffer, resp, writer >>

\* In CLOSING data and errors are dropped; EOF ends it.
Discard == /\ state = "CLOSING"
           /\ \/ \E k \in 1 .. Len(inbound) :
                   /\ inbound' = SubSeq(inbound, k + 1, Len(inbound))
                   /\ UNCHANGED << state, soError >>
              \/ soError /\ soError' = FALSE /\ UNCHANGED << state, inbound >>
              \/ AtEof /\ state' = "CLOSED" /\ UNCHANGED << inbound, soError >>
           /\ UNCHANGED << client, wire, killed, proto, buffer, resp, writer >>

-----------------------------------------------------------------------------
(* onWritable: the event of interest in WRITING.                            *)

Free == Room - (Len(wire) - consumed)

Byte(n) == << resp.of, n, IF n < HeadLen + resp.len THEN "more"
                          ELSE IF resp.keep THEN "keep" ELSE "close" >>

\* The bytes from position `from` + 1 on, k of them.
Bytes(from, k) == [n \in 1 .. k |-> Byte(from + n)]

\* sendfile(2) advances the offset, and TcpSinker::sendfile adds the bytes sent
\* once more; the count it asks for is the size of the file each time.
Advance(k) == IF resp.file THEN 2 * k ELSE k

\* What is left of the body: of the file, behind the offset.
BodyLeft == MaxOf(resp.len - writer.body, 0)

\* Mutant: a body that could not be written whole counts as sent.
BodyDoneAnyway(k) == k <= BodyLeft

\* The body is sent: write() took all that was left, or sendfile() all the file.
BodyDone(k) == k = IF resp.file THEN resp.len ELSE BodyLeft

\* Mutant: the writer is not reset.
ResetParserOnly == /\ proto' = "WaitingForHeaders"
                   /\ buffer' = << >>
                   /\ resp' = NoResponse
                   /\ writer' = [head |-> HeadLen, body |-> 0]

\* resetForNewRequest: what the parser still holds is dropped.
ResetForNewRequest == /\ proto' = "WaitingForHeaders"
                      /\ buffer' = << >>
                      /\ resp' = NoResponse
                      /\ writer' = AtStart

\* Mutant: the connection is kept open whatever the answer says.
KeptOpen == ResetForNewRequest

OnResponseFinished == IF resp.keep
                      THEN ResetForNewRequest
                      ELSE /\ proto' = "Finished"
                           /\ UNCHANGED << buffer, resp, writer >>

\* The bytes of the header and of the body that one call of writeTo gets rid
\* of: the body's turn comes in the same call.
HeadSent == MinOf(HeadLen - writer.head, Free)
BodySent == IF writer.head + HeadSent < HeadLen THEN 0
            ELSE MinOf(BodyLeft, Free - HeadSent)

Finishes == writer.head + HeadSent = HeadLen /\ BodyDone(BodySent)

WriteTo == /\ state = "WRITING" /\ peer # "reset" /\ Free > 0
           /\ wire' = wire \o Bytes(writer.head, HeadSent)
                           \o Bytes(HeadLen + writer.body, BodySent)
           /\ IF Finishes
              THEN OnResponseFinished
              ELSE /\ writer' = [head |-> writer.head + HeadSent,
                                 body |-> writer.body + Advance(BodySent)]
                   /\ UNCHANGED << proto, buffer, resp >>
           /\ UpdateState
           /\ UNCHANGED << client, inbound, soError, killed >>

\* The client is gone.  The write fails with the pending error, and else with
\* SIGPIPE, which nobody ignores.  (Nothing is written of a file whose end the
\* offset has passed.)
WriteFails == /\ state = "WRITING" /\ peer = "reset"
              /\ writer.head < HeadLen \/ BodyLeft > 0
              /\ \/ soError /\ state' = "CLOSED" /\ UNCHANGED killed
                 \/ ~soError /\ killed' = TRUE /\ UNCHANGED state
              /\ soError' = FALSE
              /\ UNCHANGED << client, inbound, wire, proto, buffer, resp, writer >>

OnReadable == ReadData \/ ReadEnd \/ Discard
OnWritable == WriteTo \/ WriteFails

Server == ~killed /\ (OnReadable \/ OnWritable)

Next == Send \/ Consume \/ HalfClose \/ Reset \/ Server

(***************************************************************************)
(* The reactor serves what is ready; the client sends what it has to send  *)
(* and reads what there is.                                                *)
(***************************************************************************)
Spec == Init /\ [][Next]_vars /\ WF_vars(Server) /\ WF_vars(Send) /\ WF_vars(Consume)

-----------------------------------------------------------------------------
(***************************************************************************)
(* b is a byte that may come after a: the next of the same answer, or the  *)
(* first of another answer if the connection was to stay open after a.  A  *)
(* client that waits for each answer gets that to its next request; of one *)
(* that does not, requests may be lost.                                    *)
(***************************************************************************)
Continues(a, b) == CASE a[3] = "more"  -> b[1] = a[1] /\ b[2] = a[2] + 1
                     [] a[3] = "keep"  -> /\ b[2] = 1 /\ b[1] > a[1]
                                          /\ patient => b[1] = a[1] + 1
                     [] a[3] = "close" -> FALSE

\* The answer with that byte has its body in memory.
InMemory(a) == ~script[a[1]].file

(***************************************************************************)
(* What the client reads are whole answers, one after the other, in the    *)
(* order of the requests and none left out for a client that waits,        *)
(* however little the socket takes at a time; after an answer that closes  *)
(* the connection nothing follows.  Within an answer that sends a file     *)
(* bytes may be missing: see NothingIsSkipped.                             *)
(***************************************************************************)
AnswersAreWhole ==
    /\ wire # << >> => wire[1][2] = 1 /\ (patient => wire[1][1] = 1)
    /\ \A n \in 1 .. Len(wire) - 1 :
          InMemory(wire[n]) \/ wire[n][3] # "more" => Continues(wire[n], wire[n + 1])

(***************************************************************************)
(* The server says FIN only after the last byte of an answer: closing      *)
(* never cuts an answer short, not even a file's.                          *)
(***************************************************************************)
FinAfterTheAnswer ==
    state = "CLOSING" => wire # << >> /\ wire[Len(wire)][3] = "close"

\* This client asks for nothing that is sent from a file.
AsksForNoFile == \A i \in DOMAIN script : ~script[i].file

\* The whole of request i has been sent.
Asked(i) == i \in DOMAIN script /\ next[1] > i

(***************************************************************************)
(* Each request of a client that waits for the answers is answered, also   *)
(* if the client half-closes its side meanwhile.                           *)
(***************************************************************************)
RequestsAreAnswered ==
    \A i \in UNION {DOMAIN s : s \in Scripts} :
        patient /\ AsksForNoFile /\ Asked(i)
            ~> Answered(i, "keep") \/ Answered(i, "close") \/ peer = "reset"

(***************************************************************************)
(* The connection of a client that has ended its side, by FIN or by RST,   *)
(* is closed: the wait in CLOSING, which has no timeout, ends with it.     *)
(***************************************************************************)
EndedClientIsLetGo ==
    AsksForNoFile /\ peer # "open" ~> state = "CLOSED" \/ killed

(***************************************************************************)
(* What the client may rely on, in the terms of AnsweringServer: a request *)
(* is asked with its first piece; it is being answered as long as the      *)
(* protocol is sending, and answered when the end of the answer is written *)
(* and the protocol is done with it; the server's side is closed when the  *)
(* connection says so, or the server is dead.                              *)
(***************************************************************************)
Begun     == IF next[2] = 1 THEN next[1] - 1 ELSE next[1]
Answering == IF proto = "SendingResponse" THEN resp.of ELSE 0
Answers   == {<< wire[n][1], wire[n][3] >> :
                n \in {m \in 1 .. Len(wire) : wire[m][3] # "more" /\ wire[m][1] # Answering}}
Closed    == state \in {"CLOSING", "CLOSED"} \/ killed

Promise == INSTANCE AnsweringServer WITH
             asked <- Begun, answering <- Answering, answered <- Answers, closed <- Closed

(***************************************************************************)
(* The handlers and the socket between them keep that promise: answers in  *)
(* order, each to a request that was asked, at most one each, none begun   *)
(* after one that closes, and one under way broken off only when the       *)
(* client has reset the connection.                                        *)
(***************************************************************************)
ImplementsServer == Promise!Spec

(***************************************************************************)
(* "Data not yet written is not lost" (doc/protocol-http.md:79): no byte   *)
(* of a body is left out, from memory or from a file.                      *)
(***************************************************************************)
NothingIsSkipped ==
    \A n \in 1 .. Len(wire) - 1 : Continues(wire[n], wire[n + 1])
=============================================================================
