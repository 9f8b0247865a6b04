-------------------------- MODULE ConnectionProofs --------------------------
(***************************************************************************)
(* Proofs about Connection, for every set of requests, every length of     *)
(* headers and bodies and every send buffer.                               *)
(***************************************************************************)
EXTENDS Connection, SequenceTheorems, TLAPS

(***************************************************************************)
(* The inductive invariant.  Closing follows the last byte of an answer    *)
(* because the writer, as long as the answer is not whole, has something   *)
(* left: a call of it that finds the answer whole has written its last     *)
(* byte, and not only seen that there was none.                            *)
(***************************************************************************)
Pieces == (1 .. Len(script)) \X Nat
Marks  == Nat \X Nat \X {"more", "keep", "close"}

Client == /\ script \in Seq(Requests)
          /\ next \in Nat \X Nat
          /\ consumed \in Nat

Socket == /\ inbound \in Seq(Pieces)
          /\ buffer \in Seq(Pieces)
          /\ wire \in Seq(Marks)

Server2 == /\ resp \in [of : Nat, keep : BOOLEAN, file : BOOLEAN, len : Nat]
           /\ writer \in [head : 0 .. HeadLen, body : Nat]

\* The connection's state follows the protocol's.
InStep == /\ state = "READING" => proto = "WaitingForHeaders" /\ writer = AtStart
          /\ state = "WRITING" => proto = "SendingResponse"

SomethingLeft == state = "WRITING" =>
                    \/ writer.head < HeadLen /\ writer.body = 0
                    \/ writer.head = HeadLen /\ resp.len > 0 /\ (resp.file \/ writer.body < resp.len)

ConnInv == Client /\ Socket /\ Server2 /\ InStep /\ SomethingLeft /\ FinAfterTheAnswer

-----------------------------------------------------------------------------
LEMMA ScriptedRequest ==
  ASSUME Client, NEW i \in 1 .. Len(script)
  PROVE  /\ script[i] \in Requests
         /\ script[i].pieces \in Nat \ {0} /\ script[i].len \in Nat
         /\ script[i].keep \in BOOLEAN /\ script[i].file \in BOOLEAN
  BY RequestsAreRecords DEF Client

\* The n-th byte from a place on, and no others.
LEMMA SentBytes ==
  ASSUME Server2, NEW from \in Nat, NEW k \in Nat
  PROVE  /\ Bytes(from, k) \in Seq(Marks)
         /\ Len(Bytes(from, k)) = k
         /\ \A n \in 1 .. k : Bytes(from, k)[n] = Byte(from + n)
  <1>1. ASSUME NEW n \in 1 .. k
        PROVE  Byte(from + n) \in Marks
    BY LengthsAreNumbers DEF Byte, Marks, Server2
  <1>2. Bytes(from, k) \in [1 .. k -> Marks]
    BY <1>1 DEF Bytes
  <1>3. Bytes(from, k) \in Seq(Marks)
    BY <1>2, SeqDef
  <1> QED
    BY <1>2, <1>3, LenProperties DEF Bytes

\* The last of three parts that holds anything ends the whole.
LEMMA EndOfThree ==
  \A S : \A w, f, g \in Seq(S) :
    /\ w \o f \o g \in Seq(S)
    /\ Len(w \o f \o g) = Len(w) + Len(f) + Len(g)
    /\ Len(g) > 0 => (w \o f \o g)[Len(w) + Len(f) + Len(g)] = g[Len(g)]
    /\ Len(g) = 0 /\ Len(f) > 0 => (w \o f \o g)[Len(w) + Len(f)] = f[Len(f)]
  <1> TAKE S
  <1> TAKE w, f, g \in Seq(S)
  <1>1. Len(w) \in Nat /\ Len(f) \in Nat /\ Len(g) \in Nat
    BY LenProperties
  <1>2. /\ w \o f \in Seq(S) /\ Len(w \o f) = Len(w) + Len(f)
        /\ \A i \in 1 .. Len(w) + Len(f) : (w \o f)[i] = IF i <= Len(w) THEN w[i] ELSE f[i - Len(w)]
    BY ConcatProperties
  <1>3. Len(f) > 0 => (w \o f)[Len(w) + Len(f)] = f[Len(f)]
    BY <1>1, <1>2
  <1> DEFINE wf == w \o f
  <1> HIDE DEF wf
  <1>4. /\ wf \o g \in Seq(S) /\ Len(wf \o g) = Len(wf) + Len(g)
        /\ \A i \in 1 .. Len(wf) + Len(g) : (wf \o g)[i] = IF i <= Len(wf) THEN wf[i] ELSE g[i - Len(wf)]
    BY <1>2, ConcatProperties DEF wf
  <1>5. Len(wf) = Len(w) + Len(f)
    BY <1>2 DEF wf
  <1>6. /\ Len(g) > 0 => (wf \o g)[Len(w) + Len(f) + Len(g)] = g[Len(g)]
        /\ Len(g) = 0 /\ Len(f) > 0 => (wf \o g)[Len(w) + Len(f)] = wf[Len(w) + Len(f)]
    BY <1>1, <1>4, <1>5
  <1> QED
    BY <1>3, <1>4, <1>5, <1>6 DEF wf

LEMMA Parts ==
  ASSUME NEW s \in Seq(Pieces), NEW j \in Nat \ {0}
  PROVE  SubSeq(s, j, Len(s)) \in Seq(Pieces)
  BY SubSeqProperties, ElementOfSeq, LenProperties

-----------------------------------------------------------------------------
LEMMA ConnInvInit == Init => ConnInv
  <1> SUFFICES ASSUME Init PROVE ConnInv
    OBVIOUS
  <1> USE DEF Init
  <1>1. Client
    BY RequestsAreRecords DEF Client
  <1>2. Socket /\ Server2
    BY LengthsAreNumbers DEF Socket, Server2, NoResponse, AtStart
  <1>3. InStep /\ SomethingLeft /\ FinAfterTheAnswer
    BY DEF InStep, SomethingLeft, FinAfterTheAnswer
  <1> QED
    BY <1>1, <1>2, <1>3 DEF ConnInv

\* The writer: what one call of it puts on the wire, and what it leaves.
LEMMA WriteKeepsInv ==
  ASSUME ConnInv, WriteTo
  PROVE  ConnInv'
  <1> USE LengthsAreNumbers DEF ConnInv
  <1> DEFINE h == writer.head
             b == writer.body
             first == Bytes(h, HeadSent)
             second == Bytes(HeadLen + b, BodySent)
  <1>1. /\ h \in 0 .. HeadLen /\ b \in Nat /\ resp.len \in Nat /\ resp.file \in BOOLEAN /\ resp.keep \in BOOLEAN
        /\ state = "WRITING" /\ Free > 0 /\ Free \in Int /\ wire \in Seq(Marks)
        /\ \/ h < HeadLen /\ b = 0
           \/ h = HeadLen /\ resp.len > 0 /\ (resp.file \/ b < resp.len)
    BY DEF WriteTo, Server2, Socket, SomethingLeft, Free, Client
  <1>2. /\ HeadSent \in Nat /\ h + HeadSent \in 0 .. HeadLen
        /\ h < HeadLen => HeadSent > 0
    BY <1>1 DEF HeadSent, MinOf
  <1>3. /\ BodyLeft \in Nat /\ (b < resp.len => BodyLeft = resp.len - b) /\ (b >= resp.len => BodyLeft = 0)
        /\ BodySent \in Nat /\ BodySent <= BodyLeft
        /\ h + HeadSent < HeadLen => BodySent = 0
    <2>1. /\ BodyLeft \in Nat /\ (b < resp.len => BodyLeft = resp.len - b)
          /\ (b >= resp.len => BodyLeft = 0)
      BY <1>1 DEF BodyLeft, MaxOf
    <2>2. Free - HeadSent \in Nat
      BY <1>1 DEF HeadSent, MinOf
    <2> QED
      BY <2>1, <2>2, <1>1, <1>2 DEF BodySent, MinOf
  <1>4. /\ first \in Seq(Marks) /\ Len(first) = HeadSent
        /\ \A n \in 1 .. HeadSent : first[n] = Byte(h + n)
        /\ second \in Seq(Marks) /\ Len(second) = BodySent
        /\ \A n \in 1 .. BodySent : second[n] = Byte(HeadLen + b + n)
    <2>1. h \in Nat /\ HeadLen + b \in Nat
      BY <1>1
    <2>2. Server2
      OBVIOUS
    <2> QED
      BY <2>1, <2>2, <1>2, <1>3, SentBytes
  <1>5. wire' = wire \o first \o second
    BY DEF WriteTo
  <1>6. /\ wire' \in Seq(Marks)
        /\ Len(wire') = Len(wire) + HeadSent + BodySent
        /\ BodySent > 0 => wire'[Len(wire')] = second[BodySent]
        /\ BodySent = 0 /\ HeadSent > 0 => wire'[Len(wire')] = first[HeadSent]
    <2> HIDE DEF first, second
    <2>1. Len(wire) \in Nat
      BY <1>1, LenProperties
    <2> QED
      <3>1. /\ wire \o first \o second \in Seq(Marks)
            /\ Len(wire \o first \o second) = Len(wire) + Len(first) + Len(second)
            /\ Len(second) > 0 =>
                 (wire \o first \o second)[Len(wire) + Len(first) + Len(second)] = second[Len(second)]
            /\ Len(second) = 0 /\ Len(first) > 0 =>
                 (wire \o first \o second)[Len(wire) + Len(first)] = first[Len(first)]
        <4>1. wire \in Seq(Marks) /\ first \in Seq(Marks) /\ second \in Seq(Marks)
          BY <1>1, <1>4
        <4> QED
          BY ONLY <4>1, EndOfThree, SMTT(30)
      <3>2. Len(first) = HeadSent /\ Len(second) = BodySent
        BY <1>4
      <3>3. /\ wire' \in Seq(Marks)
            /\ Len(wire') = Len(wire) + HeadSent + BodySent
            /\ BodySent > 0 => wire'[Len(wire) + HeadSent + BodySent] = second[BodySent]
            /\ BodySent = 0 /\ HeadSent > 0 => wire'[Len(wire) + HeadSent] = first[HeadSent]
        BY <1>5, <3>1, <3>2, Zenon
      <3> QED
        BY <2>1, <3>3, <1>2, <1>3
  <1>7. Client' /\ Socket'
    <2>1. UNCHANGED << script, next, consumed, inbound >> /\ buffer' \in {buffer, << >>}
      BY DEF WriteTo, client, OnResponseFinished, ResetForNewRequest
    <2>2. Pieces' = Pieces
      BY <2>1 DEF Pieces
    <2>3. Client'
      BY <2>1 DEF Client
    <2>4. << >> \in Seq(Pieces)
      BY EmptySeq
    <2> HIDE DEF first, second
    <2> QED
      BY <2>1, <2>2, <2>3, <2>4, <1>6 DEF Socket
  <1>8. CASE Finishes /\ resp.keep
    <2>1. proto' = "WaitingForHeaders" /\ state' = "READING" /\ resp' = NoResponse /\ writer' = AtStart
      BY <1>8 DEF WriteTo, OnResponseFinished, ResetForNewRequest, UpdateState
    <2> QED
      BY <1>7, <2>1 DEF Server2, NoResponse, AtStart, InStep, SomethingLeft, FinAfterTheAnswer
  <1>9. CASE Finishes /\ ~resp.keep
    <2>1. wire'[Len(wire')][3] = "close" /\ Len(wire') > 0
      <3>1. CASE BodySent > 0
        <4>1. wire'[Len(wire')] = Byte(HeadLen + b + BodySent)
          <5> HIDE DEF first, second
          <5> QED
            BY <3>1, <1>3, <1>4, <1>6
        <4>2. HeadLen + b + BodySent >= HeadLen + resp.len
          BY <1>1, <1>3, <1>9, <3>1 DEF Finishes, BodyDone
        <4> QED
          <5>1. Byte(HeadLen + b + BodySent)[3] = "close"
            BY <4>2, <1>1, <1>3, <1>9 DEF Byte
          <5>2. Len(wire) \in Nat
            BY <1>1, LenProperties
          <5> QED
            BY <4>1, <5>1, <5>2, <1>2, <1>3, <1>6, <3>1
      <3>2. CASE BodySent = 0
        <4>1. h < HeadLen /\ resp.len = 0 /\ h + HeadSent = HeadLen
          BY <1>1, <1>2, <1>3, <1>9, <3>2 DEF Finishes, BodyDone
        <4>2. wire'[Len(wire')] = Byte(HeadLen)
          <5> HIDE DEF first, second
          <5> QED
            BY <4>1, <1>1, <1>2, <1>4, <1>6, <3>2
        <4> QED
          BY <4>1, <4>2, <1>1, <1>2, <1>6, <1>9, <3>2, LenProperties DEF Byte
      <3> QED
        BY <3>1, <3>2, <1>3
    <2>2. FinAfterTheAnswer'
      BY <2>1, <1>6, EmptySeq DEF FinAfterTheAnswer
    <2>3. state' \in {"CLOSING", "CLOSED"} /\ UNCHANGED << resp, writer >>
      BY <1>9 DEF WriteTo, OnResponseFinished, UpdateState
    <2> QED
      BY <1>7, <2>2, <2>3 DEF Server2, InStep, SomethingLeft
  <1>10. CASE ~Finishes
    <2>1. /\ writer' = [head |-> h + HeadSent, body |-> b + Advance(BodySent)]
          /\ UNCHANGED << proto, buffer, resp >> /\ state' = "WRITING"
      BY <1>10, <1>1 DEF WriteTo, UpdateState, InStep
    <2>2. Advance(BodySent) \in Nat /\ (~resp.file => Advance(BodySent) = BodySent)
      BY <1>1, <1>3 DEF Advance
    <2>3. Server2' /\ InStep' /\ FinAfterTheAnswer'
      <3>1. proto = "SendingResponse" /\ resp \in [of : Nat, keep : BOOLEAN, file : BOOLEAN, len : Nat]
        BY <1>1 DEF InStep, Server2
      <3>2. h + HeadSent \in 0 .. HeadLen /\ b + Advance(BodySent) \in Nat
        BY <1>1, <1>2, <2>2
      <3>3. writer' \in [head : 0 .. HeadLen, body : Nat]
        BY ONLY <3>2, <2>1
      <3>4. proto' = "SendingResponse" /\ state' = "WRITING" /\ resp' = resp
        BY ONLY <2>1, <3>1
      <3> QED
        BY ONLY <3>1, <3>3, <3>4 DEF Server2, InStep, FinAfterTheAnswer
    <2>4. SomethingLeft'
      <3>1. CASE h + HeadSent < HeadLen
        BY <1>1, <1>2, <1>3, <2>1, <3>1 DEF SomethingLeft, Advance
      <3>2. CASE h + HeadSent = HeadLen
        <4>1. BodySent # IF resp.file THEN resp.len ELSE BodyLeft
          BY <1>10, <3>2 DEF Finishes, BodyDone
        <4>2. resp.len > 0 /\ (~resp.file => b + BodySent < resp.len)
          BY <4>1, <1>1, <1>3
        <4> QED
          BY <4>2, <1>1, <1>2, <2>1, <2>2, <3>2 DEF SomethingLeft
      <3> QED
        BY <1>1, <1>2, <3>1, <3>2
    <2> QED
      BY <1>7, <2>3, <2>4
  <1> QED
    BY <1>1, <1>8, <1>9, <1>10

\* A request is read: in the buffer are pieces of the script, in the answer what
\* the script says of the request.
LEMMA ReadKeepsInv ==
  ASSUME ConnInv, ReadData
  PROVE  ConnInv'
  <1> USE DEF ConnInv
  <1>1. PICK k \in 1 .. Len(inbound) :
          LET buf == buffer \o SubSeq(inbound, 1, k)
              i   == buf[1][1]
          IN  /\ inbound' = SubSeq(inbound, k + 1, Len(inbound))
              /\ \/ "Parsing" \in Parse(buf) /\ buffer' = buf /\ UNCHANGED << proto, resp, writer >>
                 \/ /\ "Completed" \in Parse(buf) /\ Bind(Answer(i))
                    /\ buffer' = SubSeq(buf, script[i].pieces + 1, Len(buf))
                 \/ "Error" \in Parse(buf) /\ buffer' = Tail(buf) /\ Bind(ErrorAnswer(i))
    BY DEF ReadData
  <1> DEFINE taken == SubSeq(inbound, 1, k)
             buf == buffer \o taken
             i == buf[1][1]
  <1>2. inbound \in Seq(Pieces) /\ buffer \in Seq(Pieces) /\ Len(inbound) \in Nat /\ Len(buffer) \in Nat
    BY LenProperties DEF Socket
  <1>3. taken \in Seq(Pieces) /\ Len(taken) = k
    BY <1>2, SubSeqProperties, ElementOfSeq
  <1>4. buf \in Seq(Pieces) /\ Len(buf) = Len(buffer) + k
    BY <1>2, <1>3, ConcatProperties
  <1> HIDE DEF taken, buf
  <1>5. buf[1] \in Pieces /\ i \in 1 .. Len(script) /\ buf # << >>
    BY <1>2, <1>4, ElementOfSeq, EmptySeq DEF Pieces
  <1>6. UNCHANGED << script, next, consumed, wire >>
    BY DEF ReadData, client
  <1>7. inbound' \in Seq(Pieces)
    <2>1. inbound' = SubSeq(inbound, k + 1, Len(inbound))
      BY <1>1
    <2> QED
      BY <1>2, <2>1, Parts
  <1>8. /\ script[i].pieces + 1 \in Nat \ {0}
        /\ Answer(i) \in [of : Nat, keep : BOOLEAN, file : BOOLEAN, len : Nat]
        /\ ErrorAnswer(i) \in [of : Nat, keep : BOOLEAN, file : BOOLEAN, len : Nat]
    <2>1. /\ script[i].pieces \in Nat \ {0} /\ script[i].len \in Nat
          /\ script[i].keep \in BOOLEAN /\ script[i].file \in BOOLEAN
      BY <1>5, ScriptedRequest
    <2>2. i \in Nat
      BY <1>5, LenProperties DEF Client
    <2> HIDE DEF i
    <2> QED
      BY <2>1, <2>2, LengthsAreNumbers DEF Answer, ErrorAnswer
  <1>9. buffer' \in Seq(Pieces) /\ resp' \in [of : Nat, keep : BOOLEAN, file : BOOLEAN, len : Nat]
    <2>1. SubSeq(buf, script[i].pieces + 1, Len(buf)) \in Seq(Pieces) /\ Tail(buf) \in Seq(Pieces)
      BY <1>4, <1>5, <1>8, Parts, HeadTailProperties
    <2>2. buffer' \in {buf, SubSeq(buf, script[i].pieces + 1, Len(buf)), Tail(buf)}
      BY <1>1 DEF buf, taken
    <2>3. resp' \in {resp, Answer(i), ErrorAnswer(i)}
      BY <1>1 DEF buf, taken, Bind
    <2> QED
      BY <1>4, <1>8, <2>1, <2>2, <2>3 DEF Server2
  <1>10. /\ writer' = AtStart
         /\ \/ proto' = "WaitingForHeaders" /\ state' = "READING"
            \/ proto' = "SendingResponse" /\ state' = "WRITING"
    BY <1>1 DEF ReadData, UpdateState, Bind, InStep
  <1>11. Client' /\ Socket'
    BY <1>6, <1>7, <1>9 DEF Client, Socket, Pieces
  <1>12. Server2' /\ InStep' /\ SomethingLeft' /\ FinAfterTheAnswer'
    BY <1>9, <1>10, LengthsAreNumbers DEF Server2, InStep, SomethingLeft, FinAfterTheAnswer, AtStart
  <1> QED
    BY <1>11, <1>12

LEMMA ConnInvStep ==
  ASSUME ConnInv, [Next]_vars
  PROVE  ConnInv'
  <1> USE DEF ConnInv
  <1>1. CASE Send
    <2>1. next[1] \in 1 .. Len(script) /\ next \in Nat \X Nat /\ inbound \in Seq(Pieces)
      BY <1>1, LenProperties DEF Send, Client, Socket
    <2>2. next = << next[1], next[2] >>
      BY <2>1
    <2>3. next \in Pieces
      BY <2>1, <2>2 DEF Pieces
    <2>4. Following(next) \in Nat \X Nat
      BY <2>1 DEF Following
    <2>5. inbound' \in Seq(Pieces) /\ next' \in Nat \X Nat
      BY <1>1, <2>1, <2>3, <2>4, AppendProperties DEF Send
    <2> QED
      BY <1>1, <2>5 DEF Send, server, Client, Socket, Server2, Pieces, InStep, SomethingLeft, FinAfterTheAnswer
  <1>2. CASE Consume \/ HalfClose
    <2>1. UNCHANGED << script, next, socket, server >> /\ consumed' \in {consumed, consumed + 1}
      BY <1>2 DEF Consume, HalfClose
    <2>2. Client'
      BY <2>1 DEF Client
    <2>3. Socket'
      BY <2>1 DEF Socket, socket, server, Pieces
    <2>4. Server2' /\ InStep' /\ SomethingLeft' /\ FinAfterTheAnswer'
      BY <2>1 DEF socket, server, Server2, InStep, SomethingLeft, FinAfterTheAnswer
    <2> QED
      BY <2>2, <2>3, <2>4
  <1>3. CASE Reset
    BY <1>3, EmptySeq DEF Reset, server, Client, Socket, Server2, Pieces, InStep, SomethingLeft,
                          FinAfterTheAnswer
  <1>4. CASE ReadEnd \/ WriteFails
    <2>1. /\ UNCHANGED << client, inbound, wire, buffer, resp, writer >>
          /\ state' = "CLOSED" \/ UNCHANGED << state, proto >>
      BY <1>4 DEF ReadEnd, WriteFails
    <2> QED
      BY <2>1 DEF client, Client, Socket, Server2, Pieces, InStep, SomethingLeft, FinAfterTheAnswer
  <1>5. CASE Discard
    <2>1. \/ UNCHANGED inbound
          \/ \E k \in 1 .. Len(inbound) : inbound' = SubSeq(inbound, k + 1, Len(inbound))
      BY <1>5 DEF Discard
    <2>2. inbound \in Seq(Pieces) /\ Len(inbound) \in Nat
      BY LenProperties DEF Socket
    <2>3. inbound' \in Seq(Pieces)
      <3>1. ASSUME NEW k \in 1 .. Len(inbound), inbound' = SubSeq(inbound, k + 1, Len(inbound))
            PROVE  inbound' \in Seq(Pieces)
        <4>1. k + 1 \in Nat \ {0}
          BY <2>2
        <4> QED
          BY <2>2, <3>1, <4>1, Parts
      <3> QED
        BY <2>1, <2>2, <3>1
    <2>4. /\ UNCHANGED << client, wire, buffer, resp, writer, proto >>
          /\ state = "CLOSING" /\ state' \in {"CLOSING", "CLOSED"}
      BY <1>5 DEF Discard
    <2> QED
      BY <2>3, <2>4 DEF client, Client, Socket, Server2, Pieces, InStep, SomethingLeft, FinAfterTheAnswer
  <1>6. CASE UNCHANGED vars
    BY <1>6 DEF vars, client, socket, server, Client, Socket, Server2, Pieces, InStep, SomethingLeft,
                FinAfterTheAnswer
  <1> QED
    BY <1>1, <1>2, <1>3, <1>4, <1>5, <1>6, ReadKeepsInv, WriteKeepsInv
       DEF Next, Server, OnReadable, OnWritable

-----------------------------------------------------------------------------
(***************************************************************************)
(* The server says FIN only after the last byte of an answer, whatever the *)
(* lengths and however little the socket takes at a time                   *)
(* (Connection.cc:99, ResponseWriter.cc:24).                               *)
(***************************************************************************)
THEOREM ClosesAfterTheAnswer == Spec => []FinAfterTheAnswer
  <1>1. ConnInv => FinAfterTheAnswer
    BY DEF ConnInv
  <1> QED
    BY ConnInvInit, ConnInvStep, <1>1, PTL DEF Spec

-----------------------------------------------------------------------------
(***************************************************************************)
(* The order of the answers.  The pieces that wait, in the parser's buffer *)
(* and then in the socket's, follow each other as the client has sent      *)
(* them, and belong to requests after the one that is being answered, or   *)
(* was the last: the parser drops only pieces of the request that it has   *)
(* understood.  A client that waits has at most one request there.         *)
(***************************************************************************)
Queue(n) == IF n <= Len(buffer) THEN buffer[n] ELSE inbound[n - Len(buffer)]
Waiting  == Len(buffer) + Len(inbound)

\* The request answered last, or being answered.
LastOf  == IF wire = << >> THEN 0 ELSE wire[Len(wire)][1]
Current == IF state = "WRITING" THEN resp.of ELSE LastOf

\* q is sent d pieces after p, if it is of the same request.
Precedes(p, q, d) == p[1] < q[1] \/ (p[1] = q[1] /\ q[2] = p[2] + d)

InOrder ==
  /\ \A n \in 1 .. Waiting : Queue(n)[2] \in 1 .. script[Queue(n)[1]].pieces
  /\ \A m, n \in 1 .. Waiting : m < n => Precedes(Queue(m), Queue(n), n - m)
  /\ peer # "reset" => \A n \in 1 .. Waiting : Precedes(Queue(n), next, Waiting + 1 - n)

Behind(c) ==
  /\ \A n \in 1 .. Waiting : Queue(n)[1] > c /\ (patient => Queue(n)[1] <= c + 1)
  /\ peer # "reset" => next[1] > c

\* More requests may be answered.
Goes == state = "READING" \/ (state = "WRITING" /\ resp.keep)
Line == Goes => InOrder /\ Behind(Current)

Sending ==
  /\ next[1] > 0 /\ (next[1] \in 1 .. Len(script) => next[2] \in 1 .. script[next[1]].pieces)
  /\ consumed <= Len(wire)

\* The last byte on the wire is the one before the writer's place, and before the
\* first of an answer it ends another that keeps the connection open.  The offset in
\* a file may have passed its end: then no byte of it follows.
AtPlace ==
  /\ state = "READING" /\ wire # << >> => wire[Len(wire)][3] = "keep"
  /\ state = "WRITING" /\ writer.head = 0 =>
       /\ wire # << >> => wire[Len(wire)][3] = "keep"
       /\ resp.of > LastOf /\ (patient => resp.of = LastOf + 1)
  /\ state = "WRITING" /\ writer.head > 0 =>
       /\ wire # << >> /\ LastOf = resp.of
       /\ ~resp.file => wire[Len(wire)][2] = writer.head + writer.body /\ wire[Len(wire)][3] = "more"
       /\ resp.file => \/ wire[Len(wire)][3] = "more"
                       \/ writer.head = HeadLen /\ writer.body >= resp.len

OnWire ==
  /\ state \in {"READING", "WRITING"} => \A n \in 1 .. Len(wire) : wire[n][1] <= Current
  /\ state = "WRITING" => resp.of \in 1 .. Len(script) /\ (resp.file => script[resp.of].file)

OrderInv == Sending /\ Line /\ AtPlace /\ OnWire /\ AnswersAreWhole

-----------------------------------------------------------------------------
LEMMA OrderInvInit == Init => OrderInv
  <1> SUFFICES ASSUME Init PROVE OrderInv
    OBVIOUS
  <1> USE DEF Init
  <1>1. Len(buffer) = 0 /\ Len(inbound) = 0 /\ Len(wire) = 0 /\ Waiting = 0 /\ next[1] = 1 /\ next[2] = 1
    BY DEF Waiting
  <1>2. Sending
    <2>1. 1 \in 1 .. Len(script) => script[1].pieces \in Nat \ {0}
      BY RequestsAreRecords
    <2> QED
      BY <1>1, <2>1 DEF Sending
  <1>3. Current = 0 /\ Line
    BY <1>1 DEF Line, InOrder, Behind, Current, LastOf
  <1>4. AtPlace /\ OnWire /\ AnswersAreWhole
    BY <1>1 DEF AtPlace, OnWire, AnswersAreWhole
  <1> QED
    BY <1>2, <1>3, <1>4 DEF OrderInv

LEMMA QueueTypes ==
  ASSUME ConnInv
  PROVE  /\ Len(buffer) \in Nat /\ Len(inbound) \in Nat /\ Len(wire) \in Nat /\ Waiting \in Nat
         /\ \A n \in 1 .. Waiting : Queue(n)[1] \in 1 .. Len(script) /\ Queue(n)[2] \in Nat
         /\ \A n \in 1 .. Len(wire) : wire[n] \in Marks /\ wire[n][1] \in Nat
         /\ next[1] \in Nat /\ next[2] \in Nat /\ Len(script) \in Nat /\ consumed \in Nat
         /\ LastOf \in Nat /\ resp.of \in Nat /\ Current \in Nat
  <1> USE DEF ConnInv
  <1>1. /\ Len(buffer) \in Nat /\ Len(inbound) \in Nat /\ Len(wire) \in Nat /\ Waiting \in Nat
        /\ next[1] \in Nat /\ next[2] \in Nat /\ Len(script) \in Nat /\ consumed \in Nat
    BY LenProperties DEF Socket, Client, Waiting
  <1>2. ASSUME NEW n \in 1 .. Waiting
        PROVE  Queue(n)[1] \in 1 .. Len(script) /\ Queue(n)[2] \in Nat
    <2>1. n <= Len(buffer) => buffer[n] \in Pieces
      BY <1>1, ElementOfSeq DEF Socket
    <2>2. n > Len(buffer) => inbound[n - Len(buffer)] \in Pieces
      BY <1>1, ElementOfSeq DEF Socket, Waiting
    <2>3. Queue(n) \in Pieces
      BY <1>1, <2>1, <2>2 DEF Queue
    <2> QED
      BY <2>3 DEF Pieces
  <1>3. ASSUME NEW n \in 1 .. Len(wire)
        PROVE  wire[n] \in Marks /\ wire[n][1] \in Nat
    <2>1. wire[n] \in Marks
      BY <1>1, ElementOfSeq DEF Socket
    <2> QED
      BY <2>1 DEF Marks
  <1>4. LastOf \in Nat
    BY <1>1, <1>3, EmptySeq DEF LastOf, Socket
  <1>5. resp.of \in Nat
    BY DEF Server2
  <1> QED
    BY <1>1, <1>2, <1>3, <1>4, <1>5 DEF Current

\* What is taken from the head of the queue leaves the others in order.
LEMMA TakenFromHead ==
  ASSUME ConnInv, Waiting' \in Nat, InOrder, NEW d \in Nat, UNCHANGED << script, next >>,
         Waiting' = Waiting - d, peer' # "reset" => peer # "reset",
         \A n \in 1 .. Waiting' : Queue(n)' = Queue(n + d)
  PROVE  InOrder'
  <1>1. Waiting \in Nat /\ Waiting' \in Nat
    <2>1. Waiting \in Nat
      BY QueueTypes
    <2> QED
      BY <2>1
  <1>2. ASSUME NEW n \in 1 .. Waiting'
        PROVE  Queue(n)'[2] \in 1 .. script[Queue(n)'[1]].pieces
    BY <1>1, <1>2 DEF InOrder
  <1>4. ASSUME NEW m \in 1 .. Waiting', NEW n \in 1 .. Waiting', m < n
        PROVE  Precedes(Queue(m)', Queue(n)', n - m)
    <2>1. /\ m + d \in 1 .. Waiting /\ n + d \in 1 .. Waiting /\ m + d < n + d
          /\ (n + d) - (m + d) = n - m
      BY <1>1, <1>4
    <2>2. Precedes(Queue(m + d), Queue(n + d), (n + d) - (m + d))
      BY <2>1 DEF InOrder
    <2> QED
      BY <2>1, <2>2
  <1>5. ASSUME NEW n \in 1 .. Waiting', peer' # "reset"
        PROVE  Precedes(Queue(n)', next, Waiting' + 1 - n)
    <2>1. n + d \in 1 .. Waiting /\ Waiting + 1 - (n + d) = Waiting' + 1 - n
      BY <1>1, <1>5
    <2>2. Precedes(Queue(n + d), next, Waiting + 1 - (n + d))
      BY <1>5, <2>1 DEF InOrder
    <2> QED
      BY <2>1, <2>2
  <1> QED
    BY <1>2, <1>4, <1>5 DEF InOrder, Precedes


\* Those of them that the client's step leaves as they were.
LEMMA SameLine ==
  ASSUME ConnInv, Line, UNCHANGED << script, patient, next, inbound, buffer, state, resp, wire >>,
         peer' # "reset" => peer # "reset"
  PROVE  Line'
  <1>1. Goes' => Goes
    BY DEF Goes
  <1>2. Waiting' = Waiting /\ \A n : Queue(n)' = Queue(n)
    BY DEF Waiting, Queue
  <1>3. Current' = Current
    BY DEF Current, LastOf
  <1> QED
    BY <1>1, <1>2, <1>3 DEF Line, InOrder, Behind

\* A step that leaves the wire, and what is known of it, alone.
LEMMA SameWire ==
  ASSUME ConnInv, AtPlace, OnWire, AnswersAreWhole,
         UNCHANGED << script, patient, state, resp, writer, wire >>
  PROVE  AtPlace' /\ OnWire' /\ AnswersAreWhole'
  <1>1. AtPlace'
    BY DEF AtPlace, LastOf
  <1>2. OnWire'
    BY DEF OnWire, Current, LastOf
  <1>3. AnswersAreWhole'
    BY DEF AnswersAreWhole, InMemory, Continues
  <1> QED
    BY <1>1, <1>2, <1>3

LEMMA SendKeepsOrder ==
  ASSUME ConnInv, OrderInv, Send
  PROVE  OrderInv'
  <1> USE DEF OrderInv
  <1>1. /\ peer = "open" /\ peer' = "open" /\ next[1] \in 1 .. Len(script)
        /\ patient /\ next[1] > 1 => Answered(next[1] - 1, "keep")
        /\ inbound' = Append(inbound, next) /\ next' = Following(next)
        /\ UNCHANGED << script, patient, consumed, wire, buffer, state, resp, writer >>
    BY LenProperties DEF Send, server, ConnInv, Client
  <1>2. AtPlace' /\ OnWire' /\ AnswersAreWhole'
    BY <1>1, SameWire
  <1>3. script[next[1]].pieces \in Nat \ {0} /\ next[2] \in 1 .. script[next[1]].pieces
    BY <1>1, ScriptedRequest DEF ConnInv, Sending
  <1>4. \/ next' = << next[1], next[2] + 1 >> /\ next[2] + 1 \in 1 .. script[next[1]].pieces
        \/ next' = << next[1] + 1, 1 >>
    BY <1>1, <1>3 DEF Following
  <1>5. next[1] \in Nat /\ next[2] \in Nat /\ Len(script) \in Nat /\ Waiting \in Nat /\ Len(buffer) \in Nat
        /\ Len(inbound) \in Nat /\ Len(wire) \in Nat /\ consumed \in Nat /\ Current \in Nat
    BY QueueTypes
  <1>6. Sending'
    <2>1. next'[1] \in 1 .. Len(script) => next'[2] \in 1 .. script[next'[1]].pieces
      <3>1. CASE next' = << next[1], next[2] + 1 >> /\ next[2] + 1 \in 1 .. script[next[1]].pieces
        BY <3>1
      <3>2. CASE next' = << next[1] + 1, 1 >>
        <4>1. ASSUME next[1] + 1 \in 1 .. Len(script) PROVE 1 \in 1 .. script[next[1] + 1].pieces
          BY <4>1, ScriptedRequest DEF ConnInv
        <4> QED
          BY <3>2, <4>1
      <3> QED
        BY <1>4, <3>1, <3>2
    <2>2. next'[1] > 0
      BY <1>4, <1>5 DEF Sending
    <2> QED
      BY <1>1, <2>1, <2>2 DEF Sending
  <1>7. /\ Waiting' = Waiting + 1 /\ \A n \in 1 .. Waiting : Queue(n)' = Queue(n)
        /\ \A n : n = Waiting + 1 => Queue(n)' = next
    <2>1. inbound \in Seq(Pieces)
      BY DEF ConnInv, Socket
    <2>2. /\ Len(inbound') = Len(inbound) + 1 /\ inbound'[Len(inbound) + 1] = next
          /\ \A n \in 1 .. Len(inbound) : inbound'[n] = inbound[n]
      BY <1>1, <2>1
    <2>3. Waiting' = Waiting + 1
      BY <1>1, <1>5, <2>2 DEF Waiting
    <2>4. ASSUME NEW n \in 1 .. Waiting PROVE Queue(n)' = Queue(n)
      BY <1>1, <1>5, <2>2 DEF Queue, Waiting
    <2>5. ASSUME NEW n, n = Waiting + 1 PROVE Queue(n)' = next
      <3>1. Len(buffer') = Len(buffer) /\ ~(n <= Len(buffer)) /\ n - Len(buffer) = Len(inbound) + 1
        BY <1>1, <1>5, <2>5 DEF Waiting
      <3> QED
        BY <1>1, <2>2, <3>1 DEF Queue
    <2> QED
      BY <2>3, <2>4, <2>5
  <1>8. ASSUME Goes PROVE InOrder' /\ Behind(Current)'
    <2>1. InOrder /\ Behind(Current)
      BY <1>8 DEF Line
    <2>2. \A n \in 1 .. Waiting : Queue(n)[1] \in Nat /\ Queue(n)[2] \in Nat
      BY QueueTypes
    <2>3. \A n \in 1 .. Waiting : Precedes(Queue(n), next, Waiting + 1 - n)
      BY <1>1, <2>1 DEF InOrder
    <2>4. ASSUME NEW n \in 1 .. Waiting + 1 PROVE Queue(n)'[2] \in 1 .. script[Queue(n)'[1]].pieces
      <3>1. CASE n = Waiting + 1
        BY <1>3, <1>7, <3>1
      <3>2. CASE n # Waiting + 1
        BY <1>5, <1>7, <2>1, <3>2 DEF InOrder
      <3> QED
        BY <3>1, <3>2
    <2>5. ASSUME NEW m \in 1 .. Waiting + 1, NEW n \in 1 .. Waiting + 1, m < n
          PROVE  Precedes(Queue(m)', Queue(n)', n - m)
      <3>1. m \in 1 .. Waiting
        BY <1>5, <2>5
      <3>2. CASE n = Waiting + 1
        <4>1. Queue(m)' = Queue(m)
          BY <1>7, <3>1
        <4>2. n - m = Waiting + 1 - m
          BY <1>5, <3>1, <3>2
        <4>3. Queue(n)' = next
          BY <1>7, <3>2
        <4> QED
          BY <2>3, <3>1, <4>1, <4>2, <4>3
      <3>3. CASE n # Waiting + 1
        <4>1. n \in 1 .. Waiting
          BY <1>5, <3>3
        <4> QED
          BY <1>7, <2>1, <2>5, <3>1, <4>1 DEF InOrder
      <3> QED
        BY <3>2, <3>3
    <2>6. ASSUME NEW n \in 1 .. Waiting + 1 PROVE Precedes(Queue(n)', next', Waiting + 2 - n)
      <3>1. CASE n = Waiting + 1
        BY <1>4, <1>5, <1>7, <3>1 DEF Precedes
      <3>2. CASE n # Waiting + 1
        <4>1. n \in 1 .. Waiting
          BY <1>5, <3>2
        <4>2. Precedes(Queue(n), next, Waiting + 1 - n)
          BY <2>3, <4>1
        <4>3. Waiting + 2 - n = (Waiting + 1 - n) + 1
          BY <1>5
        <4>4. Queue(n)[1] \in Nat /\ Queue(n)[2] \in Nat /\ Queue(n)' = Queue(n)
          BY <1>7, <2>2, <4>1
        <4> QED
          BY <1>4, <1>5, <4>2, <4>3, <4>4 DEF Precedes
      <3> QED
        BY <3>1, <3>2
    <2>7. InOrder'
      <3>1. Waiting' = Waiting + 1 /\ script' = script /\ peer' = peer
        BY <1>1, <1>7
      <3>2. \A n \in 1 .. Waiting' : Queue(n)'[2] \in 1 .. script'[Queue(n)'[1]].pieces
        BY <2>4, <3>1
      <3>3. \A m, n \in 1 .. Waiting' : m < n => Precedes(Queue(m)', Queue(n)', n - m)
        BY <2>5, <3>1
      <3>4. ASSUME NEW n \in 1 .. Waiting' PROVE Precedes(Queue(n)', next', Waiting' + 1 - n)
        <4>1. Waiting' + 1 - n = Waiting + 2 - n /\ n \in 1 .. Waiting + 1
          BY <1>5, <3>1, <3>4
        <4> QED
          BY <2>6, <4>1
      <3> QED
        BY <3>2, <3>3, <3>4 DEF InOrder, Precedes
    \* All that the client has read was answered before.
    <2>8. patient => next[1] <= Current + 1
      <3>1. CASE next[1] > 1
        <4>1. ASSUME patient PROVE next[1] - 1 <= Current
          <5>1. PICK n \in 1 .. consumed : wire[n][1] = next[1] - 1
            BY <1>1, <3>1, <4>1 DEF Answered
          <5>2. n \in 1 .. Len(wire)
            BY <1>5 DEF Sending
          <5> QED
            BY <1>8, <5>1, <5>2 DEF OnWire, Goes
        <4> QED
          BY <1>5, <4>1
      <3>2. CASE ~(next[1] > 1)
        BY <1>5, <3>2
      <3> QED
        BY <3>1, <3>2
    <2>9. Current' = Current
      BY <1>1 DEF Current, LastOf
    <2>10. next[1] > Current /\ next'[1] > Current
      BY <1>1, <1>4, <1>5, <2>1 DEF Behind
    <2>11. ASSUME NEW n \in 1 .. Waiting + 1
           PROVE  Queue(n)'[1] > Current /\ (patient => Queue(n)'[1] <= Current + 1)
      <3>1. CASE n = Waiting + 1
        BY <1>7, <2>8, <2>10, <3>1
      <3>2. CASE n # Waiting + 1
        BY <1>5, <1>7, <2>1, <3>2 DEF Behind
      <3> QED
        BY <3>1, <3>2
    <2> QED
      BY <1>1, <1>7, <2>7, <2>9, <2>10, <2>11 DEF Behind
  <1>9. Line'
    BY <1>1, <1>8 DEF Line, Goes
  <1> QED
    BY <1>2, <1>6, <1>9


LEMMA ClientKeepsOrder ==
  ASSUME ConnInv, OrderInv, Consume \/ HalfClose \/ Reset
  PROVE  OrderInv'
  <1> USE DEF OrderInv
  <1>1. /\ UNCHANGED << script, patient, next, wire, buffer, state, resp, writer >>
        /\ peer' # "reset" => peer # "reset"
        /\ consumed' = consumed \/ (consumed < Len(wire) /\ consumed' = consumed + 1)
    BY DEF Consume, HalfClose, Reset, socket, server
  <1>2. AtPlace' /\ OnWire' /\ AnswersAreWhole'
    BY <1>1, SameWire
  <1>3. Sending'
    BY <1>1, QueueTypes DEF Sending
  <1>4. CASE UNCHANGED inbound
    BY <1>1, <1>2, <1>3, <1>4, SameLine
  <1>5. CASE Reset
    <2>1. peer' = "reset" /\ inbound' = << >> /\ Len(inbound') = 0
      BY <1>5 DEF Reset
    <2>2. Waiting' = Len(buffer) /\ Len(buffer) \in Nat /\ Len(inbound) \in Nat
      BY <1>1, <2>1, QueueTypes DEF Waiting
    <2>3. \A n \in 1 .. Waiting' : Queue(n)' = Queue(n) /\ n \in 1 .. Waiting
      BY <1>1, <2>2 DEF Queue, Waiting
    <2>4. Current' = Current /\ (Goes' => Goes)
      BY <1>1 DEF Current, LastOf, Goes
    <2>5. ASSUME Goes PROVE InOrder' /\ Behind(Current)'
      BY <1>1, <2>1, <2>3, <2>4, <2>5 DEF Line, InOrder, Behind
    <2> QED
      BY <1>2, <1>3, <2>4, <2>5 DEF Line
  <1> QED
    BY <1>4, <1>5 DEF Consume, HalfClose, socket

\* The ends of the server's business, and errors.
LEMMA EndsKeepOrder ==
  ASSUME ConnInv, OrderInv, ReadEnd \/ WriteFails \/ Discard
  PROVE  OrderInv'
  <1> USE DEF OrderInv
  <1>1. UNCHANGED << client, wire, buffer, resp, writer >>
    BY DEF ReadEnd, WriteFails, Discard
  <1>2. Sending'
    BY <1>1 DEF Sending, client
  <1>3. CASE UNCHANGED << state, inbound >>
    <2>1. Line'
      BY <1>1, <1>3, SameLine DEF client
    <2> QED
      BY <1>1, <1>2, <1>3, <2>1, SameWire DEF client
  <1>4. CASE state' \in {"CLOSING", "CLOSED"}
    <2>1. Line' /\ AtPlace' /\ OnWire'
      BY <1>4 DEF Line, Goes, AtPlace, OnWire
    <2>2. AnswersAreWhole'
      BY <1>1 DEF client, AnswersAreWhole, InMemory, Continues
    <2> QED
      BY <1>2, <2>1, <2>2
  <1> QED
    BY <1>3, <1>4 DEF ReadEnd, WriteFails, Discard

-----------------------------------------------------------------------------
LEMMA RestOf ==
  ASSUME NEW S, NEW s \in Seq(S), NEW j \in Nat, j <= Len(s)
  PROVE  /\ Len(SubSeq(s, j + 1, Len(s))) = Len(s) - j
         /\ \A n \in 1 .. Len(s) - j : SubSeq(s, j + 1, Len(s))[n] = s[n + j]
  <1>1. Len(s) \in Nat /\ \A n \in j + 1 .. Len(s) : s[n] \in S
    BY LenProperties, ElementOfSeq
  <1>2. CASE j + 1 <= Len(s) + 1
    <2>1. /\ Len(SubSeq(s, j + 1, Len(s))) = IF j + 1 <= Len(s) THEN Len(s) - (j + 1) + 1 ELSE 0
          /\ \A n \in 1 .. Len(s) - (j + 1) + 1 : SubSeq(s, j + 1, Len(s))[n] = s[j + 1 + n - 1]
      BY <1>1, SubSeqProperties
    <2>2. ASSUME NEW n \in 1 .. Len(s) - j PROVE SubSeq(s, j + 1, Len(s))[n] = s[n + j]
      <3>1. n \in 1 .. Len(s) - (j + 1) + 1 /\ j + 1 + n - 1 = n + j
        BY <1>1
      <3> QED
        BY <2>1, <3>1
    <2> QED
      BY <1>1, <2>1, <2>2
  <1> QED
    BY <1>1, <1>2

\* The parser is given the head of the queue, and leaves a part of what it was given.
LEMMA GivenToTheParser ==
  ASSUME ConnInv, NEW k \in 1 .. Len(inbound), NEW buf, NEW d \in Nat,
         buf = buffer \o SubSeq(inbound, 1, k), d <= Len(buf),
         buffer' = SubSeq(buf, d + 1, Len(buf)),
         inbound' = SubSeq(inbound, k + 1, Len(inbound))
  PROVE  /\ Len(buf) = Len(buffer) + k /\ Waiting' = Waiting - d
         /\ \A n \in 1 .. Len(buf) : buf[n] = Queue(n)
         /\ \A n \in 1 .. Waiting' : Queue(n)' = Queue(n + d)
  <1>1. /\ inbound \in Seq(Pieces) /\ buffer \in Seq(Pieces)
        /\ Len(inbound) \in Nat /\ Len(buffer) \in Nat /\ k \in Nat
    BY QueueTypes DEF ConnInv, Socket
  <1> DEFINE taken == SubSeq(inbound, 1, k)
  <1>2. taken \in Seq(Pieces) /\ Len(taken) = k /\ \A n \in 1 .. k : taken[n] = inbound[n]
    BY <1>1, SubSeqProperties, ElementOfSeq
  <1>3. /\ buf \in Seq(Pieces) /\ Len(buf) = Len(buffer) + k
        /\ \A n \in 1 .. Len(buffer) + k :
             buf[n] = IF n <= Len(buffer) THEN buffer[n] ELSE taken[n - Len(buffer)]
    <2> HIDE DEF taken
    <2>1. buf = buffer \o taken
      BY DEF taken
    <2> QED
      BY <1>1, <1>2, <2>1, ConcatProperties
  <1> HIDE DEF taken
  <1>4. ASSUME NEW n \in 1 .. Len(buf) PROVE buf[n] = Queue(n)
    <2>1. n > Len(buffer) => n - Len(buffer) \in 1 .. k
      BY <1>1, <1>3, <1>4
    <2> QED
      BY <1>1, <1>2, <1>3, <1>4, <2>1 DEF Queue
  <1>5. /\ Len(inbound') = Len(inbound) - k
        /\ \A n \in 1 .. Len(inbound) - k : inbound'[n] = inbound[n + k]
    <2>1. inbound \in Seq(Pieces) /\ k \in Nat /\ k <= Len(inbound)
      BY <1>1
    <2>2. /\ Len(SubSeq(inbound, k + 1, Len(inbound))) = Len(inbound) - k
          /\ \A n \in 1 .. Len(inbound) - k :
               SubSeq(inbound, k + 1, Len(inbound))[n] = inbound[n + k]
      BY ONLY <2>1, RestOf
    <2> QED
      BY ONLY <2>2, inbound' = SubSeq(inbound, k + 1, Len(inbound))
  <1>6. /\ Len(buffer') = Len(buf) - d
        /\ \A n \in 1 .. Len(buf) - d : buffer'[n] = buf[n + d]
    <2>1. buf \in Seq(Pieces)
      BY <1>3
    <2>2. /\ Len(SubSeq(buf, d + 1, Len(buf))) = Len(buf) - d
          /\ \A n \in 1 .. Len(buf) - d : SubSeq(buf, d + 1, Len(buf))[n] = buf[n + d]
      BY ONLY d \in Nat, d <= Len(buf), <2>1, RestOf
    <2> QED
      BY ONLY <2>2, buffer' = SubSeq(buf, d + 1, Len(buf))
  <1>7. /\ Len(buffer) \in Nat /\ Len(inbound) \in Nat /\ k \in 1 .. Len(inbound) /\ d \in Nat
        /\ Len(buf) = Len(buffer) + k /\ d <= Len(buf)
        /\ Len(buffer') = Len(buf) - d /\ Len(inbound') = Len(inbound) - k
    BY <1>1, <1>3, <1>5, <1>6
  <1>8. Waiting' = Waiting - d
    BY ONLY <1>7 DEF Waiting
  <1>9. ASSUME NEW n \in 1 .. Waiting' PROVE Queue(n)' = Queue(n + d)
    <2>1. n \in Nat /\ n > 0 /\ n <= Len(buffer) + Len(inbound) - d
      BY ONLY n \in 1 .. Waiting', <1>7, <1>8 DEF Waiting
    <2>2. CASE n <= Len(buf) - d
      <3>1. n + d \in 1 .. Len(buf) /\ n \in 1 .. Len(buf) - d /\ n <= Len(buffer')
        BY ONLY <1>7, <2>1, <2>2
      <3>2. Queue(n)' = buf[n + d]
        BY <1>6, <3>1 DEF Queue
      <3> QED
        BY <1>4, <3>1, <3>2
    <2>3. CASE n > Len(buf) - d
      <3>1. /\ ~(n <= Len(buffer')) /\ ~(n + d <= Len(buffer))
            /\ n - Len(buffer') \in 1 .. Len(inbound) - k
            /\ n - Len(buffer') + k = n + d - Len(buffer)
        BY ONLY <1>7, <2>1, <2>3
      <3>2. Queue(n)' = inbound'[n - Len(buffer')] /\ Queue(n + d) = inbound[n + d - Len(buffer)]
        BY ONLY <3>1 DEF Queue
      <3> QED
        BY <1>5, <3>1, <3>2
    <2> QED
      BY <1>7, <2>1, <2>2, <2>3
  <1> QED
    BY <1>3, <1>4, <1>8, <1>9

\* A request that is whole leaves the queue with all its pieces: what is behind it
\* belongs to later ones.
LEMMA ReadKeepsOrder ==
  ASSUME ConnInv, OrderInv, ReadData
  PROVE  OrderInv'
  <1> USE DEF OrderInv
  <1>1. PICK k \in 1 .. Len(inbound) :
          LET buf == buffer \o SubSeq(inbound, 1, k)
              i   == buf[1][1]
          IN  /\ inbound' = SubSeq(inbound, k + 1, Len(inbound))
              /\ \/ "Parsing" \in Parse(buf) /\ buffer' = buf /\ UNCHANGED << proto, resp, writer >>
                 \/ /\ "Completed" \in Parse(buf) /\ Bind(Answer(i))
                    /\ buffer' = SubSeq(buf, script[i].pieces + 1, Len(buf))
                 \/ "Error" \in Parse(buf) /\ buffer' = Tail(buf) /\ Bind(ErrorAnswer(i))
    BY DEF ReadData
  <1>2. PICK buf : buf = buffer \o SubSeq(inbound, 1, k)
    OBVIOUS
  <1> DEFINE i == buf[1][1]
  <1>3. /\ inbound' = SubSeq(inbound, k + 1, Len(inbound))
        /\ \/ "Parsing" \in Parse(buf) /\ buffer' = buf /\ UNCHANGED << proto, resp, writer >>
           \/ /\ "Completed" \in Parse(buf) /\ Bind(Answer(i))
              /\ buffer' = SubSeq(buf, script[i].pieces + 1, Len(buf))
           \/ "Error" \in Parse(buf) /\ buffer' = Tail(buf) /\ Bind(ErrorAnswer(i))
    BY <1>1, <1>2
  <1>4. /\ UNCHANGED << script, patient, next, peer, consumed, wire >> /\ state = "READING"
        /\ proto = "WaitingForHeaders" /\ writer = AtStart
    BY DEF ReadData, client, ConnInv, InStep
  <1>5. /\ Len(buffer) \in Nat /\ Len(inbound) \in Nat /\ Waiting \in Nat /\ LastOf \in Nat
        /\ next[1] \in Nat /\ next[2] \in Nat
    BY QueueTypes
  <1>6. /\ Len(buf) = Len(buffer) + k /\ \A n \in 1 .. Len(buf) : buf[n] = Queue(n)
        /\ buf \in Seq(Pieces)
    <2>1. inbound \in Seq(Pieces) /\ buffer \in Seq(Pieces)
      BY DEF ConnInv, Socket
    <2>2. SubSeq(inbound, 1, k) \in Seq(Pieces) /\ Len(SubSeq(inbound, 1, k)) = k
          /\ \A n \in 1 .. k : SubSeq(inbound, 1, k)[n] = inbound[n]
      BY <1>5, <2>1, SubSeqProperties, ElementOfSeq
    <2>3. PICK t \in Seq(Pieces) : /\ t = SubSeq(inbound, 1, k) /\ Len(t) = k
                                   /\ \A n \in 1 .. k : t[n] = inbound[n]
      BY <2>2
    <2>4. /\ buf \in Seq(Pieces) /\ Len(buf) = Len(buffer) + k
          /\ \A n \in 1 .. Len(buffer) + k :
               buf[n] = IF n <= Len(buffer) THEN buffer[n] ELSE t[n - Len(buffer)]
      BY <1>2, <2>1, <2>3, ConcatProperties
    <2>5. ASSUME NEW n \in 1 .. Len(buf) PROVE buf[n] = Queue(n)
      <3>1. n > Len(buffer) => n - Len(buffer) \in 1 .. k
        BY <1>5, <2>4, <2>5
      <3> QED
        BY <1>5, <2>3, <2>4, <2>5, <3>1 DEF Queue
    <2> QED
      BY <2>4, <2>5
  <1>7. /\ 1 \in 1 .. Len(buf) /\ 1 \in 1 .. Waiting /\ Len(buf) <= Waiting /\ Len(buf) \in Nat
        /\ buf[1] = Queue(1)
    BY <1>5, <1>6 DEF Waiting
  <1>8. /\ i \in 1 .. Len(script) /\ i \in Nat /\ script[i].pieces \in Nat \ {0}
        /\ \A n \in 1 .. Waiting : Queue(n)[1] \in Nat /\ Queue(n)[2] \in Nat
    <2>1. \A n \in 1 .. Waiting : Queue(n)[1] \in 1 .. Len(script) /\ Queue(n)[2] \in Nat
      BY QueueTypes
    <2>2. i \in 1 .. Len(script)
      BY <1>7, <2>1
    <2> QED
      BY <2>1, <2>2, ScriptedRequest DEF ConnInv
  <1>9. InOrder /\ Behind(LastOf)
    BY <1>4 DEF Line, Goes, Current
  <1>10. i > LastOf /\ (patient => i = LastOf + 1)
    BY <1>5, <1>7, <1>8, <1>9 DEF Behind
  <1>11. Sending'
    BY <1>4 DEF Sending
  <1>12. AnswersAreWhole'
    BY <1>4 DEF AnswersAreWhole, InMemory, Continues
  <1>13. LastOf' = LastOf /\ \A n \in 1 .. Len(wire) : wire[n][1] \in Nat /\ wire[n][1] <= LastOf
    BY <1>4, QueueTypes DEF LastOf, OnWire, Current
  <1> HIDE DEF i
  <1>14. CASE "Parsing" \in Parse(buf) /\ buffer' = buf /\ UNCHANGED << proto, resp, writer >>
    <2>1. state' = "READING"
      BY <1>4, <1>14 DEF ReadData, UpdateState
    <2>2. buffer' = SubSeq(buf, 0 + 1, Len(buf))
      BY <1>6, <1>14
    <2>3. Waiting' = Waiting /\ \A n \in 1 .. Waiting' : Queue(n)' = Queue(n)
      <3>1. Waiting' = Waiting - 0 /\ \A n \in 1 .. Waiting' : Queue(n)' = Queue(n + 0)
        <4>1. 0 \in Nat /\ 0 <= Len(buf)
          BY <1>7
        <4> QED
          BY <1>2, <1>3, <2>2, <4>1, GivenToTheParser
      <3>2. Waiting' = Waiting
        BY <1>5, <3>1
      <3>3. ASSUME NEW n \in 1 .. Waiting' PROVE Queue(n)' = Queue(n)
        BY <1>5, <3>1, <3>2, <3>3
      <3> QED
        BY <3>2, <3>3
    <2>4. Line'
      BY <1>4, <1>9, <1>13, <2>1, <2>3 DEF Line, Current, InOrder, Behind
    <2>5. AtPlace' /\ OnWire'
      BY <1>4, <1>13, <1>14, <2>1 DEF AtPlace, OnWire, Current, LastOf
    <2> QED
      BY <1>11, <1>12, <2>4, <2>5
  <1>15. ASSUME proto' = "SendingResponse", UNCHANGED writer, resp'.of = i, resp'.file => script[i].file
         PROVE  AtPlace' /\ OnWire' /\ state' = "WRITING" /\ Current' = i
    <2>1. state' = "WRITING" /\ Current' = i
      BY <1>15 DEF ReadData, UpdateState, Current
    <2>2. AtPlace'
      <3>1. wire # << >> => wire[Len(wire)][3] = "keep"
        BY <1>4 DEF AtPlace
      <3>2. writer'.head = 0
        BY <1>4, <1>15 DEF AtStart
      <3> QED
        BY <1>4, <1>10, <1>13, <1>15, <2>1, <3>1, <3>2 DEF AtPlace
    <2>3. OnWire'
      <3>1. \A n \in 1 .. Len(wire) : wire[n][1] <= i
        BY <1>5, <1>8, <1>10, <1>13
      <3> QED
        BY <1>4, <1>8, <1>15, <2>1, <3>1 DEF OnWire
    <2> QED
      BY <2>1, <2>2, <2>3
  <1>16. CASE "Error" \in Parse(buf) /\ buffer' = Tail(buf) /\ Bind(ErrorAnswer(i))
    <2>1. /\ proto' = "SendingResponse" /\ UNCHANGED writer
          /\ resp'.of = i /\ resp'.file = FALSE /\ resp'.keep = FALSE
      BY <1>16 DEF Bind, ErrorAnswer
    <2>2. AtPlace' /\ OnWire' /\ state' = "WRITING"
      BY <1>15, <2>1
    <2>3. Line'
      BY <2>1, <2>2 DEF Line, Goes
    <2> QED
      BY <1>11, <1>12, <2>2, <2>3
  <1>17. CASE /\ "Completed" \in Parse(buf) /\ Bind(Answer(i))
              /\ buffer' = SubSeq(buf, script[i].pieces + 1, Len(buf))
    <2>1. proto' = "SendingResponse" /\ UNCHANGED writer /\ resp'.of = i /\ resp'.file = script[i].file
      BY <1>17 DEF Bind, Answer
    <2>2. AtPlace' /\ OnWire' /\ state' = "WRITING" /\ Current' = i
      BY <1>15, <2>1
    <2>3. buf[1][2] = 1 /\ Len(buf) >= script[i].pieces
      <3>1. "Completed" # "Parsing" /\ "Completed" # "Error"
        OBVIOUS
      <3>2. buf[1][2] = 1 /\ ~(Len(buf) < script[i].pieces)
        BY <1>17, <3>1 DEF Parse, i
      <3> QED
        BY <1>7, <1>8, <3>2
    <2>4. PICK d \in Nat : d = script[i].pieces
      BY <1>8
    <2>5. d > 0 /\ d <= Len(buf) /\ buffer' = SubSeq(buf, d + 1, Len(buf))
      BY <1>8, <1>17, <2>3, <2>4
    <2>6. Waiting' = Waiting - d /\ \A n \in 1 .. Waiting' : Queue(n)' = Queue(n + d)
      BY <1>2, <1>3, <2>5, GivenToTheParser
    <2>7. Waiting' \in Nat
      BY <1>5, <1>7, <2>5, <2>6
    <2>8. InOrder'
      BY <1>4, <1>9, <2>6, <2>7, TakenFromHead
    <2>9. ASSUME NEW n \in 1 .. Waiting'
          PROVE  Queue(n)'[1] > i /\ (patient => Queue(n)'[1] <= i + 1)
      <3>1. n + d \in 1 .. Waiting /\ 1 < n + d /\ n + d > d /\ 1 + ((n + d) - 1) = n + d
        BY <1>5, <2>5, <2>6, <2>7
      <3>2. Precedes(Queue(1), Queue(n + d), (n + d) - 1)
        BY <1>7, <1>9, <3>1 DEF InOrder
      <3>3. Queue(n + d)[2] \in 1 .. script[Queue(n + d)[1]].pieces
        BY <1>9, <3>1 DEF InOrder
      <3>4. Queue(n + d)[1] > i
        <4>1. CASE Queue(n + d)[1] = i
          \* It would be a piece more than the request has.
          <5>1. Queue(n + d)[2] = 1 + ((n + d) - 1)
            BY <1>7, <1>8, <2>3, <3>1, <3>2, <4>1 DEF Precedes, i
          <5>2. Queue(n + d)[2] \in 1 .. d
            BY <2>4, <3>3, <4>1
          <5> QED
            BY <3>1, <5>1, <5>2
        <4>2. CASE Queue(n + d)[1] # i
          BY <1>7, <1>8, <3>1, <3>2, <4>2 DEF Precedes, i
        <4> QED
          BY <4>1, <4>2
      <3>5. patient => Queue(n + d)[1] <= i + 1
        <4>1. patient => Queue(n + d)[1] <= LastOf + 1
          BY <1>9, <3>1 DEF Behind
        <4> QED
          BY <1>5, <1>8, <1>10, <3>1, <4>1
      <3> QED
        BY <2>6, <3>4, <3>5
    <2>10. ASSUME peer # "reset" PROVE next[1] > i
      <3>1. Precedes(Queue(1), next, Waiting + 1 - 1)
        BY <1>7, <1>9, <2>10 DEF InOrder
      <3>2. CASE next[1] = i
        <4>1. next[2] \in 1 .. script[i].pieces
          BY <1>8, <3>2 DEF Sending
        <4>2. next[2] = 1 + (Waiting + 1 - 1)
          BY <1>7, <1>8, <2>3, <3>1, <3>2 DEF Precedes, i
        <4> QED
          BY <1>5, <1>7, <2>4, <2>5, <4>1, <4>2
      <3>3. CASE next[1] # i
        BY <1>7, <1>8, <3>1, <3>3 DEF Precedes, i
      <3> QED
        BY <3>2, <3>3
    <2>11. Line'
      BY <1>4, <2>2, <2>8, <2>9, <2>10 DEF Line, Behind
    <2> QED
      BY <1>11, <1>12, <2>2, <2>11
  <1> QED
    BY <1>3, <1>14, <1>16, <1>17

-----------------------------------------------------------------------------
\* A call of the writer goes on at its place: the j-th byte it puts on the wire is
\* the one at head + body + j, and the last at most the last of the answer.
LEMMA WrittenBytes ==
  ASSUME ConnInv, WriteTo
  PROVE  /\ HeadSent \in Nat /\ BodySent \in Nat /\ writer.head + HeadSent \in 0 .. HeadLen
         /\ writer.head = 0 => HeadSent > 0 /\ writer.body = 0
         /\ Len(wire') = Len(wire) + (HeadSent + BodySent)
         /\ \A n \in 1 .. Len(wire) : wire'[n] = wire[n]
         /\ \A j \in 1 .. HeadSent + BodySent :
              wire'[Len(wire) + j] = Byte(writer.head + writer.body + j)
         /\ HeadSent + BodySent > 0 =>
              writer.head + writer.body + (HeadSent + BodySent) <= HeadLen + resp.len
         /\ BodySent > 0 => writer.head + HeadSent = HeadLen
         /\ BodySent <= BodyLeft /\ BodyLeft = MaxOf(resp.len - writer.body, 0)
  <1> USE LengthsAreNumbers DEF ConnInv
  <1> DEFINE h == writer.head
             b == writer.body
             first == Bytes(h, HeadSent)
             second == Bytes(HeadLen + b, BodySent)
  <1>1. /\ h \in 0 .. HeadLen /\ b \in Nat /\ resp.len \in Nat /\ resp.file \in BOOLEAN
        /\ Free > 0 /\ Free \in Int /\ wire \in Seq(Marks)
        /\ \/ h < HeadLen /\ b = 0
           \/ h = HeadLen /\ resp.len > 0 /\ (resp.file \/ b < resp.len)
    BY DEF WriteTo, Server2, Socket, SomethingLeft, Free, Client
  <1>2. /\ HeadSent \in Nat /\ h + HeadSent \in 0 .. HeadLen
        /\ h < HeadLen => HeadSent > 0
        /\ h = HeadLen => HeadSent = 0
    BY <1>1 DEF HeadSent, MinOf
  <1>3. /\ BodyLeft \in Nat /\ BodyLeft = (IF b < resp.len THEN resp.len - b ELSE 0)
        /\ BodySent \in Nat /\ BodySent <= BodyLeft
        /\ BodySent > 0 => h + HeadSent = HeadLen
    <2>1. BodyLeft \in Nat /\ BodyLeft = (IF b < resp.len THEN resp.len - b ELSE 0)
      BY <1>1 DEF BodyLeft, MaxOf
    <2>2. Free - HeadSent \in Nat
      BY <1>1 DEF HeadSent, MinOf
    <2> QED
      BY <2>1, <2>2, <1>1, <1>2 DEF BodySent, MinOf
  <1>4. /\ first \in Seq(Marks) /\ Len(first) = HeadSent
        /\ \A n \in 1 .. HeadSent : first[n] = Byte(h + n)
        /\ second \in Seq(Marks) /\ Len(second) = BodySent
        /\ \A n \in 1 .. BodySent : second[n] = Byte(HeadLen + b + n)
    <2>1. h \in Nat /\ HeadLen + b \in Nat
      BY <1>1
    <2>2. Server2
      OBVIOUS
    <2> QED
      BY <2>1, <2>2, <1>2, <1>3, SentBytes
  <1>5. wire' = wire \o first \o second
    BY DEF WriteTo
  <1>6. Len(wire) \in Nat
    BY <1>1, LenProperties
  <1> HIDE DEF first, second, ConnInv
  <1>7. PICK wf \in Seq(Marks) :
           /\ wf = wire \o first /\ Len(wf) = Len(wire) + HeadSent
           /\ \A n \in 1 .. Len(wire) + HeadSent :
                wf[n] = IF n <= Len(wire) THEN wire[n] ELSE first[n - Len(wire)]
    <2>1. PICK f \in Seq(Marks) : f = first /\ Len(f) = HeadSent
      BY <1>4
    <2>2. PICK w \in Seq(Marks) : w = wire
      BY <1>1
    <2>3. /\ w \o f \in Seq(Marks) /\ Len(w \o f) = Len(w) + Len(f)
          /\ \A n \in 1 .. Len(w) + Len(f) :
               (w \o f)[n] = IF n <= Len(w) THEN w[n] ELSE f[n - Len(w)]
      BY ConcatProperties
    <2> QED
      BY <2>1, <2>2, <2>3
  <1>8. /\ Len(wire') = Len(wire) + HeadSent + BodySent
        /\ \A n \in 1 .. Len(wire) + HeadSent + BodySent :
             wire'[n] = IF n <= Len(wf) THEN wf[n] ELSE second[n - Len(wf)]
    <2>1. PICK f \in Seq(Marks) : f = second /\ Len(f) = BodySent
      BY <1>4
    <2>2. wire' = wf \o f
      BY <1>5, <1>7, <2>1
    <2>3. /\ Len(wf \o f) = Len(wf) + Len(f)
          /\ \A n \in 1 .. Len(wf) + Len(f) :
               (wf \o f)[n] = IF n <= Len(wf) THEN wf[n] ELSE f[n - Len(wf)]
      BY ConcatProperties
    <2> QED
      BY <1>7, <2>1, <2>2, <2>3
  <1>9. ASSUME NEW n \in 1 .. Len(wire) PROVE wire'[n] = wire[n]
    <2>1. n \in 1 .. Len(wire) + HeadSent /\ n \in 1 .. Len(wire) + HeadSent + BodySent /\ n <= Len(wf)
      BY <1>2, <1>3, <1>6, <1>7, <1>9
    <2> QED
      BY <1>7, <1>8, <1>9, <2>1
  <1>10. ASSUME NEW j \in 1 .. HeadSent + BodySent
         PROVE  wire'[Len(wire) + j] = Byte(h + b + j)
    <2>1. Len(wire) + j \in 1 .. Len(wire) + HeadSent + BodySent /\ ~(Len(wire) + j <= Len(wire))
          /\ (Len(wire) + j) - Len(wire) = j
      BY <1>2, <1>3, <1>6, <1>10
    <2>2. CASE j <= HeadSent
      <3>1. Len(wire) + j \in 1 .. Len(wire) + HeadSent /\ Len(wire) + j <= Len(wf) /\ j \in 1 .. HeadSent
        BY <1>2, <1>6, <1>7, <1>10, <2>2
      <3>2. wire'[Len(wire) + j] = first[j]
        BY <1>7, <1>8, <2>1, <3>1
      <3>3. h + j = h + b + j
        BY <1>1, <1>2, <3>1
      <3> QED
        BY <1>4, <3>1, <3>2, <3>3
    <2>3. CASE j > HeadSent
      <3>1. ~(Len(wire) + j <= Len(wf)) /\ (Len(wire) + j) - Len(wf) = j - HeadSent
            /\ j - HeadSent \in 1 .. BodySent
        BY <1>2, <1>3, <1>6, <1>7, <1>10, <2>3
      <3>2. wire'[Len(wire) + j] = second[j - HeadSent]
        BY <1>8, <2>1, <3>1
      <3>3. HeadLen + b + (j - HeadSent) = h + b + j
        <4>1. h + HeadSent = HeadLen
          BY <1>3, <3>1
        <4> QED
          <5>1. j \in Nat
            BY <1>2, <1>3, <1>10
          <5>2. h \in Nat /\ b \in Nat /\ HeadSent \in Nat
            BY <1>1, <1>2
          <5> QED
            BY ONLY <4>1, <5>1, <5>2
      <3> QED
        BY <1>4, <3>1, <3>2, <3>3
    <2> QED
      BY <1>2, <2>2, <2>3
  <1>11. HeadSent + BodySent > 0 => h + b + (HeadSent + BodySent) <= HeadLen + resp.len
    <2>1. CASE h < HeadLen
      <3>1. b = 0 /\ h + HeadSent <= HeadLen /\ h \in Nat /\ HeadSent \in Nat
        BY <1>1, <1>2, <2>1
      <3>2. BodySent \in Nat /\ BodySent <= resp.len
        BY <1>1, <1>3, <3>1
      <3> QED
        BY ONLY <1>1, <3>1, <3>2, LengthsAreNumbers
    <2>2. CASE h = HeadLen /\ b < resp.len
      BY <1>1, <1>2, <1>3, <2>2
    <2>3. CASE h = HeadLen /\ ~(b < resp.len)
      BY <1>1, <1>2, <1>3, <2>3
    <2> QED
      BY <1>1, <2>1, <2>2, <2>3
  <1>12. Len(wire') = Len(wire) + (HeadSent + BodySent)
    BY <1>2, <1>3, <1>6, <1>8
  <1>13. h = 0 => HeadSent > 0 /\ b = 0
    BY <1>1, <1>2
  <1> QED
    BY <1>2, <1>3, <1>9, <1>10, <1>11, <1>12, <1>13 DEF BodyLeft

LEMMA WriteKeepsOrder ==
  ASSUME ConnInv, OrderInv, WriteTo
  PROVE  OrderInv'
  <1> USE DEF OrderInv
  <1>0. HeadLen \in Nat /\ HeadLen > 0
    BY LengthsAreNumbers
  <1>1. PICK h \in Nat, b \in Nat, t \in Nat, L \in Nat :
          h = writer.head /\ b = writer.body /\ t = HeadSent + BodySent /\ L = Len(wire)
    <2>1. writer.head \in Nat /\ writer.body \in Nat
      BY <1>0 DEF ConnInv, Server2
    <2>2. HeadSent + BodySent \in Nat /\ Len(wire) \in Nat
      BY WrittenBytes, QueueTypes
    <2> QED
      BY <2>1, <2>2
  <1>2. /\ Len(wire') = L + t /\ \A n \in 1 .. L : wire'[n] = wire[n]
        /\ \A j \in 1 .. t : wire'[L + j] = Byte(h + b + j)
        /\ t > 0 => h + b + t <= HeadLen + resp.len
        /\ h = 0 => t > 0 /\ b = 0
        /\ HeadSent \in Nat /\ BodySent \in Nat /\ h + HeadSent \in 0 .. HeadLen
    BY <1>1, WrittenBytes
  <1>3. /\ state = "WRITING" /\ proto = "SendingResponse"
        /\ UNCHANGED << script, patient, next, peer, consumed, inbound >>
        /\ resp.of \in Nat /\ resp.len \in Nat /\ resp.file \in BOOLEAN /\ resp.keep \in BOOLEAN
        /\ resp.of \in 1 .. Len(script) /\ (resp.file => script[resp.of].file)
    BY DEF WriteTo, client, ConnInv, InStep, Server2, OnWire
  <1>4. /\ wire \in Seq(Marks) /\ wire' \in Seq(Marks)
        /\ \A n \in 1 .. L : wire[n][1] \in Nat /\ wire[n][1] <= resp.of
    <2>1. wire' \in Seq(Marks)
      BY WriteKeepsInv DEF ConnInv, Socket
    <2>2. \A n \in 1 .. L : wire[n][1] \in Nat /\ wire[n][1] <= resp.of
      BY <1>1, <1>3, QueueTypes DEF OnWire, Current
    <2> QED
      BY <2>1, <2>2 DEF ConnInv, Socket
  <1>5. (wire = << >> <=> L = 0) /\ (wire' = << >> <=> L + t = 0)
    BY <1>1, <1>2, <1>4, EmptySeq
  \* The new bytes.
  <1>6. \A j \in 1 .. t : /\ wire'[L + j][1] = resp.of /\ wire'[L + j][2] = h + b + j
                          /\ wire'[L + j][3] = IF h + b + j < HeadLen + resp.len THEN "more"
                                               ELSE IF resp.keep THEN "keep" ELSE "close"
    <2> TAKE j \in 1 .. t
    <2>1. wire'[L + j] = Byte(h + b + j)
      BY <1>2
    <2>2. /\ Byte(h + b + j)[1] = resp.of /\ Byte(h + b + j)[2] = h + b + j
          /\ Byte(h + b + j)[3] = IF h + b + j < HeadLen + resp.len THEN "more"
                                  ELSE IF resp.keep THEN "keep" ELSE "close"
      BY DEF Byte
    <2> QED
      BY <2>1, <2>2
  <1>7. \A j \in 1 .. t - 1 : wire'[L + j][3] = "more"
    <2> TAKE j \in 1 .. t - 1
    <2>1. j \in 1 .. t /\ h + b + j < HeadLen + resp.len
      BY <1>2, <1>3, LengthsAreNumbers
    <2> QED
      BY <1>6, <2>1
  <1>8. Sending'
    <2>1. consumed <= L /\ consumed \in Nat
      BY <1>1, QueueTypes DEF Sending
    <2>2. consumed' <= Len(wire')
      BY <1>2, <1>3, <2>1
    <2> QED
      BY <1>3, <2>2 DEF Sending
  \* What follows the last byte of before.
  <1>9. ASSUME L > 0, t > 0
        PROVE  InMemory(wire[L]) \/ wire[L][3] # "more" => Continues(wire[L], wire'[L + 1])
    <2>1. wire'[L + 1][1] = resp.of /\ wire'[L + 1][2] = h + b + 1
      BY <1>6, <1>9
    <2>2. LastOf = wire[L][1] /\ wire # << >> /\ wire[L][1] \in Nat
      BY <1>1, <1>4, <1>5, <1>9 DEF LastOf
    <2>3. CASE h = 0
      <3>1. wire[L][3] = "keep" /\ resp.of > LastOf /\ (patient => resp.of = LastOf + 1)
        BY <1>1, <1>3, <2>2, <2>3 DEF AtPlace
      <3> QED
        BY <1>2, <2>1, <2>2, <2>3, <3>1 DEF Continues
    <2>4. CASE h # 0 /\ ~resp.file
      <3>1. LastOf = resp.of /\ wire[L][2] = h + b /\ wire[L][3] = "more"
        BY <1>1, <1>3, <2>4 DEF AtPlace
      <3> QED
        BY <2>1, <2>2, <3>1 DEF Continues
    <2>5. CASE h # 0 /\ resp.file
      <3>1. LastOf = resp.of /\ (wire[L][3] = "more" \/ (h = HeadLen /\ b >= resp.len))
        BY <1>1, <1>3, <2>5 DEF AtPlace
      <3>2. ~(h = HeadLen /\ b >= resp.len)
        <4>1. h + b + t <= HeadLen + resp.len
          BY <1>2, <1>9
        <4>2. resp.len \in Nat
          BY <1>3
        <4> QED
          BY <1>0, <1>9, <4>1, <4>2
      <3>3. wire[L][1] = resp.of /\ wire[L][3] = "more"
        BY <2>2, <3>1, <3>2
      <3>4. script[resp.of].file
        BY <1>3, <2>5
      <3>5. ~InMemory(wire[L])
        BY <3>3, <3>4 DEF InMemory
      <3> QED
        BY <3>3, <3>5
    <2> QED
      BY <1>3, <2>3, <2>4, <2>5
  <1>10. AnswersAreWhole'
    <2>1. ASSUME wire' # << >> PROVE wire'[1][2] = 1 /\ (patient => wire'[1][1] = 1)
      <3>1. CASE L > 0
        <4>1. wire'[1] = wire[1] /\ wire # << >>
          BY <1>2, <1>5, <3>1
        <4> QED
          BY <4>1 DEF AnswersAreWhole
      <3>2. CASE L = 0
        <4>1. t > 0 /\ wire = << >> /\ LastOf = 0
          BY <1>5, <2>1, <3>2 DEF LastOf
        <4>2. h = 0 /\ b = 0
          BY <1>1, <1>2, <1>3, <4>1 DEF AtPlace
        <4>3. patient => resp.of = 1
          BY <1>1, <1>3, <4>1, <4>2 DEF AtPlace
        <4>4. wire'[L + 1][1] = resp.of /\ wire'[L + 1][2] = h + b + 1
          BY <1>6, <4>1
        <4> QED
          BY <3>2, <4>2, <4>3, <4>4
      <3> QED
        BY <3>1, <3>2
    <2>2. ASSUME NEW n \in 1 .. (L + t) - 1, InMemory(wire'[n]) \/ wire'[n][3] # "more"
          PROVE  Continues(wire'[n], wire'[n + 1])
      <3>1. CASE n < L
        <4>1. n \in 1 .. L /\ n + 1 \in 1 .. L /\ n \in 1 .. Len(wire) - 1
          BY <1>1, <3>1
        <4>2. wire'[n] = wire[n] /\ wire'[n + 1] = wire[n + 1]
          BY <1>2, <4>1
        <4> QED
          BY <2>2, <4>1, <4>2 DEF AnswersAreWhole
      <3>2. CASE n = L
        <4>1. L > 0 /\ t > 0 /\ wire'[L] = wire[L]
          BY <1>2, <3>2
        <4> QED
          BY <1>9, <2>2, <3>2, <4>1
      <3>3. CASE n > L
        <4>1. PICK j \in 1 .. t - 1 : n = L + j
          <5>1. n - L \in 1 .. t - 1 /\ n = L + (n - L)
            BY <3>3
          <5> QED
            BY <5>1
        <4>2. j \in 1 .. t /\ j + 1 \in 1 .. t /\ n + 1 = L + (j + 1)
          BY <4>1
        <4>3. wire'[n][3] = "more" /\ wire'[n][1] = resp.of /\ wire'[n][2] = h + b + j
          BY <1>6, <1>7, <4>1, <4>2
        <4>4. wire'[n + 1][1] = resp.of /\ wire'[n + 1][2] = h + b + (j + 1)
          BY <1>6, <4>2
        <4> QED
          BY <4>3, <4>4 DEF Continues
      <3> QED
        BY <3>1, <3>2, <3>3
    <2> QED
      BY <1>2, <1>3, <2>1, <2>2 DEF AnswersAreWhole, InMemory, Continues
  <1>11. \A n \in 1 .. L + t : wire'[n][1] <= resp.of
    <2> TAKE n \in 1 .. L + t
    <2>1. CASE n <= L
      BY <1>2, <1>4, <2>1
    <2>2. CASE n > L
      <3>1. n - L \in 1 .. t /\ L + (n - L) = n
        BY <2>2
      <3>2. wire'[n][1] = resp.of
        BY <1>6, <3>1
      <3> QED
        BY <1>3, <3>2
    <2> QED
      BY <2>1, <2>2
  <1>12. ASSUME t > 0
         PROVE  /\ wire' # << >> /\ LastOf' = resp.of /\ wire'[Len(wire')][2] = h + b + t
                /\ wire'[Len(wire')][3] = IF h + b + t < HeadLen + resp.len THEN "more"
                                          ELSE IF resp.keep THEN "keep" ELSE "close"
    <2>1. t \in 1 .. t /\ L + t # 0 /\ wire' # << >>
      BY <1>5, <1>12
    <2>2. PICK last : last = wire'[L + t]
      OBVIOUS
    <2>3. /\ last[1] = resp.of /\ last[2] = h + b + t
          /\ last[3] = IF h + b + t < HeadLen + resp.len THEN "more"
                       ELSE IF resp.keep THEN "keep" ELSE "close"
      BY <1>6, <2>1, <2>2
    <2>4. wire'[Len(wire')] = last
      BY <1>2, <2>2
    <2> QED
      BY <2>1, <2>3, <2>4 DEF LastOf
  <1>13. CASE Finishes /\ resp.keep
    <2>1. /\ proto' = "WaitingForHeaders" /\ state' = "READING" /\ buffer' = << >>
      BY <1>13 DEF WriteTo, OnResponseFinished, ResetForNewRequest, UpdateState
    <2>2. t > 0 /\ ~(h + b + t < HeadLen + resp.len)
      <3>1. /\ h + HeadSent = HeadLen /\ BodySent = (IF resp.file THEN resp.len ELSE BodyLeft)
            /\ BodyLeft = MaxOf(resp.len - b, 0) /\ (h = HeadLen => resp.len > 0 /\ (resp.file \/ b < resp.len))
        BY <1>1, <1>3, <1>13, WrittenBytes DEF Finishes, BodyDone, ConnInv, SomethingLeft
      <3>2. PICK hs \in Nat, bs \in Nat, len \in Nat :
               hs = HeadSent /\ bs = BodySent /\ t = hs + bs /\ len = resp.len
        BY <1>1, <1>2, <1>3
      <3>3. h + hs = HeadLen
        BY <3>1, <3>2
      <3>4. bs >= len - b
        BY <3>1, <3>2 DEF MaxOf
      <3>5. h + b + t >= HeadLen + len
        <4>1. t = hs + bs
          BY <3>2
        <4> QED
          BY ONLY <1>0, <3>3, <3>4, <4>1, h \in Nat, b \in Nat, hs \in Nat, bs \in Nat, len \in Nat
      <3>6. h = HeadLen => bs > 0
        BY <3>1, <3>2 DEF MaxOf
      <3>7. t > 0
        BY ONLY <1>0, <1>1, <3>2, <3>3, <3>6
      <3> QED
        BY <1>0, <3>2, <3>5, <3>7
    <2>3. wire'[Len(wire')][3] = "keep" /\ LastOf' = resp.of /\ Current' = resp.of
      BY <1>12, <1>13, <2>1, <2>2 DEF Current
    <2>4. AtPlace' /\ OnWire'
      BY <1>2, <1>11, <2>1, <2>3 DEF AtPlace, OnWire
    <2>5. InOrder /\ Behind(resp.of)
      BY <1>3, <1>13 DEF Line, Goes, Current
    <2>6. PICK d \in Nat : d = Len(buffer)
      BY QueueTypes
    <2>7. /\ Len(inbound) \in Nat /\ Len(buffer') = 0
          /\ Waiting' = Len(inbound) /\ Waiting = d + Len(inbound) /\ Waiting' \in Nat
      BY <1>3, <2>1, <2>6, QueueTypes DEF Waiting
    <2>8. Waiting' = Waiting - d
      BY <2>7
    <2>9. ASSUME NEW n \in 1 .. Waiting' PROVE Queue(n)' = Queue(n + d) /\ n + d \in 1 .. Waiting
      <3>1. /\ ~(n <= 0) /\ ~(n + d <= d) /\ n - 0 = n /\ (n + d) - d = n /\ n + d \in 1 .. Waiting
        BY <2>7, <2>9
      <3>2. Queue(n)' = inbound[n]
        BY <1>3, <2>7, <3>1 DEF Queue
      <3>3. Queue(n + d) = inbound[n]
        BY <2>6, <3>1 DEF Queue
      <3> QED
        BY <3>1, <3>2, <3>3
    <2>10. InOrder'
      BY <1>3, <2>5, <2>7, <2>8, <2>9, TakenFromHead
    <2>11. Behind(Current)'
      BY <1>3, <2>3, <2>5, <2>9 DEF Behind
    <2> QED
      BY <1>8, <1>10, <2>4, <2>10, <2>11 DEF Line
  <1>14. CASE Finishes /\ ~resp.keep
    <2>1. state' \in {"CLOSING", "CLOSED"}
      BY <1>14 DEF WriteTo, OnResponseFinished, UpdateState
    <2>2. Line' /\ AtPlace' /\ OnWire'
      BY <2>1 DEF Line, Goes, AtPlace, OnWire
    <2> QED
      BY <1>8, <1>10, <2>2
  <1>15. CASE ~Finishes
    <2>1. /\ state' = "WRITING" /\ UNCHANGED << buffer, resp >>
          /\ writer' = [head |-> h + HeadSent, body |-> b + Advance(BodySent)]
      BY <1>1, <1>3, <1>15 DEF WriteTo, UpdateState
    <2>2. Line'
      <3>1. Waiting' = Waiting /\ \A n : Queue(n)' = Queue(n)
        BY <1>3, <2>1 DEF Waiting, Queue
      <3>2. Current' = Current /\ (Goes' => Goes)
        BY <1>3, <2>1 DEF Current, Goes
      <3> QED
        BY <1>3, <3>1, <3>2 DEF Line, InOrder, Behind
    <2>3. OnWire'
      BY <1>2, <1>3, <1>11, <2>1 DEF OnWire, Current
    <2>4. PICK hs \in Nat, bs \in Nat, len \in Nat :
             hs = HeadSent /\ bs = BodySent /\ t = hs + bs /\ len = resp.len
      BY <1>1, <1>2, <1>3
    <2>9. t = hs + bs
      BY <2>4
    <2>7. /\ writer'.head = h + hs /\ writer'.body = b + Advance(bs)
          /\ h + hs > 0 /\ h + hs <= HeadLen
      <3>1. h + hs \in 0 .. HeadLen /\ (h = 0 => t > 0 /\ b = 0)
        BY <1>2, <2>4
      <3>2. h = 0 => hs > 0
        BY <1>1, <2>4, WrittenBytes
      <3> QED
        BY <1>0, <2>1, <2>4, <3>1, <3>2
    <2>8. /\ bs > 0 => h + hs = HeadLen
          /\ bs <= BodyLeft /\ BodyLeft = (IF len > b THEN len - b ELSE 0)
          /\ h < HeadLen => b = 0
      <3>1. /\ BodySent > 0 => writer.head + HeadSent = HeadLen
            /\ BodySent <= BodyLeft /\ BodyLeft = MaxOf(resp.len - writer.body, 0)
        BY WrittenBytes
      <3>2. h < HeadLen => b = 0
        BY <1>0, <1>1, <1>3 DEF ConnInv, SomethingLeft
      <3>3. MaxOf(len - b, 0) = IF len > b THEN len - b ELSE 0
        BY DEF MaxOf
      <3> QED
        BY <1>1, <2>4, <3>1, <3>2, <3>3
    <2>5. CASE t = 0
      <3>1. HeadSent = 0 /\ BodySent = 0 /\ h > 0
        BY <2>4, <2>5, <2>7
      <3>2. writer'.head = h /\ writer'.body = b
        BY <2>4, <2>7, <3>1 DEF Advance
      <3>3. wire' = wire
        <4>1. Len(wire') = Len(wire) /\ \A n \in 1 .. Len(wire) : wire'[n] = wire[n]
          BY <1>1, <1>2, <2>5
        <4> QED
          BY <1>4, <4>1, SeqEqual
      <3> QED
        BY <1>1, <1>3, <1>8, <1>10, <2>1, <2>2, <2>3, <3>1, <3>2, <3>3 DEF AtPlace, LastOf
    <2>6. CASE t > 0
      <3>1. /\ wire' # << >> /\ LastOf' = resp.of /\ wire'[Len(wire')][2] = h + b + t
            /\ wire'[Len(wire')][3] = IF h + b + t < HeadLen + resp.len THEN "more"
                                      ELSE IF resp.keep THEN "keep" ELSE "close"
        BY <1>12, <2>6
      <3>2. ASSUME ~resp.file
            PROVE  wire'[Len(wire')][2] = writer'.head + writer'.body /\ wire'[Len(wire')][3] = "more"
        <4>1. writer'.body = b + bs
          BY <2>7, <3>2 DEF Advance
        <4>2. writer'.head + writer'.body = h + b + t
          BY <2>4, <2>7, <4>1
        <4>3. h + hs < HeadLen \/ bs # BodyLeft
          BY <1>0, <1>1, <1>15, <2>4, <2>7, <3>2 DEF Finishes, BodyDone
        <4>4. h + b + t < HeadLen + len
          <5>1. CASE h + hs < HeadLen
            <6>1. h < HeadLen /\ bs = 0
              BY <1>0, <2>4, <2>8, <5>1
            <6>2. b = 0
              BY <2>8, <6>1
            <6> QED
              BY ONLY <1>0, <1>1, <2>4, <5>1, <6>1, <6>2
          <5>2. CASE h + hs = HeadLen /\ bs # BodyLeft
            <6>1. bs < IF len > b THEN len - b ELSE 0
              BY <2>4, <2>8, <5>2
            <6> QED
              BY ONLY <1>0, <2>9, <5>2, <6>1,
                      h \in Nat, b \in Nat, hs \in Nat, bs \in Nat, len \in Nat
          <5> QED
            BY <1>0, <2>4, <2>7, <4>3, <5>1, <5>2
        <4> QED
          BY <2>4, <3>1, <4>2, <4>4
      <3>3. ASSUME resp.file, ~(h + b + t < HeadLen + resp.len)
            PROVE  writer'.head = HeadLen /\ writer'.body >= resp.len
        <4>1. writer'.body = b + 2 * bs
          BY <2>7, <3>3 DEF Advance
        <4>2. ~(h + b + t < HeadLen + len)
          BY <2>4, <3>3
        <4>3. h + hs = HeadLen
          <5>1. CASE bs > 0
            BY <2>8, <5>1
          <5>2. CASE bs = 0 /\ h + hs < HeadLen
            <6>1. b = 0
              BY <1>0, <2>4, <2>8, <5>2
            <6> QED
              BY ONLY <1>0, <1>1, <2>4, <4>2, <5>2, <6>1
          <5> QED
            BY <1>0, <2>4, <2>7, <5>1, <5>2
        <4>4. b + 2 * bs >= len
          BY ONLY <1>0, <2>9, <4>2, <4>3, h \in Nat, b \in Nat, hs \in Nat, bs \in Nat, len \in Nat
        <4> QED
          BY <2>4, <2>7, <4>1, <4>3, <4>4
      <3>4. writer'.head > 0
        BY <2>7
      <3>5. AtPlace'
        <4>1. resp.file => \/ wire'[Len(wire')][3] = "more"
                           \/ writer'.head = HeadLen /\ writer'.body >= resp.len
          BY <3>1, <3>3
        <4> QED
          BY <2>1, <3>1, <3>2, <3>4, <4>1 DEF AtPlace
      <3> QED
        BY <1>8, <1>10, <2>2, <2>3, <3>5
    <2> QED
      BY <2>5, <2>6
  <1> QED
    BY <1>13, <1>14, <1>15

LEMMA OrderInvStep == ConnInv /\ OrderInv /\ [Next]_vars => OrderInv'
  <1> SUFFICES ASSUME ConnInv, OrderInv, [Next]_vars PROVE OrderInv'
    OBVIOUS
  <1>1. CASE UNCHANGED vars
    <2>1. UNCHANGED << script, patient, next, peer, consumed, inbound, buffer, state, resp, writer, wire >>
      BY <1>1 DEF vars, client, socket, server
    <2>2. Line'
      BY <2>1, SameLine DEF OrderInv
    <2>3. Sending'
      BY <2>1 DEF OrderInv, Sending
    <2> QED
      BY <2>1, <2>2, <2>3, SameWire DEF OrderInv
  <1> QED
    BY <1>1, SendKeepsOrder, ClientKeepsOrder, EndsKeepOrder, ReadKeepsOrder, WriteKeepsOrder
       DEF Next, Server, OnReadable, OnWritable

(***************************************************************************)
(* What is on the wire are whole answers in the order of the requests,     *)
(* each from its first byte on, with none left out for a client that       *)
(* waits, and nothing after one that closes the connection: whatever the   *)
(* requests, however they are cut into pieces and however little the       *)
(* socket takes at a time (ResponseWriter.cc:24,                           *)
(* HttpProtocolHandler.cc:90).                                             *)
(***************************************************************************)
THEOREM WholeAnswers == Spec => []AnswersAreWhole
  <1>1. ConnInv /\ [Next]_vars => ConnInv'
    BY ConnInvStep
  <1>2. OrderInv => AnswersAreWhole
    BY DEF OrderInv
  <1> QED
    BY ConnInvInit, OrderInvInit, <1>1, OrderInvStep, <1>2, PTL DEF Spec

-----------------------------------------------------------------------------
(***************************************************************************)
(* The promise.  Beyond the above: the end of the answer under way, should *)
(* it be on the wire already, is marked as the answer is to be (of a file, *)
(* whose end may be passed, it can be); an error is pending on the socket  *)
(* only when the client has reset the connection, and nothing is left to   *)
(* read then; and all answers to a client that waits have been whole.      *)
(***************************************************************************)
Mark == IF resp.keep THEN "keep" ELSE "close"

OwnMarks == proto = "SendingResponse" =>
              \A n \in 1 .. Len(wire) :
                 wire[n][1] = resp.of /\ wire[n][3] # "more" => wire[n][3] = Mark

GoneMeansGone == /\ soError => peer = "reset"
                 /\ peer = "reset" => inbound = << >>

KeptUpTo(w, i) == \A j \in 1 .. i : \E n \in 1 .. Len(w) : w[n][1] = j /\ w[n][3] = "keep"
NoneLeftOut == patient => /\ state = "READING" => KeptUpTo(wire, LastOf)
                          /\ state = "WRITING" => KeptUpTo(wire, resp.of - 1)

Ending == killed \in BOOLEAN /\ peer \in {"open", "half", "reset"}

Numbered == \A n \in 1 .. Len(wire) : wire[n][1] # 0

PromiseInv == OwnMarks /\ GoneMeansGone /\ NoneLeftOut /\ Ending /\ Numbered

LEMMA PromiseInvInit == Init => PromiseInv
  <1> SUFFICES ASSUME Init PROVE PromiseInv
    OBVIOUS
  <1>1. wire = << >> /\ proto = "WaitingForHeaders" /\ soError = FALSE /\ peer = "open" /\ state = "READING"
        /\ killed = FALSE
    BY DEF Init
  <1>2. LastOf = 0 /\ 1 .. LastOf = {}
    BY <1>1 DEF LastOf
  <1>3. OwnMarks /\ NoneLeftOut
    BY <1>1, <1>2 DEF OwnMarks, NoneLeftOut, KeptUpTo
  <1>4. GoneMeansGone /\ Ending /\ Numbered
    <2>1. 1 .. Len(wire) = {}
      BY <1>1
    <2> QED
      BY <1>1, <2>1 DEF GoneMeansGone, Ending, Numbered
  <1> QED
    BY <1>1, <1>3, <1>4 DEF PromiseInv

\* A step that leaves the wire alone and begins nothing.
LEMMA SameAnswers ==
  ASSUME PromiseInv, UNCHANGED << patient, wire, resp >>,
         proto' = "SendingResponse" => proto = "SendingResponse",
         state' \in {"READING", "WRITING"} => state' = state
  PROVE  OwnMarks' /\ NoneLeftOut' /\ Numbered'
  <1>1. OwnMarks' /\ Numbered'
    BY DEF PromiseInv, OwnMarks, Mark, Numbered
  <1>2. LastOf' = LastOf
    BY DEF LastOf
  <1>3. NoneLeftOut'
    BY <1>2 DEF PromiseInv, NoneLeftOut, KeptUpTo
  <1> QED
    BY <1>1, <1>3

LEMMA OthersKeepPromise ==
  ASSUME ConnInv, OrderInv, PromiseInv, Send \/ Consume \/ HalfClose \/ Reset \/ ReadEnd \/ Discard \/ WriteFails
  PROVE  PromiseInv'
  <1>1. OwnMarks' /\ NoneLeftOut' /\ Numbered'
    <2>1. /\ UNCHANGED << patient, wire, resp >>
          /\ proto' = "SendingResponse" => proto = "SendingResponse"
          /\ state' \in {"READING", "WRITING"} => state' = state
      BY DEF Send, Consume, HalfClose, Reset, ReadEnd, Discard, WriteFails, client, socket, server
    <2> QED
      BY <2>1, SameAnswers
  <1>2. GoneMeansGone'
    <2>1. CASE Send \/ Consume \/ HalfClose
      BY <2>1 DEF Send, Consume, HalfClose, socket, PromiseInv, GoneMeansGone
    <2>2. CASE Reset
      BY <2>2 DEF Reset, PromiseInv, GoneMeansGone
    <2>3. CASE ReadEnd \/ WriteFails
      BY <2>3 DEF ReadEnd, WriteFails, client, PromiseInv, GoneMeansGone
    <2>4. CASE Discard
      <3>1. \/ UNCHANGED << inbound, soError >>
            \/ soError' = FALSE /\ UNCHANGED inbound
            \/ inbound # << >> /\ UNCHANGED soError
        BY <2>4, EmptySeq DEF Discard
      <3>2. UNCHANGED peer
        BY <2>4 DEF Discard, client
      <3> QED
        BY <3>1, <3>2 DEF PromiseInv, GoneMeansGone
    <2> QED
      BY <2>1, <2>2, <2>3, <2>4
  <1>3. Ending'
    BY DEF Send, Consume, HalfClose, Reset, ReadEnd, Discard, WriteFails, client, socket, PromiseInv, Ending
  <1> QED
    BY <1>1, <1>2, <1>3 DEF PromiseInv

\* A request is taken up that lies behind all that were answered, and just behind for
\* a client that waits; or nothing is.
LEMMA TakenUp ==
  ASSUME ConnInv, OrderInv, ReadData
  PROVE  /\ state = "READING" /\ proto = "WaitingForHeaders" /\ inbound # << >>
         /\ UNCHANGED << client, soError, wire, killed >>
         /\ \/ UNCHANGED << proto, resp, state >>
            \/ \E i \in Nat : /\ i = Queue(1)[1] /\ 1 \in 1 .. Waiting
                              /\ i > LastOf /\ (patient => i = LastOf + 1)
                              /\ proto' = "SendingResponse" /\ state' = "WRITING" /\ resp'.of = i
  <1>1. PICK k \in 1 .. Len(inbound) :
          LET buf == buffer \o SubSeq(inbound, 1, k)
              i   == buf[1][1]
          IN  \/ UNCHANGED << proto, resp, writer >>
              \/ Bind(Answer(i))
              \/ Bind(ErrorAnswer(i))
    BY DEF ReadData
  <1>2. PICK buf : buf = buffer \o SubSeq(inbound, 1, k)
    OBVIOUS
  <1>3. /\ UNCHANGED << client, soError, wire, killed >> /\ state = "READING"
        /\ proto = "WaitingForHeaders" /\ UpdateState
    BY DEF ReadData, ConnInv, InStep
  <1>4. Len(buffer) \in Nat /\ Len(inbound) \in Nat /\ Waiting \in Nat /\ LastOf \in Nat
    BY QueueTypes
  <1>5. inbound # << >>
    BY <1>4
  <1>6. buf[1] = Queue(1) /\ 1 \in 1 .. Waiting
    <2>1. inbound \in Seq(Pieces) /\ buffer \in Seq(Pieces)
      BY DEF ConnInv, Socket
    <2>6. SubSeq(inbound, 1, k) \in Seq(Pieces) /\ Len(SubSeq(inbound, 1, k)) = k
          /\ \A n \in 1 .. k : SubSeq(inbound, 1, k)[n] = inbound[n]
      BY <1>4, <2>1, SubSeqProperties, ElementOfSeq
    <2>2. PICK t \in Seq(Pieces) : /\ t = SubSeq(inbound, 1, k) /\ Len(t) = k
                                   /\ \A n \in 1 .. k : t[n] = inbound[n]
      BY <2>6
    <2>3. \A n \in 1 .. Len(buffer) + k : buf[n] = IF n <= Len(buffer) THEN buffer[n] ELSE t[n - Len(buffer)]
      BY <1>2, <2>1, <2>2, ConcatProperties
    <2>4. buf[1] = IF 1 <= Len(buffer) THEN buffer[1] ELSE t[1 - Len(buffer)]
      BY <1>4, <2>3
    <2>5. ~(1 <= Len(buffer)) => 1 - Len(buffer) \in 1 .. k
      BY <1>4
    <2> QED
      BY <1>4, <2>2, <2>4, <2>5 DEF Queue, Waiting
  <1>7. Queue(1)[1] \in Nat /\ Queue(1)[1] > LastOf /\ (patient => Queue(1)[1] = LastOf + 1)
    <2>1. Behind(LastOf)
      BY <1>3 DEF OrderInv, Line, Goes, Current
    <2>2. Queue(1)[1] \in Nat
      BY <1>6, QueueTypes
    <2> QED
      BY <1>4, <1>6, <2>1, <2>2 DEF Behind
  <1>8. CASE UNCHANGED << proto, resp, writer >>
    BY <1>3, <1>5, <1>8 DEF UpdateState
  <1>9. CASE Bind(Answer(buf[1][1])) \/ Bind(ErrorAnswer(buf[1][1]))
    <2>1. proto' = "SendingResponse" /\ resp'.of = buf[1][1]
      BY <1>9 DEF Bind, Answer, ErrorAnswer
    <2>2. state' = "WRITING"
      BY <1>3, <2>1 DEF UpdateState
    <2> QED
      BY <1>3, <1>5, <1>6, <1>7, <2>1, <2>2
  <1> QED
    BY <1>1, <1>2, <1>8, <1>9

LEMMA ReadKeepsPromise ==
  ASSUME ConnInv, OrderInv, PromiseInv, ReadData
  PROVE  PromiseInv'
  <1>1. /\ state = "READING" /\ inbound # << >>
        /\ UNCHANGED << patient, peer, soError, wire, killed >>
        /\ \/ UNCHANGED << proto, resp, state >>
           \/ \E i \in Nat : /\ i > LastOf /\ (patient => i = LastOf + 1)
                             /\ proto' = "SendingResponse" /\ state' = "WRITING" /\ resp'.of = i
    BY TakenUp DEF client
  <1>2. GoneMeansGone' /\ Ending' /\ Numbered'
    BY <1>1 DEF PromiseInv, GoneMeansGone, Ending, Numbered
  <1>3. CASE UNCHANGED << proto, resp, state >>
    BY <1>1, <1>2, <1>3, SameAnswers DEF PromiseInv
  <1>4. CASE ~UNCHANGED << proto, resp, state >>
    <2>1. PICK i \in Nat : /\ i > LastOf /\ (patient => i = LastOf + 1)
                           /\ proto' = "SendingResponse" /\ state' = "WRITING" /\ resp'.of = i
      BY <1>1, <1>4
    <2>2. LastOf \in Nat /\ \A n \in 1 .. Len(wire) : wire[n][1] \in Nat /\ wire[n][1] <= LastOf
      BY <1>1, QueueTypes DEF OrderInv, OnWire, Current
    <2>3. OwnMarks'
      BY <1>1, <2>1, <2>2 DEF OwnMarks
    <2>4. NoneLeftOut'
      <3>1. ASSUME patient PROVE KeptUpTo(wire, resp'.of - 1)
        <4>1. KeptUpTo(wire, LastOf)
          BY <1>1, <3>1 DEF PromiseInv, NoneLeftOut
        <4>2. resp'.of - 1 = LastOf
          BY <2>1, <2>2, <3>1
        <4> QED
          BY <4>1, <4>2
      <3>2. KeptUpTo(wire', resp'.of - 1) = KeptUpTo(wire, resp'.of - 1)
        BY <1>1 DEF KeptUpTo
      <3> QED
        BY <1>1, <2>1, <3>1, <3>2 DEF NoneLeftOut
    <2> QED
      BY <1>1, <1>2, <2>3, <2>4 DEF PromiseInv
  <1> QED
    BY <1>3, <1>4

\* The call of the writer that finds the answer whole has written its last byte.
LEMMA LastByte ==
  ASSUME ConnInv, WriteTo, Finishes
  PROVE  /\ HeadSent + BodySent > 0
         /\ wire'[Len(wire')][1] = resp.of /\ wire'[Len(wire')][3] = Mark
  <1>1. /\ writer.head \in 0 .. HeadLen /\ writer.body \in Nat /\ resp.len \in Nat /\ resp.file \in BOOLEAN
        /\ HeadLen \in Nat /\ HeadLen > 0 /\ state = "WRITING" /\ Len(wire) \in Nat
    BY LengthsAreNumbers, QueueTypes DEF ConnInv, Server2, WriteTo
  <1>2. /\ HeadSent \in Nat /\ BodySent \in Nat
        /\ BodySent <= BodyLeft /\ BodyLeft = MaxOf(resp.len - writer.body, 0)
    BY WrittenBytes
  <1>8. /\ Len(wire') = Len(wire) + (HeadSent + BodySent)
        /\ \A j \in 1 .. HeadSent + BodySent :
             wire'[Len(wire) + j] = Byte(writer.head + writer.body + j)
    BY WrittenBytes
  <1>3. /\ writer.head + HeadSent = HeadLen
        /\ BodySent = IF resp.file THEN resp.len ELSE BodyLeft
    BY DEF Finishes, BodyDone
  <1>4. \/ writer.head < HeadLen /\ writer.body = 0
        \/ writer.head = HeadLen /\ resp.len > 0 /\ (resp.file \/ writer.body < resp.len)
    BY <1>1 DEF ConnInv, SomethingLeft
  <1>5. /\ HeadSent + BodySent > 0
        /\ writer.head + writer.body + (HeadSent + BodySent) = HeadLen + resp.len
    <2>1. writer.head \in Nat
      BY <1>1
    <2>3. BodyLeft = IF writer.body < resp.len THEN resp.len - writer.body ELSE 0
      BY <1>1, <1>2 DEF MaxOf
    <2>4. writer.body = 0 => BodySent = resp.len
      BY <1>1, <1>3, <2>3
    <2>5. CASE writer.head < HeadLen /\ writer.body = 0
      <3>1. BodySent = resp.len /\ writer.body = 0 /\ writer.head < HeadLen
        BY <2>4, <2>5
      <3>2. HeadSent = HeadLen - writer.head
        BY ONLY <1>1, <1>2, <1>3, <2>1
      <3>3. HeadSent > 0 /\ HeadSent \in Int /\ BodySent \in Nat
        BY ONLY <1>1, <2>1, <3>1, <3>2
      <3>4. writer.head + writer.body + (HeadSent + BodySent) = HeadLen + resp.len
        BY ONLY <1>1, <2>1, <3>1, <3>2, <3>3
      <3>5. HeadSent + BodySent > 0
        BY ONLY <3>3
      <3> QED
        BY <3>4, <3>5
    <2>6. CASE writer.head = HeadLen /\ resp.len > 0 /\ resp.file
      <3>1. BodySent = resp.len /\ writer.body = 0
        BY ONLY <1>1, <1>2, <1>3, <2>3, <2>6
      <3> QED
        BY <1>1, <1>2, <1>3, <2>1, <2>6, <3>1
    <2>7. CASE writer.head = HeadLen /\ resp.len > 0 /\ ~resp.file /\ writer.body < resp.len
      <3>1. BodySent = resp.len - writer.body
        BY <1>1, <1>3, <2>3, <2>7
      <3> QED
        BY ONLY <1>1, <1>2, <1>3, <2>1, <2>7, <3>1
    <2> QED
      BY <1>4, <2>5, <2>6, <2>7
  <1>6. wire'[Len(wire')] = Byte(HeadLen + resp.len)
    <2>1. HeadSent + BodySent \in 1 .. HeadSent + BodySent
      BY <1>2, <1>5
    <2>2. wire'[Len(wire) + (HeadSent + BodySent)] = Byte(writer.head + writer.body + (HeadSent + BodySent))
      BY <1>8, <2>1
    <2> QED
      BY <1>8, <1>5, <2>2
  <1>7. ~(HeadLen + resp.len < HeadLen + resp.len)
    BY <1>1
  <1> QED
    BY <1>5, <1>6, <1>7 DEF Byte, Mark

\* What a call of the writer adds are bytes of its answer, with the answer's mark.
LEMMA AddedBytes ==
  ASSUME ConnInv, WriteTo
  PROVE  /\ Len(wire) \in Nat /\ Len(wire') \in Nat /\ Len(wire') >= Len(wire)
         /\ Len(wire') = Len(wire) + (HeadSent + BodySent)
         /\ \A n \in 1 .. Len(wire) : wire'[n] = wire[n]
         /\ \A n \in 1 .. Len(wire') : n > Len(wire) => /\ wire'[n][1] = resp.of
                                                        /\ wire'[n][3] \in {"more", Mark}
  <1>1. Len(wire) \in Nat
    BY QueueTypes
  <1>2. /\ HeadSent \in Nat /\ BodySent \in Nat /\ Len(wire') = Len(wire) + (HeadSent + BodySent)
        /\ \A n \in 1 .. Len(wire) : wire'[n] = wire[n]
        /\ \A j \in 1 .. HeadSent + BodySent :
             wire'[Len(wire) + j] = Byte(writer.head + writer.body + j)
    BY WrittenBytes
  <1>3. ASSUME NEW n \in 1 .. Len(wire'), n > Len(wire)
        PROVE  wire'[n][1] = resp.of /\ wire'[n][3] \in {"more", Mark}
    <2>1. n - Len(wire) \in 1 .. HeadSent + BodySent /\ Len(wire) + (n - Len(wire)) = n
      BY <1>1, <1>2, <1>3
    <2>2. wire'[n] = Byte(writer.head + writer.body + (n - Len(wire)))
      BY <1>2, <2>1
    <2> QED
      BY <2>2 DEF Byte, Mark
  <1> QED
    BY <1>1, <1>2, <1>3

LEMMA WriteKeepsPromise ==
  ASSUME ConnInv, OrderInv, PromiseInv, WriteTo
  PROVE  PromiseInv'
  <1>1. /\ state = "WRITING" /\ proto = "SendingResponse" /\ UNCHANGED << patient, peer, inbound, soError, killed >>
        /\ resp.of \in Nat /\ resp.keep \in BOOLEAN
    BY DEF WriteTo, client, ConnInv, InStep, Server2
  <1>2. /\ Len(wire) \in Nat /\ Len(wire') \in Nat /\ Len(wire') >= Len(wire)
        /\ Len(wire') = Len(wire) + (HeadSent + BodySent)
        /\ \A n \in 1 .. Len(wire) : wire'[n] = wire[n]
        /\ \A n \in 1 .. Len(wire') : n > Len(wire) => /\ wire'[n][1] = resp.of
                                                       /\ wire'[n][3] \in {"more", Mark}
    BY AddedBytes
  <1>3. GoneMeansGone' /\ Ending'
    BY <1>1 DEF PromiseInv, GoneMeansGone, Ending
  <1>7. Numbered'
    <2>1. resp.of # 0
      BY <1>1 DEF OrderInv, OnWire
    <2>2. ASSUME NEW n \in 1 .. Len(wire') PROVE wire'[n][1] # 0
      BY <1>2, <2>1 DEF PromiseInv, Numbered
    <2> QED
      BY <2>2 DEF Numbered
  <1>4. ASSUME NEW k \in Int, KeptUpTo(wire, k) PROVE KeptUpTo(wire', k)
    <2>1. ASSUME NEW j \in 1 .. k PROVE \E n \in 1 .. Len(wire') : wire'[n][1] = j /\ wire'[n][3] = "keep"
      <3>1. PICK n \in 1 .. Len(wire) : wire[n][1] = j /\ wire[n][3] = "keep"
        BY <1>4 DEF KeptUpTo
      <3>2. n \in 1 .. Len(wire') /\ wire'[n] = wire[n]
        BY <1>2
      <3> QED
        BY <3>1, <3>2
    <2> QED
      BY <2>1 DEF KeptUpTo
  <1>5. CASE ~Finishes
    <2>1. UNCHANGED << proto, resp >> /\ state' = "WRITING"
      BY <1>1, <1>5 DEF WriteTo, UpdateState
    <2>2. OwnMarks'
      <3>1. ASSUME NEW n \in 1 .. Len(wire'), wire'[n][1] = resp.of, wire'[n][3] # "more"
            PROVE  wire'[n][3] = Mark
        <4>1. CASE n <= Len(wire)
          BY <1>1, <1>2, <3>1, <4>1 DEF PromiseInv, OwnMarks
        <4>2. CASE n > Len(wire)
          BY <1>2, <3>1, <4>2
        <4> QED
          BY <1>2, <4>1, <4>2
      <3>2. Mark' = Mark
        BY <2>1 DEF Mark
      <3> QED
        BY <2>1, <3>1, <3>2 DEF OwnMarks
    <2>3. NoneLeftOut'
      <3>1. patient => KeptUpTo(wire, resp.of - 1)
        BY <1>1 DEF PromiseInv, NoneLeftOut
      <3>2. patient => KeptUpTo(wire', resp.of - 1)
        BY <1>1, <1>4, <3>1
      <3>3. resp'.of - 1 = resp.of - 1
        BY <2>1
      <3> QED
        BY <1>1, <2>1, <3>2, <3>3 DEF NoneLeftOut, KeptUpTo
    <2> QED
      BY <1>1, <1>3, <1>7, <2>2, <2>3 DEF PromiseInv
  <1>6. CASE Finishes
    <2>1. /\ HeadSent + BodySent > 0
          /\ wire'[Len(wire')][1] = resp.of /\ wire'[Len(wire')][3] = Mark
      BY <1>6, LastByte
    <2>2. OnResponseFinished /\ UpdateState
      BY <1>6 DEF WriteTo
    <2>3. CASE ~resp.keep
      <3>1. proto' = "Finished" /\ state' \in {"CLOSING", "CLOSED"}
        BY <2>2, <2>3 DEF OnResponseFinished, UpdateState
      <3>2. OwnMarks' /\ NoneLeftOut'
        BY <3>1 DEF OwnMarks, NoneLeftOut
      <3> QED
        BY <1>1, <1>3, <1>7, <3>2 DEF PromiseInv
    <2>4. CASE resp.keep
      <3>1. proto' = "WaitingForHeaders" /\ state' = "READING"
        BY <2>2, <2>4 DEF OnResponseFinished, ResetForNewRequest, UpdateState
      <3>2. OwnMarks'
        BY <3>1 DEF OwnMarks
      <3>3. Len(wire') \in 1 .. Len(wire') /\ wire' # << >>
        <4>1. HeadSent \in Nat /\ BodySent \in Nat
          BY WrittenBytes
        <4>2. Len(wire') > 0
          BY <1>2, <2>1, <4>1
        <4> QED
          BY <1>2, <4>2
      <3>4. LastOf' = resp.of
        BY <2>1, <3>3 DEF LastOf
      <3>5. ASSUME patient PROVE KeptUpTo(wire', resp.of)
        <4>1. KeptUpTo(wire', resp.of - 1)
          BY <1>1, <1>4, <3>5 DEF PromiseInv, NoneLeftOut
        <4>2. wire'[Len(wire')][3] = "keep"
          BY <2>1, <2>4 DEF Mark
        <4>3. ASSUME NEW j \in 1 .. resp.of
              PROVE  \E n \in 1 .. Len(wire') : wire'[n][1] = j /\ wire'[n][3] = "keep"
          <5>1. CASE j = resp.of
            BY <2>1, <3>3, <4>2, <5>1
          <5>2. CASE j # resp.of
            <6>1. j \in 1 .. resp.of - 1
              BY <1>1, <5>2
            <6>2. \A m \in 1 .. resp.of - 1 : \E n \in 1 .. Len(wire') : wire'[n][1] = m /\ wire'[n][3] = "keep"
              BY <4>1 DEF KeptUpTo
            <6> QED
              BY <6>1, <6>2
          <5> QED
            BY <5>1, <5>2
        <4> QED
          BY <4>3 DEF KeptUpTo
      <3>6. NoneLeftOut'
        <4>1. patient' => KeptUpTo(wire', LastOf')
          BY <1>1, <3>4, <3>5 DEF KeptUpTo
        <4> QED
          BY <3>1, <4>1 DEF NoneLeftOut, KeptUpTo
      <3> QED
        BY <1>1, <1>3, <1>7, <3>2, <3>6 DEF PromiseInv
    <2> QED
      BY <1>1, <2>3, <2>4
  <1> QED
    BY <1>5, <1>6

LEMMA PromiseInvStep == ConnInv /\ OrderInv /\ PromiseInv /\ [Next]_vars => PromiseInv'
  <1> SUFFICES ASSUME ConnInv, OrderInv, PromiseInv, [Next]_vars PROVE PromiseInv'
    OBVIOUS
  <1>1. CASE UNCHANGED vars
    <2>1. UNCHANGED << patient, peer, inbound, soError, wire, killed, resp, proto, state >>
      BY <1>1 DEF vars, client, socket, server
    <2>2. OwnMarks' /\ NoneLeftOut' /\ Numbered'
      BY <2>1, SameAnswers
    <2> QED
      BY <2>1, <2>2 DEF PromiseInv, GoneMeansGone, Ending
  <1> QED
    BY <1>1, OthersKeepPromise, ReadKeepsPromise, WriteKeepsPromise
       DEF Next, Server, OnReadable, OnWritable

-----------------------------------------------------------------------------
(* The steps of the promise that the handlers take. *)

LEMMA PromiseInit == Init => Promise!Init
  <1> SUFFICES ASSUME Init PROVE Promise!Init
    OBVIOUS
  <1>1. next = << 1, 1 >> /\ wire = << >> /\ proto = "WaitingForHeaders" /\ state = "READING" /\ killed = FALSE
        /\ peer = "open" /\ patient \in BOOLEAN
    BY DEF Init
  <1>2. Begun = 0 /\ Answering = 0 /\ Closed = FALSE
    BY <1>1 DEF Begun, Answering, Closed
  <1>3. Answers = {}
    BY <1>1 DEF Answers
  <1> QED
    BY <1>1, <1>2, <1>3 DEF Promise!Init

\* The ends of answers on the wire, those of the answer under way left out.
LEMMA EndsOnWire ==
  \A a : a \in Answers <=>
     \E n \in 1 .. Len(wire) : /\ wire[n][3] # "more" /\ wire[n][1] # Answering
                               /\ a = << wire[n][1], wire[n][3] >>
  BY DEF Answers

\* What the server does not touch.
LEMMA ClientSteps ==
  ASSUME ConnInv, OrderInv, Send \/ Consume \/ HalfClose \/ Reset
  PROVE  Promise!Ask \/ Promise!Leave \/ UNCHANGED Promise!vars
  <1>1. UNCHANGED << patient, wire, killed, proto, state, resp >>
    BY DEF Send, Consume, HalfClose, Reset, socket, server
  <1>2. Answering' = Answering /\ Closed' = Closed
    BY <1>1 DEF Answering, Closed
  <1>3. Answers' = Answers
    BY <1>1, <1>2 DEF Answers
  <1>4. CASE Send
    <2>1. next[1] \in Nat /\ next[2] \in Nat /\ next[1] \in 1 .. Len(script)
      BY <1>4, QueueTypes, LenProperties DEF Send, ConnInv, Client
    <2>2. next[2] > 0
      BY <2>1, ScriptedRequest DEF OrderInv, Sending, ConnInv
    <2>3. peer = "open" /\ peer' = "open" /\ next' = Following(next)
      BY <1>4 DEF Send
    <2>4. \/ next' = << next[1], next[2] + 1 >>
          \/ next' = << next[1] + 1, 1 >>
      BY <2>3 DEF Following
    <2>5. Begun' = IF next[2] = 1 THEN Begun + 1 ELSE Begun
      <3>1. CASE next' = << next[1], next[2] + 1 >>
        BY <2>1, <2>2, <3>1 DEF Begun
      <3>2. CASE next' = << next[1] + 1, 1 >>
        BY <2>1, <2>2, <3>2 DEF Begun
      <3> QED
        BY <2>4, <3>1, <3>2
    <2> QED
      BY <1>1, <1>2, <1>3, <2>3, <2>5 DEF Promise!Ask, Promise!vars
  <1>5. CASE Consume \/ HalfClose \/ Reset
    <2>1. UNCHANGED next /\ (UNCHANGED peer \/ (peer = "open" /\ peer' = "half") \/ (peer # "reset" /\ peer' = "reset"))
      BY <1>5 DEF Consume, HalfClose, Reset
    <2>2. Begun' = Begun
      BY <2>1 DEF Begun
    <2> QED
      BY <1>1, <1>2, <1>3, <2>1, <2>2 DEF Promise!Leave, Promise!vars
  <1> QED
    BY <1>4, <1>5

\* The connection ends between two answers once the client has ended its side, and in
\* an answer only when it is gone.
LEMMA EndSteps ==
  ASSUME ConnInv, PromiseInv, ~killed, ReadEnd \/ Discard \/ WriteFails
  PROVE  Promise!Break \/ UNCHANGED Promise!vars
  <1>1. UNCHANGED << patient, peer, next, wire, resp >>
    BY DEF ReadEnd, Discard, WriteFails, client
  <1>2. Begun' = Begun
    BY <1>1 DEF Begun
  <1>3. CASE ReadEnd
    <2>1. /\ state = "READING" /\ proto = "WaitingForHeaders" /\ state' = "CLOSED" /\ killed' = killed
          /\ proto' \in {"Finished", "WaitingForHeaders"} /\ peer # "open"
      BY <1>3 DEF ReadEnd, AtEof, ConnInv, InStep, PromiseInv, GoneMeansGone
    <2>2. Answering = 0 /\ Answering' = 0 /\ ~Closed /\ Closed' = TRUE
      BY <2>1 DEF Answering, Closed
    <2>3. Answers' = Answers
      BY <1>1, <2>2 DEF Answers
    <2>4. peer \in {"half", "reset"}
      BY <2>1 DEF PromiseInv, Ending
    <2> QED
      BY <1>1, <1>2, <2>1, <2>2, <2>3, <2>4 DEF Promise!Break
  <1>4. CASE Discard
    <2>1. state = "CLOSING" /\ state' \in {"CLOSING", "CLOSED"} /\ UNCHANGED << killed, proto >>
      BY <1>4 DEF Discard
    <2>2. Answering' = Answering /\ Closed = TRUE /\ Closed' = TRUE
      BY <1>1, <2>1 DEF Answering, Closed
    <2>3. Answers' = Answers
      BY <1>1, <2>2 DEF Answers
    <2> QED
      BY <1>1, <1>2, <2>2, <2>3 DEF Promise!vars
  <1>5. CASE WriteFails
    <2>1. /\ state = "WRITING" /\ peer = "reset" /\ UNCHANGED proto
          /\ (state' = "CLOSED" /\ killed' = killed) \/ killed' = TRUE
      BY <1>5 DEF WriteFails
    <2>2. Answering' = Answering /\ ~Closed /\ Closed' = TRUE
      BY <1>1, <2>1 DEF Answering, Closed
    <2>3. Answers' = Answers
      BY <1>1, <2>2 DEF Answers
    <2> QED
      BY <1>1, <1>2, <2>1, <2>2, <2>3 DEF Promise!Break
  <1> QED
    BY <1>3, <1>4, <1>5

\* A request is taken up.
LEMMA ReadSteps ==
  ASSUME ConnInv, OrderInv, PromiseInv, ~killed, ReadData
  PROVE  (\E i \in 1 .. Begun : Promise!Begin(i)) \/ UNCHANGED Promise!vars
  <1>1. /\ state = "READING" /\ proto = "WaitingForHeaders" /\ inbound # << >>
        /\ UNCHANGED << script, patient, next, peer, wire, killed >>
        /\ \/ UNCHANGED << proto, resp, state >>
           \/ \E i \in Nat : /\ i = Queue(1)[1] /\ 1 \in 1 .. Waiting
                             /\ i > LastOf /\ (patient => i = LastOf + 1)
                             /\ proto' = "SendingResponse" /\ state' = "WRITING" /\ resp'.of = i
    BY TakenUp DEF client
  <1>2. Begun' = Begun /\ Answering = 0 /\ ~Closed
    BY <1>1 DEF Begun, Answering, Closed
  <1>3. CASE UNCHANGED << proto, resp, state >>
    <2>1. Answering' = Answering /\ Closed' = Closed
      BY <1>1, <1>3 DEF Answering, Closed
    <2>2. Answers' = Answers
      BY <1>1, <2>1 DEF Answers
    <2> QED
      BY <1>1, <1>2, <2>1, <2>2 DEF Promise!vars
  <1>4. CASE ~UNCHANGED << proto, resp, state >>
    <2>1. PICK i \in Nat : /\ i = Queue(1)[1] /\ 1 \in 1 .. Waiting
                           /\ i > LastOf /\ (patient => i = LastOf + 1)
                           /\ proto' = "SendingResponse" /\ state' = "WRITING" /\ resp'.of = i
      BY <1>1, <1>4
    <2>2. LastOf \in Nat /\ Len(wire) \in Nat /\ next[1] \in Nat /\ next[2] \in Nat
          /\ Waiting \in Nat /\ \A n \in 1 .. Len(wire) : wire[n] \in Marks /\ wire[n][1] \in Nat
      BY QueueTypes
    <2>3. \A n \in 1 .. Len(wire) : wire[n][1] <= LastOf
      BY <1>1 DEF OrderInv, OnWire, Current
    <2>4. Answering' = i /\ Closed' = FALSE /\ Closed = FALSE
      BY <1>1, <1>2, <2>1 DEF Answering, Closed
    <2>5. peer # "reset"
      BY <1>1 DEF PromiseInv, GoneMeansGone
    \* It has been asked.
    <2>6. i \in 1 .. Begun
      <3>1. InOrder
        BY <1>1 DEF OrderInv, Line, Goes
      <3>2. Precedes(Queue(1), next, Waiting + 1 - 1)
        BY <2>1, <2>5, <3>1 DEF InOrder
      <3>3. Queue(1)[2] \in 1 .. script[Queue(1)[1]].pieces /\ Queue(1)[2] \in Nat
        BY <2>1, <3>1, QueueTypes DEF InOrder
      <3>4. Queue(1)[2] > 0
        <4>1. Queue(1)[1] \in 1 .. Len(script)
          BY <2>1, QueueTypes
        <4>2. script[Queue(1)[1]].pieces \in Nat
          BY <4>1, ScriptedRequest DEF ConnInv
        <4> QED
          BY <3>3, <4>2
      <3>5. i < next[1] \/ (i = next[1] /\ next[2] = Queue(1)[2] + (Waiting + 1 - 1))
        BY <2>1, <3>2 DEF Precedes
      <3>6. i < next[1] \/ (i = next[1] /\ next[2] # 1)
        BY <2>1, <2>2, <3>3, <3>4, <3>5
      <3>7. i > 0
        BY <2>1, <2>2
      <3>8. CASE next[2] = 1
        <4>1. Begun = next[1] - 1 /\ i < next[1]
          BY <3>6, <3>8 DEF Begun
        <4> QED
          BY <2>1, <2>2, <3>7, <4>1
      <3>9. CASE next[2] # 1
        <4>1. Begun = next[1]
          BY <3>9 DEF Begun
        <4> QED
          BY <2>1, <2>2, <3>6, <3>7, <4>1
      <3> QED
        BY <3>8, <3>9
    \* All answers on the wire are to earlier requests, and none of them ends the connection.
    <2>7. ASSUME NEW n \in 1 .. Len(wire), wire[n][3] # "more" PROVE wire[n][3] = "keep"
      <3>1. CASE n = Len(wire)
        BY <1>1, <2>2, <3>1, EmptySeq DEF OrderInv, AtPlace
      <3>2. CASE n # Len(wire)
        <4>1. n \in 1 .. Len(wire) - 1
          BY <2>2, <3>2
        <4>2. Continues(wire[n], wire[n + 1])
          BY <2>7, <4>1 DEF OrderInv, AnswersAreWhole
        <4>3. wire[n][3] \in {"more", "keep", "close"}
          BY <2>2 DEF Marks
        <4> QED
          BY <2>7, <4>2, <4>3 DEF Continues
      <3> QED
        BY <3>1, <3>2
    <2>8. \A a \in Answers : a[1] < i /\ a[2] = "keep"
      <3>1. ASSUME NEW a \in Answers PROVE a[1] < i /\ a[2] = "keep"
        <4>1. PICK n \in 1 .. Len(wire) : wire[n][3] # "more" /\ a = << wire[n][1], wire[n][3] >>
          BY <3>1, EndsOnWire
        <4>2. wire[n][1] \in Nat /\ wire[n][1] <= LastOf /\ wire[n][3] = "keep"
          BY <2>2, <2>3, <2>7, <4>1
        <4>3. a[1] = wire[n][1] /\ a[2] = wire[n][3]
          BY <4>1
        <4>4. wire[n][1] < i
          BY <2>1, <2>2, <4>2
        <4> QED
          BY <4>2, <4>3, <4>4
      <3> QED
        BY <3>1
    <2>9. patient => \A j \in 1 .. i - 1 : << j, "keep" >> \in Answers
      <3> HAVE patient
      <3> TAKE j \in 1 .. i - 1
      <3>1. << j, "keep" >> \in Answers
        <4>1. KeptUpTo(wire, LastOf)
          BY <1>1 DEF PromiseInv, NoneLeftOut
        <4>2. j \in 1 .. LastOf
          BY <2>1, <2>2
        <4>3. PICK n \in 1 .. Len(wire) : wire[n][1] = j /\ wire[n][3] = "keep"
          BY <4>1, <4>2 DEF KeptUpTo
        <4>4. wire[n][1] # Answering
          BY <1>2, <2>2, <4>2, <4>3
        <4> QED
          BY <4>3, <4>4, EndsOnWire
      <3> QED
        BY <3>1, Zenon
    <2>10. Answers' = Answers
      <3>1. ASSUME NEW n \in 1 .. Len(wire) PROVE wire[n][1] # Answering' <=> wire[n][1] # Answering
        <4>1. wire[n][1] # i
          BY <2>1, <2>2, <2>3
        <4>2. wire[n][1] # 0
          BY DEF PromiseInv, Numbered
        <4> QED
          BY <1>2, <2>4, <4>1, <4>2
      <3> QED
        BY <1>1, <3>1 DEF Answers
    <2> QED
      BY <1>1, <1>2, <2>4, <2>5, <2>6, <2>8, <2>9, <2>10 DEF Promise!Begin
  <1> QED
    BY <1>3, <1>4

\* An answer goes on, or ends.
LEMMA WriteSteps ==
  ASSUME ConnInv, OrderInv, PromiseInv, ~killed, WriteTo
  PROVE  (\E how \in {"keep", "close"} : Promise!End(how)) \/ UNCHANGED Promise!vars
  <1>1. /\ state = "WRITING" /\ proto = "SendingResponse"
        /\ UNCHANGED << patient, next, peer, killed >>
        /\ resp.of \in Nat /\ resp.of # 0 /\ resp.keep \in BOOLEAN
    BY DEF WriteTo, client, ConnInv, InStep, Server2, OrderInv, OnWire
  <1>2. /\ Len(wire) \in Nat /\ Len(wire') \in Nat /\ Len(wire') >= Len(wire)
        /\ Len(wire') = Len(wire) + (HeadSent + BodySent)
        /\ \A n \in 1 .. Len(wire) : wire'[n] = wire[n]
        /\ \A n \in 1 .. Len(wire') : n > Len(wire) => /\ wire'[n][1] = resp.of
                                                       /\ wire'[n][3] \in {"more", Mark}
    BY AddedBytes
  <1>3. Begun' = Begun /\ Answering = resp.of /\ Closed = FALSE
    BY <1>1 DEF Begun, Answering, Closed
  <1>4. \A a : a \in Answers' <=>
           \E n \in 1 .. Len(wire') : /\ wire'[n][3] # "more" /\ wire'[n][1] # Answering'
                                      /\ a = << wire'[n][1], wire'[n][3] >>
    BY DEF Answers
  <1>5. CASE ~Finishes
    <2>1. UNCHANGED << proto, resp >> /\ state' = "WRITING"
      BY <1>1, <1>5 DEF WriteTo, UpdateState
    <2>2. Answering' = Answering /\ Closed' = Closed
      BY <1>1, <1>3, <2>1 DEF Answering, Closed
    <2>3. \A a : a \in Answers' <=> a \in Answers
      <3>1. ASSUME NEW a, a \in Answers' PROVE a \in Answers
        <4>1. PICK n \in 1 .. Len(wire') : /\ wire'[n][3] # "more" /\ wire'[n][1] # resp.of
                                           /\ a = << wire'[n][1], wire'[n][3] >>
          BY <1>3, <1>4, <2>2, <3>1
        <4>2. n \in 1 .. Len(wire) /\ wire'[n] = wire[n]
          BY <1>2, <4>1
        <4> QED
          BY <1>3, <4>1, <4>2, EndsOnWire
      <3>2. ASSUME NEW a, a \in Answers PROVE a \in Answers'
        <4>1. PICK n \in 1 .. Len(wire) : /\ wire[n][3] # "more" /\ wire[n][1] # resp.of
                                          /\ a = << wire[n][1], wire[n][3] >>
          BY <1>3, <3>2, EndsOnWire
        <4>2. n \in 1 .. Len(wire') /\ wire'[n] = wire[n]
          BY <1>2
        <4> QED
          BY <1>3, <1>4, <2>2, <4>1, <4>2
      <3> QED
        BY <3>1, <3>2
    <2>4. Answers' = Answers
      BY <2>3 DEF Answers
    <2> QED
      BY <1>1, <1>3, <2>2, <2>4 DEF Promise!vars
  <1>6. CASE Finishes
    <2>1. /\ HeadSent + BodySent > 0
          /\ wire'[Len(wire')][1] = resp.of /\ wire'[Len(wire')][3] = Mark
      BY <1>6, LastByte
    <2>2. OnResponseFinished /\ UpdateState
      BY <1>6 DEF WriteTo
    <2>3. proto' # "SendingResponse" /\ Closed' = (Mark = "close") /\ Mark \in {"keep", "close"}
      <3>1. CASE resp.keep
        BY <1>1, <2>2, <3>1 DEF OnResponseFinished, ResetForNewRequest, UpdateState, Closed, Mark
      <3>2. CASE ~resp.keep
        BY <1>1, <2>2, <3>2 DEF OnResponseFinished, UpdateState, Closed, Mark
      <3> QED
        BY <3>1, <3>2
    <2>4. Answering' = 0
      BY <2>3 DEF Answering
    <2>5. \A a : a \in Answers' <=> a \in Answers \union {<< resp.of, Mark >>}
      <3>1. ASSUME NEW a, a \in Answers' PROVE a \in Answers \union {<< resp.of, Mark >>}
        <4>1. PICK n \in 1 .. Len(wire') : wire'[n][3] # "more" /\ a = << wire'[n][1], wire'[n][3] >>
          BY <1>4, <3>1
        <4>2. CASE n > Len(wire)
          BY <1>2, <4>1, <4>2
        <4>3. CASE n <= Len(wire)
          <5>1. n \in 1 .. Len(wire) /\ wire'[n] = wire[n]
            BY <1>2, <4>3
          <5>2. CASE wire[n][1] = resp.of
            BY <1>1, <4>1, <5>1, <5>2 DEF PromiseInv, OwnMarks
          <5>3. CASE wire[n][1] # resp.of
            BY <1>3, <4>1, <5>1, <5>3, EndsOnWire
          <5> QED
            BY <5>2, <5>3
        <4> QED
          BY <1>2, <4>2, <4>3
      <3>2. ASSUME NEW a \in Answers PROVE a \in Answers'
        <4>1. PICK n \in 1 .. Len(wire) : /\ wire[n][3] # "more"
                                          /\ a = << wire[n][1], wire[n][3] >>
          BY <3>2, EndsOnWire
        <4>2. n \in 1 .. Len(wire') /\ wire'[n] = wire[n] /\ wire[n][1] # 0
          BY <1>2 DEF PromiseInv, Numbered
        <4> QED
          BY <1>4, <2>4, <4>1, <4>2
      <3>3. << resp.of, Mark >> \in Answers'
        <4>1. Len(wire') \in 1 .. Len(wire')
          <5>1. HeadSent \in Nat /\ BodySent \in Nat
            BY WrittenBytes
          <5> QED
            BY <1>2, <2>1, <5>1
        <4>2. Mark # "more"
          BY <2>3
        <4> QED
          BY <1>1, <1>4, <2>1, <2>4, <4>1, <4>2
      <3> QED
        BY <3>1, <3>2, <3>3
    <2>6. Answers' = Answers \union {<< resp.of, Mark >>}
      BY <2>5 DEF Answers
    <2>7. Promise!End(Mark)
      BY <1>1, <1>3, <2>3, <2>4, <2>6 DEF Promise!End
    <2> QED
      BY <2>3, <2>7
  <1> QED
    BY <1>5, <1>6

LEMMA PromiseStep ==
  ConnInv /\ OrderInv /\ PromiseInv /\ [Next]_vars => [Promise!Next]_(Promise!vars)
  <1> SUFFICES ASSUME ConnInv, OrderInv, PromiseInv, [Next]_vars
               PROVE  Promise!Next \/ UNCHANGED Promise!vars
    OBVIOUS
  <1>1. CASE UNCHANGED vars
    <2>1. UNCHANGED << patient, peer, next, wire, proto, resp, state, killed >>
      BY <1>1 DEF vars, client, socket, server
    <2>2. Begun' = Begun /\ Answering' = Answering /\ Closed' = Closed
      BY <2>1 DEF Begun, Answering, Closed
    <2>3. Answers' = Answers
      BY <2>1, <2>2 DEF Answers
    <2> QED
      BY <2>1, <2>2, <2>3 DEF Promise!vars
  <1>2. CASE Send \/ Consume \/ HalfClose \/ Reset
    BY <1>2, ClientSteps DEF Promise!Next
  <1>3. CASE ~killed /\ ReadData
    BY <1>3, ReadSteps DEF Promise!Next
  <1>4. CASE ~killed /\ WriteTo
    BY <1>4, WriteSteps DEF Promise!Next
  <1>5. CASE ~killed /\ (ReadEnd \/ Discard \/ WriteFails)
    BY <1>5, EndSteps DEF Promise!Next
  <1> QED
    BY <1>1, <1>2, <1>3, <1>4, <1>5 DEF Next, Server, OnReadable, OnWritable

(***************************************************************************)
(* The connection implements the promise of AnsweringServer, whatever is   *)
(* asked in whatever pieces and however little the socket takes: answers   *)
(* in order to what was asked, none begun after one that closes, none      *)
(* broken off but for a client that has reset the connection               *)
(* (Connection.cc:52, HttpProtocolHandler.cc:90).                          *)
(***************************************************************************)
THEOREM KeepsThePromise == Spec => ImplementsServer
  <1>1. ConnInv /\ [Next]_vars => ConnInv'
    BY ConnInvStep
  <1> QED
    BY ConnInvInit, OrderInvInit, PromiseInvInit, PromiseInit, <1>1, OrderInvStep, PromiseInvStep, PromiseStep, PTL
       DEF Spec, ImplementsServer, Promise!Spec
=============================================================================
