---------------------------- MODULE RequestParser ----------------------------
(* RequestParser takes a request in whatever pieces the socket delivers and    *)
(* keeps what it cannot use yet in a buffer.  A byte is a record of a kind and *)
(* a number; the texts of the request line and of a header line are one byte   *)
(* each, for nothing tells a part of a text from the whole before its CRLF.    *)
(* Chunk sizes are hexadecimal digits, of which data may consist as well.      *)
EXTENDS Integers, Sequences, SequencesExt, FiniteSets, FiniteSetsExt

\* Requests: the requests as they were meant; MaxBody: client_max_body_size;
\* MaxPieces bounds the number of pieces a request comes in.
CONSTANTS Requests, MaxBody, MaxPieces

\* request, and how many bytes of it have come, cut where; p: the members of the
\* parser; status: 0 while it asks for more, 200 when it has the request.
VARIABLES request, sent, cuts, p, status

vars == <<request, sent, cuts, p, status>>

Byte(kind, n) == [kind |-> kind, n |-> n]
CRLF == <<Byte("cr", 0), Byte("lf", 0)>>

\* The first place from i on where t stands in s, 0 if there is none.
Find(s, t, i) ==
  LET places == {k \in i .. Len(s) - Len(t) + 1 : SubSeq(s, k, k + Len(t) - 1) = t}
  IN  IF places = {} THEN 0 ELSE Min(places)

From(s, i) == SubSeq(s, i, Len(s))

StartsWithCRLF(s) == IsPrefix(CRLF, s)

RECURSIVE WithoutLeadingCRLF(_)
WithoutLeadingCRLF(s) == IF StartsWithCRLF(s) THEN WithoutLeadingCRLF(From(s, 3)) ELSE s

-----------------------------------------------------------------------------
(* The steps.  Each yields the parser and 0 for Incomplete, 1 for Success or   *)
(* the status code of an error.                                                *)

AtStart == [step |-> "RequestLine", buffer |-> <<>>, left |-> 0, body |-> <<>>,
            headers |-> <<>>, oldVersion |-> FALSE, keepAlive |-> FALSE]

Outcome(q, code) == [p |-> q, code |-> code]
With(q, buffer) == [q EXCEPT !.buffer = buffer]

\* The number of a request line says what is wrong with it, in the order in
\* which the code asks: words or path, method, version.
ParseRequestLine(q) ==
  LET pos == Find(q.buffer, CRLF, 1)
      line == SubSeq(q.buffer, 1, pos - 1)
      rest == With(q, From(q.buffer, pos + 2))
  IN  IF pos = 0 THEN Outcome(q, 0)
      ELSE IF Len(line) # 1 \/ line[1].kind # "request" THEN Outcome(rest, 400)
      ELSE CASE line[1].n \in {400, 501, 505} -> Outcome(rest, line[1].n)
             [] OTHER -> Outcome([rest EXCEPT !.oldVersion = line[1].n = 10], 1)

\* The last value of a header, -1 if it is not there.
Header(headers, kind) ==
  LET at == {i \in DOMAIN headers : headers[i].kind = kind}
  IN  IF at = {} THEN -1 ELSE headers[Max(at)].n

Has(headers, kind) == \E i \in DOMAIN headers : headers[i].kind = kind

WantsKeepAlive(headers, oldVersion) ==
  CASE Header(headers, "Connection") = 0 -> FALSE
    [] Header(headers, "Connection") = 1 -> TRUE
    [] OTHER -> ~oldVersion

\* Transfer-Encoding is 1 for chunked; a Content-Length of -2 is not a number.
HeadersError(headers) ==
  IF Has(headers, "NoColon") THEN 400
  ELSE IF Has(headers, "Transfer-Encoding") /\ Header(headers, "Transfer-Encoding") # 1 THEN 501
  ELSE IF Header(headers, "Content-Length") = -2 THEN 400
  ELSE IF Header(headers, "Content-Length") > MaxBody THEN 413
  ELSE 0

ParseHeaders(q) ==
  LET end == Find(q.buffer, CRLF \o CRLF, 1)
      headers == SelectSeq(SubSeq(q.buffer, 1, end - 1), LAMBDA b : b.kind \notin {"cr", "lf"})
      rest == [With(q, From(q.buffer, end + 4)) EXCEPT
                 !.headers = headers, !.keepAlive = WantsKeepAlive(headers, q.oldVersion)]
  IN  IF StartsWithCRLF(q.buffer) THEN Outcome(With(q, From(q.buffer, 3)), 1)
      ELSE IF end = 0 THEN Outcome(q, 0)
      ELSE IF HeadersError(headers) # 0 THEN Outcome(rest, HeadersError(headers))
      ELSE Outcome(rest, 1)

ParseBody(q) ==
  LET n == Header(q.headers, "Content-Length")
  IN  IF Len(q.buffer) < n THEN Outcome(q, 0)
      ELSE Outcome([With(q, From(q.buffer, n + 1)) EXCEPT !.body = SubSeq(q.buffer, 1, n)], 1)

IsHex(b) == b.kind = "hex"

\* stoul takes the digits a line begins with; without one it throws.
SizeDigits(line) ==
  LET others == {i \in DOMAIN line : ~IsHex(line[i])}
  IN  IF others = {} THEN line ELSE SubSeq(line, 1, Min(others) - 1)

SizeOf(digits) == FoldLeft(LAMBDA acc, b : 16 * acc + b.n, 0, digits)

\* After the chunk of size 0, when its size line is consumed already.
LastChunk(q) ==
  LET end == Find(q.buffer, CRLF \o CRLF, 1)
  IN  IF StartsWithCRLF(q.buffer) THEN Outcome(With(q, From(q.buffer, 3)), 1)
      ELSE IF end # 0 THEN Outcome(With(q, From(q.buffer, end + 4)), 1)
      ELSE Outcome(q, 0)

SizeLine(q) ==
  LET buffer == WithoutLeadingCRLF(q.buffer)
      pos == Find(buffer, CRLF, 1)
      digits == SizeDigits(SubSeq(buffer, 1, pos - 1))
      rest == [With(q, From(buffer, pos + 2)) EXCEPT !.left = SizeOf(digits)]
  IN  IF pos = 0 THEN Outcome(With(q, buffer), 0)
      ELSE IF digits = <<>> THEN Outcome(rest, 400)
      ELSE IF rest.left = 0 THEN LastChunk(rest)
      ELSE Outcome(rest, 0)

\* Whether a CRLF within the chunk is followed by a line that looks like a size;
\* the look ends at the first CRLF whose line is not there yet.
LooksEnded(q) ==
  LET limit == IF q.left < Len(q.buffer) THEN q.left ELSE Len(q.buffer)
      breaks == {k \in 1 .. limit : Find(q.buffer, CRLF, k) = k}
      Next1(k) == Find(q.buffer, CRLF, k + 2)
      Line(k) == SubSeq(q.buffer, k + 2, Next1(k) - 1)
  IN  \E k \in breaks : /\ \A j \in breaks : j <= k => Next1(j) # 0
                        /\ Line(k) # <<>>
                        /\ \A i \in DOMAIN Line(k) : IsHex(Line(k)[i])

ChunkData(q) ==
  LET n == IF Len(q.buffer) < q.left THEN Len(q.buffer) ELSE q.left
      rest == [With(q, From(q.buffer, n + 1)) EXCEPT
                 !.body = @ \o SubSeq(q.buffer, 1, n), !.left = @ - n]
  IN  IF LooksEnded(q) THEN Outcome(q, 400)
      ELSE IF Len(rest.body) > MaxBody THEN Outcome(rest, 413)
      ELSE IF rest.left > 0 \/ Len(rest.buffer) < 2 THEN Outcome(rest, 0)
      ELSE IF ~StartsWithCRLF(rest.buffer) THEN Outcome(rest, 400)
      ELSE Outcome(With(rest, From(rest.buffer, 3)), 0)

ParseChunkedBody(q) == IF q.left = 0 THEN SizeLine(q) ELSE ChunkData(q)

\* Mutant: a length goes before an encoding.
StepAfterLengthFirst(q) ==
  CASE q.step = "RequestLine" -> "Headers"
    [] q.step = "Headers" -> IF Has(q.headers, "Content-Length") THEN "Body"
                             ELSE IF Has(q.headers, "Transfer-Encoding") THEN "ChunkedBody" ELSE "Completed"
    [] OTHER -> "Completed"

StepAfter(q) ==
  CASE q.step = "RequestLine" -> "Headers"
    [] q.step = "Headers" -> IF Has(q.headers, "Transfer-Encoding") THEN "ChunkedBody"
                             ELSE IF Has(q.headers, "Content-Length") THEN "Body" ELSE "Completed"
    [] OTHER -> "Completed"

Step(q) ==
  CASE q.step = "RequestLine" -> ParseRequestLine(q)
    [] q.step = "Headers" -> ParseHeaders(q)
    [] q.step = "Body" -> ParseBody(q)
    [] q.step = "ChunkedBody" -> ParseChunkedBody(q)

\* parse goes on as long as a step takes something from the buffer.
RECURSIVE Drive(_)
Drive(q) ==
  LET r == Step(q)
      after == IF r.code = 1 THEN [r.p EXCEPT !.step = StepAfter(r.p)] ELSE r.p
  IN  IF q.step = "Completed" THEN Outcome(q, 200)
      ELSE IF r.code >= 400 THEN r
      ELSE IF Len(after.buffer) < Len(q.buffer) \/ after.step = "Completed" THEN Drive(after)
      ELSE Outcome(after, 0)

Parse(q, data) == Drive(With(q, q.buffer \o data))

-----------------------------------------------------------------------------
(* The client: what is sent of a request, and the pieces that arrive.          *)

Hex(n) == Byte("hex", n)

EncodeChunk(data) == <<Hex(Len(data))>> \o CRLF \o data \o CRLF

EncodeLines(texts) == FlattenSeq([i \in DOMAIN texts |-> <<texts[i]>> \o CRLF]) \o CRLF

EncodedHead(r) == <<r.line>> \o CRLF \o EncodeLines(r.headers)

EncodedEnd(r) == EncodeLines(r.trailers)

Encode(r) ==
  EncodedHead(r) \o (IF r.chunked
              THEN FlattenSeq([i \in DOMAIN r.chunks |-> EncodeChunk(r.chunks[i])]) \o <<Hex(0)>> \o CRLF \o EncodedEnd(r)
              ELSE FlattenSeq(r.chunks))

Init ==
  /\ request \in Requests
  /\ sent = 0
  /\ cuts = {}
  /\ p = AtStart
  /\ status = 0

\* onData: the next piece, of any size.
OnData ==
  /\ status = 0
  /\ Cardinality(cuts) < MaxPieces
  /\ \E upTo \in sent + 1 .. Len(Encode(request)) :
       LET r == Parse(p, SubSeq(Encode(request), sent + 1, upTo))
       IN  /\ p' = r.p
           /\ status' = r.code
           /\ sent' = upTo
           /\ cuts' = cuts \union {upTo}
  /\ UNCHANGED request

\* resetForNewRequest, after the answer.
Reset ==
  /\ status = 200
  /\ p' = AtStart
  /\ status' = 100
  /\ UNCHANGED <<request, sent, cuts>>

Next == OnData \/ Reset

Spec == Init /\ [][Next]_vars

-----------------------------------------------------------------------------

BodyOf(r) == FlattenSeq(r.chunks)

\* What is wrong with the request, 0 if nothing.
ErrorOf(r) ==
  IF r.line.n >= 400 THEN r.line.n
  ELSE IF r.headers # <<>> /\ HeadersError(r.headers) # 0 THEN HeadersError(r.headers)
  ELSE IF r.chunked /\ Len(BodyOf(r)) > MaxBody THEN 413 ELSE 0

\* Whether a line of the data could be taken for a size.
HasLookalike(r) ==
  \E c \in Range(r.chunks) : \E k \in DOMAIN c : Find(c, CRLF, k) = k /\ k + 2 \in DOMAIN c /\ IsHex(c[k + 2])

\* Between the size line of the last chunk and the end.
WithinTheEnd(r) == r.chunked /\ \E k \in cuts : Len(Encode(r)) - k \in 1 .. Len(EncodedEnd(r))

\* Wherever the pieces are cut, a request is taken for what it was meant: its
\* body, its wish to keep the connection and what is wrong with it.  Three
\* exceptions: after a cut behind the last size line the end of the body is
\* never noticed or its trailers are taken for a size (RequestParser.cc:305),
\* data may be taken for a chunk that ended early (RequestParser.cc:343), and
\* without headers a connection is not kept (RequestParser.cc:160).
CutsDoNotMatter ==
  /\ status = 200 => /\ ErrorOf(request) = 0
                     /\ p.body = BodyOf(request)
                     /\ sent = Len(Encode(request))
                     /\ p.keepAlive = (request.headers # <<>>
                                       /\ WantsKeepAlive(request.headers, request.line.n = 10))
  /\ status >= 400 => status = ErrorOf(request) \/ (status = 400 /\ request.chunked
                                                 /\ (HasLookalike(request) \/ WithinTheEnd(request)))
  /\ status = 0 /\ sent = Len(Encode(request)) => WithinTheEnd(request)
===============================================================================
