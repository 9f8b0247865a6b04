------------------------------ MODULE CgiOutput ------------------------------
(* CgiHandler takes what a script has written apart: headers, an empty line,   *)
(* a body.  The output is a sequence of symbols: the ends of a line, and texts  *)
(* that stand for whole lines or for pieces of the body.                       *)
EXTENDS Integers, Sequences, SequencesExt, FiniteSets, FiniteSetsExt

\* Outputs: what scripts write, as its header lines, the end of its lines and
\* its body; a line has a kind, and a key and a value where it is a header.
CONSTANTS Outputs, Unread

VARIABLES input, outcome

vars == <<input, outcome>>

Cr == [kind |-> "cr"]
Lf == [kind |-> "lf"]
CRLF == <<Cr, Lf>>

\* The first place of t in s, 0 if there is none.
Find(s, t) ==
  LET places == {i \in 1 .. Len(s) - Len(t) + 1 : SubSeq(s, i, i + Len(t) - 1) = t}
  IN  IF places = {} THEN 0 ELSE Min(places)

-----------------------------------------------------------------------------

\* The line that getline reads is one text here, with or without a CR behind it;
\* the rest of the lines are empty.  A status without a blank before its code, or
\* a code that is no int, is passed over, and so is a header without ": ".
ParseCgiHeaders(head) ==
  LET Line(response, symbol) ==
        CASE symbol.kind = "status" -> [response EXCEPT !.code = symbol.value]
          [] symbol.kind = "header" -> [response EXCEPT !.headers = [k \in DOMAIN @ \union {symbol.key} |->
                                                                       IF k = symbol.key THEN symbol.value ELSE @[k]]]
          [] OTHER -> response
  IN  FoldLeft(Line, [code |-> 200, headers |-> [k \in {} |-> 0], body |-> <<>>], head)

\* The response that is made of an output cut before the i-th symbol and n symbols
\* later.
Response(raw, i, n) ==
  LET body == SubSeq(raw, i + n, Len(raw))
      parsed == ParseCgiHeaders(SubSeq(raw, 1, i - 1))
  IN  [parsed EXCEPT !.headers = [k \in DOMAIN @ \union {"length"} |-> IF k = "length" THEN Len(body) ELSE @[k]],
                     !.body = body]

BadGateway == [code |-> 502, headers |-> [k \in {"connection"} |-> "close"], body |-> <<>>]

\* Mutant: the bare line feeds are looked for first.
ParseCgiOutputBareFirst(raw) ==
  LET bare == Find(raw, <<Lf, Lf>>)
      full == Find(raw, CRLF \o CRLF)
  IN  CASE bare # 0 -> Response(raw, bare, 2)
        [] full # 0 -> Response(raw, full, 4)
        [] OTHER -> BadGateway

ParseCgiOutput(raw) ==
  LET full == Find(raw, CRLF \o CRLF)
      bare == Find(raw, <<Lf, Lf>>)
  IN  CASE full # 0 -> Response(raw, full, 4)
        [] full = 0 /\ bare # 0 -> Response(raw, bare, 2)
        [] OTHER -> BadGateway

Raw(o) == FlattenSeq([i \in DOMAIN o.lines |-> <<o.lines[i]>> \o o.end]) \o o.end \o o.body

Init == input \in Outputs /\ outcome = Unread

HandleOutput ==
  /\ outcome = Unread
  /\ outcome' = ParseCgiOutput(Raw(input))
  /\ UNCHANGED input

Next == HandleOutput

-----------------------------------------------------------------------------

\* The body of a script that writes a header at all arrives as it was written,
\* empty lines and texts that look like headers included, with the length of the
\* body, the last status that can be read and the last value of each other header
\* (CgiHandler.cc:46).  Of bare line feeds before a body with an empty
\* line that ends in CR LF nothing is said: there the headers end too late.
OutputIsTakenApart ==
  outcome # Unread =>
    LET lines == input.lines
        Lines(k) == {i \in DOMAIN lines : lines[i].kind = k}
        keys == {lines[i].key : i \in Lines("header")}
        LastOf(S) == lines[Max(S)].value
    IN  lines # <<>> /\ (input.end = CRLF \/ Find(input.body, CRLF \o CRLF) = 0) =>
          /\ outcome.body = input.body
          /\ outcome.code = IF Lines("status") = {} THEN 200 ELSE LastOf(Lines("status"))
          /\ DOMAIN outcome.headers = keys \union {"length"}
          /\ outcome.headers["length"] = Len(input.body)
          /\ \A k \in keys \ {"length"} : outcome.headers[k] = LastOf({i \in Lines("header") : lines[i].key = k})
=============================================================================
