------------------------------- MODULE Routing -------------------------------
(* From the configuration file to the handler that answers a request: the     *)
(* loader of the configuration, the router that is built from it, and the      *)
(* dispatch.  A member of a JSON object is Missing, Wrong (of another type     *)
(* than is asked for) or its value; paths and texts are sequences.             *)
EXTENDS Integers, Sequences, SequencesExt, FiniteSets, FiniteSetsExt, TLC

\* Files: the files, each a root and a path; Uncreatable, Closed: the roots that
\* cannot be made and those whose files may not be read; Meant: the body sizes that texts stand for (MaxSize: the
\* greatest size_t), Malformed where they stand for none.
CONSTANTS Files, Uncreatable, Closed, Requests, Meant, MaxSize, Missing, Wrong, Malformed, Incomplete, BadCode

\* input: the file and the request; outcome: what came of it.
VARIABLES input, outcome

vars == <<input, outcome>>

Untried == [kind |-> "unread"]

-----------------------------------------------------------------------------
(* parse_body_size: a number with at most one dot, then a unit, with blanks    *)
(* around either.                                                              *)

Blank == "_"
Digits == "0" :> 0 @@ "1" :> 1 @@ "2" :> 2 @@ "5" :> 5
Units == {<<>>, <<"B">>, <<"K">>, <<"K", "B">>, <<"M">>, <<"M", "B">>, <<"G">>, <<"G", "B">>}
Multiplier(unit) ==
  CASE unit = <<>> \/ unit[1] = "B" -> 1
    [] unit[1] = "K" -> 1024
    [] unit[1] = "M" -> 1024 ^ 2
    [] unit[1] = "G" -> 1024 ^ 3

IsDigit(c) == c \in DOMAIN Digits

\* The number of characters of s that satisfy P before the first that does not.
PrefixOf(s, P(_)) == Min({k \in 1 .. Len(s) + 1 : k > Len(s) \/ ~P(s[k])}) - 1

\* A number as its digits and how many of them stand behind the dot.
NumberOf(s) ==
  LET digits == SelectSeq(s, IsDigit)
      dots == {i \in DOMAIN s : s[i] = "."}
  IN  [value |-> FoldLeft(LAMBDA acc, c : 10 * acc + Digits[c], 0, digits),
       scale |-> IF dots = {} THEN 1 ELSE 10 ^ (Len(s) - Min(dots))]

\* Mutant: what is behind the dot is dropped.
RoundedDown(value, mul, scale) == (value \div scale) * mul

Rounded(value, mul, scale) == (2 * value * mul + scale) \div (2 * scale)

ParseBodySize(text) ==
  LET blanks == PrefixOf(text, LAMBDA c : c = Blank)
      s == SubSeq(text, blanks + 1, Len(text))
      n == PrefixOf(s, LAMBDA c : IsDigit(c) \/ c = ".")
      number == SubSeq(s, 1, n)
      unit == SelectSeq(SubSeq(s, n + 1, Len(s)), LAMBDA c : c # Blank)
      size == Rounded(NumberOf(number).value, Multiplier(unit), NumberOf(number).scale)
  IN  IF \/ Cardinality({i \in DOMAIN number : number[i] = "."}) > 1
         \/ ~\E i \in DOMAIN number : IsDigit(number[i])
         \/ unit \notin Units
      THEN Malformed
      ELSE IF size > MaxSize THEN Malformed ELSE size

-----------------------------------------------------------------------------
(* parse_config: the members are looked at in this order, and the first that   *)
(* is not as asked for decides.  A conversion that nobody guards throws, which *)
(* ends the program; main catches errors of the syntax only.                   *)

\* A member that has to be there; one that is converted when it is there; a text
\* of a body size that is converted first.
Required(field) == IF field \in {Missing, Wrong} THEN "error" ELSE "fine"
Converted(field) == IF field = Wrong THEN "abort" ELSE "fine"
SizeField(field) ==
  IF field = Wrong THEN "abort"
  ELSE IF field = Missing THEN "fine"
  ELSE IF ParseBodySize(field) = Malformed THEN "error" ELSE "fine"

FirstTrouble(checks) ==
  LET bad == {i \in DOMAIN checks : checks[i] # "fine"}
  IN  IF bad = {} THEN "fine" ELSE checks[Min(bad)]

\* ret: Missing, Wrong (no object, and passed over), Incomplete, or a code
\* that may itself be Wrong; mixed: whether the array holds something else.
ParseLocation(j) ==
  FirstTrouble(<<Required(j.path), Converted(j.alias),
                 IF j.methods = Wrong THEN "fine" ELSE IF j.mixed THEN "abort" ELSE "fine",
                 Converted(j.index), Converted(j.autoindex), SizeField(j.size), Converted(j.cgi),
                 IF j.ret = Incomplete THEN "error"
                 ELSE IF j.ret = BadCode THEN "abort" ELSE "fine">>)

ParseServer(j) ==
  FirstTrouble(<<IF Required(j.listen) = "fine" /\ j.listen \in 0 .. 65535 THEN "fine" ELSE "error",
                 Converted(j.name), Required(j.root), SizeField(j.size), Converted(j.pages)>>
               \o (IF j.locations \in {Missing, Wrong} THEN <<>>
                   ELSE [i \in DOMAIN j.locations |-> ParseLocation(j.locations[i])]))

ParseConfig(servers) ==
  IF servers \in {Missing, Wrong} THEN "error"
  ELSE FirstTrouble([i \in DOMAIN servers |-> ParseServer(servers[i])])

\* main and Server::create: no configuration, no server.
Loads(servers) ==
  CASE ParseConfig(servers) # "fine" -> ParseConfig(servers)
    [] servers = <<>> -> "error"
    [] OTHER -> "fine"

-----------------------------------------------------------------------------
(* RouterBuilder: a handler for each location of the first server.             *)

Locations(server) == IF server.locations \in {Missing, Wrong} THEN <<>> ELSE server.locations

Root(server, loc) == IF loc.alias = Missing THEN server.root ELSE loc.alias

\* What MethodRouter has a handler for; PUT is allowed and handled by nobody.
HandledMethods(loc) ==
  (IF loc.methods \in {Missing, Wrong} THEN {"GET", "HEAD"} ELSE Range(loc.methods))
    \intersect {"GET", "HEAD", "DELETE", "POST"}

Kind(loc) ==
  CASE loc.ret \notin {Missing, Wrong} -> "redirect"
    [] loc.cgi # Missing -> "cgi"
    [] OTHER -> "files"

\* The upload handler's constructor throws if it cannot make its directory.
Builds(server) ==
  \A i \in DOMAIN Locations(server) :
    LET loc == Locations(server)[i] IN Kind(loc) = "files" => Root(server, loc) \notin Uncreatable

\* Mutant: in the order of the file.
AsListed(locs) == {locs}

\* sort by length, longest first; in which order equally long ones come is open.
Sorted(locs) ==
  {s \in {[i \in DOMAIN locs |-> locs[f[i]]] : f \in {g \in [DOMAIN locs -> DOMAIN locs] : IsInjective(g)}} :
     \A i, j \in DOMAIN locs : i < j => Len(s[i].path) >= Len(s[j].path)}

-----------------------------------------------------------------------------
(* Handlers and dispatch: the status code. *)

\* The redirections that StatusCode knows.
RedirectCodes == {300, 301, 302, 303, 304, 305, 307, 308}
RedirectHandler(code) == IF code \in RedirectCodes THEN code ELSE 500

\* The file of a request under a root: there, refused, or not.
FileAnswer(root, req) ==
  CASE <<root, req.uri>> \in Files -> 200
    [] root \in Closed -> 403
    [] OTHER -> 404

MethodRouter(server, loc, req) ==
  CASE req.method \notin HandledMethods(loc) -> 405
    [] req.method = "POST" -> 201
    [] req.method = "DELETE" /\ FileAnswer(Root(server, loc), req) = 200 -> 204
    [] OTHER -> FileAnswer(Root(server, loc), req)

\* The script's own answer is 200; it fails if it is not there to be run.
CgiHandler(server, loc, req) == IF <<Root(server, loc), req.uri>> \in Files THEN 200 ELSE 502

LocationHandler(server, loc, req) ==
  CASE Kind(loc) = "redirect" -> RedirectHandler(loc.ret)
    [] Kind(loc) = "cgi" -> CgiHandler(server, loc, req)
    [] OTHER -> MethodRouter(server, loc, req)

\* PrefixRouter with its one prefix, which must not be empty.
PrefixRouter(server, loc, req) ==
  IF loc.path # <<>> /\ IsPrefix(loc.path, req.uri) THEN LocationHandler(server, loc, req) ELSE 404

\* RequestRouter: the first handler that answers something else than 404.
RequestRouter(server, pipeline, req) ==
  LET answers == [i \in DOMAIN pipeline |-> PrefixRouter(server, pipeline[i], req)]
      some == {i \in DOMAIN answers : answers[i] # 404}
  IN  IF some = {} THEN 404 ELSE answers[Min(some)]

-----------------------------------------------------------------------------

Init == input \in Requests /\ outcome = Untried

Run ==
  /\ outcome = Untried
  /\ UNCHANGED input
  /\ LET server == input.servers[1]
     IN  IF Loads(input.servers) # "fine" THEN outcome' = [kind |-> Loads(input.servers)]
         ELSE IF ~Builds(server) THEN outcome' = [kind |-> "abort"]
         ELSE \E pipeline \in Sorted(Locations(server)) :
                outcome' = [kind |-> "served", limit |-> IF server.size = Missing THEN 1024 ^ 2
                                                         ELSE ParseBodySize(server.size),
                            code |-> RequestRouter(server, pipeline, input.req)]

Next == Run

-----------------------------------------------------------------------------

\* The location with the longest path that is a prefix of the request's answers,
\* or a shorter one where the longer have nothing to say but 404
\* (RouterBuilder.cc:28), whatever the order of the locations in the file; and a
\* body may be as long as the text of the configuration says, wherever that has
\* its dot, its unit and its blanks (ConfigLoader.cc:146).
ServesAsConfigured ==
  outcome.kind = "served" =>
    LET server == input.servers[1]
        locs == Range(Locations(server))
        Says(loc) == PrefixRouter(server, loc, input.req)
    IN  /\ server.size # Missing => outcome.limit = Meant[server.size]
        /\ IF \A loc \in locs : Says(loc) = 404 THEN outcome.code = 404
           ELSE \E loc \in locs :
                  /\ outcome.code = Says(loc) /\ Says(loc) # 404
                  /\ \A other \in locs : Len(other.path) > Len(loc.path) => Says(other) = 404
===============================================================================
