------------------------------ MODULE UriPaths ------------------------------
(* From the target of a request to the file that answers it: the target is     *)
(* decoded and normalised when the request line is read, loses the prefix of   *)
(* its location, and is resolved below the root.  Texts are sequences of       *)
(* characters, paths of the file system sequences of names.                    *)
EXTENDS Integers, Sequences, SequencesExt, FiniteSets, FiniteSetsExt

\* Requests: a method, the pieces of a target (what is sent and what it means),
\* the prefix of the location and its root; Files, Directories: the file system;
\* Characters: the characters that codes stand for; HexValue: the digits' values.
CONSTANTS Requests, Files, Directories, Characters, HexValue, Index, Malformed, Unread

VARIABLES input, outcome

vars == <<input, outcome>>

-----------------------------------------------------------------------------
(* Strings and std::filesystem::path. *)

Slash == "/"
Dot == "."
PositionsOf(c, s) == {i \in DOMAIN s : s[i] = c}
From(s, i) == SubSeq(s, i, Len(s))

\* The pieces between the slashes of a text; the last is empty behind a slash.
Split(s) ==
  LET cuts == PositionsOf(Slash, s) \union {Len(s) + 1}
  IN  [k \in 1 .. Cardinality(cuts) |->
         LET end == CHOOSE i \in cuts : Cardinality({j \in cuts : j <= i}) = k
             start == Max({j \in cuts : j < end} \union {0})
         IN  SubSeq(s, start + 1, end - 1)]

\* path::lexically_normal of an absolute path, as its names, with an empty one
\* at the end if the path then ends in a slash.
LexicallyNormal(segments) ==
  LET Walk(names, seg) == CASE seg \in {<<>>, <<Dot>>} -> names
                            [] seg = <<Dot, Dot>> -> IF names = <<>> THEN <<>> ELSE Front(names)
                            [] OTHER -> Append(names, seg)
      names == FoldLeft(Walk, <<>>, segments)
  IN  IF names # <<>> /\ Last(segments) \in {<<>>, <<Dot>>, <<Dot, Dot>>} THEN Append(names, <<>>) ELSE names

\* generic_string of an absolute path.
Text(names) == IF names = <<>> THEN <<Slash>> ELSE FlattenSeq([i \in DOMAIN names |-> <<Slash>> \o names[i]])

-----------------------------------------------------------------------------
(* normalizeUriPath. *)

\* What the characters from i on decode to; an escape that the text ends in is
\* none.
UrlDecode(s) ==
  LET decoded[i \in 1 .. Len(s) + 1] ==
        CASE i > Len(s) -> <<>>
          [] s[i] = "%" /\ i + 2 <= Len(s) ->
               <<IF {s[i + 1], s[i + 2]} \subseteq DOMAIN HexValue
                 THEN Characters[16 * HexValue[s[i + 1]] + HexValue[s[i + 2]]] ELSE Malformed>>
               \o decoded[i + 3]
          [] s[i] = "+" -> <<" ">> \o decoded[i + 1]
          [] OTHER -> <<s[i]>> \o decoded[i + 1]
  IN  decoded[1]

WithoutQuery(s) ==
  LET ends == PositionsOf("?", s) \union PositionsOf("#", s)
  IN  IF ends = {} THEN s ELSE SubSeq(s, 1, Min(ends) - 1)

\* Mutant: the escapes of the query's marks are marks.
NormalizeDecodedFirst(raw) ==
  LET path == WithoutQuery(UrlDecode(raw))
  IN  IF raw = <<>> \/ raw[1] # Slash \/ Malformed \in Range(path) THEN Malformed
      ELSE Text(LexicallyNormal(From(Split(path), 2)))

\* (Doubled slashes are dropped before they are normalised away.)
NormalizeUriPath(raw) ==
  LET path == UrlDecode(WithoutQuery(raw))
  IN  IF raw = <<>> \/ raw[1] # Slash \/ Malformed \in Range(path) THEN Malformed
      ELSE Text(LexicallyNormal(From(Split(path), 2)))

-----------------------------------------------------------------------------
(* StaticFileHandler and resolveSafePath. *)

\* The target without the location's prefix, which it begins with.
SubUri(uri, prefix) ==
  LET rest == From(uri, Len(prefix) + 1)
  IN  IF IsPrefix(<<Slash>>, rest) THEN rest ELSE <<Slash>> \o rest

\* Two dots in a row, wherever they stand.
HasDots(s) == \E i \in 1 .. Len(s) - 1 : s[i] = Dot /\ s[i + 1] = Dot

\* The names from the root on.  A root with a dot or a slash at its end is not a
\* beginning of any normal path.
ResolveSafePath(root, uri) ==
  LET rel == IF uri = <<Slash>> THEN Index ELSE From(uri, 2)
      full == LexicallyNormal(root \o Split(rel))
  IN  IF HasDots(rel) \/ ~IsPrefix(root, full) THEN Malformed ELSE full

\* getFileInfo and the handlers' answers to its errors: nothing there, not a file,
\* below a file.
Answer(method, path) ==
  LET there == SelectSeq(path, LAMBDA name : name # <<>>)
      found == path \in Files
      shut == there \in Directories
      below == \E file \in Files : path # file /\ IsPrefix(file, path)
  IN  CASE found /\ method = "DELETE" -> 204
        [] found -> 200
        [] shut \/ (below /\ method = "DELETE") -> 403
        [] below -> 500
        [] OTHER -> 404

-----------------------------------------------------------------------------

Sent(req) == FlattenSeq([i \in DOMAIN req.pieces |-> req.pieces[i].sent])

Init == input \in Requests /\ outcome = Unread

HandleRequest ==
  /\ outcome = Unread
  /\ LET uri == NormalizeUriPath(Sent(input))
         path == ResolveSafePath(input.root, SubUri(uri, input.prefix))
     IN  outcome' = IF uri = Malformed THEN [path |-> <<>>, code |-> 400]
                    ELSE IF ~IsPrefix(input.prefix, uri) THEN [path |-> <<>>, code |-> 404]
                    ELSE IF path = Malformed THEN [path |-> <<>>, code |-> 400]
                    ELSE [path |-> path, code |-> Answer(input.method, path)]
  /\ UNCHANGED input

Next == HandleRequest

-----------------------------------------------------------------------------
(* What the client means: the pieces up to the query, a name for each piece    *)
(* between slashes, and a name is gone if as many double dots follow it.       *)

MeantText(req) ==
  LET query == {i \in DOMAIN req.pieces : req.pieces[i].sent \in {<<"?">>, <<"#">>}}
      path == IF query = {} THEN req.pieces ELSE SubSeq(req.pieces, 1, Min(query) - 1)
  IN  FlattenSeq([i \in DOMAIN path |-> path[i].meant])

IsName(seg) == seg \notin {<<>>, <<Dot>>, <<Dot, Dot>>}

MeantNames(segs) ==
  LET Ups(i, j) == Cardinality({k \in i .. j : segs[k] = <<Dot, Dot>>})
      Names(i, j) == Cardinality({k \in i .. j : IsName(segs[k])})
      kept == {i \in DOMAIN segs : IsName(segs[i]) /\ \A j \in i .. Len(segs) : Ups(i, j) < Names(i, j)}
  IN  [k \in 1 .. Cardinality(kept) |-> segs[CHOOSE i \in kept : Cardinality({j \in kept : j <= i}) = k]]

\* Whoever asks for a file, in whatever spelling (escapes, dots, doubled slashes,
\* a query), is answered with the file whose names he means, below the root of the
\* location and without the location's own names; the location itself stands for
\* its index (FileUtils.cc:51, :84, StaticFileHandler.cc:34).  Names with two dots
\* in a row are refused, and nothing is said of a name that only begins like the
\* location's.
FileIsTheOneMeant ==
  outcome # Unread =>
    LET text == MeantText(input)
        segs == Split(text)
        names == MeantNames(segs)
        own == MeantNames(Split(input.prefix))
        rest == From(names, Len(own) + 1)
        dots == \E i \in DOMAIN rest : HasDots(rest[i])
        asked == input.root \o (IF rest = <<>> THEN <<Index>> ELSE rest)
                 \o (IF rest # <<>> /\ ~IsName(Last(segs)) THEN <<<<>>>> ELSE <<>>)
    IN  IF text = <<>> \/ text[1] # Slash \/ Malformed \in Range(text) THEN outcome.code = 400
        ELSE IsPrefix(own, names) =>
               /\ outcome.code = 400 <=> dots
               /\ ~dots => outcome.path = asked /\ (outcome.code \in {200, 204} <=> asked \in Files)
=============================================================================
