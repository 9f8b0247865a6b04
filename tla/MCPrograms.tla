----------------------------- MODULE MCPrograms -----------------------------
(* The programs and libraries that run by themselves, one of them at a time,     *)
(* and what they are given.  What each of them keeps is in the slots, of which   *)
(* it uses the first few.                                                        *)
EXTENDS Integers, Sequences, SequencesExt, FiniteSets, FiniteSetsExt, TLC

CONSTANTS Malformed, Missing, Wrong, Incomplete, BadCode,      \* paths, sizes, configurations
          NotANumber, Null, None,                              \* arguments
          Broken, Nothing, Newline,                            \* lines
          Nul, Error, Undefined, Unread, Nowhere, Nobody, Absent, NaN, Garbage, Characters

UpTo(n, S) == UNION {[1 .. k -> S] : k \in 0 .. n}
Distinct(n, S) == {s \in [1 .. n -> S] : \A i, j \in 1 .. n : i # j => s[i] # s[j]}

-----------------------------------------------------------------------------
(* push_swap: every order of up to six numbers, two numbers in one argument, a  *)
(* number twice, numbers that are too large, and what is no number.             *)

PushSwapArguments ==
    {<< s >> : s \in UNION {Distinct(n, {-8, -3, -1, 0, 4, 6}) : n \in {1, 2, 3, 6}}
                       \cup Distinct(4, {-8, -1, 0, 4}) \cup Distinct(5, {-3, -1, 0, 4, 6})}
    \cup {<< << 1, 0 >>, << 7, -1 >> >>, << << 7, 7 >> >>, << << 16 >> >>, << << -17 >> >>, << << NotANumber >> >>,
          << << -16, -1, -2, -3, -5, -4 >> >>, << << -16, 9, 2, 3, 5, 4 >> >>}

CheckerLines == {<< "ss", "rr", "rrr", "rb", "rrb", "pb", "pb", "sb", "xx" >>}

(* minishell: lines of words, quotes, variables, pipes and redirections.        *)

ShellEnvironment == << "a" >> :> << "b", " ", "b" >> @@ << "?" >> :> << "b" >>
ShellLines ==
    UpTo(5, {"a", " ", "'", "dq", "$"}) \cup UpTo(5, {"a", " ", ">", "<", "|"}) \cup UpTo(5, {"a", "b", " ", ">"})
    \cup UpTo(4, {"a", "$", "'", "dq", "|"})

(* Get_next_line: files that end in a newline.                                  *)

Streams == {s \in UpTo(5, {"a", "b", Newline}) : s = <<>> \/ Last(s) = Newline}

-----------------------------------------------------------------------------
(* Webserv's parser: requests with and without a body, by length or in chunks,  *)
(* and broken ones.                                                             *)

Piece(kind, n) == [kind |-> kind, n |-> n]
B(n) == Piece("byte", n)
CRLF == << Piece("cr", 0), Piece("lf", 0) >>
Chunked(n) == Piece("Transfer-Encoding", n)
Length(n) == Piece("Content-Length", n)
Connection(n) == Piece("Connection", n)
Other == Piece("Other", 0)

Request(line, headers, chunks) ==
    [line |-> Piece("request", line), headers |-> headers, chunked |-> Chunked(1) \in ToSet(headers),
     chunks |-> chunks, trailers |-> IF Len(chunks) = 2 THEN << B(9) >> ELSE <<>>]

ParserRequests ==
    {Request(line, <<>>, <<>>) : line \in {11, 400, 505}}
    \cup {Request(11, << h >>, <<>>) : h \in {Connection(0), Piece("NoColon", 0), Chunked(0), Chunked(1), Length(-2), Length(0), Length(9)}}
    \cup {Request(501, << Other >>, <<>>), Request(10, << Connection(1), Other >>, <<>>), Request(10, << Connection(2) >>, <<>>),
          Request(11, << Length(2) >>, << << B(1), B(2) >> >>),
          Request(11, << Chunked(1) >>, << << B(1), B(2) >>, << Piece("hex", 3) >> >>),
          Request(11, << Chunked(1) >>, << CRLF \o << Piece("hex", 1) >> >>),
          Request(11, << Chunked(1) >>, << << B(1) >> \o CRLF \o << B(2) >> >>),
          Request(11, << Length(1), Chunked(1) >>, << << B(1), B(2), B(3) >>, << B(1), B(2), B(3) >> >>)}

(* Configurations: each member missing, wrong, or at the edge of what it may    *)
(* be; and three locations, whose paths are prefixes of one another.            *)

Location == [path |-> << "/" >>, alias |-> Missing, methods |-> Missing, mixed |-> FALSE, index |-> Missing,
             autoindex |-> Missing, size |-> Missing, cgi |-> Missing, ret |-> Missing]
Server == [listen |-> 80, name |-> Missing, root |-> "www", size |-> Missing, pages |-> Missing, locations |-> Missing]

\* Sizes, and what each of them means in bytes.
Sizes ==
    << "1", "0", "M", "B" >> :> 10485760 @@ << "1", "K", "B" >> :> 1024 @@ << "5", "0", "0" >> :> 500
    @@ << "2", "5", "_", "M" >> :> Malformed @@ << "0", "_", "G", "B" >> :> 0 @@ << "1", ".", "5", "M", "B" >> :> 1572864
    @@ << "_", "1", "0", "0", "_", "_", "K", "B", "_" >> :> 102400 @@ <<>> :> Malformed @@ << "K" >> :> Malformed
    @@ << "1", "2", "X", "Y" >> :> Malformed @@ << "5", "M", "B", "B" >> :> Malformed
    @@ << "1", ".", "2", ".", "2", "K", "B" >> :> Malformed @@ << ".", "5", "K" >> :> 512 @@ << "." >> :> Malformed

Below == << "/", "a" >>
Deeper == << "/", "a", "/", "b" >>

OddLocations ==
    {[Location EXCEPT !.path = Missing], [Location EXCEPT !.alias = Wrong], [Location EXCEPT !.mixed = TRUE, !.methods = << "GET" >>],
     [Location EXCEPT !.methods = Wrong], [Location EXCEPT !.index = Wrong], [Location EXCEPT !.autoindex = Wrong],
     [Location EXCEPT !.cgi = Wrong], [Location EXCEPT !.size = << "K" >>], [Location EXCEPT !.alias = "none"]}
    \cup {[Location EXCEPT !.ret = r] : r \in {Incomplete, BadCode, Wrong}}

OddServers ==
    {[Server EXCEPT !.listen = n] : n \in {Missing, Wrong, -1, 65536}} \cup {[Server EXCEPT !.size = s] : s \in DOMAIN Sizes \cup {Wrong}}
    \cup {[Server EXCEPT !.name = Wrong], [Server EXCEPT !.root = Missing], [Server EXCEPT !.pages = Wrong], [Server EXCEPT !.locations = Wrong]}
    \cup {[Server EXCEPT !.locations = << l >>] : l \in OddLocations}

Locations ==
    {Location, [Location EXCEPT !.methods = << "GET", "PUT" >>], [Location EXCEPT !.path = <<>>],
     [Location EXCEPT !.path = Below, !.alias = "up", !.methods = << "POST", "DELETE" >>], [Location EXCEPT !.path = Below, !.ret = 301],
     [Location EXCEPT !.path = Deeper, !.ret = 299], [Location EXCEPT !.path = Below, !.cgi = "py"],
     [Location EXCEPT !.path = Deeper, !.alias = "up"], [Location EXCEPT !.path = Below, !.alias = "shut"]}

RoutedRequests ==
    {[servers |-> s, req |-> [method |-> "GET", uri |-> << "/" >>]] : s \in {Missing, Wrong, <<>>} \cup {<< x >> : x \in OddServers}}
    \cup {[servers |-> << [Server EXCEPT !.locations = l] >>, req |-> [method |-> m, uri |-> u]] :
            l \in [1 .. 3 -> Locations], m \in {"GET", "POST", "DELETE", "PUT"}, u \in {<< "/" >>, Below \o << "b" >>, Deeper}}

RoutedFiles == {<< "www", << "/" >> >>, << "up", Deeper >>, << "www", Below \o << "b" >> >>}

(* Targets: names, dots, queries, and escapes of them, below two locations.     *)

Sent(s, meant) == [sent |-> s, meant |-> meant]
Same(s) == Sent(s, s)
TargetPieces ==
    {Same(<< c >>) : c \in {"/", "a", "b", ".", "?"}}
    \cup {Same(<< ".", "." >>), Sent(<< "%", "2", "e" >>, << "." >>), Sent(<< "%", "2", "5" >>, << "%" >>), Sent(<< "+" >>, << " " >>),
          Sent(<< "%", "b", "2" >>, << Malformed >>), Sent(<< "%", "3", "f" >>, << "?" >>)}

PathRequests ==
    {[method |-> m, pieces |-> << first >> \o rest, prefix |-> l, root |-> << << "w" >> >>] :
       m \in {"GET", "DELETE"}, first \in {Same(<< "/" >>), Same(<< "a" >>), Same(<< "/", "a", "/" >>)},
       rest \in UpTo(3, TargetPieces), l \in {<< "/" >>, << "/", "a" >>}}
PathFiles == {<< << "w" >>, << "a" >> >>, << << "w" >>, << "b" >>, << "a" >> >>, << << "w" >>, << "i" >> >>}
PathDirectories == {<< << "w" >> >>, << << "w" >>, << "b" >> >>}
PathCharacters == 46 :> "." @@ 37 :> "%" @@ 63 :> "?" @@ 47 :> "/"
HexDigits == "2" :> 2 @@ "3" :> 3 @@ "5" :> 5 @@ "e" :> 14 @@ "f" :> 15

(* What scripts write: a few headers, in both kinds of lines, and any body.     *)

Header(key, v) == [kind |-> "header", key |-> key, value |-> v]
Headers == {[kind |-> "status", value |-> n] : n \in {301, 404}}
           \cup {Header("type", 1), Header("type", 2), Header("length", 99), [kind |-> "odd"]}
Cr == [kind |-> "cr"]
Lf == [kind |-> "lf"]

CgiOutputs ==
    {[lines |-> l, end |-> e, body |-> b] : l \in UpTo(2, Headers), e \in {<< Cr, Lf >>, << Lf >>}, b \in UpTo(4, {Cr, Lf, Header("type", 3)})}
-----------------------------------------------------------------------------
(* Libft: an int of eight bits and a size_t of four; the allocation that fails.  *)

Texts == UpTo(3, {97, 98})
Memory == << 1, 2, 3, 4, 5 >>
NextLetter == [x \in {97, 98} |-> x + 1]

LibftCalls ==
    [f : {"memmove"}, mem : {Memory}, d : 1 .. 3, s : 1 .. 3, n : 0 .. 3]
    \cup [f : {"memcpy"}, mem : {Memory}, d : 1 .. 2, s : {4}, n : 0 .. 2]
    \cup [f : {"memset"}, mem : {Memory}, d : 1 .. 2, byte : {257}, n : 0 .. 2]
    \cup [f : {"strlcpy", "strlcat"}, d : {1}, s : {5}, n : 0 .. 4,
          mem : {a \o << 0 >> \o b \o << 0 >> : a \in {<< 97, 98, 99 >>, << 97, 0, 99 >>, << 0, 98, 99 >>}, b \in Texts}]
    \cup [f : {"split"}, s : UpTo(4, {97, 98, 32}) \cup {Null}, sep : {32}, fails : 0 .. 3]
    \cup [f : {"strtrim"}, s : UpTo(4, {97, 9, 32}) \cup {Null}, set : {<< 32, 9 >>}, fails : 0 .. 1]
    \cup [f : {"strjoin"}, s : {Null, << 97 >>}, t : {Null, << 98, 97 >>}, fails : 0 .. 1]
    \cup [f : {"strdup"}, s : Texts, fails : 0 .. 1] \cup [f : {"strmapi"}, s : Texts, map : {NextLetter}, fails : 0 .. 1]
    \cup [f : {"calloc"}, n : 0 .. 6, size : {3}, fails : 0 .. 1]
    \cup [f : {"substr"}, s : {Null, << 97, 98 >>}, start : 0 .. 3, len : 0 .. 3, fails : 0 .. 1]
    \cup [f : {"lstmap"}, list : Texts, map : {NextLetter}, del : BOOLEAN, fails : 0 .. 3]
    \cup [f : {"itoa"}, n : -128 .. 127, fails : {0}] \cup [f : {"putnbr"}, n : -128 .. 127]
    \cup [f : {"atoi"}, s : UpTo(4, {32, 43, 45, 48, 49, 50, 56})]
    \cup [f : {"strchr", "strrchr"}, s : Texts, byte : {97, 98, 99, 0}]
    \cup {[f |-> "memchr", s |-> s, n |-> Len(s), byte |-> 354] : s \in Texts}
    \cup [f : {"strncmp", "strnstr"}, s : Texts, t : Texts, n : 0 .. 4]

(* ft_printf: a directive with its flags, widths and precisions, in an int of     *)
(* four bits.                                                                    *)

Directives(spec, flags, args) ==
    {<< d >> : d \in [flags : SUBSET flags, width : {0, 1, 2, 5}, precision : {None, 0, 1, 3}, spec : {spec}, arg : args]}
Plain(width, spec, arg) == [flags |-> {}, width |-> width, precision |-> None, spec |-> spec, arg |-> arg]

Formats ==
    Directives("d", {"-", "+", " ", "0"}, {-12, -1, 0, 7, 13}) \cup Directives("x", {"-", "#", "0"}, {0, 10, 31})
    \cup Directives("X", {"#"}, {0, 31}) \cup Directives("p", {"-", "0"}, {None, 1, 31}) \cup Directives("u", {"-", "0", "+"}, {0, 13})
    \cup Directives("c", {"-"}, {"c"}) \cup Directives("s", {"-", "0"}, {None, <<>>, << "s", "t" >>})
    \cup {<< [literal |-> "x"], Plain(0, "%", 0), [literal |-> "y"], [Plain(1, "?", None) EXCEPT !.precision = 0] >>,
          << Plain(-2, "d", 1) >>}

(* The modules of C++: numbers to sort, formulas, dates, spans and replacements, *)
(* in an int of six bits.                                                        *)

Signs == 100 .. 103     \* + - * /
Formulas ==
    UpTo(4, {0, 2, 7} \cup Signs) \cup {<< 7, 7, 102, 7, 102 >>, << 99 >>, << 2, 7, 7, 101, 102, 7, 103 >>}
    \cup {<< x, y, p, z, q >> : x, y, z \in {0, 2, 7}, p, q \in Signs}
Shuffles == {[i \in 1 .. 9 |-> 1 + ((i * k + s) % 11)] : k \in 1 .. 10, s \in 0 .. 10}

ToolCalls ==
    [f : {"sort"}, args : UpTo(6, 1 .. 3) \cup Shuffles \cup {<< 1, NotANumber >>, << 0, 1 >>, << 40 >>}]
    \cup [f : {"rpn"}, args : Formulas]
    \cup [f : {"convert"}, rates : {2 :> 10 @@ 5 :> 20 @@ 7 :> 1},
          line : [date : 1 .. 8, valid : BOOLEAN, value : {-1, 0, 3, 1000, 1001}]]
    \cup [f : {"shortest", "longest"}, args : UpTo(4, {-32, -20, 0, 7, 31}), max : {3}]
    \cup [f : {"replace"}, args : UpTo(5, 1 .. 2), old : UpTo(2, 1 .. 2), new : {<<>>, << 3 >>, << 1, 1 >>}]

-----------------------------------------------------------------------------
(* miniRT's scenes: each element in each of its forms, with materials of every    *)
(* length, broken ones, comments and blanks; numbers in parts of 510.            *)

Meanings == "0" :> 0 @@ "1" :> 510 @@ "-1" :> -510 @@ "0.5" :> 255 @@ "255" :> 130050 @@ "51" :> 26010 @@ "180" :> 91800 @@ "70" :> 35700

Comma == ","
SceneLine(t, m) == [text |-> t, meant |-> m]
Words(ws) == FlattenSeq([i \in DOMAIN ws |-> IF i = 1 THEN ws[i] ELSE << " " >> \o ws[i]])
White == << "255", Comma, "255", Comma, "255" >>
There == << "-1", Comma, "0", Comma, "255" >>
Upwards == << "0", Comma, "51", Comma, "0" >>
Back == << "0", Comma, "0", Comma, "-1" >>
ThereIs == << -510, 0, 130050 >>
Grey == << 255, 255, 255 >>
Material(specular, shininess, reflectivity) ==
    [diffuse |-> << 510, 510, 510 >>, specular |-> specular, shininess |-> shininess, reflectivity |-> reflectivity]

Materials == {
    [ws |-> << White >>, m |-> Material(Grey, 16320, 0)],
    [ws |-> << White, << "1", Comma, "51" >> >>, m |-> Material(<< 510, 510, 510 >>, 26010, 0)],
    [ws |-> << White, << "0.5", Comma, "51" >>, << "0.5" >> >>, m |-> Material(Grey, 26010, 255)],
    [ws |-> << White, << "51", Comma, "0", Comma, "1", Comma, "70" >>, << "1" >> >>, m |-> Material(<< 102, 0, 510 >>, 35700, 510)],
    [ws |-> << White, << "51", Comma, "0", Comma, "1" >>, << "70" >>, << "1" >> >>, m |-> Material(<< 102, 0, 510 >>, 35700, 510)],
    [ws |-> << White, << "0", Comma, "0", Comma, "0" >> >>, m |-> Material(<< 0, 0, 0 >>, 16320, 0)],
    [ws |-> << << "255", Comma, "255" >> >>, m |-> Broken],
    [ws |-> << White, << "1" >> >>, m |-> Broken],
    [ws |-> << White, << "q", "0.5", Comma, "51", "q" >> >>, m |-> Broken],
    [ws |-> << White, White, << "1" >>, << "1" >>, << "1" >> >>, m |-> Broken],
    [ws |-> << White, << "51", Comma, "x" >> >>, m |-> Broken] }

Solid(ws, t, shape) == SceneLine(Words(ws \o t.ws), IF t.m = Broken THEN Broken ELSE shape)
Solids(t) == {
    Solid(<< << "sp" >>, There, << "51" >> >>, t, [kind |-> "sp", center |-> ThereIs, diameter |-> 26010, material |-> t.m]),
    Solid(<< << "pl" >>, There, Upwards >>, t, [kind |-> "pl", point |-> ThereIs, normal |-> << 0, 510, 0 >>, material |-> t.m]),
    Solid(<< << "cy" >>, There, Back, << "51" >>, << "1" >> >>, t,
          [kind |-> "cy", center |-> ThereIs, axis |-> << 0, 0, -510 >>, diameter |-> 26010, height |-> 510, material |-> t.m]) }

Ambient == SceneLine(Words(<< << "A" >>, << "0.5" >>, White >>), [kind |-> "A", ratio |-> 255, color |-> << 510, 510, 510 >>])
CameraWith(fov, m) == SceneLine(Words(<< << "C" >>, There, Upwards, << fov >> >>), m)
SceneCamera == CameraWith("70", [kind |-> "C", origin |-> ThereIs, orientation |-> << 0, 510, 0 >>, fov |-> 35700])
Light == << << "L" >>, There, << "0.5" >> >>
OtherLines == {
    Ambient, SceneCamera, CameraWith("180", Broken), CameraWith("0", Broken),
    SceneLine(Words(<< << "A" >>, << "0.5" >> >>), Broken), SceneLine(Words(<< << "A" >>, << "x" >>, White >>), Broken),
    SceneLine(Words(Light \o << << "1", Comma, "0.5", Comma, "0" >> >>),
              [kind |-> "L", position |-> ThereIs, brightness |-> 255, color |-> << 510, 255, 0 >>]),
    SceneLine(Words(Light), Broken), SceneLine(<<>>, Nothing), SceneLine(<< " ", " " >>, Nothing), SceneLine(<< "#", " ", "A" >>, Nothing),
    SceneLine(<< " ", "#", "A" >>, Nothing), SceneLine(<< "#", "x" >>, Broken), SceneLine(<< "x" >>, Broken), SceneLine(<< "#" >>, Nothing) }
DressedLines == {
    SceneLine(<< " " >> \o Ambient.text \o << " ", "#", "x" >>, Ambient.meant),
    SceneLine(SceneCamera.text \o << "#", " ", "C", "#" >>, SceneCamera.meant),
    SceneLine(Ambient.text \o << " ", " " >>, Ambient.meant), SceneLine(SceneCamera.text \o << " ", "#" >>, Broken) }
SceneLines == UNION {Solids(t) : t \in Materials} \cup OtherLines \cup DressedLines

SceneFiles ==
    UpTo(2, SceneLines) \cup {<< Ambient, SceneCamera, l >> : l \in SceneLines} \cup {<< l, SceneCamera, Ambient >> : l \in SceneLines}
    \cup {<< Ambient, l, SceneCamera, k >> : l \in OtherLines, k \in DressedLines}

(* Up to four spheres and planes of a plane world, and rays along its axes and    *)
(* its diagonals: the times at which a ray meets each of them are whole.          *)

World == 100
Inside(low, high) == [minimum |-> low, maximum |-> high]
Distance(n) == IF n < 0 THEN -n ELSE n
Sphere(x, y, r) ==
    LET right == x - r.origin[1]
        up == y - r.origin[2]
        off == Distance(right * r.dir[2] - up * r.dir[1])
        n == r.dir[1] * r.dir[1] + r.dir[2] * r.dir[2]
        t == (right * r.dir[1] + up * r.dir[2]) \div n IN
    [box |-> Inside(<< x - 4, y - 4 >>, << x + 4, y + 4 >>),
     roots |-> CASE n = 1 /\ off = 0 -> {t - 4, t + 4}
                 [] n = 1 /\ off = 4 -> {t}
                 [] n = 2 /\ off \in {0, 4} -> {t - 2, t + 2}
                 [] OTHER -> {}]
Plane(axis, at, r) ==
    [box |-> Inside(<< -World, -World >>, << World, World >>),
     roots |-> IF r.dir[axis] = 0 THEN {} ELSE {(at - r.origin[axis]) * r.dir[axis]}]

Solid8(k, r) ==
    CASE k = 1 -> Sphere(0, 0, r) [] k = 2 -> Sphere(8, 0, r) [] k = 3 -> Sphere(12, 0, r) [] k = 4 -> Sphere(8, 8, r)
      [] k = 5 -> Sphere(0, 12, r) [] k = 6 -> Sphere(16, 12, r) [] k = 7 -> Plane(1, 12, r) [] k = 8 -> Plane(2, -4, r)

Rays == [origin : {<< 0, 0 >>, << 4, -8 >>, << 16, 0 >>}, dir : {<< 1, 0 >>, << -1, 0 >>, << 0, 1 >>, << 1, 1 >>, << -1, 1 >>}]
Collections == UNION {kSubset(n, 1 .. 8) : n \in 0 .. 2} \cup {{1, 2, 3}, {2, 4, 8}, {3, 5, 7}, {1, 2, 4, 8}, {2, 3, 4, 5}, {1, 3, 5, 7}, {1, 2, 3, 5, 6}}

Scenes ==
    {[objects |-> [i \in 1 .. Cardinality(C) |-> Solid8(SetToSeq(C)[i], r)], ray |-> r, t_min |-> 1, t_max |-> m] :
       C \in Collections, r \in Rays, m \in {9, 99}}

(* A camera that looks ahead or down, and keys that are held together.            *)

Cameras == {[origin |-> << 0, 0, 0 >>, orientation |-> o] : o \in {<< 0, 0, 1 >>, << 0, -1, 0 >>}}
KeysHeld == {{}, {"E"}, {"W", "Q"}, {"S", "D", "Down"}, {"Up"}, {"A", "Space"}, {"LShift"}}

-----------------------------------------------------------------------------
VARIABLES program, v1, v2, v3, v4, v5, v6, v7, v8

all == << program, v1, v2, v3, v4, v5, v6, v7, v8 >>

PS == INSTANCE PushSwap WITH
        args <- v1, stage <- v2, typed <- v3, out <- v4, a <- v5, b <- v6,
        MaxInt <- 15, Arguments <- PushSwapArguments, Lines <- CheckerLines
SF == INSTANCE ShellFrontend WITH
        input <- v1, outcome <- v2, Lines <- ShellLines, Environment <- ShellEnvironment
GN == INSTANCE GetNextLine WITH
        file <- v1, stream <- v2, buffer <- v3, seek <- v4, eof <- v5, calling <- v6, line <- v7, lines <- v8,
        BufferSize <- 3, ShortReads <- FALSE
RP == INSTANCE RequestParser WITH
        request <- v1, sent <- v2, cuts <- v3, p <- v4, status <- v5,
        Requests <- ParserRequests, MaxBody <- 4, MaxPieces <- 4
RT == INSTANCE Routing WITH
        input <- v1, outcome <- v2, Requests <- RoutedRequests, Files <- RoutedFiles, Meant <- Sizes,
        Uncreatable <- {"none"}, Closed <- {"shut"}, MaxSize <- 20000000
UP == INSTANCE UriPaths WITH
        input <- v1, outcome <- v2, Requests <- PathRequests, Files <- PathFiles, Directories <- PathDirectories,
        Characters <- PathCharacters, HexValue <- HexDigits, Index <- << "i" >>
CO == INSTANCE CgiOutput WITH input <- v1, outcome <- v2, Outputs <- CgiOutputs
LF == INSTANCE Libft WITH input <- v1, outcome <- v2, Calls <- LibftCalls, Width <- 8, SizeWidth <- 4
PF == INSTANCE Printf WITH input <- v1, outcome <- v2, Width <- 4, Garbage <- {<<>>, << "?" >>}
CT == INSTANCE Containers WITH input <- v1, outcome <- v2, Calls <- ToolCalls, Width <- 6, Small <- 2
OW == INSTANCE Ownership WITH
        type <- v1, alive <- v2, inventory <- v3, learned <- v4, exists <- v5, hand <- v6, wild <- v7,
        Slots <- 2, Types <- {"ice"}, MaxMade <- 4
SC == INSTANCE SceneFile WITH
        input <- v1, seen <- v2, scene <- v3, outcome <- v4, Files <- SceneFiles, Number <- Meanings, One <- 510
BV == INSTANCE Bvh WITH input <- v1, order <- v2, todo <- v3, outcome <- v4, Far <- World
RL == INSTANCE RenderLoop WITH
        camera <- v1, cam <- v2, cam_moved <- v3, accumulation <- v4, samples_per_pixel <- v5, hasWorld <- v6, running <- v7,
        Presses <- KeysHeld, Durations <- {1, 3}, Reach <- 1, MaxSamples <- 2

-----------------------------------------------------------------------------
\* Slots a program leaves alone.
From3 == v3 = 0 /\ v4 = 0 /\ v5 = 0 /\ v6 = 0 /\ v7 = 0 /\ v8 = 0
From5 == v5 = 0 /\ v6 = 0 /\ v7 = 0 /\ v8 = 0

MCInit ==
    \/ program = "push_swap" /\ PS!Init /\ v7 = 0 /\ v8 = 0
    \/ program = "shell" /\ SF!Init /\ From3
    \/ program = "lines" /\ GN!Init
    \/ program = "parser" /\ RP!Init /\ v6 = 0 /\ v7 = 0 /\ v8 = 0
    \/ program = "routing" /\ RT!Init /\ From3
    \/ program = "paths" /\ UP!Init /\ From3
    \/ program = "output" /\ CO!Init /\ From3
    \/ program = "libft" /\ LF!Init /\ From3
    \/ program = "printf" /\ PF!Init /\ From3
    \/ program = "containers" /\ CT!Init /\ From3
    \/ program = "ownership" /\ OW!Init /\ v8 = 0
    \/ program = "scene" /\ SC!Init /\ From5
    \/ program = "bvh" /\ BV!Init /\ From5
    \/ program = "render" /\ RL!Init /\ v8 = 0

Keeps3 == UNCHANGED << program, v3, v4, v5, v6, v7, v8 >>
Keeps5 == UNCHANGED << program, v5, v6, v7, v8 >>
Keeps6 == UNCHANGED << program, v6, v7, v8 >>
Keeps7 == UNCHANGED << program, v7, v8 >>
Keeps8 == UNCHANGED << program, v8 >>

MCNext ==
    \/ program = "push_swap" /\ PS!Next /\ Keeps7
    \/ program = "shell" /\ SF!Next /\ Keeps3
    \/ program = "lines" /\ GN!Next /\ UNCHANGED program
    \/ program = "parser" /\ RP!Next /\ Keeps6
    \/ program = "routing" /\ RT!Next /\ Keeps3
    \/ program = "paths" /\ UP!Next /\ Keeps3
    \/ program = "output" /\ CO!Next /\ Keeps3
    \/ program = "libft" /\ LF!Next /\ Keeps3
    \/ program = "printf" /\ PF!Next /\ Keeps3
    \/ program = "containers" /\ CT!Next /\ Keeps3
    \/ program = "ownership" /\ OW!Next /\ Keeps8
    \/ program = "scene" /\ SC!Next /\ Keeps5
    \/ program = "bvh" /\ BV!Next /\ Keeps5
    \/ program = "render" /\ RL!Next /\ Keeps8

MCSpec == MCInit /\ [][MCNext]_all

-----------------------------------------------------------------------------
\* What push_swap writes sorts what it was given, and neither of its two programs
\* loses or invents a number (push_swap.c:3, checker.c:68).
SortsAndKeeps == program = "push_swap" => PS!OutputSorts /\ PS!NothingLost

\* A line means what the README says of quotes, variables, pipes and redirections
\* (parser.c:138, expander.c:46).
LineIsUnderstood == program = "shell" => SF!LineIsUnderstood

\* However a request arrives in pieces, it is understood as if it came at once
\* (RequestParser.cc:222, :305).
CutsDoNotMatter == program = "parser" => RP!CutsDoNotMatter

\* Webserv loads the configurations that are whole and routes by them, serves the
\* file a path means and no other, and takes a script's output apart where its
\* headers end (ConfigLoader.cc:233, RequestRouter.cc:8, FileUtils.cc:84, CgiHandler.cc:46).
ServesAsAsked ==
    /\ program = "routing" => RT!ServesAsConfigured
    /\ program = "paths" => UP!FileIsTheOneMeant
    /\ program = "output" => CO!OutputIsTakenApart

\* The libraries do what their functions are named for: libft also where an
\* allocation fails, ft_printf but for the differences its module names, and
\* Get_next_line on files whose lines all end (ft_memmove.c:15, get_next_line.c:35).
LibrariesKeepTheirPromises ==
    /\ program = "libft" => LF!CallsAsPromised
    /\ program = "printf" => PF!PrintsWhatPrintfPrints
    /\ program = "lines" => GN!LinesAreLines

\* The exercises in C++ and miniRT: sorted and computed right, a materia has one
\* owner, a scene is as written, a ray meets the nearest object, and the picture
\* averages one view (PmergeMe.cpp:146, Character.cpp:71, parser.cpp:66, bvh.cpp:79,
\* main.cpp:289).
ToolsAnswerRight ==
    /\ program = "containers" => CT!AnswersAreRight
    /\ program = "ownership" => OW!EveryMateriaHasOneOwner
    /\ program = "scene" => SC!SceneIsAsWritten
    /\ program = "bvh" => BV!RayMeetsTheNearest
    /\ program = "render" => RL!OneViewInTheAverage
=============================================================================
