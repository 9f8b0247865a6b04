------------------------------ MODULE SceneFile ------------------------------
(* miniRT's scene file.  A line is a sequence of pieces: blanks, commas, marks, *)
(* the names of the elements and numbers, each of them a string.                *)
EXTENDS Integers, Sequences, SequencesExt, FiniteSets, FiniteSetsExt

\* Files: sequences of lines, each with its text and what it means; Number: the
\* value of each piece that std::from_chars takes, in units of which One makes 1;
\* Broken, Nothing: no element, a line without one; Unread: no outcome yet.
CONSTANTS Files, Number, One, Broken, Nothing, Unread

VARIABLES input, seen, scene, outcome

vars == <<input, seen, scene, outcome>>

Blank == " "
Mark == "#"

-----------------------------------------------------------------------------
(* Words and values. *)

\* The runs of pieces between the separators.
Cut(s, separator) ==
  LET Put(words, p) == IF p = separator THEN Append(words, <<>>)
                       ELSE Append(Front(words), Append(Last(words), p))
  IN  FoldLeft(Put, <<<<>>>>, s)

split(word) == Cut(word, ",")

convert_string(field) == IF Len(field) = 1 /\ field[1] \in DOMAIN Number THEN Number[field[1]] ELSE Broken

\* Whatever has a broken part is broken: each part that throws ends the file.
Whole(parts) == IF \E f \in DOMAIN parts : parts[f] = Broken THEN Broken ELSE parts

Numbers(word) == Whole([i \in DOMAIN split(word) |-> convert_string(split(word)[i])])

parse_vec3(word) == IF Len(split(word)) = 3 THEN Numbers(word) ELSE Broken

\* normalized(), for the vectors along an axis.
Direction(word) ==
  LET v == parse_vec3(word)
  IN  IF v = Broken THEN Broken ELSE [i \in 1 .. 3 |-> IF v[i] > 0 THEN One ELSE IF v[i] < 0 THEN -One ELSE 0]

\* Mutant: one is taken for a part of 255.
NormAll(v) == v \div 255

Norm(v) == IF v > One THEN v \div 255 ELSE v

parse_color(word) ==
  LET v == parse_vec3(word) IN IF v = Broken THEN Broken ELSE [i \in 1 .. 3 |-> Norm(v[i])]

\* The color and the shininess of a word of two or four fields.
parse_specular_params(word) ==
  LET v == Numbers(word)
  IN  IF v = Broken THEN Broken
      ELSE [color |-> [i \in 1 .. 3 |-> IF Len(v) = 2 THEN v[1] ELSE Norm(v[i])], shininess |-> v[Len(v)]]

-----------------------------------------------------------------------------
(* The elements. *)

\* The word's number, where there is such a word.
NumberAt(tokens, i, default) == IF i <= Len(tokens) THEN convert_string(tokens[i]) ELSE default

\* What follows the diffuse color decides by its commas how it is read.  (Words
\* left over are not looked at.)
parse_material_properties(tokens, i) ==
  LET fields == Len(split(tokens[i + 1]))
      both == parse_specular_params(tokens[i + 1])
      diffuse == parse_color(tokens[i])
  IN  CASE Len(tokens) = i ->
             Whole([diffuse |-> diffuse, specular |-> <<One \div 2, One \div 2, One \div 2>>,
                    shininess |-> 32 * One, reflectivity |-> 0])
        [] Len(tokens) > i /\ fields \in {2, 4} ->
             IF both = Broken THEN Broken
             ELSE Whole([diffuse |-> diffuse, specular |-> both.color, shininess |-> both.shininess,
                         reflectivity |-> NumberAt(tokens, i + 2, 0)])
        [] Len(tokens) > i /\ fields = 3 ->
             Whole([diffuse |-> diffuse, specular |-> parse_color(tokens[i + 1]),
                    shininess |-> NumberAt(tokens, i + 2, 32 * One), reflectivity |-> NumberAt(tokens, i + 3, 0)])
        [] OTHER -> Broken

parse_ambient(t) ==
  IF Len(t) # 3 THEN Broken
  ELSE Whole([kind |-> "A", ratio |-> convert_string(t[2]), color |-> parse_color(t[3])])

parse_camera(t) ==
  IF Len(t) # 4 \/ convert_string(t[4]) = Broken \/ convert_string(t[4]) \notin 1 .. 180 * One - 1 THEN Broken
  ELSE Whole([kind |-> "C", origin |-> parse_vec3(t[2]), orientation |-> Direction(t[3]), fov |-> convert_string(t[4])])

parse_light(t) ==
  IF Len(t) # 4 THEN Broken
  ELSE Whole([kind |-> "L", position |-> parse_vec3(t[2]), brightness |-> convert_string(t[3]), color |-> parse_color(t[4])])

parse_sphere(t) ==
  IF Len(t) \notin 4 .. 7 THEN Broken
  ELSE Whole([kind |-> "sp", center |-> parse_vec3(t[2]), diameter |-> convert_string(t[3]),
              material |-> parse_material_properties(t, 4)])

parse_plane(t) ==
  IF Len(t) \notin 4 .. 7 THEN Broken
  ELSE Whole([kind |-> "pl", point |-> parse_vec3(t[2]), normal |-> Direction(t[3]),
              material |-> parse_material_properties(t, 4)])

parse_cylinder(t) ==
  IF Len(t) \notin 6 .. 9 THEN Broken
  ELSE Whole([kind |-> "cy", center |-> parse_vec3(t[2]), axis |-> Direction(t[3]), diameter |-> convert_string(t[4]),
              height |-> convert_string(t[5]), material |-> parse_material_properties(t, 6)])

parse_line_tokens(t) ==
  CASE t[1] = <<Mark>> -> Nothing
    [] t[1] = <<"A">> -> parse_ambient(t)
    [] t[1] = <<"C">> -> parse_camera(t)
    [] t[1] = <<"L">> -> parse_light(t)
    [] t[1] = <<"sp">> -> parse_sphere(t)
    [] t[1] = <<"pl">> -> parse_plane(t)
    [] t[1] = <<"cy">> -> parse_cylinder(t)
    [] OTHER -> Broken

-----------------------------------------------------------------------------
(* The lines. *)

\* What is left of a line without its comment.  A mark that is the line's first
\* or last piece but blanks stays.
Trimmed(line) ==
  LET solid == {i \in DOMAIN line : line[i] # Blank}
      marks == {i \in DOMAIN line : line[i] = Mark}
      pos == Min(marks)
      kept == IF marks # {} /\ pos # 1 /\ pos < Max(solid) THEN {i \in solid : i < pos} ELSE solid
  IN  IF kept = {} THEN <<>> ELSE SubSeq(line, Min(kept), Max(kept))

process_line(line) ==
  LET tokens == SelectSeq(Cut(Trimmed(line), Blank), LAMBDA word : word # <<>>)
  IN  IF tokens = <<>> THEN Nothing ELSE parse_line_tokens(tokens)

HasOne(elements, kind) == \E i \in DOMAIN elements : elements[i].kind = kind

Init == input \in Files /\ seen = 0 /\ scene = <<>> /\ outcome = Unread

ReadLine ==
  /\ outcome = Unread /\ seen < Len(input)
  /\ \E element \in {process_line(input[seen + 1].text)} :
       LET twice == element \notin {Nothing, Broken} /\ element.kind \in {"A", "C"} /\ HasOne(scene, element.kind)
       IN  IF element = Broken \/ twice THEN outcome' = [error |-> seen + 1] /\ UNCHANGED scene
           ELSE scene' = (IF element = Nothing THEN scene ELSE Append(scene, element)) /\ UNCHANGED outcome
  /\ seen' = seen + 1
  /\ UNCHANGED input

\* The file has ended (the tree of the objects is built then).
Finish ==
  /\ outcome = Unread /\ seen = Len(input)
  /\ outcome' = IF HasOne(scene, "C") /\ HasOne(scene, "A") THEN [elements |-> scene] ELSE [error |-> seen]
  /\ UNCHANGED <<input, seen, scene>>

Next == ReadLine \/ Finish

-----------------------------------------------------------------------------

\* A file is read as doc.md describes it: every element with the values written
\* and the defaults of what is not written, colors in parts of 255 or of one;
\* nothing for comments and empty lines; and the first line that is wrong, or is a
\* second camera or ambient light, is the error, the last one if either is missing
\* (parser.cpp:104, :132, :228).  The lines doc.md and the parser disagree about
\* mean here what the parser makes of them.
SceneIsAsWritten ==
  LET IsWrong(i) ==
        LET m == input[i].meant
        IN  m = Broken \/ (m # Nothing /\ m.kind \in {"A", "C"}
                           /\ \E j \in 1 .. i - 1 : input[j].meant \notin {Nothing, Broken} /\ input[j].meant.kind = m.kind)
      wrong == {i \in DOMAIN input : IsWrong(i)}
      meant == SelectSeq([i \in DOMAIN input |-> input[i].meant], LAMBDA m : m # Nothing)
  IN  outcome # Unread =>
        outcome = IF wrong # {} THEN [error |-> Min(wrong)]
                  ELSE IF \A kind \in {"A", "C"} : \E i \in DOMAIN meant : meant[i].kind = kind THEN [elements |-> meant]
                  ELSE [error |-> Len(input)]
=============================================================================
