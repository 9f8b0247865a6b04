----------------------------- MODULE Containers -----------------------------
(* The exercises of the C++ modules that compute something with a container:   *)
(* PmergeMe (merge-insertion sort), RPN (a stack), BitcoinExchange (an ordered *)
(* map), Span (a vector of ints) and Replacer (lines of a file).               *)
EXTENDS Integers, Sequences, SequencesExt, FiniteSets, FiniteSetsExt, Functions

\* Calls: what is asked; Width: of an int, in bits; Small: the length up to which
\* PmergeMe sorts by insertion (10 in the code); NotANumber, Error, Undefined,
\* Unread: no int, an exception, undefined behaviour, no outcome yet.
CONSTANTS Calls, Width, Small, NotANumber, Error, Undefined, Unread

VARIABLES input, outcome

vars == <<input, outcome>>

MaxInt == 2 ^ (Width - 1) - 1
Magnitude(n) == IF n < 0 THEN -n ELSE n
ToInt(n) == IF n \in -MaxInt - 1 .. MaxInt THEN n ELSE Undefined

-----------------------------------------------------------------------------
(* PmergeMe: the vector's and the deque's functions are the same. *)

ParseInput(args) ==
  IF \A i \in DOMAIN args : args[i] # NotANumber /\ args[i] \in 1 .. MaxInt THEN args ELSE Error

\* The key goes behind the last element that is not greater.
InsertKey(v, key) ==
  LET j == Max({k \in 0 .. Len(v) : k = 0 \/ v[k] <= key})
  IN  InsertAt(v, j + 1, key)

InsertionSort(v) == FoldLeft(InsertKey, <<>>, v)

\* The binary search for the first element that is not smaller than val.
LowerBound(v, val) ==
  LET search[left \in 1 .. Len(v) + 1, right \in 1 .. Len(v) + 1] ==
        IF left >= right THEN left
        ELSE LET mid == (left - 1 + right - 1) \div 2 + 1
             IN  IF v[mid] < val THEN search[mid + 1, right] ELSE search[left, mid]
  IN  search[1, Len(v) + 1]

Insert(v, val) == InsertAt(v, LowerBound(v, val), val)

MinOf(x, y) == IF x < y THEN x ELSE y
MaxOf(x, y) == IF x < y THEN y ELSE x

Smaller(v) == [i \in 1 .. Len(v) \div 2 |-> MinOf(v[2 * i - 1], v[2 * i])]

\* Mutant: an odd one out belongs to nobody.
LargerOfPairs(v) == [i \in 1 .. Len(v) \div 2 |-> MaxOf(v[2 * i - 1], v[2 * i])]

\* The last of an odd number counts as a larger one.
Larger(v) == [i \in 1 .. (Len(v) + 1) \div 2 |-> IF 2 * i > Len(v) THEN v[2 * i - 1] ELSE MaxOf(v[2 * i - 1], v[2 * i])]

\* The larger ones of the pairs, of their pairs, and so on down to a small range;
\* then the smaller ones are put back, level by level.
FordJohnsonSort(v) ==
  LET level[d \in 0 .. Len(v)] == IF d = 0 THEN v ELSE Larger(level[d - 1])
      depth == Min({d \in 0 .. Len(v) : Len(level[d]) <= Small})
      sorted[d \in 0 .. depth] == IF d = depth THEN InsertionSort(level[d])
                                  ELSE FoldLeft(Insert, sorted[d + 1], Smaller(level[d]))
  IN  sorted[0]

-----------------------------------------------------------------------------
(* RPN: tokens are digits, operators, or anything else. *)

Digits == 0 .. 9
Plus == 100
Minus == 101
Star == 102
Divide == 103
Operators == {Plus, Minus, Star, Divide}

Quotient(a, b) == IF (a < 0) = (b < 0) THEN Magnitude(a) \div Magnitude(b) ELSE -(Magnitude(a) \div Magnitude(b))

Applied(op, a, b) ==
  IF Undefined \in {a, b} THEN Undefined
  ELSE CASE op = Plus -> ToInt(a + b)
         [] op = Minus -> ToInt(a - b)
         [] op = Star -> ToInt(a * b)
         [] OTHER -> IF b = 0 THEN Error ELSE ToInt(Quotient(a, b))

Calculate(tokens) ==
  LET Step(stk, token) ==
        CASE stk = Error -> Error
          [] stk # Error /\ token \in Digits -> Append(stk, token)
          [] stk # Error /\ token \in Operators ->
               IF Len(stk) < 2 THEN Error
               ELSE LET res == Applied(token, stk[Len(stk) - 1], Last(stk))
                    IN  IF res = Error THEN Error ELSE Append(Front(Front(stk)), res)
          [] OTHER -> Error
      stk == FoldLeft(Step, <<>>, tokens)
  IN  IF stk = Error THEN Error ELSE IF Len(stk) # 1 THEN Error ELSE stk[1]

-----------------------------------------------------------------------------
(* BitcoinExchange: dates in the order of their texts, a rate for each in the  *)
(* data base; of a line of the input that has no value a 0 is read.            *)

\* The first entry not before the date, and the one before it if that is another.
GetRate(rates, date) ==
  LET from == {d \in DOMAIN rates : d >= date}
      before == {d \in DOMAIN rates : d < date}
  IN  IF from # {} /\ Min(from) = date THEN rates[date]
      ELSE IF before = {} THEN Error ELSE rates[Max(before)]

Convert(rates, line) ==
  IF line.value \notin 0 .. 1000 \/ ~line.valid THEN Error
  ELSE LET rate == GetRate(rates, line.date) IN IF rate = Error THEN Error ELSE rate * line.value

-----------------------------------------------------------------------------
(* Span: the distances of the sorted neighbours, and of the extremes. *)

AddNumbers(max, numbers) == IF Len(numbers) > max THEN SubSeq(numbers, 1, max) ELSE numbers

ShortestSpan(numbers) ==
  LET tmp == SortSeq(numbers, LAMBDA x, y : x < y)
      diffs == {ToInt(tmp[i + 1] - tmp[i]) : i \in 1 .. Len(tmp) - 1}
  IN  IF Len(numbers) < 2 THEN Error ELSE IF Undefined \in diffs THEN Undefined ELSE Min(diffs)

LongestSpan(numbers) ==
  IF Len(numbers) < 2 THEN Error ELSE ToInt(Max(Range(numbers)) - Min(Range(numbers)))

-----------------------------------------------------------------------------
(* Replacer: one line of the file. *)

IsAt(s, t, i) == i + Len(t) - 1 <= Len(s) /\ SubSeq(s, i, i + Len(t) - 1) = t

ReplaceLine(line, old, new) ==
  LET rest[i \in 1 .. Len(line) + 1] ==
        LET found == {pos \in i .. Len(line) : IsAt(line, old, pos)}
        IN  IF found = {} THEN SubSeq(line, i, Len(line))
            ELSE SubSeq(line, i, Min(found) - 1) \o new \o rest[Min(found) + Len(old)]
  IN  IF old = <<>> THEN Error ELSE rest[1]

-----------------------------------------------------------------------------

Answer(c) ==
  CASE c.f = "sort" -> IF ParseInput(c.args) = Error THEN Error ELSE FordJohnsonSort(c.args)
    [] c.f = "rpn" -> Calculate(c.args)
    [] c.f = "convert" -> Convert(c.rates, c.line)
    [] c.f = "shortest" -> ShortestSpan(AddNumbers(c.max, c.args))
    [] c.f = "longest" -> LongestSpan(AddNumbers(c.max, c.args))
    [] c.f = "replace" -> ReplaceLine(c.args, c.old, c.new)

Init == input \in Calls /\ outcome = Unread

Compute == outcome = Unread /\ outcome' = Answer(input) /\ UNCHANGED input

Next == Compute

-----------------------------------------------------------------------------
(* What the answers ought to be, without containers. *)

SortsThem(args, result) ==
  /\ \A i \in 1 .. Len(result) - 1 : result[i] <= result[i + 1]
  /\ Len(result) = Len(args)
  /\ \A x \in Range(args) \union Range(result) :
       Cardinality({i \in DOMAIN args : args[i] = x}) = Cardinality({i \in DOMAIN result : result[i] = x})

\* How many values there are after the first i tokens; a term ends at i and starts
\* behind the last place with one value less; its last operand ends at i - 1.
Depth(t, i) == Cardinality({k \in 1 .. i : t[k] \in Digits}) - Cardinality({k \in 1 .. i : t[k] \in Operators})
WellFormed(t) == Range(t) \subseteq Digits \union Operators /\ Depth(t, Len(t)) = 1 /\ \A i \in DOMAIN t : Depth(t, i) > 0
StartOf(t, i) == 1 + Max({k \in 0 .. i - 1 : Depth(t, k) = Depth(t, i) - 1})
ValueOf(t) ==
  LET value[i \in DOMAIN t] ==
        IF t[i] \in Digits THEN t[i]
        ELSE LET a == value[StartOf(t, i - 1) - 1]  b == value[i - 1]
             IN  IF Error \in {a, b} THEN Error ELSE Applied(t[i], a, b)
  IN  value[Len(t)]

\* The places that are replaced: a match that no earlier replacement reaches into.
Replaced(line, old) ==
  LET taken[i \in 0 .. Len(line)] ==
        IF i = 0 THEN {}
        ELSE IF IsAt(line, old, i) /\ \A p \in taken[i - 1] : p + Len(old) <= i THEN taken[i - 1] \union {i} ELSE taken[i - 1]
  IN  taken[Len(line)]

\* PmergeMe sorts whatever positive ints it is given, of any odd or even number and
\* with equal ones; a term in reverse Polish notation has its value, and what is no
\* term is an error; the rate is that of the latest entry up to the date; the spans
\* are the least and the greatest distance of any two numbers kept, unless it is no
\* int; and a file has the new text at the matches from the left that do not overlap
\* (PmergeMe.cpp:146, RPN.cpp:9, BitcoinExchange.cpp:32, Span.cpp:23, Replacer.cpp:5).
AnswersAreRight ==
  outcome # Unread =>
    LET c == input
        kept == IF c.f \in {"shortest", "longest"} THEN [i \in 1 .. MinOf(c.max, Len(c.args)) |-> c.args[i]] ELSE <<>>
        spans == {Magnitude(kept[p[1]] - kept[p[2]]) : p \in {q \in (DOMAIN kept) \X (DOMAIN kept) : q[1] # q[2]}}
        upTo == IF c.f = "convert" THEN {d \in DOMAIN c.rates : d <= c.line.date} ELSE {}
    IN  CASE c.f = "sort" -> IF \E i \in DOMAIN c.args : c.args[i] = NotANumber \/ c.args[i] <= 0 \/ c.args[i] > MaxInt
                             THEN outcome = Error ELSE SortsThem(c.args, outcome)
          [] c.f = "rpn" -> IF WellFormed(c.args) THEN outcome = ValueOf(c.args) ELSE outcome = Error
          [] c.f = "convert" -> IF ~c.line.valid \/ c.line.value < 0 \/ c.line.value > 1000 \/ upTo = {} THEN outcome = Error
                                ELSE \E d \in upTo : (\A e \in upTo : e <= d) /\ outcome = c.rates[d] * c.line.value
          [] c.f = "shortest" -> Cardinality(DOMAIN kept) > 1 => outcome \in {Min(spans), Undefined} /\ (Max(spans) <= MaxInt => outcome = Min(spans))
          [] c.f = "longest" -> Cardinality(DOMAIN kept) > 1 => outcome = ToInt(Max(spans))
          [] c.f = "replace" -> c.old # <<>> =>
               LET at == Replaced(c.args, c.old)
                   gone == UNION {p .. p + Len(c.old) - 1 : p \in at}
               IN  outcome = FlattenSeq([i \in DOMAIN c.args |-> IF i \in at THEN c.new ELSE IF i \in gone THEN <<>> ELSE <<c.args[i]>>])
=============================================================================
