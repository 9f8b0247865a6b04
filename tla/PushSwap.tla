------------------------------- MODULE PushSwap -------------------------------
(* push_swap prints operations on two stacks that sort its arguments; checker  *)
(* parses the same arguments, executes the operations it reads and says OK or  *)
(* KO.  A stack is a sequence, top first.  Integers are those of a machine     *)
(* word: MaxInt is INT_MAX.                                                    *)
EXTENDS Integers, Sequences, SequencesExt, FiniteSetsExt

\* A word of an argument is an integer, which an int may not hold, or NotANumber.
CONSTANTS MaxInt, NotANumber, Arguments, Lines

VARIABLES args, stage, typed, out, a, b

vars == <<args, stage, typed, out, a, b>>

-----------------------------------------------------------------------------
(* The operations; each is logged under the name it is printed with. *)

SwapTop(s) == IF Len(s) < 2 THEN s ELSE <<s[2], s[1]>> \o SubSeq(s, 3, Len(s))

RotateUp(s) == IF Len(s) < 2 THEN s ELSE Append(Tail(s), Head(s))

RotateDown(s) == IF Len(s) < 2 THEN s ELSE <<s[Len(s)]>> \o SubSeq(s, 1, Len(s) - 1)

PushTo(from, to) == IF from = <<>> THEN to ELSE <<Head(from)>> \o to

PopOf(from) == IF from = <<>> THEN from ELSE Tail(from)

\* What the program holds while it sorts: both stacks and what it has printed.
Both(x, y) == [a |-> x, b |-> y, log |-> <<>>]

Sa(s) == IF Len(s.a) < 2 THEN s ELSE [s EXCEPT !.a = SwapTop(@), !.log = Append(@, "sa")]
Sb(s) == IF Len(s.b) < 2 THEN s ELSE [s EXCEPT !.b = SwapTop(@), !.log = Append(@, "sb")]
Ra(s) == IF Len(s.a) < 2 THEN s ELSE [s EXCEPT !.a = RotateUp(@), !.log = Append(@, "ra")]
Rra(s) == IF Len(s.a) < 2 THEN s ELSE [s EXCEPT !.a = RotateDown(@), !.log = Append(@, "rra")]
Pa(s) == [a |-> PushTo(s.b, s.a), b |-> PopOf(s.b), log |-> Append(s.log, "pa")]
Pb(s) == [a |-> PopOf(s.a), b |-> PushTo(s.a, s.b), log |-> Append(s.log, "pb")]

\* Op done n times.
Times(Op(_), n, s) == FoldLeft(LAMBDA t, i : Op(t), s, [i \in 1 .. n |-> i])

-----------------------------------------------------------------------------
(* Sorting up to five values by cases, and more by their bits. *)

Ascending(s) == \A i \in 1 .. Len(s) - 1 : s[i] <= s[i + 1]

\* The position of the least value, from 0.
MinPos(s) == (CHOOSE i \in DOMAIN s : \A j \in DOMAIN s : s[i] <= s[j]) - 1

\* Mutant: always the same way round.
PushMinAlwaysUp(s) == Pb(Times(Ra, MinPos(s.a), s))

PushMinToB(s) ==
  LET pos == MinPos(s.a)
      size == Len(s.a)
  IN  Pb(IF pos < size - pos THEN Times(Ra, pos, s) ELSE Times(Rra, size - pos, s))

Sort3(s) ==
  LET x == s.a[1]
      y == s.a[2]
      z == s.a[3]
  IN  CASE z > x /\ x > y -> Sa(s)
        [] x > y /\ y > z -> Rra(Sa(s))
        [] x > z /\ z > y -> Ra(s)
        [] y > z /\ z > x -> Ra(Sa(s))
        [] y > x /\ x > z -> Rra(s)
        [] OTHER -> s

Sort4(s) == Pa(Sort3(PushMinToB(s)))

Sort5(s) ==
  LET rest == Sort3(PushMinToB(PushMinToB(s)))
      pair == IF rest.b[1] < rest.b[2] THEN Sb(rest) ELSE rest
  IN  Pa(Pa(pair))

Shift(s) == IF Min(Range(s)) < 0 THEN -Min(Range(s)) ELSE 0

\* Whether the shifted values are ints: otherwise the additions overflow.
ShiftFits(s) == Max(Range(s)) + Shift(s) <= MaxInt /\ Shift(s) <= MaxInt

MaxBits(s) == CHOOSE k \in 0 .. MaxInt :
                /\ 2 ^ k > Max(Range(s)) + Shift(s)
                /\ k = 0 \/ 2 ^ (k - 1) <= Max(Range(s)) + Shift(s)

\* Mutant: the bits of the values as they are, negative ones included.
RadixRoundUnshifted(s, i, shift) ==
  LET Deal(t) == IF (t.a[1] \div 2 ^ i) % 2 = 1 THEN Ra(t) ELSE Pb(t)
      dealt == Times(Deal, Len(s.a), s)
  IN  Times(Pa, Len(dealt.b), dealt)

\* One round: the values whose bit i is 0 pass through b.
RadixRound(s, i, shift) ==
  LET Deal(t) == IF ((t.a[1] + shift) \div 2 ^ i) % 2 = 1 THEN Ra(t) ELSE Pb(t)
      dealt == Times(Deal, Len(s.a), s)
  IN  Times(Pa, Len(dealt.b), dealt)

RadixSort(s) ==
  LET shift == Shift(s.a)
  IN  FoldLeft(LAMBDA t, i : RadixRound(t, i - 1, shift), s, [i \in 1 .. MaxBits(s.a) |-> i])

SortStack(s) ==
  IF Ascending(s.a) THEN s
  ELSE CASE Len(s.a) = 2 -> Sa(s)
         [] Len(s.a) = 3 -> Sort3(s)
         [] Len(s.a) = 4 -> Sort4(s)
         [] Len(s.a) = 5 -> Sort5(s)
         [] OTHER -> RadixSort(s)

\* What overflows has no result: the code may do anything from there.
SortIsDefined(s) == Ascending(s) \/ Len(s) <= 5 \/ ShiftFits(s)

-----------------------------------------------------------------------------
(* Arguments: each is split at spaces into words. *)

IsNumber(w) == w # NotANumber

SafeAtoi(w) == w \in -MaxInt - 1 .. MaxInt

\* Mutant: duplicates are not looked for.
ParseAnyArgs(list) ==
  LET words == FlattenSeq(list)
      valid == \A i \in DOMAIN words : IsNumber(words[i]) /\ SafeAtoi(words[i])
  IN  [ok |-> valid, values |-> IF valid THEN words ELSE <<>>]

\* The values in order, or that the program prints Error and exits.
ParseArgs(list) ==
  LET words == FlattenSeq(list)
      valid == \A i \in DOMAIN words : IsNumber(words[i]) /\ SafeAtoi(words[i])
  IN  IF valid /\ IsInjective(words) THEN [ok |-> TRUE, values |-> words]
      ELSE [ok |-> FALSE, values |-> <<>>]

-----------------------------------------------------------------------------
(* The two programs, the one's output being the other's input. *)

Init == args \in Arguments /\ stage = "start" /\ typed = FALSE /\ out = <<>> /\ a = <<>> /\ b = <<>>

\* push_swap: parse, sort, print.
PushSwap ==
  /\ stage = "start"
  /\ LET parsed == ParseArgs(args)
     IN  IF ~parsed.ok THEN stage' = "error" /\ UNCHANGED out
         ELSE IF ~SortIsDefined(parsed.values) THEN stage' = "undefined" /\ UNCHANGED out
         ELSE stage' = "printed" /\ out' = SortStack(Both(parsed.values, <<>>)).log
  /\ UNCHANGED <<args, typed, a, b>>

\* checker on the same arguments, with what push_swap printed or with lines
\* that somebody typed.
CheckerStarts ==
  /\ \/ stage = "printed" /\ UNCHANGED <<out, typed>>
     \/ stage = "start" /\ ParseArgs(args).ok /\ typed' = TRUE /\ out' \in Lines
  /\ a' = ParseArgs(args).values
  /\ stage' = "checking"
  /\ UNCHANGED <<args, b>>

\* execute_op: what a line does to both stacks.
Effect(op, x, y) ==
  CASE op = "sa" -> <<SwapTop(x), y>>
    [] op = "sb" -> <<x, SwapTop(y)>>
    [] op = "ss" -> <<SwapTop(x), SwapTop(y)>>
    [] op = "pa" -> <<PushTo(y, x), PopOf(y)>>
    [] op = "pb" -> <<PopOf(x), PushTo(x, y)>>
    [] op = "ra" -> <<RotateUp(x), y>>
    [] op = "rb" -> <<x, RotateUp(y)>>
    [] op = "rr" -> <<RotateUp(x), RotateUp(y)>>
    [] op = "rra" -> <<RotateDown(x), y>>
    [] op = "rrb" -> <<x, RotateDown(y)>>
    [] op = "rrr" -> <<RotateDown(x), RotateDown(y)>>

Operations == {"sa", "sb", "ss", "pa", "pb", "ra", "rb", "rr", "rra", "rrb", "rrr"}

\* read_and_execute_ops: the next line.
ExecuteOp ==
  /\ stage = "checking"
  /\ out # <<>>
  /\ IF Head(out) \notin Operations THEN stage' = "error" /\ UNCHANGED <<a, b>>
     ELSE LET after == Effect(Head(out), a, b)
          IN  a' = after[1] /\ b' = after[2] /\ UNCHANGED stage
  /\ out' = Tail(out)
  /\ UNCHANGED <<args, typed>>

Verdict ==
  /\ stage = "checking"
  /\ out = <<>>
  /\ stage' = IF Ascending(a) /\ b = <<>> THEN "OK" ELSE "KO"
  /\ UNCHANGED <<args, typed, out, a, b>>

Next == PushSwap \/ CheckerStarts \/ ExecuteOp \/ Verdict

Spec == Init /\ [][Next]_vars

-----------------------------------------------------------------------------

\* What push_swap prints sorts its arguments, as checker executes it, in no
\* more operations than README.md:50 asks for: 3 for three values, 12 for five
\* (simple_sort.c, radix_sort.c, checker.c).
OutputSorts ==
  /\ ~typed => stage \notin {"KO"}
  /\ stage = "printed" => LET n == Len(ParseArgs(args).values)
                          IN  (n <= 3 => Len(out) <= 3) /\ (n <= 5 => Len(out) <= 12)

\* Whatever is executed, every value is on one of the stacks, once
\* (operations.c, stack.c).
NothingLost ==
  stage \in {"checking", "OK", "KO"} =>
    /\ IsInjective(a \o b)
    /\ Range(a \o b) = Range(ParseArgs(args).values)
===============================================================================
