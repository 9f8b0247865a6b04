-------------------------------- MODULE Printf --------------------------------
(* ft_printf: from a format and its arguments to the characters written and    *)
(* the number returned.  A format is a sequence of characters and of           *)
(* directives; a directive is the record of what follows a percent sign, with  *)
(* the argument it takes.                                                      *)
EXTENDS Integers, Sequences, SequencesExt, FiniteSetsExt

CONSTANTS Formats,
          Garbage,      \* what may be read behind a pad that is not terminated
          Width,        \* the bits of int and unsigned int
          None,         \* no precision, no argument
          Unread

VARIABLES input, outcome

vars == <<input, outcome>>

Directive(flags, width, precision, spec, arg) ==
  [flags |-> flags, width |-> width, precision |-> precision, spec |-> spec, arg |-> arg]

Literal(ch) == [literal |-> ch]
IsLiteral(e) == "literal" \in DOMAIN e

Copies(ch, n) == [i \in 1 .. n |-> ch]
Excess(n, m) == IF n > m THEN n - m ELSE 0

Lower == <<"0", "1", "2", "3", "4", "5", "6", "7", "8", "9", "a", "b", "c", "d", "e", "f">>
Upper == <<"0", "1", "2", "3", "4", "5", "6", "7", "8", "9", "A", "B", "C", "D", "E", "F">>

NullText == <<"(", "n", "u", "l", "l", ")">>
NilText == <<"(", "n", "i", "l", ")">>

-----------------------------------------------------------------------------
(* Numbers.                                                                    *)

\* The digits of n, none for 0.
Digits(n, base, figures) ==
  LET digits[k \in 0 .. n] == IF k = 0 THEN <<>> ELSE Append(digits[k \div base], figures[(k % base) + 1])
  IN  digits[n]

Numlen(n, base) == Max({1, Len(Digits(n, base, Lower))})

\* With zeros in front up to len characters.
Putnunbr(n, base, figures, len) ==
  LET digits == Digits(n, base, figures) IN Copies("0", Excess(len, Len(digits))) \o digits

\* The width a number is given is without its prefix.  The pad stands in front
\* unless '-' is among the flags; zeros follow the prefix, blanks precede it.
PrintUnsigned(n, d, zeropad, width, base, figures, prefix) ==
  LET len == IF d.precision = 0 /\ n = 0 THEN 0
             ELSE IF d.precision # None /\ d.precision > Numlen(n, base) THEN d.precision
             ELSE Numlen(n, base)
      pad == Copies(IF zeropad THEN "0" ELSE " ", Excess(width, len))
      left == "-" \in d.flags
  IN  (IF zeropad THEN prefix ELSE <<>>) \o (IF left THEN <<>> ELSE pad)
      \o (IF zeropad THEN <<>> ELSE prefix)
      \o Putnunbr(n, base, figures, len) \o (IF left THEN pad ELSE <<>>)

\* A precision clears the flag '0'.
ZeroPad(d) == "0" \in d.flags /\ d.precision = None

\* Mutant: the minus sign is not taken from the width.
HandleIntWide(d) ==
  LET prefix == IF d.arg < 0 THEN <<"-">> ELSE IF "+" \in d.flags THEN <<"+">>
                ELSE IF " " \in d.flags THEN <<" ">> ELSE <<>>
  IN  PrintUnsigned(IF d.arg < 0 THEN -d.arg ELSE d.arg, d, ZeroPad(d), d.width, 10, Lower, prefix)

\* Only the minus sign is taken from the width.
HandleInt(d) ==
  LET prefix == IF d.arg < 0 THEN <<"-">> ELSE IF "+" \in d.flags THEN <<"+">>
                ELSE IF " " \in d.flags THEN <<" ">> ELSE <<>>
  IN  PrintUnsigned(IF d.arg < 0 THEN -d.arg ELSE d.arg, d, ZeroPad(d),
                    IF d.arg < 0 THEN Excess(d.width, 1) ELSE d.width, 10, Lower, prefix)

HandleUnsigned(d) == PrintUnsigned(d.arg, d, ZeroPad(d), d.width, 10, Lower, <<>>)

\* A width that does not exceed the prefix is kept as it is.
WithoutPrefix(width) == IF width > 2 THEN width - 2 ELSE width

HandleHex(d, figures, prefix) ==
  IF "#" \in d.flags /\ d.arg # 0
  THEN PrintUnsigned(d.arg, d, ZeroPad(d), WithoutPrefix(d.width), 16, figures, prefix)
  ELSE PrintUnsigned(d.arg, d, ZeroPad(d), d.width, 16, figures, <<>>)

-----------------------------------------------------------------------------
(* Characters and strings.                                                     *)

PrintString(str, d) ==
  LET text == IF str = None THEN NullText ELSE str
      shown == IF d.precision = None THEN text ELSE SubSeq(text, 1, Min({d.precision, Len(text)}))
      pad == Copies(IF ZeroPad(d) THEN "0" ELSE " ", Excess(d.width, Len(shown)))
  IN  IF str = None /\ d.precision # None /\ d.precision < 6 THEN <<>>
      ELSE IF "-" \in d.flags THEN shown \o pad ELSE pad \o shown

HandlePointer(d) ==
  IF d.arg = None THEN PrintString(NilText, d)
  ELSE PrintUnsigned(d.arg, d, ZeroPad(d), WithoutPrefix(d.width), 16, Lower, <<"0", "x">>)

\* The pad is printed as a string, and has no end of its own.
HandleChar(d, garbage) ==
  LET pad == IF d.width > 1 THEN Copies(" ", d.width - 1) \o garbage ELSE <<>>
  IN  IF "-" \in d.flags THEN <<d.arg>> \o pad ELSE pad \o <<d.arg>>

\* A specifier that is not in the table prints nothing.
Handle(d, garbage) ==
  CASE d.spec = "c" -> HandleChar(d, garbage)
    [] d.spec = "x" -> HandleHex(d, Lower, <<"0", "x">>)
    [] d.spec = "X" -> HandleHex(d, Upper, <<"0", "X">>)
    [] d.spec = "p" -> HandlePointer(d)
    [] d.spec = "u" -> HandleUnsigned(d)
    [] d.spec \in {"d", "i"} -> HandleInt(d)
    [] d.spec = "s" -> PrintString(d.arg, d)
    [] d.spec = "%" -> <<"%">>
    [] OTHER -> <<>>

\* A star's argument is an int that becomes unsigned.
Vprintf(format, garbage) ==
  FoldLeft(LAMBDA text, e : text \o (IF IsLiteral(e) THEN <<e.literal>>
                                     ELSE Handle([e EXCEPT !.width = @ % (2 ^ Width)], garbage)),
           <<>>, format)

Init == input \in Formats /\ outcome = Unread

\* Every function returns the number of characters it has written.
FtPrintf ==
  /\ outcome = Unread
  /\ \E garbage \in Garbage :
       LET text == Vprintf(input, garbage) IN outcome' = [text |-> text, ret |-> Len(text)]
  /\ UNCHANGED input

Next == FtPrintf

-----------------------------------------------------------------------------
(* printf of the standard, for the directives it defines.                      *)

\* What stands in front of the digits, and the digits.
Sign(d) == IF d.spec \notin {"d", "i"} THEN IF d.spec = "p" \/ ("#" \in d.flags /\ d.spec \in {"x", "X"} /\ d.arg # 0)
                                            THEN <<"0", IF d.spec = "X" THEN "X" ELSE "x">> ELSE <<>>
           ELSE IF d.arg < 0 THEN <<"-">> ELSE IF "+" \in d.flags THEN <<"+">>
           ELSE IF " " \in d.flags THEN <<" ">> ELSE <<>>

Figures(d) ==
  LET n == IF d.arg < 0 THEN -d.arg ELSE d.arg
      digits == Digits(n, IF d.spec \in {"d", "i", "u"} THEN 10 ELSE 16, IF d.spec = "X" THEN Upper ELSE Lower)
  IN  Copies("0", Excess(IF d.precision = None THEN 1 ELSE d.precision, Len(digits))) \o digits

Printed(d) ==
  LET number == d.spec \in {"d", "i", "u", "x", "X", "p"}
      body == IF number THEN Sign(d) \o Figures(d)
              ELSE IF d.spec = "%" THEN <<"%">> ELSE IF d.spec = "c" THEN <<d.arg>>
              ELSE IF d.precision = None THEN d.arg ELSE SubSeq(d.arg, 1, Min({d.precision, Len(d.arg)}))
      missing == Excess(d.width, Len(body))
  IN  IF "-" \in d.flags THEN body \o Copies(" ", missing)
      ELSE IF number /\ ZeroPad(d) THEN Sign(d) \o Copies("0", missing) \o Figures(d)
      ELSE Copies(" ", missing) \o body

\* What the code does otherwise: zeros behind a number; a sign, or the prefix of
\* a narrow field, that is not taken from the width; a pad without an end; and
\* what the standard leaves open (NULL for a string, '0' or '#' for others).
Otherwise(d) ==
  \/ d.spec \in {"s", "p"} /\ (d.arg = None \/ "0" \in d.flags)
  \/ {"-", "0"} \subseteq d.flags /\ d.precision = None
  \/ d.spec \in {"d", "i"} /\ d.arg >= 0 /\ {"+", " "} \intersect d.flags # {}
     /\ d.width > Len(Figures(d))
  \/ d.spec \in {"x", "X", "p"} /\ d.width <= 2 /\ d.width > Len(Figures(d)) /\ Sign(d) # <<>>
  \/ d.spec = "c" /\ d.width > 1
  \/ d.width < 0

(* A directive prints what printf prints, sign, prefix, zeros and blanks in    *)
(* their order and number, whichever flags, width and precision are combined   *)
(* (but for the cases listed), and the number returned is what was written.    *)
PrintsWhatPrintfPrints ==
  outcome # Unread =>
    LET known == SelectSeq(input, LAMBDA e : IsLiteral(e) \/ e.spec # "?") IN
    (\A i \in DOMAIN known : ~IsLiteral(known[i]) => ~Otherwise(known[i])) =>
      /\ outcome.text = FlattenSeq([i \in DOMAIN known |-> IF IsLiteral(known[i]) THEN <<known[i].literal>> ELSE Printed(known[i])])
      /\ outcome.ret = Len(outcome.text)
=============================================================================
