-------------------------------- MODULE Libft --------------------------------
(* The library of C functions the other programs are linked with.  A byte is   *)
(* its code, memory a sequence of bytes, an address a position in it; Null is  *)
(* no address.  A string that a function only reads is the sequence of its     *)
(* bytes without the zero.  One call of one function is one step.              *)
EXTENDS Integers, Sequences, SequencesExt, FiniteSetsExt

CONSTANTS Calls,        \* calls: records of a function's name and arguments
          Width,        \* the bits of int
          SizeWidth,    \* the bits of size_t
          Null, Unread

VARIABLES input, outcome

vars == <<input, outcome>>

NulByte == 0
MinusSign == 45
PlusSign == 43
Digit0 == 48
IsSpace(c) == c = 32 \/ c \in 9 .. 13
IsDigit(c) == c \in 48 .. 57

MinInt == -(2 ^ (Width - 1))
MaxInt == 2 ^ (Width - 1) - 1
Wrap(n) == ((n - MinInt) % (2 ^ Width)) + MinInt

\* Division of C: towards zero.
Quot(n, d) == IF n < 0 THEN -((-n) \div d) ELSE n \div d
Rem(n, d) == n - d * Quot(n, d)

\* The first position from i on that passes Test, the one past the end if none.
FirstFrom(s, i, Test(_)) ==
  CHOOSE k \in i .. Len(s) + 1 : /\ k > Len(s) \/ Test(s[k])
                                 /\ \A j \in i .. k - 1 : ~Test(s[j])

\* The length of the string at address a.
Strlen(mem, a) == FirstFrom(mem, a, LAMBDA c : c = NulByte) - a

-----------------------------------------------------------------------------
(* Functions that write memory.                                                *)

Up(n) == [i \in 1 .. n |-> i - 1]
Down(n) == [i \in 1 .. n |-> n - i]

\* One byte after the other, in the order given; a byte written may be read.
CopyBytes(mem, d, s, order) == FoldLeft(LAMBDA m, i : [m EXCEPT ![d + i] = m[s + i]], mem, order)

Write(mem, a, bytes) == [x \in DOMAIN mem |-> IF x \in a .. a + Len(bytes) - 1 THEN bytes[x - a + 1] ELSE mem[x]]

Memcpy(c) == [mem |-> CopyBytes(c.mem, c.d, c.s, Up(c.n)), ret |-> c.d]

\* Mutant: the bytes are always copied upwards.
MemmoveUp(c) == [mem |-> CopyBytes(c.mem, c.d, c.s, Up(c.n)), ret |-> c.d]

Memmove(c) ==
  [mem |-> CopyBytes(c.mem, c.d, c.s, IF c.d < c.s THEN Up(c.n) ELSE Down(c.n)), ret |-> c.d]

Memset(c) == [mem |-> Write(c.mem, c.d, [i \in 1 .. c.n |-> c.byte % 256]), ret |-> c.d]

Strlcpy(c) ==
  LET len == Strlen(c.mem, c.s)
      i == Min({c.n - 1, len})
  IN  IF c.n = 0 THEN [mem |-> c.mem, ret |-> len]
      ELSE [mem |-> Write(CopyBytes(c.mem, c.d, c.s, Up(i)), c.d + i, <<NulByte>>), ret |-> len]

\* The string in dst is read until its zero or size.
Strlcat(c) ==
  LET i == Min({Strlen(c.mem, c.d), c.n})
      len == Strlen(c.mem, c.s)
      j == Max({0, Min({len, c.n - i - 1})})
      joined == CopyBytes(c.mem, c.d + i, c.s, Up(j))
  IN  IF c.n = 0 THEN [mem |-> c.mem, ret |-> len]
      ELSE [mem |-> IF i < c.n THEN Write(joined, c.d + i + j, <<NulByte>>) ELSE joined,
            ret |-> i + len]

-----------------------------------------------------------------------------
(* Functions that allocate.  fails is the number of the malloc that returns    *)
(* NULL, 0 if none does; left are the blocks that neither the caller nor the   *)
(* heap has afterwards.                                                        *)

Made(value) == [ret |-> value, left |-> {}]

Alloc(fails, value) == IF fails = 1 THEN Made(Null) ELSE Made(value)

\* nmemb * size wraps.
Calloc(c) == Alloc(c.fails, [i \in 1 .. (c.n * c.size) % (2 ^ SizeWidth) |-> NulByte])

Strdup(c) == Alloc(c.fails, c.s)

SubstrOf(s, start, len) == SubSeq(s, start + 1, start + Min({len, Len(s) - start}))

Substr(c) ==
  IF c.s = Null THEN Made(Null)
  ELSE Alloc(c.fails, IF c.start > Len(c.s) THEN <<>> ELSE SubstrOf(c.s, c.start, c.len))

Strjoin(c) == Alloc(c.fails, (IF c.s = Null THEN <<>> ELSE c.s) \o (IF c.t = Null THEN <<>> ELSE c.t))

Strtrim(c) ==
  LET start == FirstFrom(c.s, 1, LAMBDA x : x \notin ToSet(c.set)) - 1
      end == CHOOSE e \in start .. Len(c.s) : /\ e = start \/ c.s[e] \notin ToSet(c.set)
                                              /\ \A k \in e + 1 .. Len(c.s) : c.s[k] \in ToSet(c.set)
  IN  IF c.s = Null THEN Made(Null) ELSE Alloc(c.fails, SubstrOf(c.s, start, end - start))

Strmapi(c) == IF c.s = Null THEN Made(Null) ELSE Alloc(c.fails, [i \in DOMAIN c.s |-> c.map[c.s[i]]])

\* The next word from position j on: its first position and the one behind it.
WordFrom(s, j, sep) ==
  LET b == FirstFrom(s, j, LAMBDA x : x # sep)
  IN  <<b, FirstFrom(s, b, LAMBDA x : x = sep)>>

CountWords(s, sep) ==
  LET count[j \in 1 .. Len(s) + 1] ==
        LET w == WordFrom(s, j, sep) IN IF w[1] > Len(s) THEN 0 ELSE 1 + count[w[2]]
  IN  count[1]

\* The array is malloc 1, word i is malloc i + 1 and block i, the array block 0.
\* When a word cannot be had, those before it and the array are freed.
Split(c) ==
  LET count == CountWords(c.s, c.sep)
      Next1(acc, i) == LET w == WordFrom(c.s, acc.j, c.sep)
                       IN  [j |-> w[2], words |-> Append(acc.words, SubSeq(c.s, w[1], w[2] - 1))]
      words == FoldLeft(Next1, [j |-> 1, words |-> <<>>], Up(count)).words
      failed == c.fails - 1
  IN  IF c.s = Null THEN Made(Null)
      ELSE IF failed \notin 0 .. count THEN Made(words)
      ELSE [ret |-> Null,
            left |-> IF failed = 0 THEN {} ELSE (0 .. failed - 1) \ ((1 .. failed - 1) \union {0})]

\* A list is the sequence of its contents.  The content f has made for the node
\* that cannot be had is in no list yet.
Lstmap(c) ==
  LET n == Len(c.list) IN
  IF c.fails \notin 1 .. n THEN Made([i \in 1 .. n |-> c.map[c.list[i]]])
  ELSE [ret |-> Null, left |-> IF c.del THEN {c.fails} ELSE 1 .. c.fails]

-----------------------------------------------------------------------------
(* Numbers.                                                                    *)

\* What is added up overflows as two's complement does.
Atoi(c) ==
  LET s == c.s
      first == FirstFrom(s, 1, LAMBDA x : ~IsSpace(x))
      signed == first <= Len(s) /\ s[first] \in {MinusSign, PlusSign}
      digits == IF signed THEN first + 1 ELSE first
      end == FirstFrom(s, digits, LAMBDA x : ~IsDigit(x))
      value == FoldLeft(LAMBDA r, x : Wrap(Wrap(r * 10) + x - Digit0), 0, SubSeq(s, digits, end - 1))
  IN  [ret |-> Wrap(value * (IF signed /\ s[first] = MinusSign THEN -1 ELSE 1))]

\* len counts the digits first; they are written from the end.
Itoa(c) ==
  LET lens[k \in MinInt .. MaxInt] == IF Quot(k, 10) = 0 THEN 1 ELSE 1 + lens[Quot(k, 10)]
      len == lens[c.n] + (IF c.n < 0 THEN 1 ELSE 0)
      start == [i \in 1 .. len |-> IF i > 1 THEN Null ELSE IF c.n < 0 THEN MinusSign
                                   ELSE IF c.n = 0 THEN Digit0 ELSE Null]
      fill[k \in MinInt .. MaxInt, at \in 0 .. len] ==
        IF at = 0 \/ k = 0 THEN start
        ELSE [fill[Quot(k, 10), at - 1] EXCEPT ![at] = Digit0 + (IF c.n < 0 THEN -Rem(k, 10) ELSE Rem(k, 10))]
  IN  Alloc(c.fails, fill[c.n, len])

\* INT_MIN is a literal; every other number has an opposite.
Putnbr(c) ==
  LET digits[k \in 0 .. -MinInt] == (IF k > 9 THEN digits[k \div 10] ELSE <<>>) \o <<Digit0 + (k % 10)>>
  IN  [ret |-> IF c.n = MinInt THEN <<MinusSign>> \o digits[-MinInt]
               ELSE IF c.n < 0 THEN <<MinusSign>> \o digits[Wrap(-c.n)] ELSE digits[c.n]]

-----------------------------------------------------------------------------
(* Searches: the position found, or Null.                                      *)

FirstOf(S) == IF S = {} THEN Null ELSE Min(S)

\* A string ends with a zero, which can be looked for.
Terminated(s) == Append(s, NulByte)

Strchr(c) == [ret |-> FirstOf({i \in DOMAIN Terminated(c.s) : Terminated(c.s)[i] = c.byte})]

Strrchr(c) ==
  LET found == {i \in DOMAIN Terminated(c.s) : Terminated(c.s)[i] = c.byte}
  IN  [ret |-> IF found = {} THEN Null ELSE Max(found)]

Memchr(c) == [ret |-> FirstOf({i \in 1 .. c.n : c.s[i] = c.byte % 256})]

\* The difference at the first byte, of the first n, at which they differ or the
\* first string ends.
Strncmp(c) ==
  LET s == Terminated(c.s)
      t == Terminated(c.t)
      at == FirstOf({i \in 1 .. Min({c.n, Len(s), Len(t)}) : s[i] # t[i] \/ s[i] = NulByte})
  IN  [ret |-> IF at = Null THEN 0 ELSE s[at] - t[at]]

\* A needle of len bytes is the longest that may begin here.
Strnstr(c) ==
  LET k == Len(c.t)
      fits == {i \in DOMAIN c.s : c.n - (i - 1) >= k /\ IsPrefix(c.t, SubSeq(c.s, i, Len(c.s)))}
  IN  [ret |-> IF c.n = 0 \/ k = 0 THEN 1 ELSE FirstOf(fits)]

-----------------------------------------------------------------------------
Run(c) ==
  CASE c.f = "memcpy" -> Memcpy(c)    [] c.f = "memmove" -> Memmove(c)  [] c.f = "memset" -> Memset(c)
    [] c.f = "strlcpy" -> Strlcpy(c)  [] c.f = "strlcat" -> Strlcat(c)
    [] c.f = "calloc" -> Calloc(c)    [] c.f = "strdup" -> Strdup(c)    [] c.f = "substr" -> Substr(c)
    [] c.f = "strjoin" -> Strjoin(c)  [] c.f = "strtrim" -> Strtrim(c)  [] c.f = "strmapi" -> Strmapi(c)
    [] c.f = "split" -> Split(c)      [] c.f = "lstmap" -> Lstmap(c)
    [] c.f = "atoi" -> Atoi(c)        [] c.f = "itoa" -> Itoa(c)        [] c.f = "putnbr" -> Putnbr(c)
    [] c.f = "strchr" -> Strchr(c)    [] c.f = "strrchr" -> Strrchr(c)  [] c.f = "memchr" -> Memchr(c)
    [] c.f = "strncmp" -> Strncmp(c)  [] c.f = "strnstr" -> Strnstr(c)

Init == input \in Calls /\ outcome = Unread

Return ==
  /\ outcome = Unread
  /\ outcome' = Run(input)
  /\ UNCHANGED input

Next == Return

-----------------------------------------------------------------------------
(* What the comments of the functions promise, said another way.               *)

\* Memory is as before but for n bytes from d on, which are those.
Wrote(c, d, bytes) ==
  \A x \in DOMAIN c.mem : outcome.mem[x] = IF x - d + 1 \in DOMAIN bytes THEN bytes[x - d + 1] ELSE c.mem[x]

\* The string at address a, of at most n bytes.
StringAt(mem, a, n) == SubSeq(mem, a, a + Min({n, Strlen(mem, a)}) - 1)

\* The number a text writes, with or without a sign.
Says(text) ==
  LET sum == FoldLeft(LAMBDA r, x : IF IsDigit(x) THEN 10 * r + x - Digit0 ELSE r, 0, text)
  IN  IF MinusSign \in ToSet(text) THEN -sum ELSE sum

Numeral(s) == \E i \in 0 .. Len(s) : /\ \A k \in 1 .. i : IsSpace(s[k])
                                     /\ \A k \in i + 1 .. Len(s) : IsDigit(s[k]) \/ (k = i + 1 /\ ~IsSpace(s[k]))

MemoryAsPromised(c) ==
  CASE c.f \in {"memcpy", "memmove"} -> Wrote(c, c.d, SubSeq(c.mem, c.s, c.s + c.n - 1))
    [] c.f = "memset" -> Wrote(c, c.d, [i \in 1 .. c.n |-> c.byte % 256])
    [] c.f \in {"strlcpy", "strlcat"} ->
         LET old == IF c.f = "strlcpy" THEN <<>> ELSE StringAt(c.mem, c.d, c.n)
             whole == old \o StringAt(c.mem, c.s, Len(c.mem))
         IN  /\ c.n > 0 => outcome.ret = Len(whole)
             /\ IF Len(old) >= c.n THEN Wrote(c, c.d, <<>>)
                ELSE Wrote(c, c.d, Append(SubSeq(whole, 1, Min({c.n - 1, Len(whole)})), NulByte))

WordsAsPromised(c) ==
  LET words == outcome.ret
      starts == {b \in DOMAIN c.s : c.s[b] # c.sep /\ (b = 1 \/ c.s[b - 1] = c.sep)}
  IN  /\ Len(words) = Cardinality(starts)
      /\ FlattenSeq(words) = SelectSeq(c.s, LAMBDA x : x # c.sep)
      /\ \A i \in DOMAIN words : \E b \in starts :
           /\ words[i] = SubSeq(c.s, b, b + Len(words[i]) - 1)
           /\ Cardinality({b2 \in starts : b2 < b}) = i - 1

(* A call does what its comment says: moves are as through a copy, whatever    *)
(* overlaps; no byte is written behind size, and what a string would have been *)
(* is returned; words are the maximal runs between separators; numbers and     *)
(* their texts agree, the smallest int included; and an allocation that fails, *)
(* whichever it is, leaves no block behind.  (Not ft_lstmap, ft_lstmap.c:16,   *)
(* which loses the content it has just made, and without del all of them.)     *)
CallsAsPromised ==
  outcome # Unread =>
    LET c == input IN
    /\ "mem" \in DOMAIN c => MemoryAsPromised(c)
    /\ c.f = "split" /\ outcome.ret # Null => WordsAsPromised(c)
    /\ c.f = "strtrim" /\ outcome.ret # Null =>
         \E i, j \in 0 .. Len(c.s) :
           /\ c.s = SubSeq(c.s, 1, i) \o outcome.ret \o SubSeq(c.s, j + 1, Len(c.s))
           /\ ToSet(SubSeq(c.s, 1, i)) \union ToSet(SubSeq(c.s, j + 1, Len(c.s))) \subseteq ToSet(c.set)
           /\ outcome.ret # <<>> => {Head(outcome.ret), Last(outcome.ret)} \intersect ToSet(c.set) = {}
    /\ c.f \in {"itoa", "putnbr"} /\ outcome.ret # Null => Says(outcome.ret) = c.n
    /\ c.f = "atoi" /\ Numeral(c.s) /\ Says(c.s) \in MinInt .. MaxInt => outcome.ret = Says(c.s)
    /\ c.f = "strnstr" /\ c.n > 0 =>
         outcome.ret = FirstOf({i \in 1 .. Len(c.s) + 1 : IsPrefix(c.t, SubSeq(c.s, i, Min({c.n, Len(c.s)})))})
    /\ c.f = "strncmp" =>
         (outcome.ret = 0) = (SubSeq(c.s, 1, Min({c.n, Len(c.s)})) = SubSeq(c.t, 1, Min({c.n, Len(c.t)})))
    /\ "fails" \in DOMAIN c /\ c.f # "lstmap" => outcome.left = {}
=============================================================================
