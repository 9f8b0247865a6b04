----------------------------- MODULE ShellFrontend -----------------------------
(* minishell's way from a line to commands: tokenizer, parser and expander.    *)
(* A line is a sequence of characters; "a" and "b" stand for the letters, "_"  *)
(* and digits, Blank for any run-making whitespace.  The result of a line is   *)
(* the commands it asks for, an error that the shell reports, or the end of    *)
(* the shell by a null pointer.                                                *)
EXTENDS Integers, Sequences, SequencesExt

CONSTANTS Lines, Environment

VARIABLES input, outcome

vars == <<input, outcome>>

Blank == " "
SQuote == "'"
DQuote == "dq"
Letters == {"a", "b"}
Special == {"|", "<", ">", DQuote, SQuote, "$"}

Tok(type, value) == [type |-> type, value |-> value]
Redirections == {"REDIR_IN", "REDIR_OUT", "REDIR_APPEND", "HEREDOC"}

\* The first position from i on whose character is not in S.
Past(s, i, S) == CHOOSE k \in i .. Len(s) + 1 : /\ \A j \in i .. k - 1 : s[j] \in S
                                                /\ k > Len(s) \/ s[k] \notin S

At(s, i) == IF i <= Len(s) THEN s[i] ELSE "end"

-----------------------------------------------------------------------------
(* The tokenizer: the token at i, where the next one begins, and whether that  *)
(* one is between double quotes.                                               *)

Lexed(token, next, dquote) == [token |-> token, next |-> next, dquote |-> dquote]

LexSpace(s, i, dq) == Lexed(Tok("SPACE", <<Blank>>), Past(s, i, {Blank}), dq)

LexOperator(s, i, dq) ==
  LET two == At(s, i + 1) = s[i] /\ s[i] # "|"
      type == CASE s[i] = "|" -> "PIPE"
                [] s[i] = ">" -> IF two THEN "REDIR_APPEND" ELSE "REDIR_OUT"
                [] s[i] = "<" -> IF two THEN "HEREDOC" ELSE "REDIR_IN"
      last == IF two THEN i + 1 ELSE i
  IN  Lexed(Tok(type, SubSeq(s, i, last)), last + 1, dq)

LexSingleQuote(s, i, dq) ==
  IF dq THEN Lexed(Tok("WORD", <<SQuote>>), i + 1, dq)
  ELSE LET close == Past(s, i + 1, (Letters \union Special \union {Blank, "?"}) \ {SQuote})
       IN  IF close > Len(s) THEN Lexed(Tok("ERROR", <<>>), close, dq)
           ELSE Lexed(Tok("WORD", SubSeq(s, i + 1, close - 1)), close + 1, dq)

LexVariable(s, i, dq) ==
  IF At(s, i + 1) = "?" THEN Lexed(Tok("VARIABLE", <<"?">>), i + 2, dq)
  ELSE LET end == Past(s, i + 1, Letters)
       IN  IF end = i + 1 THEN Lexed(Tok("WORD", <<"$">>), i + 1, dq)
           ELSE Lexed(Tok("VARIABLE", SubSeq(s, i + 1, end - 1)), end, dq)

LexWord(s, i, dq) ==
  LET end == Past(s, i, Letters \union {"?"})
  IN  Lexed(Tok("WORD", SubSeq(s, i, end - 1)), end, dq)

LexAt(s, i, dq) ==
  CASE s[i] = Blank -> LexSpace(s, i, dq)
    [] s[i] \in {"|", "<", ">"} -> LexOperator(s, i, dq)
    [] s[i] = SQuote -> LexSingleQuote(s, i, dq)
    [] s[i] = DQuote -> Lexed(Tok("DQUOTE", <<DQuote>>), i + 1, ~dq)
    [] s[i] = "$" -> LexVariable(s, i, dq)
    [] OTHER -> LexWord(s, i, dq)

RECURSIVE TokensFrom(_, _, _)
TokensFrom(s, i, dq) ==
  IF i > Len(s) THEN <<Tok("EOF", <<"end">>)>>
  ELSE LET one == LexAt(s, i, dq)
       IN  IF one.token.type = "ERROR" THEN <<one.token>>
           ELSE <<one.token>> \o TokensFrom(s, one.next, one.dquote)

Tokenize(s) == TokensFrom(s, 1, FALSE)

-----------------------------------------------------------------------------
(* The parser.  Each operator yields what it has read, the position after it   *)
(* and whether it went wrong.                                                  *)

Fine == "fine"
Seg(type, value) == [type |-> type, value |-> value]
Parsed(value, next, status) == [value |-> value, next |-> next, status |-> status]

PastSpaces(t, i) == CHOOSE k \in i .. Len(t) + 1 : /\ \A j \in i .. k - 1 : t[j].type = "SPACE"
                                                   /\ k > Len(t) \/ t[k].type # "SPACE"

\* The segments between double quotes; the end of the line closes nothing.
DoubleQuoted(t, i) ==
  LET closes == {k \in i + 1 .. Len(t) : t[k].type = "DQUOTE"}
      close == CHOOSE k \in closes : \A j \in closes : k <= j
      inside == [j \in 1 .. close - i - 1 |->
                   Seg(IF t[i + j].type = "VARIABLE" THEN "VAR" ELSE "LITERAL", t[i + j].value)]
  IN  IF closes = {} THEN Parsed(<<>>, Len(t) + 1, "error")
      ELSE Parsed(IF inside = <<>> THEN <<Seg("LITERAL", <<>>)>> ELSE inside, close + 1, Fine)

\* One argument: words, variables and quoted text with nothing between them.
RECURSIVE OneArgument(_, _)
OneArgument(t, i) ==
  IF i > Len(t) \/ t[i].type \in {"SPACE", "PIPE", "EOF"} \union Redirections
  THEN Parsed(<<>>, i, Fine)
  ELSE LET first == CASE t[i].type = "WORD" -> Parsed(<<Seg("LITERAL", t[i].value)>>, i + 1, Fine)
                      [] t[i].type = "VARIABLE" -> Parsed(<<Seg("VAR", t[i].value)>>, i + 1, Fine)
                      [] t[i].type = "DQUOTE" -> DoubleQuoted(t, i)
           rest == OneArgument(t, first.next)
       IN  IF first.status # Fine THEN first
           ELSE Parsed(first.value \o rest.value, rest.next, rest.status)

\* A redirection wants a word after it.  Without one the code reports the error
\* and hands the null pointer on to handle_redir.
Redirect(t, i) ==
  LET name == PastSpaces(t, i + 1)
  IN  IF t[name].type # "WORD" THEN Parsed(<<>>, name, "crash")
      ELSE Parsed([type |-> t[i].type, file |-> t[name].value], name + 1, Fine)

Command(args, ins, outs) == [args |-> args, in |-> ins, out |-> outs]
EmptyCommand == Command(<<>>, <<>>, <<>>)

\* handle_redir: the latest redirection stands first.
WithRedirect(cmd, r) ==
  IF r.type \in {"REDIR_IN", "HEREDOC"} THEN [cmd EXCEPT !.in = <<r>> \o @]
  ELSE [cmd EXCEPT !.out = <<r>> \o @]

RECURSIVE Arguments(_, _, _)
Arguments(t, i, cmd) ==
  IF i > Len(t) \/ t[i].type \in {"PIPE", "EOF"} THEN Parsed(cmd, i, Fine)
  ELSE IF t[i].type = "SPACE" THEN Arguments(t, i + 1, cmd)
  ELSE IF t[i].type \in Redirections
       THEN LET r == Redirect(t, i)
            IN  IF r.status # Fine THEN r ELSE Arguments(t, r.next, WithRedirect(cmd, r.value))
       ELSE LET one == OneArgument(t, i)
            IN  IF one.status # Fine THEN one
                ELSE Arguments(t, one.next, [cmd EXCEPT !.args = Append(@, one.value)])

RECURSIVE CommandsFrom(_, _)
CommandsFrom(t, i) ==
  IF i > Len(t) \/ t[i].type = "EOF" THEN Parsed(<<>>, i, Fine)
  ELSE LET one == Arguments(t, i, EmptyCommand)
           rest == CommandsFrom(t, IF t[one.next].type = "PIPE" THEN PastSpaces(t, one.next + 1)
                                   ELSE one.next)
       IN  IF one.status # Fine THEN one
           ELSE Parsed(<<one.value>> \o rest.value, rest.next, rest.status)

Parse(t) == CommandsFrom(t, PastSpaces(t, 1))

-----------------------------------------------------------------------------
(* The expander joins the segments of an argument. *)

ValueOf(name) == IF name \in DOMAIN Environment THEN Environment[name] ELSE <<>>

\* Mutant: literals are looked up as well.
ExpandEverything(segments) == FlattenSeq([k \in DOMAIN segments |-> ValueOf(segments[k].value)])

ExpandArgument(segments) ==
  FlattenSeq([k \in DOMAIN segments |->
                IF segments[k].type = "VAR" THEN ValueOf(segments[k].value) ELSE segments[k].value])

ExpandCommands(cmds) ==
  [c \in DOMAIN cmds |->
     [argv |-> [k \in DOMAIN cmds[c].args |-> ExpandArgument(cmds[c].args[k])],
      in |-> cmds[c].in, out |-> cmds[c].out]]

-----------------------------------------------------------------------------
(* One line through minishell_loop, up to the executor, which compares the     *)
(* name of each command and so needs every command to have one.                *)

Result(kind, cmds) == [kind |-> kind, cmds |-> cmds]

Understand(s) ==
  LET tokens == Tokenize(s)
      parsed == Parse(tokens)
      cmds == ExpandCommands(parsed.value)
  IN  IF Last(tokens).type = "ERROR" THEN Result("error", <<>>)
      ELSE IF parsed.status # Fine THEN Result(parsed.status, <<>>)
      ELSE IF cmds = <<>> THEN Result("error", <<>>)
      ELSE IF \E c \in DOMAIN cmds : cmds[c].argv = <<>> THEN Result("crash", <<>>)
      ELSE Result("commands", cmds)

NotYet == Result("unread", <<>>)

Init == input \in Lines /\ outcome = NotYet

ReadLine ==
  /\ outcome = NotYet
  /\ outcome' = IF input = <<>> THEN Result("commands", <<>>) ELSE Understand(input)
  /\ UNCHANGED input

Next == ReadLine
-----------------------------------------------------------------------------
(* What a shell makes of a line, character by character: the reference.  A     *)
(* word is <<>> until it has begun, and <<text>> from then on.                 *)

Reading == [mode |-> "plain", word |-> <<>>, target |-> "none", cmd |-> [argv |-> <<>>, in |-> <<>>, out |-> <<>>],
            cmds |-> <<>>, bad |-> FALSE]

Grow(r, text) == [r EXCEPT !.word = <<(IF @ = <<>> THEN <<>> ELSE @[1]) \o text>>]

\* The end of a word, if there is one: an argument or the name of a file.
Flush(r) ==
  IF r.word = <<>> THEN r
  ELSE IF r.target = "none"
       THEN [r EXCEPT !.cmd.argv = Append(@, r.word[1]), !.word = <<>>]
       ELSE [r EXCEPT !.cmd = WithRedirect(@, [type |-> r.target, file |-> r.word[1]]),
                      !.word = <<>>, !.target = "none"]

\* The end of a command; a redirection without a name is an error.
FlushCommand(r) ==
  LET f == Flush(r)
  IN  [f EXCEPT !.cmds = Append(@, f.cmd), !.cmd = Reading.cmd,
                !.bad = @ \/ f.target # "none", !.target = "none"]

RECURSIVE ReadFrom(_, _, _)
ReadFrom(s, i, r) ==
  IF i > Len(s) THEN FlushCommand(r)
  ELSE LET c == s[i]
           other == IF c = SQuote THEN "single" ELSE "double"
           name == Past(s, i + 1, Letters)
       IN  CASE r.mode # "plain" /\ c = (IF r.mode = "single" THEN SQuote ELSE DQuote) ->
                  ReadFrom(s, i + 1, [r EXCEPT !.mode = "plain"])
             [] c = "$" /\ r.mode # "single" /\ At(s, i + 1) = "?" ->
                  ReadFrom(s, i + 2, Grow(r, ValueOf(<<"?">>)))
             [] c = "$" /\ r.mode # "single" /\ name > i + 1 ->
                  ReadFrom(s, name, Grow(r, ValueOf(SubSeq(s, i + 1, name - 1))))
             [] r.mode # "plain" -> ReadFrom(s, i + 1, Grow(r, <<c>>))
             [] c \in {SQuote, DQuote} -> ReadFrom(s, i + 1, [Grow(r, <<>>) EXCEPT !.mode = other])
             [] c = Blank -> ReadFrom(s, i + 1, Flush(r))
             [] c = "|" -> ReadFrom(s, i + 1, FlushCommand(r))
             [] c \in {"<", ">"} ->
                  LET f == Flush(r)
                      op == LexOperator(s, i, FALSE)
                  IN  ReadFrom(s, op.next, [f EXCEPT !.bad = @ \/ f.target # "none",
                                                     !.target = op.token.type])
             [] OTHER -> ReadFrom(s, i + 1, Grow(r, <<c>>))

Reference(s) == ReadFrom(s, 1, Reading)

\* What the code does not do as a shell does, and what the comparison leaves out:
\* runs of blanks between double quotes are one blank; the name of a file is one
\* word, neither quoted nor expanded.
Comparable(s) ==
  /\ ~\E i, j \in DOMAIN s : i < j /\ s[i] \in {"<", ">"} /\ s[j] \in {SQuote, DQuote, "$"}
  /\ \A i \in 1 .. Len(s) - 1 : s[i] = Blank /\ s[i + 1] = Blank
                                 => ReadFrom(SubSeq(s, 1, i), 1, Reading).mode # "double"

Spaces(s) == \A i \in DOMAIN s : s[i] = Blank

\* The commands of a line are those of the reference.  The shell ends instead,
\* by a null pointer, where a redirection lacks its file (parser.c:89) or a
\* command its name (builtins.c:32), unless it is the last one after a pipe.
\* Unclosed quotes are reported.
LineIsUnderstood ==
  outcome # NotYet /\ Comparable(input) =>
    LET r == Reference(input)
        last == Last(r.cmds)
        cmds == IF last = Reading.cmd THEN Front(r.cmds) ELSE r.cmds
    IN  outcome =
          IF input = <<>> THEN Result("commands", <<>>)
          ELSE IF r.mode = "single" THEN Result("error", <<>>)
          ELSE IF r.bad THEN Result("crash", <<>>)
          ELSE IF r.mode = "double" \/ Spaces(input) THEN Result("error", <<>>)
          ELSE IF \E c \in DOMAIN cmds : cmds[c].argv = <<>> THEN Result("crash", <<>>)
          ELSE Result("commands", cmds)
===============================================================================
