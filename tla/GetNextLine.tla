----------------------------- MODULE GetNextLine -----------------------------
(* get_next_line keeps one buffer between its calls.  Cell i of the code's     *)
(* buffer is buffer[i + 1] here; a C string ends at its first Nul.             *)
EXTENDS Integers, Sequences, SequencesExt

\* ShortReads: whether read may return less than it could, as it does on
\* terminals, pipes and sockets.
CONSTANTS BufferSize, Streams, Newline, Nul, ShortReads

\* File: what the descriptor had to offer, stream: what of it is left to read;
\* line: what this call has joined, lines: what earlier calls have returned.
VARIABLES file, stream, buffer, seek, eof, calling, line, lines

vars == <<file, stream, buffer, seek, eof, calling, line, lines>>

Init ==
  /\ file \in Streams
  /\ stream = file
  /\ buffer = [i \in 1 .. BufferSize + 1 |-> Nul]
  /\ seek = 0
  /\ eof = FALSE
  /\ calling = FALSE
  /\ line = <<>>
  /\ lines = <<>>

-----------------------------------------------------------------------------

\* ft_strnchr: the cells are searched whether or not the string has ended;
\* -1 if there is none among the n cells after seek.
Index(cells, from, n) ==
  LET found == {i \in 0 .. n - 1 : cells[from + i + 1] = Newline}
  IN  IF found = {} THEN -1 ELSE CHOOSE i \in found : \A j \in found : i <= j

StrLen(cells, from) ==
  CHOOSE n \in 0 .. BufferSize : /\ cells[from + n + 1] = Nul
                                 /\ \A i \in 1 .. n : cells[from + i] # Nul

\* What a reader of a C string sees of it.
CString(s) == SelectInSeq(s, LAMBDA c : c = Nul)
Seen(s) == IF CString(s) = 0 THEN s ELSE SubSeq(s, 1, CString(s) - 1)

MustRead == seek >= BufferSize \/ buffer[seek + 1] = Nul

\* The number of bytes a read may return.
ReadSizes ==
  LET most == IF Len(stream) < BufferSize THEN Len(stream) ELSE BufferSize
  IN  IF ShortReads /\ most > 0 THEN 1 .. most ELSE {most}

\* Mutant: the old end of the string stays where it was.
FilledUnended(n) == [i \in 1 .. BufferSize + 1 |-> IF i <= n THEN stream[i] ELSE buffer[i]]

\* The buffer after a read of n bytes: those behind them are the old ones.
Filled(n) == [i \in 1 .. BufferSize + 1 |-> IF i <= n THEN stream[i]
                                            ELSE IF i = n + 1 THEN Nul ELSE buffer[i]]

Call ==
  /\ ~calling
  /\ ~eof
  /\ calling' = TRUE
  /\ line' = <<>>
  /\ UNCHANGED <<file, stream, buffer, seek, eof, lines>>

\* The line, if there is one: without bytes it is a null pointer.
Return(joined) ==
  /\ calling' = FALSE
  /\ lines' = IF joined = <<>> THEN lines ELSE Append(lines, Seen(joined))

EndOfFile ==
  /\ calling
  /\ MustRead
  /\ stream = <<>>
  /\ eof' = TRUE
  /\ Return(line)
  /\ UNCHANGED <<file, stream, buffer, seek, line>>

\* One round of the loop on these cells from this position on.
Join(cells, from) ==
  LET index == Index(cells, from, BufferSize - from)
      chunk == IF index = -1 THEN StrLen(cells, from) ELSE index + 1
      joined == line \o SubSeq(cells, from + 1, from + chunk)
  IN  /\ seek' = from + chunk
      /\ line' = joined
      /\ IF index # -1 THEN Return(joined) ELSE UNCHANGED <<calling, lines>>

Refill ==
  /\ calling
  /\ MustRead
  /\ stream # <<>>
  /\ \E n \in ReadSizes :
       /\ stream' = SubSeq(stream, n + 1, Len(stream))
       /\ buffer' = Filled(n)
       /\ Join(Filled(n), 0)
  /\ UNCHANGED <<file, eof>>

Continue ==
  /\ calling
  /\ ~MustRead
  /\ Join(buffer, seek)
  /\ UNCHANGED <<file, stream, buffer, eof>>

Next == Call \/ EndOfFile \/ Refill \/ Continue

Spec == Init /\ [][Next]_vars

-----------------------------------------------------------------------------

\* The lines of a text, each with its newline but perhaps the last.
LinesOf(text) ==
  LET ends == {i \in 1 .. Len(text) : text[i] = Newline \/ i = Len(text)}
      Begin(e) == LET before == {d \in ends : d < e}
                  IN  IF before = {} THEN 1 ELSE 1 + CHOOSE d \in before : \A c \in before : c <= d
      sorted == SetToSortSeq(ends, LAMBDA x, y : x < y)
  IN  [k \in DOMAIN sorted |-> SubSeq(text, Begin(sorted[k]), sorted[k])]

\* Between two calls the lines returned are the first lines of the file, and at
\* the end they are all of them.  Holds where every read fills the buffer and
\* the file ends in a newline: the search for a newline runs past the end of
\* what a shorter read has left (get_next_line_utils.c:20).
LinesAreLines ==
  ~calling => /\ IsPrefix(lines, LinesOf(file))
              /\ eof => lines = LinesOf(file)
===============================================================================
