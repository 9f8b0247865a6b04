------------------------------- MODULE Stages -------------------------------
(* What minishell and pipex start and what carries their bytes: the programs   *)
(* of a pipeline and the kernel's pipes and files.  Process 0 is the parent,   *)
(* process i the i-th command; pipe i leads from command i to command i + 1.   *)
(* A program writes its text, then copies what it reads: items are the least   *)
(* amount that can be written.                                                 *)
EXTENDS Integers, Sequences, FiniteSets

CONSTANTS PipeSize,     \* the items a pipe has room for
          MaxStages     \* a bound of the model: commands in a pipeline

VARIABLES proc,         \* the commands
          pipe,         \* what each pipe holds
          ends,         \* the ends of pipes that each process has open
          files,        \* what each file holds, Absent if there is none
          shown         \* what has been written to the terminal

stageVars == <<proc, pipe, ends, files, shown>>

Stages == 1 .. MaxStages
Pipes  == 1 .. MaxStages - 1
Parent == 0
Absent == <<"absent">>

\* What a program does: text is written first, then it copies `copies' items of
\* its input, and leaves with `code'.
Program(text, copies, code) == [text |-> text, copies |-> copies, code |-> code]

Tty == [kind |-> "tty"]
ThePipe == [kind |-> "pipe"]
File(name) == [kind |-> "file", name |-> name, pos |-> 0]
NoFile == [kind |-> "none"]

Nothing == [state |-> "none"]

NoPipeline == /\ proc = [i \in Stages |-> Nothing]
              /\ pipe = [j \in Pipes |-> <<>>]
              /\ ends = [p \in {Parent} \union Stages |-> {}]

Writers(j) == {p \in DOMAIN ends : <<j, "w">> \in ends[p]}
Readers(j) == {p \in DOMAIN ends : <<j, "r">> \in ends[p]}

Becomes(i, change) == proc' = [proc EXCEPT ![i] = change]

\* A process that ends has all its descriptors closed.
Leave(i, how) == /\ Becomes(i, [proc[i] EXCEPT !.state = how])
                 /\ ends' = [ends EXCEPT ![i] = {}]

-----------------------------------------------------------------------------
(* A program at work. *)

Writing(i) == proc[i].state = "runs" /\ proc[i].text # <<>>
Reading(i) == proc[i].state = "runs" /\ proc[i].text = <<>> /\ proc[i].copies > 0

Written(i) == [proc EXCEPT ![i].text = Tail(@)]
Copied(i, item) == [proc[i] EXCEPT !.text = <<item>>, !.copies = @ - 1]

\* A write to a pipe nobody reads from kills.
WriteToPipe(i) ==
  /\ Writing(i) /\ proc[i].out = ThePipe
  /\ IF Readers(i) = {} THEN Leave(i, "killed") /\ UNCHANGED pipe
     ELSE /\ Len(pipe[i]) < PipeSize
          /\ pipe' = [pipe EXCEPT ![i] = Append(@, Head(proc[i].text))]
          /\ proc' = Written(i) /\ UNCHANGED ends
  /\ UNCHANGED <<files, shown>>

WriteToFile(i) ==
  /\ Writing(i) /\ proc[i].out.kind \in {"file", "tty"}
  /\ proc' = Written(i)
  /\ IF proc[i].out = Tty THEN shown' = Append(shown, Head(proc[i].text)) /\ UNCHANGED files
     ELSE /\ files' = [files EXCEPT ![proc[i].out.name] = Append(@, Head(proc[i].text))]
          /\ UNCHANGED shown
  /\ UNCHANGED <<pipe, ends>>

ReadFromPipe(i) ==
  /\ Reading(i) /\ proc[i].in = ThePipe /\ pipe[i - 1] # <<>>
  /\ Becomes(i, Copied(i, Head(pipe[i - 1])))
  /\ pipe' = [pipe EXCEPT ![i - 1] = Tail(@)]
  /\ UNCHANGED <<ends, files, shown>>

ReadFromFile(i) ==
  /\ Reading(i) /\ proc[i].in.kind = "file"
  /\ LET content == files[proc[i].in.name] pos == proc[i].in.pos + 1
     IN  /\ pos <= Len(content)
         /\ Becomes(i, [Copied(i, content[pos]) EXCEPT !.in.pos = pos])
  /\ UNCHANGED <<pipe, ends, files, shown>>

\* The end of the input: of a pipe, when nobody has its other end.
AtEnd(i) ==
  CASE proc[i].in = ThePipe -> pipe[i - 1] = <<>> /\ Writers(i - 1) = {}
    [] proc[i].in.kind = "file" -> proc[i].in.pos >= Len(files[proc[i].in.name])
    [] OTHER -> TRUE

Finish(i) ==
  /\ proc[i].state = "runs" /\ proc[i].text = <<>>
  /\ proc[i].copies = 0 \/ AtEnd(i)
  /\ Leave(i, "ended")
  /\ UNCHANGED <<pipe, files, shown>>

Work(i) == \/ WriteToPipe(i) \/ WriteToFile(i)
           \/ ReadFromPipe(i) \/ ReadFromFile(i) \/ Finish(i)

Over(i) == proc[i].state \in {"ended", "killed"}

-----------------------------------------------------------------------------
(* What a pipeline means: each command's output is a function of its input,    *)
(* which is the output of the one before unless it is redirected.              *)

Output(program, input) ==
  program.text \o SubSeq(input, 1, IF program.copies < Len(input) THEN program.copies ELSE Len(input))
=============================================================================
