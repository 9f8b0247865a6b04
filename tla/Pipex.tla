-------------------------------- MODULE Pipex --------------------------------
(* pipex: one pipeline between two files, or between a here-document and a     *)
(* file it appends to.  Its commands are those of Stages; the process that     *)
(* writes the here-document is Scribe, and its pipe is number 0.               *)
EXTENDS Stages

CONSTANTS Calls,        \* what pipex is called with
          FileSystem    \* the files there are

VARIABLES call,         \* the arguments, parsed
          document,     \* the lines of the here-document still to be typed
          at,           \* the command about to be started or waited for
          pc,           \* what pipex does
          code          \* exit_code

vars == <<call, document, at, pc, code, stageVars>>

Scribe == MaxStages + 1
Killed == 128 + 13

\* A call: the programs; the input file and the output file; or, if heredoc, the
\* document.  A program that is not found has no path and leaves with 127.
Call(programs, in, heredoc, lines, out) ==
  [programs |-> programs, in |-> in, heredoc |-> heredoc, lines |-> lines, out |-> out]

Init ==
  /\ call \in Calls
  /\ document = call.lines
  /\ at = 1 /\ pc = "begin" /\ code = 0
  /\ files = FileSystem /\ shown = <<>>
  /\ proc = [i \in Stages |-> Nothing]
  /\ pipe = [j \in Pipes \union {0} |-> <<>>]
  /\ ends = [p \in {Parent, Scribe} \union Stages |-> {}]

Count == Len(call.programs)
Between == 1 .. Count - 1
Documents == {<<0, "r">>, <<0, "w">>}

\* parse_commands and get_cmd_path: a command without words ends the program
\* before it has touched anything.
Refuse ==
  /\ pc = "begin" /\ \E i \in DOMAIN call.programs : call.programs[i] = <<>>
  /\ pc' = "over" /\ code' = 1
  /\ UNCHANGED <<call, document, at, stageVars>>

-----------------------------------------------------------------------------
(* execute_pipeline. *)

\* All the pipes, then the input: a file, or a process that takes the document.
OpenInput ==
  /\ pc = "begin" /\ \A i \in DOMAIN call.programs : call.programs[i] # <<>>
  /\ pc' = IF call.heredoc THEN "document" ELSE "output"
  /\ LET open == Between \X {"r", "w"}
     IN  IF call.heredoc
         THEN ends' = [ends EXCEPT ![Parent] = open \union {<<0, "r">>},
                                   ![Scribe] = open \union {<<0, "w">>}]
         ELSE ends' = [ends EXCEPT ![Parent] = open]
  /\ UNCHANGED <<call, document, at, code, proc, pipe, files, shown>>

\* The writer passes line after line on, up to the limiter or the end.
Type ==
  /\ pc = "document" /\ <<0, "w">> \in ends[Scribe]
  /\ document # <<>>
  /\ Len(pipe[0]) < PipeSize
  /\ pipe' = [pipe EXCEPT ![0] = Append(@, Head(document))]
  /\ document' = Tail(document)
  /\ UNCHANGED <<call, at, pc, code, proc, ends, files, shown>>

EndDocument ==
  /\ pc = "document" /\ document = <<>> /\ ends[Scribe] # {}
  /\ ends' = [ends EXCEPT ![Scribe] = {}]
  /\ UNCHANGED <<call, document, at, pc, code, proc, pipe, files, shown>>

\* waitpid for the writer, before anybody reads.
AwaitDocument ==
  /\ pc = "document" /\ ends[Scribe] = {}
  /\ pc' = "output"
  /\ UNCHANGED <<call, document, at, code, stageVars>>

\* Mutant: the output is emptied whatever the input is.
OpenEmptied ==
  /\ pc = "output"
  /\ files' = IF call.out = NoFile THEN files ELSE [files EXCEPT ![call.out.name] = <<>>]
  /\ pc' = "starting"
  /\ UNCHANGED <<call, document, at, code, proc, pipe, ends, shown>>

\* open_outfile: emptied, or appended to after a document; a file that cannot be
\* opened is -1 and noticed by the command that should have it.
OpenOutput ==
  /\ pc = "output"
  /\ files' = IF call.out = NoFile THEN files
              ELSE [files EXCEPT ![call.out.name] = IF @ = Absent \/ ~call.heredoc THEN <<>> ELSE @]
  /\ pc' = "starting"
  /\ UNCHANGED <<call, document, at, code, proc, pipe, ends, shown>>

\* What command i reads: the document's pipe is pipe 0.
InputOf(i) == IF i > 1 \/ call.heredoc THEN ThePipe ELSE call.in
OutputOf(i) == IF i < Count THEN ThePipe ELSE call.out
Unreadable(in) == 
  in.kind = "none" \/ (in.kind = "file" /\ files[in.name] = Absent)

\* After each fork the parent closes what the later commands do not need.
CloseEnds(open, i) ==
  open \ {<<i - 1, "r">>, <<i, "w">>}

\* The ends a child keeps; the input and the output of the pipeline are closed
\* by those that do not use them.
OwnEnds(i, open) == open \intersect {<<i - 1, "r">>, <<i, "w">>}

\* fork, and in the child what comes before execve: dup2 of -1 ends it.
Start ==
  /\ pc = "starting" /\ at <= Count
  /\ LET p == call.programs[at]
         broken == Unreadable(InputOf(at)) \/ OutputOf(at) = NoFile
         one == IF broken THEN Program(<<>>, 0, 1) ELSE p
     IN  Becomes(at, [state |-> "forked", text |-> one.text, copies |-> one.copies,
                      code |-> one.code, in |-> InputOf(at), out |-> OutputOf(at)])
  /\ ends' = [ends EXCEPT ![at] = ends[Parent], ![Parent] = CloseEnds(@, at)]
  /\ at' = at + 1
  /\ UNCHANGED <<call, document, pc, code, pipe, files, shown>>

SetUp(i) ==
  /\ proc[i].state = "forked"
  /\ Becomes(i, [proc[i] EXCEPT !.state = "runs"])
  /\ ends' = [ends EXCEPT ![i] = OwnEnds(i, @)]
  /\ UNCHANGED <<call, document, at, pc, code, pipe, files, shown>>

AllStarted ==
  /\ pc = "starting" /\ at > Count
  /\ at' = 1 /\ pc' = "waiting"
  /\ ends' = [ends EXCEPT ![Parent] = @ \ Documents]
  /\ UNCHANGED <<call, document, code, proc, pipe, files, shown>>

\* The last command's code is the program's.
Wait ==
  /\ pc = "waiting" /\ Over(at)
  /\ IF at < Count THEN at' = at + 1 /\ UNCHANGED <<pc, code>>
     ELSE /\ pc' = "over" /\ UNCHANGED at
          /\ code' = IF proc[at].state = "killed" THEN Killed ELSE proc[at].code
  /\ UNCHANGED <<call, document, stageVars>>

Main == Refuse \/ OpenInput \/ AwaitDocument \/ OpenOutput \/ Start \/ AllStarted \/ Wait
Typing == Type \/ EndDocument
Child(i) == SetUp(i) \/ (Work(i) /\ UNCHANGED <<call, document, at, pc, code>>)

Next == Main \/ Typing \/ \E i \in Stages : Child(i)

Spec == Init /\ [][Next]_vars /\ WF_vars(Main) /\ WF_vars(Typing)
             /\ \A i \in Stages : WF_vars(Child(i))

-----------------------------------------------------------------------------
\* What ./pipex in c1 .. cn out is to leave in its output file.
Content(name) == IF FileSystem[name] = Absent THEN <<>> ELSE FileSystem[name]
InputText == IF call.heredoc THEN call.lines ELSE Content(call.in.name)
Flow ==
  LET flow[i \in 0 .. Count] ==
        IF i = 0 THEN InputText ELSE Output(call.programs[i], flow[i - 1])
  IN  flow
Result == Flow[Count]

(* "< file1 cmd1 | cmd2 > file2" (README.md:3) and its here-document           *)
(* (README.md:24-29): when pipex is over the output file holds what the shell's *)
(* pipeline would have left there, and the code is the last command's, as long *)
(* as the files are different and can be opened.                               *)
LikeTheShell ==
  pc = "over" /\ call.out # NoFile /\ (\A i \in DOMAIN call.programs : call.programs[i] # <<>>)
  /\ (call.heredoc \/ (call.in # call.out /\ ~Unreadable(call.in))) =>
    /\ files[call.out.name] = (IF call.heredoc THEN Content(call.out.name) ELSE <<>>) \o Result
    /\ code = call.programs[Count].code

(* pipex comes to its end: no command waits for the end of an input that       *)
(* another process keeps open.  Not with a document that is longer than a pipe *)
(* has room for, whose writer waits for readers that are started after it.     *)
Ends == (call.heredoc /\ Len(call.lines) > PipeSize) \/ <>(pc = "over")
=============================================================================
