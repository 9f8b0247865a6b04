------------------------------ MODULE Executor ------------------------------
(* minishell's loop and its executor: the lines of a script one after another, *)
(* each a pipeline of commands with redirections, builtins among them.  Lines  *)
(* come as the front end hands them over (ShellFrontend).                      *)
EXTENDS Stages

CONSTANTS Scripts,      \* the scripts; a line is a pipeline, Exit or BadLine
          FileSystem,   \* the files there are when the shell starts
          OpenMax,      \* the descriptors the shell may have open beside its first three
          Exit, BadLine

VARIABLES script,       \* the lines still to be read
          line,         \* the commands of the line at work
          at,           \* the command the shell is about to start or to wait for
          pc,           \* what the shell does
          status,       \* status: what $? is replaced by
          settings,     \* how often a builtin has changed the shell itself
          leaked,       \* descriptors of redirections, which nothing ever closes
          before        \* the files and the terminal when the line was begun

vars == <<script, line, at, pc, status, settings, leaked, before, stageVars>>
shell == <<script, line, before>>

\* A command: its program, NoWords if there is none; its latest redirections;
\* whether it is a builtin, and one that changes the shell.
Command(program, in, out, append, builtin) ==
  [program |-> program, in |-> in, out |-> out, append |-> append, builtin |-> builtin]
NoWords == Program(<<"no words">>, 0, 0)

Init ==
  /\ script \in Scripts
  /\ line = <<>> /\ at = 1 /\ pc = "prompt"
  /\ status = 0 /\ settings = 0 /\ leaked = 0
  /\ files = FileSystem /\ shown = <<>>
  /\ before = [files |-> FileSystem, shown |-> <<>>]
  /\ NoPipeline

PipesOf(cmds) == 1 .. Len(cmds) - 1
AllEnds(cmds) == PipesOf(cmds) \X {"r", "w"}

-----------------------------------------------------------------------------
(* The loop. *)

\* exit, and the end of the input, end the loop with the last status.
EndOfInput ==
  /\ pc = "prompt"
  /\ script # <<>> => Head(script) = Exit
  /\ pc' = "left"
  /\ UNCHANGED <<shell, at, status, settings, leaked, stageVars>>

SkipLine ==
  /\ pc = "prompt" /\ script # <<>> /\ Head(script) = BadLine
  /\ script' = Tail(script)
  /\ UNCHANGED <<line, before, at, pc, status, settings, leaked, stageVars>>

\* perror_exit: the shell itself ends, whatever it has started.
Die(how) ==
  /\ pc' = how /\ ends' = [ends EXCEPT ![Parent] = {}]
  /\ UNCHANGED <<at, status, settings, leaked, proc, pipe, shown>>

\* alloc_pipes: all the pipes of the line before anything else.
ReadLine ==
  /\ pc = "prompt" /\ script # <<>> /\ Head(script) \notin {Exit, BadLine}
  /\ LET cmds == Head(script)
     IN  /\ script' = Tail(script) /\ line' = cmds
         /\ before' = [files |-> files, shown |-> shown]
         /\ UNCHANGED files
         /\ IF leaked + 2 * (Len(cmds) - 1) > OpenMax THEN Die("failed")
            ELSE /\ pc' = "starting" /\ at' = 1
                 /\ proc' = [i \in Stages |-> Nothing] /\ pipe' = [j \in Pipes |-> <<>>]
                 /\ ends' = [ends EXCEPT ![Parent] = AllEnds(cmds)]
                 /\ UNCHANGED <<status, settings, leaked, shown>>

-----------------------------------------------------------------------------
(* execute_cmd_chain. *)

cmd == line[at]

Redirected(c) == {c.in, c.out} # {NoFile}

\* get_in_fd and get_out_fd open in the parent, the input first, and a file that
\* cannot be opened ends the shell: there is no file, or no descriptor.
InFails(c) == c.in # NoFile /\ (files[c.in.name] = Absent \/ leaked + 2 * (Len(line) - 1) >= OpenMax)
Opens(c) == Cardinality({e \in {"in", "out"} : c[e] # NoFile})
OutFails(c) == c.out # NoFile /\ leaked + 2 * (Len(line) - 1) + Opens(c) > OpenMax

OpenFails ==
  /\ pc = "starting" /\ at <= Len(line)
  /\ InFails(cmd) \/ OutFails(cmd)
  /\ UNCHANGED <<shell, files>>
  /\ Die("failed")

Opened(c) ==
  IF c.out = NoFile THEN files
  ELSE [files EXCEPT ![c.out.name] = IF @ = Absent \/ ~c.append THEN <<>> ELSE @]

Ready == pc = "starting" /\ at <= Len(line) /\ ~InFails(cmd) /\ ~OutFails(cmd)

\* is_builtin compares a name that is not there, when the files are open already.
Crash ==
  /\ Ready /\ cmd.program = NoWords
  /\ files' = Opened(cmd)
  /\ UNCHANGED shell
  /\ Die("crashed")

Alone(c) == Len(line) = 1 /\ ~Redirected(c)

\* A builtin that stands alone runs in the shell.
RunHere ==
  /\ Ready /\ cmd.program # NoWords /\ cmd.builtin /\ Alone(cmd)
  /\ shown' = shown \o cmd.program.text
  /\ status' = cmd.program.code /\ settings' = settings + 1
  /\ pc' = "prompt"
  /\ UNCHANGED <<shell, at, leaked, proc, pipe, ends, files>>

\* fork: the child has everything open that the shell has.
Fork ==
  /\ Ready /\ cmd.program # NoWords /\ ~(cmd.builtin /\ Alone(cmd))
  /\ Becomes(at, [state |-> "forked", text |-> cmd.program.text, copies |-> cmd.program.copies,
                  code |-> cmd.program.code,
                  in |-> IF cmd.in # NoFile THEN cmd.in ELSE IF at > 1 THEN ThePipe ELSE Tty,
                  out |-> IF cmd.out # NoFile THEN cmd.out ELSE IF at < Len(line) THEN ThePipe ELSE Tty])
  /\ ends' = [ends EXCEPT ![at] = ends[Parent]]
  /\ files' = Opened(cmd)
  /\ leaked' = leaked + Opens(cmd)
  /\ at' = at + 1
  /\ UNCHANGED <<shell, pc, status, settings, pipe, shown>>

\* Mutant: the ends that other commands need are left open.
KeepNeighbours(i, open) == {e \in open : e[1] \in {i - 1, i}}

\* close_unused_pipes, close_all_fds_except and setup_stdio: what is left is what
\* the command reads from and what it writes to.
KeepOwn(i, open) ==
  {e \in open : \/ e = <<i - 1, "r">> /\ proc[i].in = ThePipe
                \/ e = <<i, "w">> /\ proc[i].out = ThePipe}

SetUp(i) ==
  /\ proc[i].state = "forked"
  /\ Becomes(i, [proc[i] EXCEPT !.state = "runs"])
  /\ ends' = [ends EXCEPT ![i] = KeepOwn(i, @)]
  /\ UNCHANGED <<shell, at, pc, status, settings, leaked, pipe, files, shown>>

\* All are started: close the pipes.
ClosePipes ==
  /\ pc = "starting" /\ at > Len(line)
  /\ ends' = [ends EXCEPT ![Parent] = {}]
  /\ at' = 1 /\ pc' = "waiting" /\ status' = 0
  /\ UNCHANGED <<shell, settings, leaked, proc, pipe, files, shown>>

\* Mutant: the last command is waited for and the others are not.
WaitForTheLast ==
  /\ pc = "waiting" /\ Over(Len(line))
  /\ status' = 0 /\ pc' = "prompt"
  /\ UNCHANGED <<shell, at, settings, leaked, stageVars>>

\* wait_and_get_status; a command that was killed is all that is remembered.
Wait ==
  /\ pc = "waiting" /\ at <= Len(line) /\ Over(at)
  /\ status' = IF proc[at].state = "killed" THEN -1 ELSE status
  /\ at' = at + 1
  /\ pc' = IF at = Len(line) THEN "prompt" ELSE pc
  /\ UNCHANGED <<shell, settings, leaked, stageVars>>

Shell == \/ EndOfInput \/ SkipLine \/ ReadLine
         \/ OpenFails \/ Crash \/ RunHere \/ Fork \/ ClosePipes \/ Wait

Child(i) == SetUp(i) \/ (Work(i) /\ UNCHANGED <<shell, at, pc, status, settings, leaked>>)

Next == Shell \/ \E i \in Stages : Child(i)

Spec == Init /\ [][Next]_vars /\ WF_vars(Shell) /\ \A i \in Stages : WF_vars(Child(i))

-----------------------------------------------------------------------------
\* What the files and the terminal hold after a line, from what they held before.
Run1(state, c) ==
  LET input == IF c.in # NoFile THEN state.files[c.in.name] ELSE state.flow
      output == Output(c.program, input)
  IN  IF c.out = NoFile THEN [state EXCEPT !.flow = output]
      ELSE [state EXCEPT !.flow = <<>>,
                         !.files[c.out.name] = IF @ = Absent \/ ~c.append THEN output ELSE @ \o output]

After(cmds, from) ==
  LET after[i \in 0 .. Len(cmds)] ==
        IF i = 0 THEN [files |-> from.files, flow |-> <<>>] ELSE Run1(after[i - 1], cmds[i])
  IN  after

Meaning(cmds, from) ==
  LET end == After(cmds, from)[Len(cmds)]
  IN  [files |-> end.files, shown |-> from.shown \o end.flow]

Uses(cmds) == {u \in (DOMAIN cmds) \X {"in", "out"} : cmds[u[1]][u[2]] # NoFile}
NoSharedFiles(cmds) ==
  \A u, v \in Uses(cmds) :
    u # v /\ cmds[u[1]][u[2]].name = cmds[v[1]][v[2]].name => u[2] = "in" /\ v[2] = "in"

(* The commands of a line run at once, and what they leave in the files and on *)
(* the terminal is as if they had run one after another, each on what the one  *)
(* before it had written (README.md, "管道"), as long as none of them writes to *)
(* a file that is also another's, or its own input: no item is lost with a     *)
(* descriptor, and no command goes on without its input.                       *)
PipelineComposes ==
  pc = "prompt" /\ line # <<>> /\ NoSharedFiles(line) =>
    [files |-> files, shown |-> shown] = Meaning(line, before)

(* The shell comes back to its prompt from every line or ends: nobody waits    *)
(* for the end of an input whose other end is held open by a process that      *)
(* waits itself.                                                               *)
EveryLineEnds == (pc = "starting") ~> (pc \in {"prompt", "failed", "crashed"})
=============================================================================
