----------------------------- MODULE MCProcesses -----------------------------
(* The programs that start others and wait for them, one of them at a time:     *)
(* minishell's executor, pipex, Webserv's CGI runner in two reactors, and the   *)
(* containers of Inception; and the reactors that share Webserv's files.  What  *)
(* a program does not have stays empty.                                         *)
EXTENDS Executor, TLC

CONSTANTS Calls, Reactors, Server, Jobs, MaxKills,
          Items,                                \* what files and pipes hold, and what marks a file that is not there
          Bodies, MaxRequests, BufferSize, MaxOpen, Removed, Nobody     \* of the files

\* What minishell and pipex are given: programs write items and copy them, files
\* hold them; a line has a command for every stage it takes, and redirections name
\* files that are there or not.
Names == DOMAIN FileSystem
Programs == [text : Seq(Items), copies : Nat, code : Int]
Redirections == {NoFile} \cup {File(f) : f \in Names}
Commands == [program : Programs, in : Redirections, out : Redirections, append : BOOLEAN, builtin : BOOLEAN]
CommandLines == {cmds \in Seq(Commands) : Len(cmds) \in 1 .. MaxStages}

ASSUME StagesAreBounded == MaxStages \in Nat
ASSUME FilesHoldItems == FileSystem \in [Names -> Seq(Items)]
ASSUME ScriptsAreLines == \A s \in Scripts : s \in Seq({Exit, BadLine} \cup CommandLines)
ASSUME CallsAreCalls ==
    \A c \in Calls : /\ c.programs \in Seq({<<>>} \cup Programs) /\ Len(c.programs) \in 1 .. MaxStages
                     /\ {c.in, c.out} \subseteq Redirections
                     /\ c.heredoc \in BOOLEAN /\ c.lines \in Seq(Items)

\* A pipe takes something; a job says how long its body and its output are.
ASSUME PipesHaveRoom == PipeSize \in Nat \ {0}
ASSUME ServerIsNoReactor == Server \notin Reactors
ASSUME JobsAreJobs ==
    Jobs \subseteq [body : Nat, writesFirst : BOOLEAN, reads : {"end", "length", "nothing"},
                    output : Nat, fine : BOOLEAN]

VARIABLES program,                              \* the one that runs
          call, document, code,                 \* of pipex
          job, step, unwritten, got, child, fill, open,   \* of the runner
          mariadb, data, wordpress, site, nginx, certificate, kills, cut,
          dir, inodes, handler, fds, diskFull, handled    \* of the handlers

Px    == INSTANCE Pipex
Cgi   == INSTANCE CgiRunner WITH pc <- step, script <- child, ends <- open
Boxes == INSTANCE Inception
Files == INSTANCE FileHandlers WITH data <- inodes, Absent <- Removed

\* The assumption of the theorems about the handlers.
ASSUME HandlersAreGiven == Files!Parameters

ofStages == << proc, pipe, files, shown, ends, at, pc >>
ofShell  == << script, line, status, settings, leaked, before >>
ofPipex  == << call, document, code >>
ofCgi    == << job, step, unwritten, got, child, fill, open >>
ofBoxes  == << mariadb, data, wordpress, site, nginx, certificate, kills, cut >>
ofFiles  == << dir, inodes, handler, fds, diskFull, handled >>
all      == << program, ofStages, ofShell, ofPipex, ofCgi, ofBoxes, ofFiles >>

-----------------------------------------------------------------------------
(* Programs that pass on what they read (all of it, or one item), that print    *)
(* two items, or that fail; files that are there and not.                       *)

Cat  == Program(<<>>, 9, 0)
Head1 == Program(<<>>, 1, 0)
Two == Program(<< "x", "y" >>, 0, 0)
Fail == Program(<<>>, 0, 127)

MCItems == {"x", "y", "g", "l", "m", "absent", "no words"}

MCFileSystem == "f" :> Absent @@ "g" :> << "g" >> @@ "none" :> Absent

C(p)      == Command(p, NoFile, NoFile, FALSE, FALSE)
Built(p)  == Command(p, NoFile, NoFile, FALSE, TRUE)
In(c, f)  == [c EXCEPT !.in = File(f)]
Out(c, f) == [c EXCEPT !.out = File(f)]
App(c, f) == [c EXCEPT !.out = File(f), !.append = TRUE]

Lines ==
    { << C(Two), C(Cat), C(Head1) >>, << Out(C(Two), "f") >>, << In(C(Cat), "f"), App(C(Cat), "g") >>,
      << C(Two), In(C(Cat), "g"), C(Cat) >>, << Built(Two) >>, << Out(Built(Two), "f"), C(Cat) >>,
      << Built(Two), In(C(Cat), "f") >>, << C(Two), C(Fail) >>, << C(NoWords) >>,
      << App(C(Two), "g"), C(Cat), Out(C(Cat), "f") >>, << C(Cat), C(Head1), C(Cat) >>,
      << Out(C(Cat), "f"), In(C(Cat), "f") >>, << Out(In(C(Cat), "g"), "g") >>,
      << Out(In(C(Two), "g"), "f"), In(C(Cat), "g") >>, BadLine, Exit }

MCScripts == [1 .. 2 -> Lines]

\* pipex reads from a file that holds something, from one that is not there, or
\* from its here-document.
PxCall(ps, in, heredoc, lines, out) ==
    [programs |-> ps, in |-> in, heredoc |-> heredoc, lines |-> lines, out |-> out]

MCCalls ==
    LET Some == [1 .. 2 -> {Cat, Head1, Two, Fail}] IN
    {PxCall(ps, i, FALSE, <<>>, o) : ps \in Some \cup [1 .. 3 -> {Cat, Head1, Two}] \cup {<< Cat, <<>> >>},
                                     i \in {File("g"), File("none")}, o \in {File("f"), File("g"), NoFile}}
    \cup {PxCall(ps, NoFile, TRUE, lines, File("g")) : ps \in Some, lines \in {<<>>, << "l" >>, << "l", "m" >>}}

WithBody(n, writesFirst, reads, output, fine) ==
    [body |-> n, writesFirst |-> writesFirst, reads |-> reads, output |-> output, fine |-> fine]

MCJobs == {WithBody(0, FALSE, "end", 1, TRUE), WithBody(2, FALSE, "end", 2, TRUE), WithBody(2, TRUE, "length", 2, TRUE),
           WithBody(1, FALSE, "length", 1, FALSE), WithBody(1, FALSE, "nothing", 1, TRUE), WithBody(0, TRUE, "length", 2, TRUE)}

\* What is uploaded fits into the stream's buffer, or does not.
MCBodies == {<< "a" >>, << "b", "b" >>}

-----------------------------------------------------------------------------
NoStages == /\ proc = <<>> /\ pipe = <<>> /\ files = <<>> /\ shown = <<>>
            /\ ends = <<>> /\ at = 0 /\ pc = "none"
NoShell  == script = <<>> /\ line = <<>> /\ status = 0 /\ settings = 0 /\ leaked = 0 /\ before = <<>>
NoPipex  == call = <<>> /\ document = <<>> /\ code = 0
NoCgi    == /\ job = <<>> /\ step = <<>> /\ unwritten = <<>> /\ got = <<>>
            /\ child = <<>> /\ fill = <<>> /\ open = <<>>
NoBoxes  == /\ mariadb = "none" /\ data = {} /\ wordpress = "none" /\ site = {}
            /\ nginx = "none" /\ certificate = {} /\ kills = 0 /\ cut = {}
NoFiles  == dir = 0 /\ inodes = <<>> /\ handler = <<>> /\ fds = <<>> /\ diskFull = FALSE /\ handled = 0

MCInit ==
    \/ program = "shell" /\ Init /\ NoPipex /\ NoCgi /\ NoBoxes /\ NoFiles
    \/ program = "pipex" /\ Px!Init /\ NoShell /\ NoCgi /\ NoBoxes /\ NoFiles
    \/ program = "cgi" /\ Cgi!Init /\ NoStages /\ NoShell /\ NoPipex /\ NoBoxes /\ NoFiles
    \/ program = "boxes" /\ Boxes!Init /\ NoStages /\ NoShell /\ NoPipex /\ NoCgi /\ NoFiles
    \/ program = "files" /\ Files!Init /\ NoStages /\ NoShell /\ NoPipex /\ NoCgi /\ NoBoxes

OnlyShell == program = "shell" /\ UNCHANGED << program, ofPipex, ofCgi, ofBoxes, ofFiles >>
OnlyPipex == program = "pipex" /\ UNCHANGED << program, ofShell, ofCgi, ofBoxes, ofFiles >>
OnlyCgi   == program = "cgi" /\ UNCHANGED << program, ofStages, ofShell, ofPipex, ofBoxes, ofFiles >>
OnlyBoxes == program = "boxes" /\ UNCHANGED << program, ofStages, ofShell, ofPipex, ofCgi, ofFiles >>
OnlyFiles == program = "files" /\ UNCHANGED << program, ofStages, ofShell, ofPipex, ofCgi, ofBoxes >>

MCNext == \/ OnlyShell /\ Next
          \/ OnlyPipex /\ Px!Next
          \/ OnlyCgi /\ Cgi!Next
          \/ OnlyBoxes /\ Boxes!Next
          \/ OnlyFiles /\ Files!Next

\* What each of the programs takes for granted of the kernel and its scheduler.
MCSpec ==
    /\ MCInit /\ [][MCNext]_all
    /\ WF_all((OnlyShell /\ Shell) \/ (OnlyPipex /\ Px!Main)) /\ WF_all(OnlyPipex /\ Px!Typing)
    /\ \A i \in Stages : WF_all((OnlyShell /\ Child(i)) \/ (OnlyPipex /\ Px!Child(i)))
    /\ WF_all(OnlyBoxes /\ Boxes!Mariadb) /\ WF_all(OnlyBoxes /\ Boxes!Wordpress) /\ WF_all(OnlyBoxes /\ Boxes!Nginx)

-----------------------------------------------------------------------------
\* Commands that run at once leave what they would have left one after another, in
\* minishell's pipelines and in pipex (executor.c:16, pipex.c:8).
PipelinesCompose ==
    /\ program = "shell" => PipelineComposes
    /\ program = "pipex" => Px!LikeTheShell

\* A reactor returns what its own script has written, or hangs in one of two ways
\* (DefaultCgiRunner.cc:52, :59).
ReturnsOrHangs == program = "cgi" => Cgi!ReturnsOrHangs

\* The end of the body reaches the script once the parent has written it
\* (DefaultCgiRunner.cc:59).
EofReachesTheScript == program = "cgi" => Cgi!EofReachesTheScript

\* Half a site is served only after a script was cut (init.sh:11, wp-config.sh:5).
HalfIsServedOnlyAfterACut == program = "boxes" => Boxes!HalfIsServedOnlyAfterACut

\* Two reactors on one file: every answer was true at some moment of its request
\* (StaticFileHandler.cc:54, :74, :78).
AnswersHadTheirMoment == program = "files" => Files!AnswersHadTheirMoment

\* An upload that met no other request and no full disk is the file (UploadHandler.cc:45).
LoneUploadIsTheFile == [][program = "files" => Files!LoneUploadStep]_all

\* Every line of the shell ends, pipex ends, the site comes up, and where the runner
\* is said to be stuck nothing can be done any more.
EverythingEnds ==
    /\ [](program = "cgi" => Cgi!StuckMeansStuck)
    /\ program = "shell" => EveryLineEnds
    /\ program = "pipex" => Px!Ends
    /\ program = "boxes" => Boxes!SiteComesUp
=============================================================================
