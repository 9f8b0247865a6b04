------------------------------ MODULE CgiRunner ------------------------------
(* DefaultCgiRunner::run on several reactors of one server process: two pipes, *)
(* a child that becomes the script, the body written, the output read to its   *)
(* end, the child waited for.  Each reactor runs one script.  Pipes carry      *)
(* items, of which PipeSize fit.                                               *)
EXTENDS Integers, FiniteSets

CONSTANTS Reactors, PipeSize, Jobs, Server

VARIABLES job,          \* what each reactor is asked to run
          pc,           \* where run is, on each reactor
          unwritten,    \* how much of the body is still to be written
          got,          \* how much output has been read
          script,       \* each reactor's child
          fill,         \* how much each pipe holds
          ends          \* the ends of pipes that the server and the children have open

vars == <<job, pc, unwritten, got, script, fill, ends>>

\* A job: the length of the body; whether the script writes its output before it
\* reads; what it reads: as many items as the body has, all "end", or nothing;
\* its output; whether it leaves with 0.
Job(body, writesFirst, reads, output, fine) ==
  [body |-> body, writesFirst |-> writesFirst, reads |-> reads, output |-> output, fine |-> fine]

In(r)  == <<r, "stdin">>
Out(r) == <<r, "stdout">>
PipesOf(r) == {In(r), Out(r)}
Processes == {Server} \union Reactors      \* a child is named after its reactor

Open(p, pipe, side) == <<pipe, side>> \in ends[p]
Held(pipe, side) == \E p \in Processes : Open(p, pipe, side)
Both(pipes) == pipes \X {"r", "w"}

NoChild == [state |-> "none", unread |-> 0, output |-> 0]

Init ==
  /\ job \in [Reactors -> Jobs]
  /\ pc = [r \in Reactors |-> "begin"]
  /\ unwritten = [r \in Reactors |-> job[r].body]
  /\ got = [r \in Reactors |-> 0]
  /\ script = [r \in Reactors |-> NoChild]
  /\ fill = [p \in UNION {PipesOf(r) : r \in Reactors} |-> 0]
  /\ ends = [p \in Processes |-> {}]

-----------------------------------------------------------------------------
(* The reactor. *)

Alive == \A r \in Reactors : pc[r] # "killed"
At(r, l) == Alive /\ pc[r] = l
Goto(r, l) == pc' = [pc EXCEPT ![r] = l]
Shuts(p, set) == ends' = [ends EXCEPT ![p] = @ \ set]

\* pipe, twice: not close-on-exec.  If the second fails nobody closes the first.
MakePipes(r) ==
  /\ At(r, "begin")
  /\ \/ ends' = [ends EXCEPT ![Server] = @ \union Both(PipesOf(r))] /\ Goto(r, "fork")
     \/ ends' = [ends EXCEPT ![Server] = @ \union Both({In(r)})] /\ Goto(r, "failed")
     \/ UNCHANGED ends /\ Goto(r, "failed")
  /\ UNCHANGED <<job, unwritten, got, script, fill>>

\* fork copies every descriptor of the server, other reactors' pipes among them;
\* if it fails the four ends are closed on return.
Fork(r) ==
  /\ At(r, "fork")
  /\ \/ /\ script' = [script EXCEPT ![r].state = "forked"]
        /\ ends' = [ends EXCEPT ![r] = ends[Server]]
        /\ Goto(r, "parent")
     \/ /\ Goto(r, "failed") /\ Shuts(Server, Both(PipesOf(r)))
        /\ UNCHANGED script
  /\ UNCHANGED <<job, unwritten, got, fill>>

CloseChildsEnds(r) ==
  /\ At(r, "parent")
  /\ Shuts(Server, {<<In(r), "r">>, <<Out(r), "w">>})
  /\ Goto(r, "write")
  /\ UNCHANGED <<job, unwritten, got, script, fill>>

\* One write for the whole body, which blocks while the pipe is full; with nobody
\* to read it, the signal ends the server.
WriteBody(r) ==
  /\ At(r, "write") /\ unwritten[r] > 0
  /\ IF Held(In(r), "r")
     THEN /\ fill[In(r)] < PipeSize
          /\ fill' = [fill EXCEPT ![In(r)] = @ + 1]
          /\ unwritten' = [unwritten EXCEPT ![r] = @ - 1]
          /\ UNCHANGED <<pc, ends>>
     ELSE /\ Goto(r, "killed") /\ ends' = [ends EXCEPT ![Server] = {}]
          /\ UNCHANGED <<fill, unwritten>>
  /\ UNCHANGED <<job, got, script>>

CloseBody(r) ==
  /\ At(r, "write") /\ unwritten[r] = 0
  /\ Shuts(Server, {<<In(r), "w">>})
  /\ Goto(r, "read")
  /\ UNCHANGED <<job, unwritten, got, script, fill>>

ReadOutput(r) ==
  /\ At(r, "read") /\ fill[Out(r)] > 0
  /\ fill' = [fill EXCEPT ![Out(r)] = @ - 1]
  /\ got' = [got EXCEPT ![r] = @ + 1]
  /\ UNCHANGED <<job, pc, unwritten, script, ends>>

EndOfOutput(r) ==
  /\ At(r, "read") /\ fill[Out(r)] = 0 /\ ~Held(Out(r), "w")
  /\ Goto(r, "wait")
  /\ UNCHANGED <<job, unwritten, got, script, fill, ends>>

\* Mutant: the status of the child is not looked at.
WaitOnly(r) ==
  /\ At(r, "wait") /\ script[r].state \in {"fine", "bad"}
  /\ Goto(r, "answered")
  /\ Shuts(Server, Both(PipesOf(r)))
  /\ UNCHANGED <<job, unwritten, got, script, fill>>

Wait(r) ==
  /\ At(r, "wait") /\ script[r].state \in {"fine", "bad"}
  /\ Goto(r, IF script[r].state = "fine" THEN "answered" ELSE "failed")
  /\ Shuts(Server, Both(PipesOf(r)))
  /\ UNCHANGED <<job, unwritten, got, script, fill>>

-----------------------------------------------------------------------------
(* The child and the script. *)

Leaves(r, how) ==
  /\ script' = [script EXCEPT ![r].state = how]
  /\ ends' = [ends EXCEPT ![r] = {}]

Own(r) == {<<In(r), "r">>, <<Out(r), "w">>}

\* Mutant: the child keeps the ends that are the server's.
ClosedNothing(r, open) == open

\* dup2 keeps its two ends as standard input and output, and the four that fork
\* has copied are closed.  Those of other reactors stay open, through execve too.
Closed(r, open) == (open \ Both(PipesOf(r))) \union Own(r)

Become(r) ==
  /\ script[r].state = "forked"
  /\ \/ /\ script' = [script EXCEPT ![r] = [state |-> "runs", output |-> job[r].output, unread |->
                                             IF job[r].reads = "nothing" THEN 0 ELSE job[r].body]]
        /\ ends' = [ends EXCEPT ![r] = Closed(r, @)]
     \/ Leaves(r, "bad")              \* chdir or execve failed
  /\ UNCHANGED <<job, pc, unwritten, got, fill>>

MayRead(r)  == script[r].state = "runs" /\ (~job[r].writesFirst \/ script[r].output = 0)
HasRead(r)  == script[r].unread = 0 /\ (job[r].reads = "end" => fill[In(r)] = 0 /\ ~Held(In(r), "w"))
MayWrite(r) == script[r].state = "runs" /\ (job[r].writesFirst \/ HasRead(r))

Read(r) ==
  /\ MayRead(r) /\ script[r].unread > 0 /\ fill[In(r)] > 0
  /\ script' = [script EXCEPT ![r].unread = @ - 1]
  /\ fill' = [fill EXCEPT ![In(r)] = @ - 1]
  /\ UNCHANGED <<job, pc, unwritten, got, ends>>

Write(r) ==
  /\ MayWrite(r) /\ script[r].output > 0
  /\ IF Held(Out(r), "r")
     THEN /\ fill[Out(r)] < PipeSize
          /\ fill' = [fill EXCEPT ![Out(r)] = @ + 1]
          /\ script' = [script EXCEPT ![r].output = @ - 1]
          /\ UNCHANGED ends
     ELSE Leaves(r, "bad") /\ UNCHANGED fill
  /\ UNCHANGED <<job, pc, unwritten, got>>

Finish(r) ==
  /\ script[r].state = "runs" /\ script[r].output = 0 /\ HasRead(r)
  /\ Leaves(r, IF job[r].fine THEN "fine" ELSE "bad")
  /\ UNCHANGED <<job, pc, unwritten, got, fill>>

Run(r) == \/ MakePipes(r) \/ Fork(r) \/ CloseChildsEnds(r) \/ WriteBody(r) \/ CloseBody(r)
          \/ ReadOutput(r) \/ EndOfOutput(r) \/ Wait(r)
Script(r) == Become(r) \/ Read(r) \/ Write(r) \/ Finish(r)

Next == \E r \in Reactors : Run(r) \/ Script(r)

Spec == Init /\ [][Next]_vars /\ \A r \in Reactors : WF_vars(Run(r)) /\ WF_vars(Script(r))

-----------------------------------------------------------------------------
Over(r) == pc[r] \in {"answered", "failed", "killed"}

\* The script has filled its output and waits for a reader, who has not come to
\* read: he waits for the script to take the body.
BothFull(r) == pc[r] = "write" /\ fill[In(r)] = PipeSize /\ fill[Out(r)] = PipeSize

\* The script waits for the end of its input, whose other end another one has.
KeptOpen(r) == /\ script[r].state = "runs" /\ job[r].reads = "end"
               /\ \E q \in Reactors \ {r} : Open(q, In(r), "w")

\* What each of them can do next: the guards of Run and of Script.
RunMoves(r) ==
  \/ pc[r] \in {"begin", "fork", "parent"}
  \/ pc[r] = "write" /\ (unwritten[r] = 0 \/ ~Held(In(r), "r") \/ fill[In(r)] < PipeSize)
  \/ pc[r] = "read" /\ (fill[Out(r)] > 0 \/ ~Held(Out(r), "w"))
  \/ pc[r] = "wait" /\ script[r].state \in {"fine", "bad"}

ScriptMoves(r) ==
  \/ script[r].state = "forked"
  \/ MayRead(r) /\ script[r].unread > 0 /\ fill[In(r)] > 0
  \/ MayWrite(r) /\ script[r].output > 0 /\ (~Held(Out(r), "r") \/ fill[Out(r)] < PipeSize)
  \/ script[r].state = "runs" /\ script[r].output = 0 /\ HasRead(r)

Stuck == \A r \in Reactors : ~(Alive /\ RunMoves(r)) /\ ~ScriptMoves(r)

StuckMeansStuck == Stuck <=> ~ENABLED Next

(* What run returns is what its own script has written, all of it, and only if *)
(* the script left with 0 (protocol-http.md:244); and there are two ways for a *)
(* reactor to hang in it: body and output both too long for a pipe that        *)
(* nobody empties, or a script that reads to the end of an input that another  *)
(* reactor's script has inherited.                                             *)
ReturnsOrHangs ==
  /\ \A r \in Reactors :
       pc[r] = "answered" => job[r].fine /\ got[r] = job[r].output
  /\ (\E r \in Reactors : ~Over(r)) /\ Alive /\ Stuck =>
       \E r \in Reactors : BothFull(r) \/ KeptOpen(r)

(* "When it has written, the parent closes the writing end, which sends EOF to *)
(* the child" (protocol-http.md:243).                                          *)
EofReachesTheScript ==
  \A r \in Reactors :
    pc[r] = "read" /\ script[r].state = "runs" => ~Held(In(r), "w")
=============================================================================
