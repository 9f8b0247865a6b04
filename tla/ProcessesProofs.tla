--------------------------- MODULE ProcessesProofs ---------------------------
(***************************************************************************)
(* Proofs about programs of MCProcesses: the CGI runner, for any number of *)
(* reactors and any scripts; the containers, for any number of kills;      *)
(* pipex, started like minishell with any commands, on what PipelineProofs *)
(* has of their pipelines; and the handlers of files, for any number of    *)
(* reactors, requests and descriptors and any bodies.                      *)
(***************************************************************************)
EXTENDS PipelineProofs, SequenceTheorems

-----------------------------------------------------------------------------
(***************************************************************************)
(* The CGI runner.  Its variables go by the names they have in             *)
(* MCProcesses: step is where run is, child the script, open the ends of   *)
(* pipes that a process has open.                                          *)
(***************************************************************************)
RunLabels == {"begin", "fork", "parent", "write", "read", "wait", "answered", "failed",
              "killed"}
ChildStates == {"none", "forked", "runs", "fine", "bad"}
CgiPipes == UNION {Cgi!PipesOf(r) : r \in Reactors}

CgiTypes ==
  /\ job \in [Reactors -> Jobs]
  /\ step \in [Reactors -> RunLabels]
  /\ unwritten \in [Reactors -> Nat]
  /\ got \in [Reactors -> Nat]
  /\ child \in [Reactors -> [state : ChildStates, unread : Nat, output : Nat]]
  /\ fill \in [CgiPipes -> 0 .. PipeSize]
  /\ DOMAIN open = Cgi!Processes

\* What is left of the body is in the pipe or still to be written.
BodyFlows(r) ==
  /\ child[r].state \in {"none", "forked"} => fill[Cgi!In(r)] + unwritten[r] = job[r].body
  /\ child[r].state = "runs" =>
       child[r].unread = IF job[r].reads = "nothing" THEN 0
                         ELSE fill[Cgi!In(r)] + unwritten[r]
  /\ step[r] = "read" => unwritten[r] = 0

\* The output is read, in the pipe, or still to be written.
OutputFlows(r) ==
  /\ child[r].state \in {"none", "forked"} => got[r] = 0 /\ fill[Cgi!Out(r)] = 0
  /\ child[r].state = "runs" => got[r] + fill[Cgi!Out(r)] + child[r].output = job[r].output
  /\ child[r].state = "fine" => job[r].fine /\ got[r] + fill[Cgi!Out(r)] = job[r].output
  /\ step[r] = "wait" => fill[Cgi!Out(r)] = 0
  /\ step[r] = "answered" => job[r].fine /\ got[r] = job[r].output

\* Where run is tells how far its child can be.
ChildFollows(r) ==
  /\ step[r] \in {"begin", "fork"} => child[r].state = "none"
  /\ step[r] \in {"parent", "write", "read"} => child[r].state # "none"
  /\ step[r] = "wait" => child[r].state \in {"fine", "bad"}
  /\ child[r].state \in {"forked", "runs"} => step[r] \in {"parent", "write", "read", "killed"}

\* A child holds its own two ends for as long as it lives, and no end afterwards; the
\* server holds what run has not closed.
EndsAreHeld(r) ==
  /\ child[r].state \in {"forked", "runs"} => Cgi!Own(r) \subseteq open[r]
  /\ child[r].state = "runs" => << Cgi!In(r), "w" >> \notin open[r]
  /\ child[r].state \notin {"forked", "runs"} => open[r] = {}
  /\ step[r] \in {"write", "read", "wait"} =>
       << Cgi!In(r), "r" >> \notin open[Server] /\ << Cgi!Out(r), "w" >> \notin open[Server]
  /\ step[r] \in {"read", "wait"} => << Cgi!In(r), "w" >> \notin open[Server]
  /\ Cgi!Alive /\ step[r] \in {"fork", "parent"} => Cgi!Both(Cgi!PipesOf(r)) \subseteq open[Server]
  /\ Cgi!Alive /\ step[r] \in {"write", "read"} => << Cgi!Out(r), "r" >> \in open[Server]

RunInv(r) == BodyFlows(r) /\ OutputFlows(r) /\ ChildFollows(r) /\ EndsAreHeld(r)

CgiInv == CgiTypes /\ \A r \in Reactors : RunInv(r)

-----------------------------------------------------------------------------
LEMMA PipesThere ==
  ASSUME NEW r \in Reactors
  PROVE  Cgi!In(r) \in CgiPipes /\ Cgi!Out(r) \in CgiPipes
  BY DEF CgiPipes, Cgi!PipesOf

\* Each reactor has two pipes of its own.
LEMMA PipesDiffer ==
  ASSUME NEW r, NEW q
  PROVE  /\ Cgi!In(r) # Cgi!Out(q)
         /\ r # q => Cgi!In(r) # Cgi!In(q) /\ Cgi!Out(r) # Cgi!Out(q)
  BY DEF Cgi!In, Cgi!Out

LEMMA TwoEnds ==
  ASSUME NEW r, NEW x
  PROVE  x \in Cgi!Both(Cgi!PipesOf(r)) <=>
           x \in {<< Cgi!In(r), "r" >>, << Cgi!In(r), "w" >>,
                  << Cgi!Out(r), "r" >>, << Cgi!Out(r), "w" >>}
  BY DEF Cgi!Both, Cgi!PipesOf

LEMMA ProcessesDiffer ==
  /\ Server \in Cgi!Processes
  /\ \A r \in Reactors : r \in Cgi!Processes /\ r # Server
  BY ServerIsNoReactor DEF Cgi!Processes

LEMMA CgiInvInit == Cgi!Init => CgiInv
  <1> SUFFICES ASSUME Cgi!Init PROVE CgiInv
    OBVIOUS
  <1> USE DEF Cgi!Init
  <1>1. \A r \in Reactors : job[r].body \in Nat /\ job[r] \in Jobs
    BY JobsAreJobs
  <1>2. CgiPipes = DOMAIN fill /\ \A p \in CgiPipes : fill[p] = 0
    BY DEF CgiPipes
  <1>3. CgiTypes
    <2>1. fill \in [CgiPipes -> 0 .. PipeSize]
      BY <1>2, PipesHaveRoom DEF CgiPipes
    <2>2. child \in [Reactors -> [state : ChildStates, unread : Nat, output : Nat]]
      BY DEF Cgi!NoChild, ChildStates
    <2>3. unwritten \in [Reactors -> Nat]
      BY <1>1
    <2> QED
      BY <2>1, <2>2, <2>3 DEF CgiTypes, RunLabels
  <1>4. ASSUME NEW r \in Reactors PROVE RunInv(r)
    <2>1. child[r].state = "none" /\ step[r] = "begin" /\ open[r] = {}
      BY ProcessesDiffer DEF Cgi!NoChild
    <2>2. fill[Cgi!In(r)] = 0 /\ fill[Cgi!Out(r)] = 0 /\ unwritten[r] = job[r].body /\ got[r] = 0
      BY <1>2, PipesThere
    <2>3. job[r].body \in Nat
      BY <1>1
    <2>4. BodyFlows(r) /\ OutputFlows(r) /\ ChildFollows(r)
      BY <2>1, <2>2, <2>3 DEF BodyFlows, OutputFlows, ChildFollows
    <2>5. EndsAreHeld(r)
      BY <2>1 DEF EndsAreHeld
    <2> QED
      BY <2>4, <2>5 DEF RunInv
  <1> QED
    BY <1>3, <1>4 DEF CgiInv

-----------------------------------------------------------------------------
\* What a step leaves of one reactor's affairs, it leaves of what is known of it.
LEMMA OthersStay ==
  ASSUME NEW q \in Reactors, RunInv(q),
         job'[q] = job[q], step'[q] = step[q], unwritten'[q] = unwritten[q],
         got'[q] = got[q], child'[q] = child[q], open'[q] = open[q],
         fill'[Cgi!In(q)] = fill[Cgi!In(q)], fill'[Cgi!Out(q)] = fill[Cgi!Out(q)],
         Cgi!Alive' => Cgi!Alive,
         \A x \in Cgi!Both(Cgi!PipesOf(q)) :
           /\ x \in open'[Server] => x \in open[Server]
           /\ Cgi!Alive' => (x \in open[Server] => x \in open'[Server])
  PROVE  RunInv(q)'
  <1>1. BodyFlows(q)'
    BY DEF RunInv, BodyFlows
  <1>2. OutputFlows(q)'
    BY DEF RunInv, OutputFlows
  <1>3. ChildFollows(q)'
    BY DEF RunInv, ChildFollows
  <1>4. EndsAreHeld(q)'
    BY TwoEnds DEF RunInv, EndsAreHeld
  <1> QED
    BY <1>1, <1>2, <1>3, <1>4 DEF RunInv

\* Only r's own ends move, at the server.
LEMMA EndsOfOthers ==
  ASSUME NEW r \in Reactors, NEW q \in Reactors, r # q,
         NEW x \in Cgi!Both(Cgi!PipesOf(q))
  PROVE  x \notin Cgi!Both(Cgi!PipesOf(r))
  <1>1. x[1] \in {Cgi!In(q), Cgi!Out(q)}
    BY DEF Cgi!Both, Cgi!PipesOf
  <1>2. \A y \in Cgi!Both(Cgi!PipesOf(r)) : y[1] \in {Cgi!In(r), Cgi!Out(r)}
    BY DEF Cgi!Both, Cgi!PipesOf
  <1> QED
    BY <1>1, <1>2, PipesDiffer

LEMMA MakesPipes ==
  ASSUME CgiInv, NEW r \in Reactors, Cgi!MakePipes(r)
  PROVE  CgiInv'
  <1> USE DEF CgiInv, CgiTypes
  <1>1. PICK l \in {"fork", "failed"}, S \in SUBSET Cgi!Both(Cgi!PipesOf(r)) :
           /\ step' = [step EXCEPT ![r] = l]
           /\ open' = [open EXCEPT ![Server] = @ \cup S] \/ (open' = open /\ S = {})
           /\ l = "fork" => S = Cgi!Both(Cgi!PipesOf(r))
    <2> DEFINE Ends == Cgi!Both(Cgi!PipesOf(r))
    <2>1. CASE open' = [open EXCEPT ![Server] = @ \cup Ends] /\ Cgi!Goto(r, "fork")
      <3> WITNESS "fork" \in {"fork", "failed"}, Ends \in SUBSET Ends
      <3> QED
        BY <2>1 DEF Cgi!Goto
    <2>2. CASE open' = [open EXCEPT ![Server] = @ \cup Cgi!Both({Cgi!In(r)})]
               /\ Cgi!Goto(r, "failed")
      <3>1. Cgi!Both({Cgi!In(r)}) \in SUBSET Ends
        BY DEF Cgi!Both, Cgi!PipesOf
      <3> WITNESS "failed" \in {"fork", "failed"}, Cgi!Both({Cgi!In(r)}) \in SUBSET Ends
      <3> QED
        BY <2>2 DEF Cgi!Goto
    <2>3. CASE UNCHANGED open /\ Cgi!Goto(r, "failed")
      <3> WITNESS "failed" \in {"fork", "failed"}, {} \in SUBSET Ends
      <3> QED
        BY <2>3 DEF Cgi!Goto
    <2> QED
      BY <2>1, <2>2, <2>3 DEF Cgi!MakePipes
  <1>2. UNCHANGED << job, unwritten, got, child, fill >> /\ step[r] = "begin" /\ Cgi!Alive
    BY DEF Cgi!MakePipes, Cgi!At
  <1>3. CgiTypes'
    BY <1>1, <1>2 DEF RunLabels
  <1>4. /\ step'[r] = l /\ open'[Server] = open[Server] \cup S
        /\ \A p \in Reactors : open'[p] = open[p]
    BY <1>1, ProcessesDiffer
  <1>5. RunInv(r)'
    <2>1. child[r].state = "none"
      BY <1>2 DEF RunInv, ChildFollows
    <2>2. BodyFlows(r)' /\ OutputFlows(r)' /\ ChildFollows(r)'
      BY <1>2, <1>4, <2>1 DEF RunInv, BodyFlows, OutputFlows, ChildFollows
    <2>3. EndsAreHeld(r)'
      BY <1>1, <1>2, <1>4, <2>1 DEF RunInv, EndsAreHeld
    <2> QED
      BY <2>2, <2>3 DEF RunInv
  <1>6. ASSUME NEW q \in Reactors, q # r PROVE RunInv(q)'
    <2>1. \A x \in Cgi!Both(Cgi!PipesOf(q)) : x \in open'[Server] <=> x \in open[Server]
      BY <1>4, <1>6, EndsOfOthers
    <2> QED
      BY <1>1, <1>2, <1>4, <1>6, <2>1, OthersStay
  <1> QED
    BY <1>3, <1>5, <1>6

LEMMA Forks ==
  ASSUME CgiInv, NEW r \in Reactors, Cgi!Fork(r)
  PROVE  CgiInv'
  <1> USE DEF CgiInv, CgiTypes
  <1>1. /\ UNCHANGED << job, unwritten, got, fill >> /\ step[r] = "fork" /\ Cgi!Alive
        /\ child[r].state = "none" /\ Cgi!Both(Cgi!PipesOf(r)) \subseteq open[Server]
    BY DEF Cgi!Fork, Cgi!At, RunInv, ChildFollows, EndsAreHeld
  <1>2. CASE child' = [child EXCEPT ![r].state = "forked"]
             /\ open' = [open EXCEPT ![r] = open[Server]] /\ Cgi!Goto(r, "parent")
    <2>1. CgiTypes'
      BY <1>1, <1>2 DEF RunLabels, ChildStates, Cgi!Goto
    <2>2. /\ step'[r] = "parent" /\ \A q \in Reactors : q # r => step'[q] = step[q]
          /\ child'[r].state = "forked" /\ \A q \in Reactors : q # r => child'[q] = child[q]
          /\ open'[Server] = open[Server] /\ open'[r] = open[Server]
          /\ \A q \in Reactors : q # r => open'[q] = open[q]
      BY <1>2, ProcessesDiffer DEF Cgi!Goto
    <2>3. RunInv(r)'
      <3>1. BodyFlows(r)' /\ OutputFlows(r)' /\ ChildFollows(r)'
        BY <1>1, <2>2 DEF RunInv, BodyFlows, OutputFlows, ChildFollows
      <3>2. Cgi!Own(r) \subseteq Cgi!Both(Cgi!PipesOf(r))
        BY TwoEnds DEF Cgi!Own
      <3>3. EndsAreHeld(r)'
        BY <1>1, <2>2, <3>2 DEF EndsAreHeld
      <3> QED
        BY <3>1, <3>3 DEF RunInv
    <2>4. Cgi!Alive' => Cgi!Alive
      BY <1>1
    <2>5. ASSUME NEW q \in Reactors, q # r PROVE RunInv(q)'
      BY <1>1, <2>2, <2>4, <2>5, OthersStay
    <2> QED
      BY <2>1, <2>3, <2>5
  <1>3. CASE Cgi!Goto(r, "failed") /\ Cgi!Shuts(Server, Cgi!Both(Cgi!PipesOf(r)))
             /\ UNCHANGED child
    <2>1. CgiTypes'
      BY <1>1, <1>3 DEF RunLabels, Cgi!Goto, Cgi!Shuts
    <2>2. /\ step'[r] = "failed" /\ \A q \in Reactors : q # r => step'[q] = step[q]
          /\ open'[Server] = open[Server] \ Cgi!Both(Cgi!PipesOf(r))
          /\ \A q \in Reactors : open'[q] = open[q]
      BY <1>3, ProcessesDiffer DEF Cgi!Goto, Cgi!Shuts
    <2>3. RunInv(r)'
      <3>1. BodyFlows(r)' /\ OutputFlows(r)' /\ ChildFollows(r)'
        BY <1>1, <1>3, <2>2 DEF RunInv, BodyFlows, OutputFlows, ChildFollows
      <3>2. EndsAreHeld(r)'
        BY <1>1, <1>3, <2>2 DEF RunInv, EndsAreHeld
      <3> QED
        BY <3>1, <3>2 DEF RunInv
    <2>4. Cgi!Alive' => Cgi!Alive
      BY <1>1
    <2>5. ASSUME NEW q \in Reactors, q # r PROVE RunInv(q)'
      <3>1. \A x \in Cgi!Both(Cgi!PipesOf(q)) : x \in open'[Server] <=> x \in open[Server]
        BY <2>2, <2>5, EndsOfOthers
      <3> QED
        BY <1>1, <1>3, <2>2, <2>4, <2>5, <3>1, OthersStay
    <2> QED
      BY <2>1, <2>3, <2>5
  <1> QED
    BY <1>2, <1>3 DEF Cgi!Fork

\* The steps of run that let go of some of r's ends at the server, if any.
LEMMA LetsGo ==
  ASSUME CgiInv, NEW r \in Reactors, Cgi!Alive, NEW l \in RunLabels, l # "killed",
         NEW S \in SUBSET Cgi!Both(Cgi!PipesOf(r)), Cgi!Goto(r, l),
         Cgi!Shuts(Server, S), UNCHANGED << job, unwritten, got, child, fill >>
  PROVE  /\ CgiTypes'
         /\ step'[r] = l /\ open'[Server] = open[Server] \ S /\ open'[r] = open[r]
         /\ \A q \in Reactors : q # r => RunInv(q)'
  <1> USE DEF CgiInv, CgiTypes
  <1>1. CgiTypes'
    BY DEF Cgi!Goto, Cgi!Shuts
  <1>2. /\ step'[r] = l /\ \A q \in Reactors : q # r => step'[q] = step[q]
        /\ open'[Server] = open[Server] \ S
        /\ \A q \in Reactors : open'[q] = open[q]
    BY ProcessesDiffer DEF Cgi!Goto, Cgi!Shuts
  <1>3. ASSUME NEW q \in Reactors, q # r PROVE RunInv(q)'
    <2>1. \A x \in Cgi!Both(Cgi!PipesOf(q)) : x \in open'[Server] <=> x \in open[Server]
      BY <1>2, <1>3, EndsOfOthers
    <2> QED
      BY <1>2, <1>3, <2>1, OthersStay
  <1> QED
    BY <1>1, <1>2, <1>3

LEMMA ClosesChildsEnds ==
  ASSUME CgiInv, NEW r \in Reactors, Cgi!CloseChildsEnds(r)
  PROVE  CgiInv'
  <1> DEFINE S == {<< Cgi!In(r), "r" >>, << Cgi!Out(r), "w" >>}
  <1>1. /\ step[r] = "parent" /\ Cgi!Alive /\ Cgi!Goto(r, "write") /\ Cgi!Shuts(Server, S)
        /\ UNCHANGED << job, unwritten, got, child, fill >>
    BY DEF Cgi!CloseChildsEnds, Cgi!At
  <1>2. S \in SUBSET Cgi!Both(Cgi!PipesOf(r))
    BY TwoEnds
  <1> HIDE DEF S
  <1>3. /\ CgiTypes'
        /\ step'[r] = "write" /\ open'[Server] = open[Server] \ S /\ open'[r] = open[r]
        /\ \A q \in Reactors : q # r => RunInv(q)'
    BY <1>1, <1>2, LetsGo DEF RunLabels
  <1>4. BodyFlows(r)' /\ OutputFlows(r)' /\ ChildFollows(r)'
    BY <1>1, <1>3 DEF CgiInv, RunInv, BodyFlows, OutputFlows, ChildFollows
  <1>5. << Cgi!Out(r), "r" >> \in open[Server]
    BY <1>1, TwoEnds DEF CgiInv, RunInv, EndsAreHeld
  <1>6. EndsAreHeld(r)'
    <2>1. /\ child[r].state \in {"forked", "runs"} => Cgi!Own(r) \subseteq open[r]
          /\ child[r].state = "runs" => << Cgi!In(r), "w" >> \notin open[r]
          /\ child[r].state \notin {"forked", "runs"} => open[r] = {}
      BY DEF CgiInv, RunInv, EndsAreHeld
    <2>2. /\ << Cgi!In(r), "r" >> \notin open[Server] \ S
          /\ << Cgi!Out(r), "w" >> \notin open[Server] \ S
          /\ << Cgi!Out(r), "r" >> \in open[Server] \ S
      BY <1>5, PipesDiffer DEF S
    <2> QED
      BY <1>1, <1>3, <2>1, <2>2 DEF EndsAreHeld
  <1> QED
    BY <1>3, <1>4, <1>6 DEF CgiInv, RunInv

LEMMA ClosesBody ==
  ASSUME CgiInv, NEW r \in Reactors, Cgi!CloseBody(r)
  PROVE  CgiInv'
  <1> DEFINE S == {<< Cgi!In(r), "w" >>}
  <1>1. /\ step[r] = "write" /\ Cgi!Alive /\ Cgi!Goto(r, "read") /\ Cgi!Shuts(Server, S)
        /\ unwritten[r] = 0
        /\ UNCHANGED << job, unwritten, got, child, fill >>
    BY DEF Cgi!CloseBody, Cgi!At
  <1>2. S \in SUBSET Cgi!Both(Cgi!PipesOf(r))
    BY TwoEnds
  <1> HIDE DEF S
  <1>3. /\ CgiTypes'
        /\ step'[r] = "read" /\ open'[Server] = open[Server] \ S /\ open'[r] = open[r]
        /\ \A q \in Reactors : q # r => RunInv(q)'
    BY <1>1, <1>2, LetsGo DEF RunLabels
  <1>4. BodyFlows(r)' /\ OutputFlows(r)' /\ ChildFollows(r)'
    BY <1>1, <1>3 DEF CgiInv, RunInv, BodyFlows, OutputFlows, ChildFollows
  <1>5. << Cgi!Out(r), "r" >> \notin S
    BY PipesDiffer DEF S
  <1>6. EndsAreHeld(r)'
    <2>1. /\ child[r].state \in {"forked", "runs"} => Cgi!Own(r) \subseteq open[r]
          /\ child[r].state = "runs" => << Cgi!In(r), "w" >> \notin open[r]
          /\ child[r].state \notin {"forked", "runs"} => open[r] = {}
          /\ << Cgi!In(r), "r" >> \notin open[Server] /\ << Cgi!Out(r), "w" >> \notin open[Server]
          /\ << Cgi!Out(r), "r" >> \in open[Server]
      BY <1>1 DEF CgiInv, RunInv, EndsAreHeld
    <2>2. << Cgi!In(r), "w" >> \notin open[Server] \ S
      BY DEF S
    <2>3. << Cgi!Out(r), "r" >> \in open[Server] \ S
      BY <1>5, <2>1
    <2> QED
      BY <1>1, <1>3, <2>1, <2>2, <2>3 DEF EndsAreHeld
  <1> QED
    BY <1>3, <1>4, <1>6 DEF CgiInv, RunInv

LEMMA EndsOutput ==
  ASSUME CgiInv, NEW r \in Reactors, Cgi!EndOfOutput(r)
  PROVE  CgiInv'
  <1> USE DEF CgiInv, CgiTypes
  <1>1. /\ step[r] = "read" /\ Cgi!Alive /\ Cgi!Goto(r, "wait") /\ fill[Cgi!Out(r)] = 0
        /\ ~Cgi!Held(Cgi!Out(r), "w")
        /\ UNCHANGED << job, unwritten, got, child, fill, open >>
    BY DEF Cgi!EndOfOutput, Cgi!At
  <1>2. CgiTypes'
    BY <1>1 DEF Cgi!Goto, RunLabels
  <1>3. step'[r] = "wait" /\ \A q \in Reactors : q # r => step'[q] = step[q]
    BY <1>1 DEF Cgi!Goto
  <1>4. child[r].state \notin {"forked", "runs"}
    \* Or it would hold its own output.
    BY <1>1, ProcessesDiffer DEF RunInv, EndsAreHeld, Cgi!Own, Cgi!Held, Cgi!Open
  <1>5. child[r].state \in {"fine", "bad"}
    BY <1>1, <1>4 DEF RunInv, ChildFollows, ChildStates
  <1>6. BodyFlows(r)' /\ OutputFlows(r)' /\ ChildFollows(r)'
    BY <1>1, <1>3, <1>5 DEF RunInv, BodyFlows, OutputFlows, ChildFollows
  <1>7. EndsAreHeld(r)'
    BY <1>1, <1>3, <1>5 DEF RunInv, EndsAreHeld
  <1>8. ASSUME NEW q \in Reactors, q # r PROVE RunInv(q)'
    BY <1>1, <1>3, <1>8, OthersStay
  <1> QED
    BY <1>2, <1>6, <1>7, <1>8 DEF RunInv

LEMMA Waits ==
  ASSUME CgiInv, NEW r \in Reactors, Cgi!Wait(r)
  PROVE  CgiInv'
  <1> DEFINE l == IF child[r].state = "fine" THEN "answered" ELSE "failed"
             S == Cgi!Both(Cgi!PipesOf(r))
  <1>1. /\ step[r] = "wait" /\ Cgi!Alive /\ Cgi!Goto(r, l) /\ Cgi!Shuts(Server, S)
        /\ child[r].state \in {"fine", "bad"}
        /\ UNCHANGED << job, unwritten, got, child, fill >>
    BY DEF Cgi!Wait, Cgi!At
  <1>2. /\ CgiTypes'
        /\ step'[r] = l /\ open'[Server] = open[Server] \ S /\ open'[r] = open[r]
        /\ \A q \in Reactors : q # r => RunInv(q)'
    BY <1>1, LetsGo DEF RunLabels
  <1>3. BodyFlows(r)' /\ OutputFlows(r)' /\ ChildFollows(r)'
    <2>1. fill[Cgi!Out(r)] = 0 /\ got[r] \in Nat
      BY <1>1 DEF CgiInv, CgiTypes, RunInv, OutputFlows
    <2> QED
      BY <1>1, <1>2, <2>1 DEF CgiInv, RunInv, BodyFlows, OutputFlows, ChildFollows
  <1>4. EndsAreHeld(r)'
    BY <1>1, <1>2 DEF CgiInv, RunInv, EndsAreHeld
  <1> QED
    BY <1>2, <1>3, <1>4 DEF CgiInv, RunInv

\* One item goes into a pipe or out of it; the rest of the affairs stays.
LEMMA WritesBody ==
  ASSUME CgiInv, NEW r \in Reactors, Cgi!WriteBody(r)
  PROVE  CgiInv'
  <1> USE DEF CgiInv, CgiTypes
  <1>1. /\ step[r] = "write" /\ Cgi!Alive /\ unwritten[r] > 0
        /\ UNCHANGED << job, got, child >>
    BY DEF Cgi!WriteBody, Cgi!At
  <1>2. CASE /\ fill[Cgi!In(r)] < PipeSize
             /\ fill' = [fill EXCEPT ![Cgi!In(r)] = @ + 1]
             /\ unwritten' = [unwritten EXCEPT ![r] = @ - 1]
             /\ UNCHANGED << step, open >>
    <2>1. CgiTypes'
      BY <1>1, <1>2, PipesThere, PipesHaveRoom
    <2>2. /\ fill'[Cgi!In(r)] = fill[Cgi!In(r)] + 1 /\ fill'[Cgi!Out(r)] = fill[Cgi!Out(r)]
          /\ unwritten'[r] = unwritten[r] - 1
          /\ fill[Cgi!In(r)] \in Nat /\ unwritten[r] \in Nat
      BY <1>2, PipesThere, PipesDiffer, PipesHaveRoom
    <2>3. BodyFlows(r)' /\ OutputFlows(r)' /\ ChildFollows(r)'
      BY <1>1, <1>2, <2>2 DEF RunInv, BodyFlows, OutputFlows, ChildFollows
    <2>4. EndsAreHeld(r)'
      BY <1>1, <1>2 DEF RunInv, EndsAreHeld, Cgi!Alive
    <2>5. ASSUME NEW q \in Reactors, q # r PROVE RunInv(q)'
      BY <1>1, <1>2, <2>5, PipesThere, PipesDiffer, OthersStay DEF Cgi!Alive
    <2> QED
      BY <2>1, <2>3, <2>4, <2>5 DEF RunInv
  <1>3. CASE /\ Cgi!Goto(r, "killed") /\ open' = [open EXCEPT ![Server] = {}]
             /\ UNCHANGED << fill, unwritten >>
    <2>1. CgiTypes'
      BY <1>1, <1>3 DEF Cgi!Goto, RunLabels
    <2>2. /\ step'[r] = "killed" /\ \A q \in Reactors : q # r => step'[q] = step[q]
          /\ open'[Server] = {} /\ \A q \in Reactors : open'[q] = open[q]
      BY <1>3, ProcessesDiffer DEF Cgi!Goto
    <2>3. ~Cgi!Alive'
      BY <2>2 DEF Cgi!Alive
    <2>4. BodyFlows(r)' /\ OutputFlows(r)' /\ ChildFollows(r)'
      BY <1>1, <1>3, <2>2 DEF RunInv, BodyFlows, OutputFlows, ChildFollows
    <2>5. EndsAreHeld(r)'
      BY <1>1, <2>2, <2>3 DEF RunInv, EndsAreHeld
    <2>6. ASSUME NEW q \in Reactors, q # r PROVE RunInv(q)'
      BY <1>1, <1>3, <2>2, <2>3, <2>6, OthersStay
    <2> QED
      BY <2>1, <2>4, <2>5, <2>6 DEF RunInv
  <1> QED
    BY <1>2, <1>3 DEF Cgi!WriteBody

LEMMA ReadsOutput ==
  ASSUME CgiInv, NEW r \in Reactors, Cgi!ReadOutput(r)
  PROVE  CgiInv'
  <1> USE DEF CgiInv, CgiTypes
  <1>1. /\ step[r] = "read" /\ fill[Cgi!Out(r)] > 0
        /\ fill' = [fill EXCEPT ![Cgi!Out(r)] = @ - 1]
        /\ got' = [got EXCEPT ![r] = @ + 1]
        /\ UNCHANGED << job, step, unwritten, child, open >>
    BY DEF Cgi!ReadOutput, Cgi!At
  <1>2. CgiTypes'
    BY <1>1, PipesThere, PipesHaveRoom
  <1>3. /\ fill'[Cgi!In(r)] = fill[Cgi!In(r)] /\ fill'[Cgi!Out(r)] = fill[Cgi!Out(r)] - 1
        /\ got'[r] = got[r] + 1
        /\ fill[Cgi!Out(r)] \in Nat /\ got[r] \in Nat
    BY <1>1, PipesThere, PipesDiffer, PipesHaveRoom
  <1>4. BodyFlows(r)' /\ OutputFlows(r)' /\ ChildFollows(r)'
    <2>1. BodyFlows(r)' /\ ChildFollows(r)'
      BY <1>1, <1>3 DEF RunInv, BodyFlows, ChildFollows
    <2>2. child[r].state \notin {"none", "forked"} /\ child[r].output \in Nat
      BY <1>1, <1>3 DEF RunInv, OutputFlows
    <2>3. got'[r] + fill'[Cgi!Out(r)] = got[r] + fill[Cgi!Out(r)]
      <3> HIDE DEF CgiInv, CgiTypes
      <3> QED
        BY <1>3
    <2>4. child[r].state = "runs" =>
            got'[r] + fill'[Cgi!Out(r)] + child[r].output = job[r].output
      BY <2>3 DEF RunInv, OutputFlows
    <2>5. child[r].state = "fine" => job[r].fine /\ got'[r] + fill'[Cgi!Out(r)] = job[r].output
      BY <2>3 DEF RunInv, OutputFlows
    <2>6. OutputFlows(r)'
      BY <1>1, <2>2, <2>4, <2>5 DEF OutputFlows
    <2> QED
      BY <2>1, <2>6
  <1>5. EndsAreHeld(r)'
    BY <1>1 DEF RunInv, EndsAreHeld, Cgi!Alive
  <1>6. ASSUME NEW q \in Reactors, q # r PROVE RunInv(q)'
    BY <1>1, <1>6, PipesThere, PipesDiffer, OthersStay DEF Cgi!Alive
  <1> QED
    BY <1>2, <1>4, <1>5, <1>6 DEF RunInv

\* What a child does is its own affair, and that of its own pipes.
LEMMA ChildsStep ==
  ASSUME CgiInv, NEW r \in Reactors,
         UNCHANGED << job, step, unwritten, got >>,
         \A q \in Reactors : q # r => child'[q] = child[q] /\ open'[q] = open[q],
         open'[Server] = open[Server],
         \A p \in CgiPipes : p \notin {Cgi!In(r), Cgi!Out(r)} => fill'[p] = fill[p],
         NEW q \in Reactors, q # r
  PROVE  RunInv(q)'
  BY PipesThere, PipesDiffer, OthersStay DEF CgiInv, Cgi!Alive

LEMMA Leaving ==
  ASSUME CgiInv, NEW r \in Reactors, NEW how \in {"fine", "bad"}, Cgi!Leaves(r, how),
         child[r].state \in {"forked", "runs"},
         how = "fine" => job[r].fine /\ got[r] + fill[Cgi!Out(r)] = job[r].output,
         UNCHANGED << job, step, unwritten, got, fill >>
  PROVE  CgiInv'
  <1> USE DEF CgiInv, CgiTypes
  <1>1. CgiTypes'
    BY DEF Cgi!Leaves, ChildStates
  <1>2. /\ child'[r].state = how /\ open'[r] = {} /\ open'[Server] = open[Server]
        /\ \A q \in Reactors : q # r => child'[q] = child[q] /\ open'[q] = open[q]
    BY ProcessesDiffer DEF Cgi!Leaves
  <1>3. step[r] \in {"parent", "write", "read", "killed"}
    BY DEF RunInv, ChildFollows
  <1>4. BodyFlows(r)' /\ OutputFlows(r)' /\ ChildFollows(r)'
    BY <1>2, <1>3 DEF RunInv, BodyFlows, OutputFlows, ChildFollows
  <1>5. EndsAreHeld(r)'
    BY <1>2, <1>3 DEF RunInv, EndsAreHeld, Cgi!Alive
  <1>6. \A q \in Reactors : q # r => RunInv(q)'
    BY <1>2, ChildsStep
  <1> QED
    BY <1>1, <1>4, <1>5, <1>6 DEF RunInv

LEMMA TakesTheScript ==
  ASSUME CgiInv, NEW r \in Reactors, Cgi!Become(r)
  PROVE  CgiInv'
  <1>1. child[r].state = "forked" /\ UNCHANGED << job, step, unwritten, got, fill >>
    BY DEF Cgi!Become
  <1>2. CASE Cgi!Leaves(r, "bad")
    BY <1>1, <1>2, Leaving
  <1>3. CASE /\ child' = [child EXCEPT ![r] =
                    [state |-> "runs", output |-> job[r].output,
                     unread |-> IF job[r].reads = "nothing" THEN 0 ELSE job[r].body]]
             /\ open' = [open EXCEPT ![r] = Cgi!Closed(r, @)]
    <2> USE DEF CgiInv, CgiTypes
    <2>1. job[r].body \in Nat /\ job[r].output \in Nat
      BY JobsAreJobs
    <2>2. CgiTypes'
      BY <1>1, <1>3, <2>1 DEF ChildStates
    <2>3. /\ child'[r] = [state |-> "runs", output |-> job[r].output,
                          unread |-> IF job[r].reads = "nothing" THEN 0 ELSE job[r].body]
          /\ open'[r] = Cgi!Closed(r, open[r]) /\ open'[Server] = open[Server]
          /\ \A q \in Reactors : q # r => child'[q] = child[q] /\ open'[q] = open[q]
      BY <1>3, ProcessesDiffer
    <2>4. /\ step[r] \in {"parent", "write", "read", "killed"}
          /\ fill[Cgi!In(r)] + unwritten[r] = job[r].body
          /\ got[r] = 0 /\ fill[Cgi!Out(r)] = 0
      BY <1>1 DEF RunInv, BodyFlows, OutputFlows, ChildFollows
    <2>5. BodyFlows(r)' /\ OutputFlows(r)' /\ ChildFollows(r)'
      <3>1. /\ child'[r].state = "runs" /\ child'[r].output = job[r].output
            /\ child'[r].unread = IF job[r].reads = "nothing" THEN 0 ELSE job[r].body
        BY <2>3
      <3>2. step[r] = "read" => unwritten[r] = 0
        BY DEF RunInv, BodyFlows
      <3>3. BodyFlows(r)'
        BY <1>1, <2>4, <3>1, <3>2 DEF BodyFlows
      <3>4. OutputFlows(r)'
        <4>1. got[r] + fill[Cgi!Out(r)] + child'[r].output = job[r].output
          <5> HIDE DEF CgiInv, CgiTypes
          <5> QED
            BY <2>1, <2>4, <3>1
        <4> QED
          BY <1>1, <2>4, <3>1, <4>1 DEF OutputFlows
      <3>5. ChildFollows(r)'
        BY <1>1, <2>4, <3>1 DEF ChildFollows
      <3> QED
        BY <3>3, <3>4, <3>5
    <2>6. EndsAreHeld(r)'
      <3>1. Cgi!Own(r) \subseteq Cgi!Closed(r, open[r])
        BY DEF Cgi!Closed
      <3>2. << Cgi!In(r), "w" >> \notin Cgi!Closed(r, open[r])
        BY TwoEnds, PipesDiffer DEF Cgi!Closed, Cgi!Own
      <3> QED
        <4>1. /\ child'[r].state = "runs" /\ open'[r] = Cgi!Closed(r, open[r])
              /\ open'[Server] = open[Server]
          BY <2>3
        <4>2. EndsAreHeld(r)
          BY DEF RunInv
        <4> HIDE DEF CgiInv, CgiTypes
        <4> QED
          BY <1>1, <2>4, <3>1, <3>2, <4>1, <4>2 DEF EndsAreHeld, Cgi!Alive
    <2>7. \A q \in Reactors : q # r => RunInv(q)'
      BY <1>1, <2>3, ChildsStep
    <2> QED
      BY <2>2, <2>5, <2>6, <2>7 DEF RunInv
  <1> QED
    BY <1>2, <1>3 DEF Cgi!Become

LEMMA Reads ==
  ASSUME CgiInv, NEW r \in Reactors, Cgi!Read(r)
  PROVE  CgiInv'
  <1> USE DEF CgiInv, CgiTypes
  <1>1. /\ child[r].state = "runs" /\ child[r].unread > 0 /\ fill[Cgi!In(r)] > 0
        /\ child' = [child EXCEPT ![r].unread = @ - 1]
        /\ fill' = [fill EXCEPT ![Cgi!In(r)] = @ - 1]
        /\ UNCHANGED << job, step, unwritten, got, open >>
    BY DEF Cgi!Read, Cgi!MayRead
  <1>2. CgiTypes'
    BY <1>1, PipesThere, PipesHaveRoom
  <1>3. /\ child'[r].state = "runs" /\ child'[r].unread = child[r].unread - 1
        /\ child'[r].output = child[r].output
        /\ \A q \in Reactors : q # r => child'[q] = child[q]
        /\ fill'[Cgi!In(r)] = fill[Cgi!In(r)] - 1 /\ fill'[Cgi!Out(r)] = fill[Cgi!Out(r)]
        /\ \A p \in CgiPipes : p # Cgi!In(r) => fill'[p] = fill[p]
        /\ fill[Cgi!In(r)] \in Nat /\ unwritten[r] \in Nat /\ child[r].unread \in Nat
    BY <1>1, PipesThere, PipesDiffer, PipesHaveRoom
  <1>4. BodyFlows(r)'
    BY <1>1, <1>3 DEF RunInv, BodyFlows
  <1>5. OutputFlows(r)' /\ ChildFollows(r)'
    BY <1>1, <1>3 DEF RunInv, OutputFlows, ChildFollows
  <1>6. EndsAreHeld(r)'
    BY <1>1, <1>3 DEF RunInv, EndsAreHeld, Cgi!Alive
  <1>7. \A q \in Reactors : q # r => RunInv(q)'
    BY <1>1, <1>3, ChildsStep
  <1> QED
    BY <1>2, <1>4, <1>5, <1>6, <1>7 DEF RunInv

LEMMA Writes ==
  ASSUME CgiInv, NEW r \in Reactors, Cgi!Write(r)
  PROVE  CgiInv'
  <1> USE DEF CgiInv, CgiTypes
  <1>1. /\ child[r].state = "runs" /\ child[r].output > 0
        /\ UNCHANGED << job, step, unwritten, got >>
    BY DEF Cgi!Write, Cgi!MayWrite
  <1>2. CASE Cgi!Leaves(r, "bad") /\ UNCHANGED fill
    BY <1>1, <1>2, Leaving
  <1>3. CASE /\ fill[Cgi!Out(r)] < PipeSize
             /\ fill' = [fill EXCEPT ![Cgi!Out(r)] = @ + 1]
             /\ child' = [child EXCEPT ![r].output = @ - 1]
             /\ UNCHANGED open
    <2>1. CgiTypes'
      BY <1>1, <1>3, PipesThere, PipesHaveRoom
    <2>2. /\ child'[r].state = "runs" /\ child'[r].output = child[r].output - 1
          /\ child'[r].unread = child[r].unread
          /\ \A q \in Reactors : q # r => child'[q] = child[q]
          /\ fill'[Cgi!Out(r)] = fill[Cgi!Out(r)] + 1 /\ fill'[Cgi!In(r)] = fill[Cgi!In(r)]
          /\ \A p \in CgiPipes : p # Cgi!Out(r) => fill'[p] = fill[p]
          /\ fill[Cgi!Out(r)] \in Nat /\ got[r] \in Nat /\ child[r].output \in Nat
      BY <1>1, <1>3, PipesThere, PipesDiffer, PipesHaveRoom
    <2>3. BodyFlows(r)' /\ ChildFollows(r)'
      BY <1>1, <2>2 DEF RunInv, BodyFlows, ChildFollows
    <2>4. OutputFlows(r)'
      <3>1. got[r] + fill[Cgi!Out(r)] + child[r].output = job[r].output
        BY <1>1 DEF RunInv, OutputFlows
      <3>2. step[r] \in {"parent", "write", "read", "killed"}
        BY <1>1 DEF RunInv, ChildFollows
      <3>3. got[r] + (fill[Cgi!Out(r)] + 1) + (child[r].output - 1) = job[r].output
        <4> HIDE DEF CgiInv, CgiTypes
        <4> QED
          BY <2>2, <3>1
      <3> QED
        BY <1>1, <2>2, <3>2, <3>3 DEF OutputFlows
    <2>5. EndsAreHeld(r)'
      BY <1>1, <1>3, <2>2 DEF RunInv, EndsAreHeld, Cgi!Alive
    <2>6. \A q \in Reactors : q # r => RunInv(q)'
      BY <1>1, <1>3, <2>2, ChildsStep
    <2> QED
      BY <2>1, <2>3, <2>4, <2>5, <2>6 DEF RunInv
  <1> QED
    BY <1>2, <1>3 DEF Cgi!Write

LEMMA Finishes ==
  ASSUME CgiInv, NEW r \in Reactors, Cgi!Finish(r)
  PROVE  CgiInv'
  <1>1. /\ child[r].state = "runs" /\ child[r].output = 0
        /\ Cgi!Leaves(r, IF job[r].fine THEN "fine" ELSE "bad")
        /\ UNCHANGED << job, step, unwritten, got, fill >>
    BY DEF Cgi!Finish
  <1>2. got[r] + fill[Cgi!Out(r)] = job[r].output
    BY <1>1, PipesThere, PipesHaveRoom DEF CgiInv, CgiTypes, RunInv, OutputFlows
  <1>3. CASE job[r].fine
    BY <1>1, <1>2, <1>3, Leaving
  <1>4. CASE ~job[r].fine
    BY <1>1, <1>2, <1>4, Leaving
  <1> QED
    BY <1>3, <1>4

LEMMA CgiInvStep == CgiInv /\ [Cgi!Next]_(Cgi!vars) => CgiInv'
  <1>1. ASSUME CgiInv, UNCHANGED Cgi!vars PROVE CgiInv'
    <2>1. UNCHANGED << job, step, unwritten, got, child, fill, open >>
      BY <1>1 DEF Cgi!vars
    <2>2. CgiTypes'
      BY <1>1, <2>1 DEF CgiInv, CgiTypes
    <2>3. ASSUME NEW q \in Reactors PROVE RunInv(q)'
      BY <1>1, <2>1, OthersStay DEF CgiInv, Cgi!Alive
    <2> QED
      BY <2>2, <2>3 DEF CgiInv
  <1>2. ASSUME CgiInv, NEW r \in Reactors, Cgi!Run(r) PROVE CgiInv'
    BY <1>2, MakesPipes, Forks, ClosesChildsEnds, WritesBody, ClosesBody, ReadsOutput,
       EndsOutput, Waits DEF Cgi!Run
  <1>3. ASSUME CgiInv, NEW r \in Reactors, Cgi!Script(r) PROVE CgiInv'
    BY <1>3, TakesTheScript, Reads, Writes, Finishes DEF Cgi!Script
  <1> QED
    BY <1>1, <1>2, <1>3 DEF Cgi!Next

-----------------------------------------------------------------------------
(***************************************************************************)
(* Why nothing else hangs.  A script that runs and cannot move waits for   *)
(* room in its output, which the server has not come to read, or for the   *)
(* end of an input that somebody else holds; a reactor that cannot move    *)
(* waits for a script that runs, its own or one that has inherited.        *)
(***************************************************************************)
LEMMA StuckScript ==
  ASSUME CgiInv, Cgi!Alive, Cgi!Stuck, NEW q \in Reactors, child[q].state = "runs"
  PROVE  Cgi!BothFull(q) \/ Cgi!KeptOpen(q)
  <1>1. ~Cgi!RunMoves(q) /\ ~Cgi!ScriptMoves(q)
    BY DEF Cgi!Stuck
  <1>2. /\ step[q] = "write" \/ step[q] = "read"
        /\ << Cgi!In(q), "r" >> \in open[q] /\ << Cgi!In(q), "w" >> \notin open[q]
        /\ << Cgi!Out(q), "r" >> \in open[Server]
        /\ step[q] = "read" => << Cgi!In(q), "w" >> \notin open[Server]
    BY <1>1 DEF CgiInv, RunInv, ChildFollows, EndsAreHeld, Cgi!Own, Cgi!RunMoves, Cgi!Alive
  <1>3. /\ fill[Cgi!In(q)] \in 0 .. PipeSize /\ fill[Cgi!Out(q)] \in 0 .. PipeSize
        /\ unwritten[q] \in Nat /\ child[q].unread \in Nat /\ child[q].output \in Nat
        /\ job[q].writesFirst \in BOOLEAN
    BY PipesThere, JobsAreJobs DEF CgiInv, CgiTypes
  <1>4. /\ child[q].unread = IF job[q].reads = "nothing" THEN 0
                             ELSE fill[Cgi!In(q)] + unwritten[q]
        /\ step[q] = "read" => unwritten[q] = 0
    BY DEF CgiInv, RunInv, BodyFlows
  <1>5. Cgi!Held(Cgi!Out(q), "r") /\ Cgi!Held(Cgi!In(q), "r")
    BY <1>2, ProcessesDiffer DEF Cgi!Held, Cgi!Open
  <1>6. step[q] = "write" => unwritten[q] # 0 /\ fill[Cgi!In(q)] = PipeSize
    BY <1>1, <1>3, <1>5, PipesHaveRoom DEF Cgi!RunMoves
  <1>7. step[q] = "read" => fill[Cgi!Out(q)] = 0
    BY <1>1, <1>3, PipesHaveRoom DEF Cgi!RunMoves
  <1>8. CASE Cgi!MayWrite(q) /\ child[q].output > 0
    <2>1. fill[Cgi!Out(q)] = PipeSize
      BY <1>1, <1>3, <1>5, <1>8, PipesHaveRoom DEF Cgi!ScriptMoves
    <2> QED
      BY <1>2, <1>6, <1>7, <2>1, PipesHaveRoom DEF Cgi!BothFull
  <1>9. CASE ~(Cgi!MayWrite(q) /\ child[q].output > 0)
    <2>1. Cgi!MayRead(q)
      BY <1>3, <1>9 DEF Cgi!MayRead, Cgi!MayWrite
    <2>2. child[q].unread = 0
      \* Or the pipe is empty, and run has still to write.
      <3> SUFFICES ASSUME child[q].unread # 0 PROVE FALSE
        OBVIOUS
      <3>1. fill[Cgi!In(q)] = 0
        BY <1>1, <1>3, <2>1, PipesHaveRoom DEF Cgi!ScriptMoves
      <3>2. step[q] = "read"
        BY <1>2, <1>6, <3>1, PipesHaveRoom
      <3> QED
        BY <1>4, <3>1, <3>2
    <2>3. ~Cgi!HasRead(q)
      <3>1. CASE child[q].output = 0
        BY <1>1, <3>1 DEF Cgi!ScriptMoves
      <3>2. CASE child[q].output # 0
        BY <1>3, <1>9, <3>2 DEF Cgi!MayWrite
      <3> QED
        BY <3>1, <3>2
    <2>4. job[q].reads = "end" /\ (fill[Cgi!In(q)] # 0 \/ Cgi!Held(Cgi!In(q), "w"))
      BY <2>2, <2>3 DEF Cgi!HasRead
    <2>5. fill[Cgi!In(q)] = 0 /\ unwritten[q] = 0
      <3>1. fill[Cgi!In(q)] + unwritten[q] = 0
        BY <1>4, <2>2, <2>4
      <3> QED
        BY <1>3, <3>1, PipesHaveRoom
    <2>6. step[q] = "read"
      BY <1>2, <1>6, <2>5
    <2>7. PICK p \in Cgi!Processes : Cgi!Open(p, Cgi!In(q), "w")
      BY <2>4, <2>5 DEF Cgi!Held
    <2>8. p \in Reactors \ {q}
      BY <1>2, <2>6, <2>7 DEF Cgi!Processes, Cgi!Open
    <2> QED
      BY <2>4, <2>7, <2>8 DEF Cgi!KeptOpen
  <1> QED
    BY <1>8, <1>9

LEMMA StuckReactor ==
  ASSUME CgiInv, Cgi!Alive, Cgi!Stuck, NEW r \in Reactors, ~Cgi!Over(r)
  PROVE  \E q \in Reactors : child[q].state = "runs"
  <1> USE DEF CgiInv, CgiTypes
  <1>1. ~Cgi!RunMoves(r)
    BY DEF Cgi!Stuck
  <1>2. PICK pipe0 \in {Cgi!In(r), Cgi!Out(r)}, side \in {"r", "w"} :
           /\ Cgi!Held(pipe0, side)
           /\ << pipe0, side >> \notin open[Server]
    <2>1. step[r] \in {"write", "read"}
      BY <1>1 DEF RunLabels, Cgi!RunMoves, Cgi!Over, RunInv, ChildFollows
    <2>2. CASE step[r] = "write"
      BY <1>1, <2>2 DEF Cgi!RunMoves, RunInv, EndsAreHeld
    <2>3. CASE step[r] = "read"
      BY <1>1, <2>3 DEF Cgi!RunMoves, RunInv, EndsAreHeld
    <2> QED
      BY <2>1, <2>2, <2>3
  <1>3. PICK p \in Cgi!Processes : << pipe0, side >> \in open[p]
    BY <1>2 DEF Cgi!Held, Cgi!Open
  <1>4. p \in Reactors
    BY <1>2, <1>3 DEF Cgi!Processes
  <1>5. child[p].state \in {"forked", "runs"}
    BY <1>3, <1>4 DEF RunInv, EndsAreHeld
  <1>6. child[p].state # "forked"
    BY <1>4 DEF Cgi!Stuck, Cgi!ScriptMoves
  <1> QED
    BY <1>4, <1>5, <1>6

LEMMA CgiReturns == CgiInv => Cgi!ReturnsOrHangs
  <1> SUFFICES ASSUME CgiInv PROVE Cgi!ReturnsOrHangs
    OBVIOUS
  <1>1. \A r \in Reactors : step[r] = "answered" => job[r].fine /\ got[r] = job[r].output
    BY DEF CgiInv, RunInv, OutputFlows
  <1>2. ASSUME NEW r \in Reactors, ~Cgi!Over(r), Cgi!Alive, Cgi!Stuck
        PROVE  \E q \in Reactors : Cgi!BothFull(q) \/ Cgi!KeptOpen(q)
    BY <1>2, StuckReactor, StuckScript
  <1> QED
    BY <1>1, <1>2 DEF Cgi!ReturnsOrHangs

-----------------------------------------------------------------------------
(***************************************************************************)
(* The containers.  What is served is what the guard of the last start     *)
(* found: as long as nothing was cut, a container that is not in the       *)
(* middle of its set-up has either not begun or finished it.               *)
(***************************************************************************)
WordpressAllOrNothing ==
  "config" \in site /\ wordpress # "setting up" => Boxes!Whole \/ "wordpress" \in cut

MariadbAllOrNothing ==
  "directory" \in data /\ "user" \notin data /\ mariadb \notin {"installing", "initialising"}
    => "mariadb" \in cut

\* Who serves has at least what the guard looks for; the user comes last.
ServesBehindTheGuard ==
  /\ wordpress = "serving" => "config" \in site
  /\ mariadb \in {"starting", "serving", "initialising"} => "directory" \in data

SiteInv == WordpressAllOrNothing /\ MariadbAllOrNothing /\ ServesBehindTheGuard

-----------------------------------------------------------------------------
LEMMA SiteInvInit == Boxes!Init => SiteInv
  BY DEF Boxes!Init, SiteInv, WordpressAllOrNothing, MariadbAllOrNothing, ServesBehindTheGuard

\* The whole site has the first step's file.
LEMMA WholeHasConfig == Boxes!Whole => "config" \in site
  <1>1. 1 \in DOMAIN Boxes!Steps /\ Boxes!Steps[1] = "config"
    BY DEF Boxes!Steps
  <1> QED
    BY <1>1 DEF Boxes!Whole

\* Each action of the three scripts.
LEMMA MariadbKeepsInv == SiteInv /\ Boxes!Mariadb => SiteInv'
  <1> USE DEF SiteInv, WordpressAllOrNothing, MariadbAllOrNothing, ServesBehindTheGuard,
              Boxes!Whole, Boxes!wp, Boxes!ng, Boxes!faults
  <1>1. CASE SiteInv /\ Boxes!StartMariadb
    BY <1>1 DEF Boxes!StartMariadb
  <1>2. CASE SiteInv /\ Boxes!InstallDatabase
    BY <1>2 DEF Boxes!InstallDatabase
  <1>3. CASE SiteInv /\ Boxes!RunInitFile
    BY <1>3 DEF Boxes!RunInitFile
  <1>4. CASE SiteInv /\ Boxes!StartServer
    BY <1>4 DEF Boxes!StartServer
  <1> QED
    BY <1>1, <1>2, <1>3, <1>4 DEF Boxes!Mariadb

LEMMA WordpressKeepsInv == SiteInv /\ Boxes!Wordpress => SiteInv'
  <1> SUFFICES ASSUME SiteInv, Boxes!Wordpress PROVE SiteInv'
    OBVIOUS
  <1> USE DEF SiteInv, WordpressAllOrNothing, MariadbAllOrNothing, ServesBehindTheGuard,
              Boxes!db, Boxes!ng, Boxes!faults
  <1>1. CASE Boxes!StartWordpress
    BY <1>1 DEF Boxes!StartWordpress, Boxes!Whole
  <1>2. CASE Boxes!SetUp
    <2>1. MariadbAllOrNothing' /\ (mariadb' \in {"starting", "serving", "initialising"}
                                     => "directory" \in data')
      BY <1>2 DEF Boxes!SetUp
    <2>2. CASE Boxes!Whole
      <3>1. wordpress' = "serving" /\ site' = site
        BY <1>2, <2>2 DEF Boxes!SetUp, Boxes!Whole
      <3>2. Boxes!Whole'
        BY <2>2, <3>1 DEF Boxes!Whole
      <3> QED
        BY <2>1, <2>2, <3>1, <3>2, WholeHasConfig
    <2>3. CASE ~Boxes!Whole /\ Boxes!NextStep \in Boxes!NeedDatabase /\ ~Boxes!DatabaseAnswers
      <3>1. wordpress' = "restarting" /\ site' = site
        BY <1>2, <2>3 DEF Boxes!SetUp, Boxes!Whole, Boxes!Fails
      <3>2. "config" \in site => "wordpress" \in cut'
        BY <1>2, <3>1 DEF Boxes!SetUp
      <3> QED
        BY <2>1, <3>1, <3>2
    <2>4. CASE ~Boxes!Whole /\ ~(Boxes!NextStep \in Boxes!NeedDatabase /\ ~Boxes!DatabaseAnswers)
      <3>1. wordpress' = "setting up"
        BY <1>2, <2>4 DEF Boxes!SetUp, Boxes!Whole, Boxes!Does
      <3> QED
        BY <2>1, <3>1
    <2> QED
      BY <2>2, <2>3, <2>4
  <1> QED
    BY <1>1, <1>2 DEF Boxes!Wordpress

LEMMA KillKeepsInv == ASSUME NEW c \in {"mariadb", "wordpress", "nginx"}, SiteInv, Boxes!Kill(c)
                      PROVE  SiteInv'
  BY DEF SiteInv, WordpressAllOrNothing, MariadbAllOrNothing, ServesBehindTheGuard,
         Boxes!Kill, Boxes!HalfWay, Boxes!Whole, Boxes!db, Boxes!wp, Boxes!ng

LEMMA SiteInvStep == SiteInv /\ [Boxes!Next]_(Boxes!vars) => SiteInv'
  <1>1. ASSUME SiteInv, Boxes!Nginx PROVE SiteInv'
    BY <1>1 DEF Boxes!Nginx, Boxes!StartNginx, Boxes!MakeCertificate, Boxes!RunNginx,
                Boxes!db, Boxes!wp, Boxes!faults, SiteInv, WordpressAllOrNothing,
                MariadbAllOrNothing, ServesBehindTheGuard, Boxes!Whole
  <1>2. ASSUME SiteInv, UNCHANGED Boxes!vars PROVE SiteInv'
    BY <1>2 DEF Boxes!vars, SiteInv, WordpressAllOrNothing, MariadbAllOrNothing,
                ServesBehindTheGuard, Boxes!Whole
  <1> QED
    BY <1>1, <1>2, MariadbKeepsInv, WordpressKeepsInv, KillKeepsInv DEF Boxes!Next

-----------------------------------------------------------------------------
(***************************************************************************)
(* The handlers of files.  What the theorems take of the constants.        *)
(***************************************************************************)
LEMMA HandlersAssume ==
  /\ IsFiniteSet(Reactors) /\ MaxOpen \in Nat /\ Bodies \subseteq Seq(Files!Byte)
  /\ Removed \notin Nat /\ Removed \notin Seq(Files!Byte)
  BY HandlersAreGiven DEF Files!Parameters, Files!IsFiniteSet, IsFiniteSet

(***************************************************************************)
(* The inductive invariant.  A handler has seen what the file is now, and  *)
(* at each of its steps it has seen already what its answer will rest on:  *)
(* what a size was taken of, what a removal finds, what an upload emptied. *)
(* "made" is the number of inodes, "held" the number of descriptors that   *)
(* answers hold, "full" says that the disk is: none of them ever goes      *)
(* back, which is why an answer stays justified.                           *)
(***************************************************************************)
Codes    == {0, 200, 201, 204, 400, 403, 404, 500}
Labels   == {"idle", "route", "GET", "DELETE", "write", "undo", "flush", "answered"}
Contents == Seq(Files!Byte) \cup {Removed}

Saw(h)   == \E c \in h.seen \ {Removed} : Len(c) = h.size
Found(h) == h.seen \ {Removed} # {}

IsRecord(h) == h = [at |-> h.at, req |-> h.req, inode |-> h.inode, size |-> h.size,
                    answer |-> h.answer, seen |-> h.seen, others |-> h.others]

TypeOf(h, made) ==
  /\ IsRecord(h)
  /\ h.at \in Labels /\ h.answer \in Codes /\ h.size \in Nat
  /\ h.inode \in {Removed} \cup 1 .. made
  /\ h.seen \subseteq Contents /\ h.others \subseteq Reactors
  /\ h.at # "idle" => h.req \in Files!Requests

HandlerWorks(h, made, full) ==
  /\ h.at # "answered" => h.answer = 0
  /\ h.at \in {"GET", "DELETE"} => h.req.method = h.at /\ h.req.target = "file" /\ Saw(h)
  /\ h.at \in {"write", "flush", "undo"} =>
       h.req.method = "POST" /\ h.req.target = "file" /\ h.inode \in 1 .. made /\ << >> \in h.seen
  /\ h.at = "undo" => full

Justified(h, held, full) ==
  h.at = "answered" =>
    /\ h.answer = 404 => Removed \in h.seen
    /\ h.answer = 200 => Saw(h)
    /\ h.answer = 204 => Removed \in h.seen /\ Found(h)
    /\ h.answer = 201 => << >> \in h.seen
    /\ h.answer = 500 => \/ h.req.target = "directory"
                         \/ full /\ h.req.method = "POST"
                         \/ held = MaxOpen /\ h.req.method = "GET"
                         \/ Removed \in h.seen /\ Found(h)
    /\ h.answer \in {0, 400, 403} => h.req.target # "file"

Good(h, made, held, full) == TypeOf(h, made) /\ HandlerWorks(h, made, full) /\ Justified(h, held, full)

Store == /\ inodes \in Seq(Seq(Files!Byte))
         /\ dir \in {Removed} \cup 1 .. Len(inodes)
         /\ fds \in Seq({Removed} \cup Nat) /\ Len(fds) <= MaxOpen
         /\ diskFull \in BOOLEAN

Handlers == /\ handler = [r \in Reactors |-> handler[r]]
            /\ \A r \in Reactors : Good(handler[r], Len(inodes), Len(fds), diskFull)
            /\ \A r \in Reactors : Files!Running(r) => Files!File \in handler[r].seen

\* Each removal that was answered had a creation of its own, and so has the file
\* that is there.
Removers     == {r \in Reactors : handler[r].answer = 204}
RemovedOnce  == Cardinality(Removers) + (IF dir = Removed THEN 0 ELSE 1) <= Len(inodes)

MomentInv == Store /\ Handlers /\ RemovedOnce

\* Two that run at once know of each other; who knows of nobody has the file that
\* it emptied to itself.
Acquainted == \A r, q \in Reactors : r # q /\ Files!Running(r) /\ Files!Running(q) => q \in handler[r].others
AloneWithIt      == \A r \in Reactors :
                handler[r].at \in {"write", "flush"} /\ handler[r].others = {}
                  => dir = handler[r].inode /\ dir \in 1 .. Len(inodes) /\ inodes[dir] = << >>

UploadInv == MomentInv /\ Acquainted /\ AloneWithIt

-----------------------------------------------------------------------------
(***************************************************************************)
(* What the operators of the model do.                                     *)
(***************************************************************************)

\* A record with a new value of one field.
LEMMA NewAt ==
  ASSUME NEW h, IsRecord(h), NEW v, NEW g, g = [h EXCEPT !.at = v]
  PROVE  /\ IsRecord(g) /\ g.at = v /\ g.req = h.req /\ g.inode = h.inode /\ g.size = h.size
         /\ g.answer = h.answer /\ g.seen = h.seen /\ g.others = h.others
  <1>1. g = [at |-> v, req |-> h.req, inode |-> h.inode, size |-> h.size,
             answer |-> h.answer, seen |-> h.seen, others |-> h.others]
    BY DEF IsRecord
  <1> QED
    BY ONLY <1>1 DEF IsRecord

LEMMA NewReq ==
  ASSUME NEW h, IsRecord(h), NEW v, NEW g, g = [h EXCEPT !.req = v]
  PROVE  /\ IsRecord(g) /\ g.at = h.at /\ g.req = v /\ g.inode = h.inode /\ g.size = h.size
         /\ g.answer = h.answer /\ g.seen = h.seen /\ g.others = h.others
  <1>1. g = [at |-> h.at, req |-> v, inode |-> h.inode, size |-> h.size,
             answer |-> h.answer, seen |-> h.seen, others |-> h.others]
    BY DEF IsRecord
  <1> QED
    BY ONLY <1>1 DEF IsRecord

LEMMA NewInodeField ==
  ASSUME NEW h, IsRecord(h), NEW v, NEW g, g = [h EXCEPT !.inode = v]
  PROVE  /\ IsRecord(g) /\ g.at = h.at /\ g.req = h.req /\ g.inode = v /\ g.size = h.size
         /\ g.answer = h.answer /\ g.seen = h.seen /\ g.others = h.others
  <1>1. g = [at |-> h.at, req |-> h.req, inode |-> v, size |-> h.size,
             answer |-> h.answer, seen |-> h.seen, others |-> h.others]
    BY DEF IsRecord
  <1> QED
    BY ONLY <1>1 DEF IsRecord

LEMMA NewSize ==
  ASSUME NEW h, IsRecord(h), NEW v, NEW g, g = [h EXCEPT !.size = v]
  PROVE  /\ IsRecord(g) /\ g.at = h.at /\ g.req = h.req /\ g.inode = h.inode /\ g.size = v
         /\ g.answer = h.answer /\ g.seen = h.seen /\ g.others = h.others
  <1>1. g = [at |-> h.at, req |-> h.req, inode |-> h.inode, size |-> v,
             answer |-> h.answer, seen |-> h.seen, others |-> h.others]
    BY DEF IsRecord
  <1> QED
    BY ONLY <1>1 DEF IsRecord

LEMMA NewAnswer ==
  ASSUME NEW h, IsRecord(h), NEW v, NEW g, g = [h EXCEPT !.answer = v]
  PROVE  /\ IsRecord(g) /\ g.at = h.at /\ g.req = h.req /\ g.inode = h.inode /\ g.size = h.size
         /\ g.answer = v /\ g.seen = h.seen /\ g.others = h.others
  <1>1. g = [at |-> h.at, req |-> h.req, inode |-> h.inode, size |-> h.size,
             answer |-> v, seen |-> h.seen, others |-> h.others]
    BY DEF IsRecord
  <1> QED
    BY ONLY <1>1 DEF IsRecord

LEMMA NewSeen ==
  ASSUME NEW h, IsRecord(h), NEW v, NEW g, g = [h EXCEPT !.seen = v]
  PROVE  /\ IsRecord(g) /\ g.at = h.at /\ g.req = h.req /\ g.inode = h.inode /\ g.size = h.size
         /\ g.answer = h.answer /\ g.seen = v /\ g.others = h.others
  <1>1. g = [at |-> h.at, req |-> h.req, inode |-> h.inode, size |-> h.size,
             answer |-> h.answer, seen |-> v, others |-> h.others]
    BY DEF IsRecord
  <1> QED
    BY ONLY <1>1 DEF IsRecord

LEMMA NewOthers ==
  ASSUME NEW h, IsRecord(h), NEW v, NEW g, g = [h EXCEPT !.others = v]
  PROVE  /\ IsRecord(g) /\ g.at = h.at /\ g.req = h.req /\ g.inode = h.inode /\ g.size = h.size
         /\ g.answer = h.answer /\ g.seen = h.seen /\ g.others = v
  <1>1. g = [at |-> h.at, req |-> h.req, inode |-> h.inode, size |-> h.size,
             answer |-> h.answer, seen |-> h.seen, others |-> v]
    BY DEF IsRecord
  <1> QED
    BY ONLY <1>1 DEF IsRecord

\* What is at work goes on seeing what the file becomes.
Sees(h, now) == [h EXCEPT !.seen = @ \union {now}]

\* A handler stays good as time goes by, and by seeing more.
LEMMA GoodLater ==
  ASSUME NEW h, NEW made \in Nat, NEW later \in Nat, made <= later, NEW held, NEW open2,
         held = MaxOpen => open2 = MaxOpen, NEW full, NEW full2, full => full2,
         Good(h, made, held, full)
  PROVE  Good(h, later, open2, full2)
  <1>1. TypeOf(h, later) /\ HandlerWorks(h, later, full2)
    BY DEF Good, TypeOf, HandlerWorks
  <1>2. Justified(h, open2, full2)
    BY DEF Good, Justified
  <1> QED
    BY <1>1, <1>2 DEF Good

LEMMA GoodSees ==
  ASSUME NEW h, NEW made \in Nat, NEW held, NEW full, NEW now \in Contents,
         Good(h, made, held, full)
  PROVE  Good(Sees(h, now), made, held, full) /\ now \in Sees(h, now).seen
  <1> DEFINE s == Sees(h, now)
  <1>1. IsRecord(h) /\ h.seen \subseteq Contents
    BY DEF Good, TypeOf
  <1>2. /\ IsRecord(s) /\ s.at = h.at /\ s.req = h.req /\ s.inode = h.inode /\ s.size = h.size
        /\ s.answer = h.answer /\ s.seen = h.seen \cup {now} /\ s.others = h.others
    BY <1>1, NewSeen DEF Sees
  <1> HIDE DEF s
  <1>3. (Saw(h) => Saw(s)) /\ (Found(h) => Found(s))
    BY <1>2 DEF Saw, Found
  <1>4. TypeOf(s, made)
    BY <1>1, <1>2 DEF Good, TypeOf
  <1>5. HandlerWorks(s, made, full)
    BY <1>2, <1>3 DEF Good, HandlerWorks
  <1>6. Justified(s, held, full)
    BY <1>2, <1>3 DEF Good, Justified
  <1>7. Good(s, made, held, full) /\ now \in s.seen
    BY <1>2, <1>4, <1>5, <1>6 DEF Good
  <1> QED
    BY <1>7 DEF s

\* What a file holds is a sequence of bytes, and nothing else is Absent.
FileFacts ==
  /\ Files!File \in Contents
  /\ Files!File = Removed <=> dir = Removed
  /\ dir # Removed => dir \in 1 .. Len(inodes) /\ Files!File = inodes[dir] /\ inodes[dir] \in Seq(Files!Byte)
  /\ << >> \in Contents /\ << >> # Removed
  /\ Len(inodes) \in Nat /\ Len(fds) \in Nat

LEMMA FileIsContents == Store => FileFacts
  <1> SUFFICES ASSUME Store PROVE FileFacts
    OBVIOUS
  <1>1. << >> \in Seq(Files!Byte) /\ Len(inodes) \in Nat /\ Len(fds) \in Nat
    BY DEF Store
  <1>2. << >> \in Contents /\ << >> # Removed
    BY <1>1, HandlersAssume DEF Contents
  <1>3. ASSUME dir # Removed
        PROVE  dir \in 1 .. Len(inodes) /\ Files!File = inodes[dir] /\ inodes[dir] \in Seq(Files!Byte)
    BY <1>3 DEF Store, Files!File
  <1>4. Files!File = Removed <=> dir = Removed
    BY <1>3, HandlersAssume DEF Files!File
  <1>5. Files!File \in Contents
    BY <1>3, <1>4 DEF Contents
  <1> QED
    BY <1>1, <1>2, <1>3, <1>4, <1>5 DEF FileFacts

LEMMA FileStaysContents == Store' => FileFacts'
  <1> QED
    BY FileIsContents, PTL

LEMMA OverIsBytes ==
  ASSUME NEW old \in Seq(Files!Byte), NEW body \in Seq(Files!Byte)
  PROVE  /\ Files!Over(old, body) \in Seq(Files!Byte)
         /\ old = << >> => Files!Over(old, body) = body
  <1>1. SubSeq(old, Len(body) + 1, Len(old)) \in Seq(Files!Byte)
    OBVIOUS
  <1>2. Files!Over(old, body) \in Seq(Files!Byte)
    BY <1>1 DEF Files!Over
  <1>3. ASSUME old = << >>
        PROVE  Files!Over(old, body) = body
    <2>1. Len(old) = 0 /\ Len(body) \in Nat
      BY <1>3
    <2>2. SubSeq(old, Len(body) + 1, Len(old)) = << >>
      BY <2>1, <1>1
    <2>3. body \o << >> = body
      BY ConcatEmptySeq
    <2> QED
      BY <2>2, <2>3 DEF Files!Over
  <1> QED
    BY <1>2, <1>3

-----------------------------------------------------------------------------
(***************************************************************************)
(* A step of one handler, seen from all of them.                           *)
(***************************************************************************)
LEMMA MovesTo ==
  ASSUME NEW r \in Reactors, NEW h, NEW now, Files!Moves(r, h, now)
  PROVE  /\ handler' = [q \in Reactors |-> handler'[q]]
         /\ handler'[r] = Sees(h, now)
         /\ \A q \in Reactors \ {r} :
              handler'[q] = IF Files!Running(q) THEN Sees(handler[q], now) ELSE handler[q]
  BY DEF Files!Moves, Sees

\* Where the stores have only grown and the one that moves is good, all are; and
\* nobody has forgotten whom it met.
LEMMA HandlersMove ==
  ASSUME Store, Store', Handlers,
         Len(inodes) <= Len(inodes'), Len(fds) <= Len(fds'), diskFull => diskFull',
         NEW r \in Reactors, Files!Running(r), NEW h, NEW now, now = Files!File', Files!Moves(r, h, now),
         IsRecord(h), Good(Sees(h, now), Len(inodes'), Len(fds'), diskFull')
  PROVE  Handlers'
  <1>1. /\ handler' = [q \in Reactors |-> handler'[q]]
        /\ handler'[r] = Sees(h, now)
        /\ \A q \in Reactors \ {r} :
             handler'[q] = IF Files!Running(q) THEN Sees(handler[q], now) ELSE handler[q]
    BY MovesTo
  <1>2. /\ Len(inodes) \in Nat /\ Len(inodes') \in Nat /\ now \in Contents
    BY FileIsContents, FileStaysContents DEF FileFacts
  <1>3. handler'[r] = Sees(h, now) /\ Good(handler'[r], Len(inodes'), Len(fds'), diskFull')
        /\ now \in handler'[r].seen
    BY <1>1, NewSeen DEF Sees
  <1>4. ASSUME NEW q \in Reactors \ {r}
        PROVE  /\ Good(handler'[q], Len(inodes'), Len(fds'), diskFull')
               /\ Files!Running(q) <=> Files!Running(q)'
               /\ Files!Running(q) => now \in handler'[q].seen
    <2> PICK g : g = handler[q]
      OBVIOUS
    <2>1. Good(g, Len(inodes), Len(fds), diskFull)
      BY DEF Handlers
    <2>2. Len(fds) = MaxOpen => Len(fds') = MaxOpen
      BY FileIsContents, FileStaysContents, HandlersAssume DEF FileFacts, Store
    <2>3. Good(g, Len(inodes'), Len(fds'), diskFull')
      BY <1>2, <2>1, <2>2, GoodLater
    <2>4. /\ Good(Sees(g, now), Len(inodes'), Len(fds'), diskFull')
          /\ now \in Sees(g, now).seen
      BY <1>2, <2>3, GoodSees
    <2>5. Sees(g, now).at = g.at
      BY <2>3 DEF Sees, Good, TypeOf
    <2> QED
      BY <1>1, <2>3, <2>4, <2>5 DEF Files!Running
  <1> QED
    BY <1>1, <1>3, <1>4 DEF Handlers

LEMMA AcquaintedMove ==
  ASSUME Handlers, Acquainted, NEW r \in Reactors, Files!Running(r), NEW h, NEW now,
         Files!Moves(r, h, now), h.others = handler[r].others, IsRecord(h)
  PROVE  /\ Acquainted'
         /\ \A q \in Reactors : handler'[q].others = handler[q].others
         /\ handler'[r].at = h.at /\ handler'[r].inode = h.inode
         /\ handler'[r].answer = h.answer
         /\ \A q \in Reactors \ {r} : /\ handler'[q].at = handler[q].at
                                      /\ handler'[q].inode = handler[q].inode
                                      /\ handler'[q].answer = handler[q].answer
  <1>1. /\ handler'[r] = Sees(h, now)
        /\ \A q \in Reactors \ {r} :
             handler'[q] = IF Files!Running(q) THEN Sees(handler[q], now) ELSE handler[q]
    BY MovesTo
  <1>2. ASSUME NEW g, IsRecord(g)
        PROVE  /\ Sees(g, now).others = g.others /\ Sees(g, now).at = g.at
               /\ Sees(g, now).inode = g.inode /\ Sees(g, now).answer = g.answer
    BY <1>2, NewSeen DEF Sees
  <1>3. /\ handler'[r].others = handler[r].others /\ handler'[r].at = h.at
        /\ handler'[r].inode = h.inode /\ handler'[r].answer = h.answer
    BY <1>1, <1>2
  <1>4. ASSUME NEW q \in Reactors \ {r}
        PROVE  /\ handler'[q].others = handler[q].others /\ handler'[q].at = handler[q].at
               /\ handler'[q].inode = handler[q].inode /\ handler'[q].answer = handler[q].answer
    BY <1>1, <1>2 DEF Handlers, Good, TypeOf
  <1>5. \A q \in Reactors : handler'[q].others = handler[q].others /\ (Files!Running(q)' => Files!Running(q))
    BY <1>3, <1>4 DEF Files!Running
  <1>6. Acquainted'
    BY <1>5 DEF Acquainted
  <1> QED
    BY <1>3, <1>4, <1>6

LEMMA RemoversMove ==
  ASSUME NEW r \in Reactors, NEW reply, handler'[r].answer = reply,
         \A q \in Reactors \ {r} : handler'[q].answer = handler[q].answer
  PROVE  /\ Cardinality(Removers) \in Nat /\ Cardinality(Removers') \in Nat
         /\ Cardinality(Removers') <= Cardinality(Removers) + IF reply = 204 THEN 1 ELSE 0
  <1>1. Removers \subseteq Reactors /\ Removers' \subseteq Reactors /\ IsFiniteSet(Reactors)
    BY HandlersAssume DEF Removers
  <1>2. /\ IsFiniteSet(Removers) /\ Cardinality(Removers) \in Nat
        /\ IsFiniteSet(Removers') /\ Cardinality(Removers') \in Nat
    BY <1>1, FS_Subset, FS_CardinalityType
  <1>3. CASE reply = 204
    <2>1. Removers' \subseteq Removers \cup {r}
      BY DEF Removers
    <2>2. /\ IsFiniteSet(Removers \cup {r})
          /\ Cardinality(Removers \cup {r}) <= Cardinality(Removers) + 1
      <3> PICK S : S = Removers
        OBVIOUS
      <3>1. IsFiniteSet(S) /\ Cardinality(S) \in Nat
        BY <1>2
      <3>2. /\ IsFiniteSet(S \cup {r})
            /\ Cardinality(S \cup {r}) = IF r \in S THEN Cardinality(S) ELSE Cardinality(S) + 1
        BY ONLY <3>1, FS_AddElement
      <3>3. Cardinality(S \cup {r}) <= Cardinality(S) + 1
        BY ONLY <3>1, <3>2
      <3> QED
        BY ONLY <3>2, <3>3, S = Removers
    <2>3. Cardinality(Removers') <= Cardinality(Removers \cup {r})
      BY <2>1, <2>2, FS_Subset
    <2>4. Cardinality(Removers \cup {r}) \in Nat
      BY <2>2, FS_CardinalityType
    <2> QED
      BY <1>2, <1>3, <2>2, <2>3, <2>4
  <1>4. CASE reply # 204
    <2>1. Removers' \subseteq Removers
      BY <1>4 DEF Removers
    <2>2. Cardinality(Removers') <= Cardinality(Removers)
      BY <1>2, <2>1, FS_Subset
    <2> QED
      BY <1>2, <1>4, <2>2
  <1> QED
    BY <1>3, <1>4

\* What is left to show of a step: that the stores are well formed and do not
\* shrink, that its handler is good, and that a removal costs a creation.
Counted(reply) ==
  Len(inodes) + (IF reply = 204 THEN 1 ELSE 0) + (IF dir' = Removed THEN 0 ELSE 1)
    <= Len(inodes') + (IF dir = Removed THEN 0 ELSE 1)

LEMMA WorkKeeps ==
  ASSUME UploadInv, Store',
         Len(inodes) <= Len(inodes'), Len(fds) <= Len(fds'), diskFull => diskFull',
         NEW r \in Reactors, Files!Running(r), NEW h, NEW now, now = Files!File', Files!Moves(r, h, now),
         IsRecord(h), Good(Sees(h, now), Len(inodes'), Len(fds'), diskFull'),
         h.others = handler[r].others, Counted(h.answer),
         h.at \in {"write", "flush"} /\ h.others = {}
           => dir' = h.inode /\ dir' \in 1 .. Len(inodes') /\ inodes'[dir'] = << >>
  PROVE  UploadInv'
  <1>1. Store /\ Handlers /\ RemovedOnce /\ Acquainted /\ AloneWithIt
    BY DEF UploadInv, MomentInv
  <1>2. Handlers'
    BY <1>1, HandlersMove
  <1>3. /\ Acquainted'
        /\ \A q \in Reactors : handler'[q].others = handler[q].others
        /\ handler'[r].at = h.at /\ handler'[r].inode = h.inode
        /\ handler'[r].answer = h.answer
        /\ \A q \in Reactors \ {r} : /\ handler'[q].at = handler[q].at
                                     /\ handler'[q].inode = handler[q].inode
                                     /\ handler'[q].answer = handler[q].answer
    BY <1>1, AcquaintedMove
  <1>4. RemovedOnce'
    <2>1. /\ Cardinality(Removers) \in Nat /\ Cardinality(Removers') \in Nat
          /\ Cardinality(Removers') <= Cardinality(Removers) + IF h.answer = 204 THEN 1 ELSE 0
      BY <1>3, RemoversMove
    <2>2. Len(inodes) \in Nat /\ Len(inodes') \in Nat
      BY <1>1, FileIsContents, FileStaysContents DEF FileFacts
    <2> DEFINE taken  == IF h.answer = 204 THEN 1 ELSE 0
               there  == IF dir = Removed THEN 0 ELSE 1
               there2 == IF dir' = Removed THEN 0 ELSE 1
    <2>3. taken \in Nat /\ there \in Nat /\ there2 \in Nat
      OBVIOUS
    <2>4. /\ Cardinality(Removers) + there <= Len(inodes)
          /\ Len(inodes) + taken + there2 <= Len(inodes') + there
          /\ Cardinality(Removers') <= Cardinality(Removers) + taken
      BY <1>1, <2>1 DEF RemovedOnce, Counted
    <2> HIDE DEF taken, there, there2
    <2>5. Cardinality(Removers') + there2 <= Len(inodes')
      BY ONLY <2>1, <2>2, <2>3, <2>4
    <2> QED
      BY <2>5 DEF RemovedOnce, there2
  <1>5. AloneWithIt'
    <2> SUFFICES ASSUME NEW q \in Reactors, handler'[q].at \in {"write", "flush"},
                        handler'[q].others = {}
                 PROVE  dir' = handler'[q].inode /\ dir' \in 1 .. Len(inodes') /\ inodes'[dir'] = << >>
      BY DEF AloneWithIt
    <2>1. CASE q = r
      BY <1>3, <2>1
    <2>2. CASE q # r
      <3>1. Files!Running(q) /\ handler[q].others = {}
        BY <1>3, <2>2 DEF Files!Running
      <3>2. r \in handler[q].others
        BY <1>1, <2>2, <3>1 DEF Acquainted
      <3> QED
        BY <3>1, <3>2
    <2> QED
      BY <2>1, <2>2
  <1> QED
    BY <1>2, <1>3, <1>4, <1>5 DEF UploadInv, MomentInv

-----------------------------------------------------------------------------
(***************************************************************************)
(* The steps.                                                              *)
(***************************************************************************)

\* What a handler is after it has answered.
LEMMA AnswerFields ==
  ASSUME NEW h, IsRecord(h), NEW reply, NEW a, a = Files!Answers(h, reply)
  PROVE  /\ IsRecord(a) /\ a.at = "answered" /\ a.answer = reply /\ a.req = h.req
         /\ a.inode = h.inode /\ a.size = h.size /\ a.seen = h.seen /\ a.others = h.others
  <1> PICK g : g = [h EXCEPT !.at = "answered"]
    OBVIOUS
  <1>1. a = [g EXCEPT !.answer = reply]
    BY DEF Files!Answers, IsRecord
  <1>2. /\ IsRecord(g) /\ g.at = "answered" /\ g.req = h.req /\ g.inode = h.inode
        /\ g.size = h.size /\ g.seen = h.seen /\ g.others = h.others
    BY NewAt
  <1> QED
    BY ONLY <1>1, <1>2, NewAnswer

LEMMA AnswersIs ==
  ASSUME NEW h, NEW reply \in Codes, NEW made, NEW held, NEW full, Good(h, made, held, full),
         h.at # "idle", NEW a, a = Files!Answers(h, reply)
  PROVE  /\ TypeOf(a, made) /\ a.at = "answered" /\ a.answer = reply
         /\ a.req = h.req /\ a.inode = h.inode /\ a.size = h.size /\ a.seen = h.seen
         /\ a.others = h.others /\ IsRecord(a)
  <1>1. /\ IsRecord(a) /\ a.at = "answered" /\ a.answer = reply /\ a.req = h.req
        /\ a.inode = h.inode /\ a.size = h.size /\ a.seen = h.seen /\ a.others = h.others
    BY AnswerFields DEF Good, TypeOf
  <1>2. TypeOf(a, made)
    BY <1>1 DEF Good, TypeOf, Labels
  <1> QED
    BY <1>1, <1>2

\* What an answer is to rest on.
Deserved(h, reply, held, full) ==
  /\ reply = 404 => Removed \in h.seen
  /\ reply = 200 => Saw(h)
  /\ reply = 204 => Removed \in h.seen /\ Found(h)
  /\ reply = 201 => << >> \in h.seen
  /\ reply = 500 => \/ h.req.target = "directory"
                    \/ full /\ h.req.method = "POST"
                    \/ held = MaxOpen /\ h.req.method = "GET"
                    \/ Removed \in h.seen /\ Found(h)
  /\ reply \in {0, 400, 403} => h.req.target # "file"

LEMMA AnswerIsGood ==
  ASSUME NEW h, NEW reply \in Codes, NEW made, NEW held, NEW full, Good(h, made, held, full),
         h.at # "idle", Deserved(h, reply, held, full)
  PROVE  Good(Files!Answers(h, reply), made, held, full)
  <1> DEFINE a == Files!Answers(h, reply)
  <1>1. /\ TypeOf(a, made) /\ a.at = "answered" /\ a.answer = reply /\ a.req = h.req
        /\ a.seen = h.seen /\ a.size = h.size
    BY AnswersIs
  <1> HIDE DEF a
  <1>2. (Saw(h) => Saw(a)) /\ (Found(h) => Found(a))
    BY <1>1 DEF Saw, Found
  <1>3. HandlerWorks(a, made, full) /\ Justified(a, held, full)
    BY <1>1, <1>2 DEF HandlerWorks, Justified, Deserved
  <1> QED
    BY <1>1, <1>3 DEF Good, a

\* It is all one whether it sees before it answers.
LEMMA SeesAnswer ==
  ASSUME NEW h, IsRecord(h), NEW reply, NEW now
  PROVE  Sees(Files!Answers(h, reply), now) = Files!Answers(Sees(h, now), reply)
  <1> PICK a : a = Files!Answers(h, reply)
    OBVIOUS
  <1> PICK s : s = Sees(h, now)
    OBVIOUS
  <1>1. /\ IsRecord(a) /\ a.at = "answered" /\ a.answer = reply /\ a.req = h.req
        /\ a.inode = h.inode /\ a.size = h.size /\ a.seen = h.seen /\ a.others = h.others
    BY AnswerFields
  <1>2. /\ IsRecord(s) /\ s.at = h.at /\ s.req = h.req /\ s.inode = h.inode /\ s.size = h.size
        /\ s.answer = h.answer /\ s.seen = h.seen \cup {now} /\ s.others = h.others
    BY NewSeen DEF Sees
  <1> PICK t : t = Sees(a, now)
    OBVIOUS
  <1> PICK u : u = Files!Answers(s, reply)
    OBVIOUS
  <1>3. /\ IsRecord(t) /\ t.at = a.at /\ t.req = a.req /\ t.inode = a.inode /\ t.size = a.size
        /\ t.answer = a.answer /\ t.seen = a.seen \cup {now} /\ t.others = a.others
    BY <1>1, NewSeen DEF Sees
  <1>4. /\ IsRecord(u) /\ u.at = "answered" /\ u.answer = reply /\ u.req = s.req
        /\ u.inode = s.inode /\ u.size = s.size /\ u.seen = s.seen /\ u.others = s.others
    BY <1>2, AnswerFields
  <1>5. t = u
    BY ONLY <1>1, <1>2, <1>3, <1>4 DEF IsRecord
  <1> QED
    BY <1>5

\* What a step may start from.
LEMMA Before ==
  ASSUME UploadInv, NEW r \in Reactors
  PROVE  /\ FileFacts
         /\ Good(handler[r], Len(inodes), Len(fds), diskFull)
         /\ Files!Running(r) => Files!File \in handler[r].seen
  BY FileIsContents DEF UploadInv, MomentInv, Handlers

\* A step that leaves the stores alone.
LEMMA LookKeeps ==
  ASSUME UploadInv, UNCHANGED << dir, inodes, fds, diskFull >>,
         NEW r \in Reactors, Files!Running(r), NEW h, Files!Moves(r, h, Files!File),
         Good(h, Len(inodes), Len(fds), diskFull), h.others = handler[r].others,
         h.answer # 204,
         h.at \in {"write", "flush"} =>
           handler[r].at \in {"write", "flush"} /\ h.inode = handler[r].inode
  PROVE  UploadInv'
  <1>1. FileFacts
    BY Before
  <1>2. Store' /\ Files!File' = Files!File
    BY DEF UploadInv, MomentInv, Store, Files!File
  <1>3. Len(inodes) <= Len(inodes') /\ Len(fds) <= Len(fds') /\ (diskFull => diskFull')
    BY <1>1 DEF FileFacts
  <1>4. IsRecord(h) /\ Good(Sees(h, Files!File), Len(inodes'), Len(fds'), diskFull')
    <2>1. IsRecord(h)
      BY DEF Good, TypeOf
    <2>2. Good(Sees(h, Files!File), Len(inodes), Len(fds), diskFull)
      BY <1>1, GoodSees DEF FileFacts
    <2> QED
      BY <2>1, <2>2
  <1>5. Counted(h.answer)
    BY <1>1 DEF Counted, FileFacts
  <1>6. h.at \in {"write", "flush"} /\ h.others = {}
          => dir' = h.inode /\ dir' \in 1 .. Len(inodes') /\ inodes'[dir'] = << >>
    BY DEF UploadInv, AloneWithIt
  <1> QED
    BY <1>2, <1>3, <1>4, <1>5, <1>6, WorkKeeps

LEMMA GetFileInfoKeeps ==
  ASSUME UploadInv, NEW r \in Reactors, Files!GetFileInfo(r)
  PROVE  UploadInv'
  <1> PICK h : h = handler[r]
    OBVIOUS
  <1>1. /\ FileFacts /\ Good(h, Len(inodes), Len(fds), diskFull) /\ Files!File \in h.seen
        /\ h.at = "route" /\ h.req.method # "POST" /\ Files!Running(r)
        /\ UNCHANGED << dir, inodes, fds, diskFull >>
    BY Before DEF Files!GetFileInfo, Files!At, Files!Static, Files!Running
  <1>2. IsRecord(h) /\ h.req \in Files!Requests /\ h.answer = 0 /\ h.seen \subseteq Contents
    BY <1>1 DEF Good, TypeOf, HandlerWorks
  <1>3. /\ h.req.method \in {"GET", "HEAD", "DELETE"}
        /\ h.req.target \in {"file", "directory", "refused"}
    BY <1>1, <1>2 DEF Files!Requests, Files!Methods
  <1>4. CASE h.req.target = "refused"
    <2>1. Files!Moves(r, Files!Answers(h, 400), Files!File)
      BY <1>4 DEF Files!GetFileInfo
    <2>2. Good(Files!Answers(h, 400), Len(inodes), Len(fds), diskFull)
      BY <1>1, <1>4, AnswerIsGood DEF Codes, Deserved
    <2> QED
      BY <1>1, <2>1, <2>2, AnswersIs, LookKeeps DEF Codes
  <1>5. CASE h.req.target = "directory"
    <2>1. Files!Moves(r, Files!Answers(h, 403), Files!File)
      BY <1>5 DEF Files!GetFileInfo
    <2>2. Good(Files!Answers(h, 403), Len(inodes), Len(fds), diskFull)
      BY <1>1, <1>5, AnswerIsGood DEF Codes, Deserved
    <2> QED
      BY <1>1, <2>1, <2>2, AnswersIs, LookKeeps DEF Codes
  <1>6. CASE h.req.target = "file" /\ dir = Removed
    <2>1. Files!Moves(r, Files!Answers(h, 404), Files!File)
      BY <1>6 DEF Files!GetFileInfo
    <2>2. Good(Files!Answers(h, 404), Len(inodes), Len(fds), diskFull)
      BY <1>1, <1>6, AnswerIsGood DEF Codes, FileFacts, Deserved
    <2> QED
      BY <1>1, <2>1, <2>2, AnswersIs, LookKeeps DEF Codes
  <1>7. CASE h.req.target = "file" /\ dir # Removed
    <2> PICK known : known = [h EXCEPT !.size = Len(inodes[dir])]
      OBVIOUS
    <2>1. /\ IsRecord(known) /\ known.at = h.at /\ known.req = h.req /\ known.inode = h.inode
          /\ known.size = Len(inodes[dir]) /\ known.answer = h.answer
          /\ known.seen = h.seen /\ known.others = h.others
      BY <1>2, NewSize
    <2>2. Len(inodes[dir]) \in Nat /\ Saw(known)
      <3>1. Files!File = inodes[dir] /\ Files!File # Removed /\ inodes[dir] \in Seq(Files!Byte)
        BY <1>1, <1>7 DEF FileFacts
      <3> QED
        BY <1>1, <2>1, <3>1 DEF Saw
    <2>3. Good(known, Len(inodes), Len(fds), diskFull)
      BY <1>1, <2>1, <2>2 DEF Good, TypeOf, HandlerWorks, Justified
    <2>4. Files!Moves(r, IF h.req.method = "HEAD" THEN Files!Answers(known, 200)
                   ELSE [known EXCEPT !.at = h.req.method], Files!File)
      BY <1>7 DEF Files!GetFileInfo
    <2>5. CASE h.req.method = "HEAD"
      <3>1. Files!Moves(r, Files!Answers(known, 200), Files!File)
        BY <2>4, <2>5
      <3>2. known.at # "idle" /\ 200 \in Codes
        BY <1>1, <2>1 DEF Codes
      <3>3. Good(Files!Answers(known, 200), Len(inodes), Len(fds), diskFull)
        BY ONLY <2>2, <2>3, <3>2, AnswerIsGood DEF Deserved
      <3> PICK a : a = Files!Answers(known, 200)
        OBVIOUS
      <3>4. a.at = "answered" /\ a.answer = 200 /\ a.others = h.others
        BY ONLY a = Files!Answers(known, 200), <2>1, <2>3, <3>2, AnswersIs
      <3> QED
        BY <1>1, <3>1, <3>3, <3>4, LookKeeps
    <2>6. CASE h.req.method # "HEAD"
      <3> PICK method : method = h.req.method
        OBVIOUS
      <3> PICK g : g = [known EXCEPT !.at = method]
        OBVIOUS
      <3>1. Files!Moves(r, g, Files!File)
        BY <2>4, <2>6
      <3>2. /\ IsRecord(g) /\ g.at = method /\ g.req = known.req /\ g.inode = known.inode
            /\ g.size = known.size /\ g.answer = known.answer /\ g.seen = known.seen
            /\ g.others = known.others
        BY ONLY <2>1, g = [known EXCEPT !.at = method], NewAt
      <3>3. g.at \in {"GET", "DELETE"} /\ Saw(g)
        <4>1. g.at \in {"GET", "DELETE"}
          BY ONLY <1>3, <2>6, <3>2, method = h.req.method
        <4>2. Saw(g)
          BY ONLY <2>2, <3>2 DEF Saw
        <4> QED
          BY ONLY <4>1, <4>2
      <3>4. TypeOf(g, Len(inodes))
        BY <1>2, <2>1, <2>3, <3>2, <3>3 DEF Good, TypeOf, Labels
      <3>5. Good(g, Len(inodes), Len(fds), diskFull)
        BY <1>2, <1>7, <2>1, <3>2, <3>3, <3>4 DEF Good, HandlerWorks, Justified
      <3>6. /\ g.others = handler[r].others /\ g.answer # 204
            /\ g.at \notin {"write", "flush"}
        BY <1>2, <2>1, <3>2, <3>3
      <3> QED
        BY <1>1, <3>1, <3>5, <3>6, LookKeeps
    <2> QED
      BY <2>5, <2>6
  <1> QED
    BY <1>3, <1>4, <1>5, <1>6, <1>7

\* The descriptor goes into the answer; the table only fills up.
LEMMA OpenFileKeeps ==
  ASSUME UploadInv, NEW r \in Reactors, Files!OpenFile(r)
  PROVE  UploadInv'
  <1> PICK h : h = handler[r]
    OBVIOUS
  <1>1. /\ FileFacts /\ Good(h, Len(inodes), Len(fds), diskFull) /\ Files!File \in h.seen
        /\ h.at = "GET" /\ Files!Running(r) /\ UNCHANGED << dir, inodes, diskFull >>
    BY Before DEF Files!OpenFile, Files!At, Files!Running
  <1>2. h.req.method = "GET" /\ h.req.target = "file" /\ Saw(h) /\ h.seen \subseteq Contents
    BY <1>1 DEF Good, HandlerWorks, TypeOf
  <1>3. h.seen \ {Removed} # {}
    BY <1>2 DEF Saw
  <1>4. CASE dir = Removed \/ Len(fds) = MaxOpen
    <2> PICK g : g = Files!Answers(h, 500)
      OBVIOUS
    <2>1. Files!Moves(r, g, Files!File) /\ UNCHANGED fds
      BY <1>4 DEF Files!OpenFile
    <2>2. Good(Files!Answers(h, 500), Len(inodes), Len(fds), diskFull)
      BY <1>1, <1>2, <1>3, <1>4, AnswerIsGood DEF Codes, Found, FileFacts, Deserved
    <2>3. g.at = "answered" /\ g.answer = 500 /\ g.others = handler[r].others
      BY <1>1, AnswersIs DEF Codes
    <2> QED
      BY <1>1, <2>1, <2>2, <2>3, LookKeeps
  <1>5. CASE dir # Removed /\ Len(fds) # MaxOpen
    <2> PICK a : a = Files!Answers(h, 200)
      OBVIOUS
    <2> PICK inode : inode = dir
      OBVIOUS
    <2> PICK g : g = [a EXCEPT !.inode = inode]
      OBVIOUS
    <2>1. Files!Moves(r, g, Files!File) /\ fds' = Append(fds, dir)
      BY <1>5 DEF Files!OpenFile
    <2>2. Good(a, Len(inodes), Len(fds), diskFull) /\ a.at = "answered" /\ a.answer = 200
          /\ a.others = handler[r].others /\ IsRecord(a) /\ Saw(a)
      <3>1. h.at # "idle" /\ 200 \in Codes
        BY <1>1 DEF Codes
      <3>2. Good(a, Len(inodes), Len(fds), diskFull)
        BY <1>1, <1>2, <3>1, AnswerIsGood DEF Deserved
      <3>3. a.at = "answered" /\ a.answer = 200 /\ a.others = handler[r].others
        BY <1>1, <3>1, AnswersIs
      <3> QED
        BY <3>2, <3>3 DEF Good, TypeOf, Justified
    <2>3. /\ Len(fds') = Len(fds) + 1 /\ Len(fds') <= MaxOpen /\ Store' /\ Len(fds) \in Nat
          /\ Len(inodes) \in Nat
      <3>1. /\ fds \in Seq({Removed} \cup Nat) /\ dir \in Nat /\ Len(fds) <= MaxOpen /\ MaxOpen \in Nat
        BY <1>1, <1>5, HandlersAssume DEF UploadInv, MomentInv, Store, FileFacts
      <3>2. /\ fds' \in Seq({Removed} \cup Nat) /\ Len(fds') = Len(fds) + 1 /\ Len(fds) \in Nat
        BY <2>1, <3>1
      <3> QED
        BY <1>1, <1>5, <3>1, <3>2 DEF UploadInv, MomentInv, Store, FileFacts
    <2>10. IsRecord(a)
      BY <2>2
    <2>4. /\ IsRecord(g) /\ g.at = a.at /\ g.req = a.req /\ g.inode = inode /\ g.size = a.size
          /\ g.answer = a.answer /\ g.seen = a.seen /\ g.others = a.others
      BY ONLY <2>10, g = [a EXCEPT !.inode = inode], NewInodeField
    <2>5. dir \in 1 .. Len(inodes) /\ Saw(g)
      BY <1>1, <1>5, <2>2, <2>4 DEF FileFacts, Saw
    <2>6. Good(Sees(g, Files!File), Len(inodes), Len(fds'), diskFull)
      <3>1. Good(g, Len(inodes), Len(fds'), diskFull)
        BY <2>2, <2>4, <2>5 DEF Good, TypeOf, HandlerWorks, Justified
      <3> QED
        BY <1>1, <3>1, GoodSees DEF FileFacts
    <2>7. Counted(g.answer) /\ Files!File' = Files!File
      BY <1>1, <2>2, <2>4 DEF Counted, FileFacts, Files!File
    <2>8. g.others = handler[r].others /\ g.at \notin {"write", "flush"}
      BY <2>2, <2>4
    <2>9. Len(inodes) <= Len(inodes') /\ Len(fds) <= Len(fds') /\ (diskFull => diskFull')
      BY <1>1, <2>3
    <2>11. /\ Files!Running(r) /\ Files!Moves(r, g, Files!File) /\ Store'
           /\ Good(Sees(g, Files!File), Len(inodes'), Len(fds'), diskFull') /\ IsRecord(g)
      BY ONLY <1>1, <2>1, <2>3, <2>4, <2>6
    <2> QED
      BY ONLY UploadInv, r \in Reactors, <2>7, <2>8, <2>9, <2>11, WorkKeeps
  <1> QED
    BY <1>4, <1>5

\* Whoever removes a file found it; whoever finds nothing says so.
LEMMA RemoveFileKeeps ==
  ASSUME UploadInv, NEW r \in Reactors, Files!RemoveFile(r)
  PROVE  UploadInv'
  <1> PICK h : h = handler[r]
    OBVIOUS
  <1>1. /\ FileFacts /\ Good(h, Len(inodes), Len(fds), diskFull) /\ Files!File \in h.seen
        /\ h.at = "DELETE" /\ Files!Running(r) /\ UNCHANGED << inodes, fds, diskFull >> /\ dir' = Removed
        /\ Files!File' = Removed
    BY Before DEF Files!RemoveFile, Files!At, Files!Running, Files!File
  <1>2. Saw(h) /\ h.seen \ {Removed} # {} /\ h.seen \subseteq Contents
    BY <1>1 DEF Good, HandlerWorks, TypeOf, Saw
  <1> PICK reply : reply = IF dir = Removed THEN 500 ELSE 204
    OBVIOUS
  <1> PICK s : s = Sees(h, Removed)
    OBVIOUS
  <1> PICK g : g = Files!Answers(h, reply)
    OBVIOUS
  <1>3. Files!Moves(r, g, Removed)
    BY DEF Files!RemoveFile
  <1>4. /\ reply \in Codes /\ g.at = "answered" /\ g.answer = reply /\ IsRecord(g)
        /\ g.others = handler[r].others
    BY <1>1, AnswersIs DEF Codes, TypeOf
  <1>5. Good(s, Len(inodes), Len(fds), diskFull) /\ Removed \in s.seen /\ Found(s) /\ s.at = "DELETE"
    <2>1. /\ s.seen = h.seen \cup {Removed} /\ s.at = h.at
          /\ Good(s, Len(inodes), Len(fds), diskFull)
      <3>1. Removed \in Contents /\ Len(inodes) \in Nat
        BY <1>1 DEF FileFacts, Contents
      <3>2. IsRecord(h)
        BY <1>1 DEF Good, TypeOf
      <3>3. s.seen = h.seen \cup {Removed} /\ s.at = h.at
        BY <3>2, NewSeen DEF Sees
      <3>4. Good(s, Len(inodes), Len(fds), diskFull)
        BY <1>1, <3>1, GoodSees
      <3> QED
        BY <3>3, <3>4
    <2> QED
      BY <1>1, <1>2, <2>1 DEF Found
  <1>6. Good(Sees(g, Removed), Len(inodes), Len(fds), diskFull)
    <2>1. Sees(g, Removed) = Files!Answers(s, reply)
      BY <1>1, SeesAnswer DEF Good, TypeOf
    <2>2. Good(Files!Answers(s, reply), Len(inodes), Len(fds), diskFull)
      BY <1>4, <1>5, AnswerIsGood DEF Deserved
    <2> QED
      BY <2>1, <2>2
  <1>7. Counted(g.answer) /\ Store'
    BY <1>1, <1>4 DEF Counted, FileFacts, Store, UploadInv, MomentInv
  <1>8. Len(inodes) <= Len(inodes') /\ Len(fds) <= Len(fds') /\ (diskFull => diskFull')
    BY <1>1 DEF FileFacts
  <1> QED
    BY ONLY UploadInv, r \in Reactors,
            <1>1, <1>3, <1>4, <1>6, <1>7, <1>8, WorkKeeps

\* An upload finds or makes the file, and leaves it empty.
LEMMA OpenForWritingKeeps ==
  ASSUME UploadInv, NEW r \in Reactors, Files!OpenForWriting(r)
  PROVE  UploadInv'
  <1> PICK h : h = handler[r]
    OBVIOUS
  <1>1. /\ FileFacts /\ Good(h, Len(inodes), Len(fds), diskFull) /\ Files!File \in h.seen
        /\ h.at = "route" /\ h.req.method = "POST" /\ Files!Running(r) /\ UNCHANGED << fds, diskFull >>
    BY Before DEF Files!OpenForWriting, Files!At, Files!Static, Files!Running
  <1>2. IsRecord(h) /\ h.req \in Files!Requests /\ h.answer = 0 /\ h.seen \subseteq Contents
    BY <1>1 DEF Good, TypeOf, HandlerWorks
  <1>3. h.req.target \in {"file", "directory", "refused"}
    BY <1>2 DEF Files!Requests
  <1>4. CASE h.req.target # "file"
    <2> PICK reply : reply = IF h.req.target = "refused" THEN 400 ELSE 500
      OBVIOUS
    <2> PICK g : g = Files!Answers(h, reply)
      OBVIOUS
    <2>1. Files!Moves(r, g, Files!File) /\ UNCHANGED << dir, inodes >>
      BY <1>4 DEF Files!OpenForWriting
    <2>2. reply \in Codes \ {204}
      BY DEF Codes
    <2>3. Good(Files!Answers(h, reply), Len(inodes), Len(fds), diskFull)
      <3> PICK full : full = diskFull
        OBVIOUS
      <3>1. /\ reply \in Codes /\ Good(h, Len(inodes), Len(fds), full) /\ h.at # "idle"
            /\ reply # 404 /\ reply # 200 /\ reply # 204 /\ reply # 201 /\ (reply = 500 => h.req.target = "directory")
        BY <1>1, <1>3, <1>4, <2>2
      <3>2. Deserved(h, reply, Len(fds), full)
        BY ONLY <1>4, <3>1 DEF Deserved
      <3>3. Good(Files!Answers(h, reply), Len(inodes), Len(fds), full)
        BY ONLY <3>1, <3>2, AnswerIsGood
      <3> QED
        BY ONLY <3>3, full = diskFull
    <2>4. g.at = "answered" /\ g.answer = reply /\ g.others = handler[r].others
      BY <1>1, <2>2, AnswersIs
    <2> QED
      BY <1>1, <2>1, <2>2, <2>3, <2>4, LookKeeps
  <1>5. CASE h.req.target = "file"
    <2> PICK inode : inode = IF dir = Removed THEN Len(inodes) + 1 ELSE dir
      OBVIOUS
    <2> PICK f : f = [h EXCEPT !.at = "write"]
      OBVIOUS
    <2> PICK g : g = [f EXCEPT !.inode = inode]
      OBVIOUS
    <2>1. /\ dir' = inode /\ inodes' = Files!Emptied
          /\ Files!Moves(r, [h EXCEPT !.at = "write", !.inode = inode], << >>)
      BY <1>5 DEF Files!OpenForWriting, Files!NewInode
    <2>2. [h EXCEPT !.at = "write", !.inode = inode] = g
      BY <1>2 DEF IsRecord
    <2>3. Files!Moves(r, g, << >>)
      BY <2>1, <2>2
    <2>4. /\ IsRecord(f) /\ f.at = "write" /\ f.req = h.req /\ f.inode = h.inode
          /\ f.size = h.size /\ f.answer = h.answer /\ f.seen = h.seen /\ f.others = h.others
      BY ONLY <1>2, f = [h EXCEPT !.at = "write"], NewAt
    <2>5. IsRecord(f)
      BY <2>4
    <2>6. /\ IsRecord(g) /\ g.at = f.at /\ g.req = f.req /\ g.inode = inode
          /\ g.size = f.size /\ g.answer = f.answer /\ g.seen = f.seen /\ g.others = f.others
      BY ONLY <2>5, g = [f EXCEPT !.inode = inode], NewInodeField
    <2> PICK s : s = Sees(g, << >>)
      OBVIOUS
    <2>7. /\ IsRecord(s) /\ s.at = "write" /\ s.req = h.req /\ s.inode = inode
          /\ s.size = h.size /\ s.answer = 0 /\ s.seen = h.seen \cup {<< >>}
          /\ s.others = h.others
      <3>1. IsRecord(g)
        BY <2>6
      <3> PICK seen : seen = g.seen \cup {<< >>}
        OBVIOUS
      <3>2. s = [g EXCEPT !.seen = seen]
        BY DEF Sees
      <3>3. /\ IsRecord(s) /\ s.at = g.at /\ s.req = g.req /\ s.inode = g.inode
            /\ s.size = g.size /\ s.answer = g.answer /\ s.seen = seen
            /\ s.others = g.others
        BY ONLY <3>1, <3>2, NewSeen
      <3> QED
        BY ONLY <1>2, <2>4, <2>6, <3>3, seen = g.seen \cup {<< >>}
    <2>8. /\ inodes' \in Seq(Seq(Files!Byte)) /\ inode \in 1 .. Len(inodes') /\ inodes'[inode] = << >>
          /\ Len(inodes') = IF dir = Removed THEN Len(inodes) + 1 ELSE Len(inodes)
          /\ Len(inodes) \in Nat /\ inode # Removed
      <3>1. inodes \in Seq(Seq(Files!Byte)) /\ << >> \in Seq(Files!Byte) /\ Len(inodes) \in Nat
        BY <1>1 DEF UploadInv, MomentInv, Store, FileFacts
      <3>2. CASE dir = Removed
        <4>1. inodes' = Append(inodes, << >>) /\ inode = Len(inodes) + 1
          BY <2>1, <3>2 DEF Files!Emptied
        <4>2. inode \in Nat
          BY <3>1, <4>1
        <4> QED
          BY <3>1, <3>2, <4>1, <4>2, HandlersAssume
      <3>3. CASE dir # Removed
        <4>1. inodes' = [inodes EXCEPT ![dir] = << >>] /\ inode = dir /\ dir \in 1 .. Len(inodes)
          BY <1>1, <2>1, <3>3 DEF Files!Emptied, FileFacts
        <4> QED
          BY <3>1, <3>3, <4>1
      <3> QED
        BY <3>2, <3>3
    <2>9. Store' /\ Files!File' = << >>
      BY <1>1, <2>1, <2>8 DEF Store, UploadInv, MomentInv, Files!File
    <2>10. Len(inodes) <= Len(inodes') /\ Len(fds) <= Len(fds') /\ (diskFull => diskFull')
      BY <1>1, <2>8 DEF FileFacts
    <2>11. Good(s, Len(inodes'), Len(fds'), diskFull')
      <3>1. TypeOf(s, Len(inodes'))
        <4>1. /\ h.size \in Nat /\ h.others \subseteq Reactors /\ << >> \in Contents
              /\ "write" \in Labels /\ 0 \in Codes
          BY <1>1 DEF Good, TypeOf, FileFacts, Labels, Codes
        <4> QED
          BY ONLY <1>2, <2>7, <2>8, <4>1 DEF TypeOf
      <3> QED
        BY <1>1, <1>5, <2>7, <2>8, <3>1 DEF Good, HandlerWorks, Justified
    <2>12. /\ g.at = "write" /\ g.inode = inode /\ g.others = handler[r].others /\ g.answer = 0
           /\ IsRecord(g)
      BY ONLY <1>2, <2>4, <2>6, h = handler[r]
    <2>13. Counted(g.answer)
      BY <2>1, <2>8, <2>12 DEF Counted
    <2>14. Good(Sees(g, << >>), Len(inodes'), Len(fds'), diskFull')
      BY <2>11
    <2>15. dir' = g.inode /\ dir' \in 1 .. Len(inodes') /\ inodes'[dir'] = << >>
      BY <2>1, <2>8, <2>12
    <2> QED
      BY ONLY UploadInv, r \in Reactors, h = handler[r],
              <1>1, <2>3, <2>9, <2>10, <2>12, <2>13, <2>14, <2>15, WorkKeeps
  <1> QED
    BY <1>4, <1>5

\* The body goes to the beginning of the file the upload has opened, whatever the
\* name stands for by now.
LEMMA PutIsBytes ==
  ASSUME UploadInv, NEW r \in Reactors, handler[r].at \in {"write", "flush"}
  PROVE  /\ Files!Put(r) \in Seq(Seq(Files!Byte)) /\ Len(Files!Put(r)) = Len(inodes)
         /\ handler[r].inode \in 1 .. Len(inodes) /\ handler[r].req.body \in Seq(Files!Byte)
         /\ Files!Put(r)[handler[r].inode] = Files!Over(inodes[handler[r].inode], handler[r].req.body)
  <1> PICK h : h = handler[r]
    OBVIOUS
  <1>1. FileFacts /\ Good(h, Len(inodes), Len(fds), diskFull) /\ inodes \in Seq(Seq(Files!Byte))
    BY Before DEF UploadInv, MomentInv, Store
  <1>2. h.inode \in 1 .. Len(inodes) /\ h.req \in Files!Requests /\ h.seen \subseteq Contents
    BY <1>1 DEF Good, HandlerWorks, TypeOf
  <1>3. h.req.body \in Seq(Files!Byte)
    <2>1. h.req.body \in {<< >>} \cup Bodies
      BY ONLY <1>2 DEF Files!Requests
    <2>2. << >> \in Seq(Files!Byte) /\ Bodies \subseteq Seq(Files!Byte)
      BY HandlersAssume
    <2> QED
      BY ONLY <2>1, <2>2
  <1>4. inodes[h.inode] \in Seq(Files!Byte)
    BY <1>1, <1>2
  <1> PICK new : new = Files!Over(inodes[h.inode], h.req.body)
    OBVIOUS
  <1>5. new \in Seq(Files!Byte)
    BY <1>3, <1>4, OverIsBytes
  <1>6. Files!Put(r) = [inodes EXCEPT ![h.inode] = new]
    BY DEF Files!Put
  <1> QED
    BY <1>1, <1>2, <1>3, <1>5, <1>6

LEMMA PutKeeps ==
  ASSUME UploadInv, NEW r \in Reactors, handler[r].at \in {"write", "flush"},
         inodes' = Files!Put(r), Files!Moves(r, Files!Answers(handler[r], 201), Files!FileWith(Files!Put(r))),
         UNCHANGED << dir, fds, diskFull >>
  PROVE  UploadInv'
  <1> PICK h : h = handler[r]
    OBVIOUS
  <1> PICK g : g = Files!Answers(h, 201)
    OBVIOUS
  <1> PICK now : now = Files!FileWith(Files!Put(r))
    OBVIOUS
  <1>1. /\ FileFacts /\ Good(h, Len(inodes), Len(fds), diskFull) /\ Files!Running(r)
        /\ h.at \in {"write", "flush"}
    BY Before DEF Files!Running
  <1>2. inodes' \in Seq(Seq(Files!Byte)) /\ Len(inodes') = Len(inodes)
    BY PutIsBytes
  <1>3. Store' /\ Files!File' = now
    BY <1>1, <1>2 DEF Store, UploadInv, MomentInv, Files!File, Files!FileWith
  <1>4. now \in Contents /\ Len(inodes) \in Nat
    BY <1>1, <1>3, FileStaysContents DEF FileFacts
  <1>5. h.at # "idle" /\ 201 \in Codes /\ << >> \in h.seen
    BY <1>1 DEF Codes, Good, HandlerWorks
  <1>6. g.at = "answered" /\ g.answer = 201 /\ g.others = handler[r].others /\ IsRecord(g)
    BY <1>1, <1>5, AnswersIs
  <1>7. Good(Sees(g, now), Len(inodes'), Len(fds'), diskFull')
    <2>1. Good(g, Len(inodes), Len(fds), diskFull)
      BY <1>1, <1>5, AnswerIsGood DEF Deserved
    <2> QED
      BY <1>2, <1>4, <2>1, GoodSees
  <1>8. Counted(g.answer)
    BY <1>2, <1>4, <1>6 DEF Counted
  <1>9. Len(inodes) <= Len(inodes') /\ Len(fds) <= Len(fds') /\ (diskFull => diskFull')
    BY <1>1, <1>2 DEF FileFacts
  <1>10. Files!Moves(r, g, now)
    OBVIOUS
  <1> QED
    BY ONLY UploadInv, r \in Reactors, h = handler[r],
            <1>1, <1>3, <1>6, <1>7, <1>8, <1>9, <1>10, WorkKeeps

\* A step that only changes where the handler is.
LEMMA WaitKeeps ==
  ASSUME UploadInv, NEW r \in Reactors, handler[r].at \in {"write", "flush"},
         NEW to \in {"flush", "undo"}, to = "undo" => diskFull,
         NEW g, g = [handler[r] EXCEPT !.at = to], Files!Moves(r, g, Files!File),
         UNCHANGED << dir, inodes, fds, diskFull >>
  PROVE  UploadInv'
  <1> PICK h : h = handler[r]
    OBVIOUS
  <1>1. /\ FileFacts /\ Good(h, Len(inodes), Len(fds), diskFull) /\ Files!Running(r)
        /\ h.at \in {"write", "flush"} /\ IsRecord(h)
    BY Before DEF Files!Running, Good, TypeOf
  <1>2. /\ IsRecord(g) /\ g.at = to /\ g.req = h.req /\ g.inode = h.inode /\ g.size = h.size
        /\ g.answer = h.answer /\ g.seen = h.seen /\ g.others = h.others
    BY <1>1, NewAt
  <1>3. TypeOf(g, Len(inodes))
    BY <1>1, <1>2 DEF Good, TypeOf, Labels
  <1>4. Good(g, Len(inodes), Len(fds), diskFull) /\ g.answer = 0
    BY <1>1, <1>2, <1>3 DEF Good, HandlerWorks, Justified
  <1> QED
    BY ONLY UploadInv, r \in Reactors, h = handler[r], Files!Moves(r, g, Files!File),
            UNCHANGED << dir, inodes, fds, diskFull >>, <1>1, <1>2, <1>4, LookKeeps

LEMMA WriteKeeps ==
  ASSUME UploadInv, NEW r \in Reactors, Files!Write(r)
  PROVE  UploadInv'
  <1>1. handler[r].at \in {"write", "flush"} /\ UNCHANGED << dir, fds, diskFull >>
    BY DEF Files!Write, Files!At
  <1>2. CASE Len(handler[r].req.body) <= BufferSize
    BY <1>1, <1>2, WaitKeeps DEF Files!Write
  <1>3. CASE ~(Len(handler[r].req.body) <= BufferSize) /\ diskFull
    BY <1>1, <1>3, WaitKeeps DEF Files!Write
  <1>4. CASE ~(Len(handler[r].req.body) <= BufferSize) /\ ~diskFull
    BY <1>1, <1>4, PutKeeps DEF Files!Write
  <1> QED
    BY <1>2, <1>3, <1>4

LEMMA FlushKeeps ==
  ASSUME UploadInv, NEW r \in Reactors, Files!Flush(r)
  PROVE  UploadInv'
  <1> PICK h : h = handler[r]
    OBVIOUS
  <1>1. h.at \in {"write", "flush"} /\ UNCHANGED << dir, fds, diskFull >> /\ Files!Running(r)
    BY DEF Files!Flush, Files!At, Files!Running
  <1>2. CASE diskFull
    <2> PICK g : g = Files!Answers(h, 201)
      OBVIOUS
    <2>1. Files!Moves(r, g, Files!File) /\ UNCHANGED inodes
      BY <1>2 DEF Files!Flush
    <2>2. Good(h, Len(inodes), Len(fds), diskFull)
      BY Before
    <2>3. h.at # "idle" /\ 201 \in Codes /\ << >> \in h.seen
      BY <1>1, <2>2 DEF Codes, Good, HandlerWorks
    <2>4. Good(g, Len(inodes), Len(fds), diskFull)
      BY <2>2, <2>3, AnswerIsGood DEF Deserved
    <2>5. g.at = "answered" /\ g.answer = 201 /\ g.others = handler[r].others
      BY <2>2, <2>3, AnswersIs
    <2> QED
      BY <1>1, <2>1, <2>4, <2>5, LookKeeps
  <1>3. CASE ~diskFull
    BY <1>1, <1>3, PutKeeps DEF Files!Flush
  <1> QED
    BY <1>2, <1>3

\* What could not be written is removed, by the name it had.
LEMMA UndoKeeps ==
  ASSUME UploadInv, NEW r \in Reactors, Files!Undo(r)
  PROVE  UploadInv'
  <1> PICK h : h = handler[r]
    OBVIOUS
  <1> PICK g : g = Files!Answers(h, 500)
    OBVIOUS
  <1>1. /\ FileFacts /\ Good(h, Len(inodes), Len(fds), diskFull)
        /\ h.at = "undo" /\ Files!Running(r) /\ UNCHANGED << inodes, fds, diskFull >> /\ dir' = Removed
        /\ Files!File' = Removed
    BY Before DEF Files!Undo, Files!At, Files!Running, Files!File
  <1>2. h.at # "idle" /\ 500 \in Codes
    BY <1>1 DEF Codes
  <1>3. Good(h, Len(inodes), Len(fds), diskFull)
    BY <1>1
  <1>4. Files!Moves(r, g, Removed)
    BY DEF Files!Undo
  <1>5. g.at = "answered" /\ g.answer = 500 /\ g.others = handler[r].others /\ IsRecord(g)
    BY ONLY h = handler[r], g = Files!Answers(h, 500), <1>2, <1>3, AnswersIs
  <1>6. Good(Sees(g, Removed), Len(inodes), Len(fds), diskFull)
    <2> PICK full : full = diskFull
      OBVIOUS
    <2>3. \/ h.req.target = "directory"
          \/ full /\ h.req.method = "POST"
          \/ Len(fds) = MaxOpen /\ h.req.method = "GET"
          \/ Removed \in h.seen /\ Found(h)
      BY <1>1 DEF Good, HandlerWorks
    <2>4. Good(h, Len(inodes), Len(fds), full)
      BY <1>3
    <2>5. Deserved(h, 500, Len(fds), full)
      BY ONLY <2>3 DEF Deserved
    <2>6. Good(g, Len(inodes), Len(fds), full)
      BY ONLY g = Files!Answers(h, 500), <1>2, <2>4, <2>5, AnswerIsGood
    <2>7. Good(g, Len(inodes), Len(fds), diskFull)
      BY <2>6
    <2>8. Removed \in Contents /\ Len(inodes) \in Nat
      BY <1>1 DEF Contents, FileFacts
    <2> QED
      BY <2>7, <2>8, GoodSees
  <1>7. Counted(g.answer) /\ Store'
    BY <1>1, <1>5 DEF Counted, FileFacts, Store, UploadInv, MomentInv
  <1>8. Len(inodes) <= Len(inodes') /\ Len(fds) <= Len(fds') /\ (diskFull => diskFull')
    BY <1>1 DEF FileFacts
  <1> QED
    BY <1>1, <1>4, <1>5, <1>6, <1>7, <1>8, WorkKeeps

\* A new request: its handler has seen the file as it is, and all that are at work
\* learn of it.
LEMMA HandlerBegins ==
  ASSUME NEW req, NEW seen, NEW others
  PROVE  [Files!Idle EXCEPT !.at = "route", !.req = req, !.seen = seen, !.others = others]
         = [at |-> "route", req |-> req, inode |-> Removed, size |-> 0, answer |-> 0,
            seen |-> seen, others |-> others]
  <1> PICK h : h = Files!Idle
    OBVIOUS
  <1> PICK g1 : g1 = [h EXCEPT !.at = "route"]
    OBVIOUS
  <1> PICK g2 : g2 = [g1 EXCEPT !.req = req]
    OBVIOUS
  <1> PICK g3 : g3 = [g2 EXCEPT !.seen = seen]
    OBVIOUS
  <1> PICK g4 : g4 = [g3 EXCEPT !.others = others]
    OBVIOUS
  <1>1. /\ IsRecord(h) /\ h.inode = Removed /\ h.size = 0 /\ h.answer = 0
    BY DEF Files!Idle, IsRecord
  <1>2. IsRecord(h)
    BY <1>1
  <1>3. /\ IsRecord(g1) /\ g1.at = "route" /\ g1.req = h.req /\ g1.inode = h.inode
        /\ g1.size = h.size /\ g1.answer = h.answer /\ g1.seen = h.seen /\ g1.others = h.others
    BY ONLY <1>2, g1 = [h EXCEPT !.at = "route"], NewAt
  <1>4. IsRecord(g1)
    BY <1>3
  <1>5. /\ IsRecord(g2) /\ g2.at = g1.at /\ g2.req = req /\ g2.inode = g1.inode
        /\ g2.size = g1.size /\ g2.answer = g1.answer /\ g2.seen = g1.seen
        /\ g2.others = g1.others
    BY ONLY <1>4, g2 = [g1 EXCEPT !.req = req], NewReq
  <1>6. IsRecord(g2)
    BY <1>5
  <1>7. /\ IsRecord(g3) /\ g3.at = g2.at /\ g3.req = g2.req /\ g3.inode = g2.inode
        /\ g3.size = g2.size /\ g3.answer = g2.answer /\ g3.seen = seen
        /\ g3.others = g2.others
    BY ONLY <1>6, g3 = [g2 EXCEPT !.seen = seen], NewSeen
  <1>8. IsRecord(g3)
    BY <1>7
  <1>9. /\ IsRecord(g4) /\ g4.at = g3.at /\ g4.req = g3.req /\ g4.inode = g3.inode
        /\ g4.size = g3.size /\ g4.answer = g3.answer /\ g4.seen = g3.seen
        /\ g4.others = others
    BY ONLY <1>8, g4 = [g3 EXCEPT !.others = others], NewOthers
  <1>10. g4 = [at |-> "route", req |-> req, inode |-> Removed, size |-> 0, answer |-> 0,
               seen |-> seen, others |-> others]
    BY ONLY <1>1, <1>3, <1>5, <1>7, <1>9 DEF IsRecord
  <1>11. g4 = [h EXCEPT !.at = "route", !.req = req, !.seen = seen, !.others = others]
    BY ONLY <1>2, g1 = [h EXCEPT !.at = "route"], g2 = [g1 EXCEPT !.req = req],
            g3 = [g2 EXCEPT !.seen = seen], g4 = [g3 EXCEPT !.others = others] DEF IsRecord
  <1> QED
    BY <1>10, <1>11

LEMMA StartKeeps ==
  ASSUME UploadInv, NEW r \in Reactors, Files!Start(r)
  PROVE  UploadInv'
  <1> PICK req \in Files!Requests :
        handler' = [q \in Reactors |->
                     IF q = r THEN [Files!Idle EXCEPT !.at = "route", !.req = req, !.seen = {Files!File},
                                                !.others = {p \in Reactors \ {r} : Files!Running(p)}]
                     ELSE IF Files!Running(q) THEN [handler[q] EXCEPT !.others = @ \union {r}]
                     ELSE handler[q]]
    BY DEF Files!Start
  <1>1. /\ FileFacts /\ Store /\ RemovedOnce /\ ~Files!Running(r)
        /\ UNCHANGED << dir, inodes, fds, diskFull >>
    BY Before DEF Files!Start, UploadInv, MomentInv, Files!Running, Files!At
  <1>2. Store' /\ Files!File' = Files!File
    BY <1>1 DEF Store, Files!File
  <1> PICK others : others = {p \in Reactors \ {r} : Files!Running(p)}
    OBVIOUS
  <1>3. handler'[r] = [at |-> "route", req |-> req, inode |-> Removed, size |-> 0, answer |-> 0,
                       seen |-> {Files!File}, others |-> others]
    BY HandlerBegins
  <1>4. /\ Good(handler'[r], Len(inodes), Len(fds), diskFull) /\ Files!File \in handler'[r].seen
        /\ handler'[r].others = others /\ handler'[r].at = "route" /\ handler'[r].answer = 0
    <2> PICK g : g = handler'[r]
      OBVIOUS
    <2>1. /\ g.at = "route" /\ g.req = req /\ g.inode = Removed /\ g.size = 0 /\ g.answer = 0
          /\ g.seen = {Files!File} /\ g.others = others /\ IsRecord(g)
      BY <1>3 DEF IsRecord
    <2>2. Files!File \in Contents /\ others \subseteq Reactors
      BY <1>1 DEF FileFacts
    <2>3. TypeOf(g, Len(inodes))
      BY ONLY req \in Files!Requests, <2>1, <2>2 DEF TypeOf, Labels, Codes
    <2> QED
      BY <2>1, <2>3 DEF Good, HandlerWorks, Justified
  <1>5. ASSUME NEW q \in Reactors \ {r}
        PROVE  /\ Good(handler'[q], Len(inodes), Len(fds), diskFull)
               /\ handler'[q].seen = handler[q].seen /\ handler'[q].at = handler[q].at
               /\ handler'[q].answer = handler[q].answer
               /\ handler'[q].inode = handler[q].inode
               /\ handler'[q].others = IF Files!Running(q) THEN handler[q].others \cup {r}
                                       ELSE handler[q].others
    <2> PICK h : h = handler[q]
      OBVIOUS
    <2>1. Good(h, Len(inodes), Len(fds), diskFull) /\ IsRecord(h)
      BY Before DEF Good, TypeOf
    <2>2. CASE Files!Running(q)
      <3> PICK met : met = h.others \cup {r}
        OBVIOUS
      <3> PICK g : g = [h EXCEPT !.others = met]
        OBVIOUS
      <3>1. handler'[q] = g
        BY <2>2
      <3>2. IsRecord(h)
        BY <2>1
      <3>3. /\ IsRecord(g) /\ g.at = h.at /\ g.req = h.req /\ g.inode = h.inode
            /\ g.size = h.size /\ g.answer = h.answer /\ g.seen = h.seen /\ g.others = met
        BY ONLY <3>2, g = [h EXCEPT !.others = met], NewOthers
      <3>4. met \subseteq Reactors
        BY <2>1 DEF Good, TypeOf
      <3>5. TypeOf(g, Len(inodes))
        BY ONLY <2>1, <3>3, <3>4 DEF TypeOf, Good
      <3>6. Good(g, Len(inodes), Len(fds), diskFull)
        BY ONLY <2>1, <3>3, <3>5 DEF Good, HandlerWorks, Justified, Saw, Found
      <3> QED
        BY ONLY <2>2, <3>1, <3>3, <3>6, met = h.others \cup {r}, h = handler[q]
    <2>3. CASE ~Files!Running(q)
      BY <2>1, <2>3
    <2> QED
      BY <2>2, <2>3
  <1>6. /\ handler' = [q \in Reactors |-> handler'[q]]
        /\ \A q \in Reactors : Files!Running(q)' => q = r \/ Files!Running(q)
        /\ \A q \in Reactors \ {r} : Files!Running(q)' <=> Files!Running(q)
    BY <1>5 DEF Files!Running
  <1>7. Handlers'
    <2>1. \A q \in Reactors : Good(handler'[q], Len(inodes'), Len(fds'), diskFull')
      BY <1>1, <1>4, <1>5
    <2>2. \A q \in Reactors : Files!Running(q)' => Files!File' \in handler'[q].seen
      BY <1>2, <1>4, <1>5, <1>6, Before
    <2> QED
      BY <1>6, <2>1, <2>2 DEF Handlers
  <1>8. RemovedOnce'
    <2>1. /\ Cardinality(Removers) \in Nat /\ Cardinality(Removers') \in Nat
          /\ Cardinality(Removers') <= Cardinality(Removers)
      <3> PICK reply : reply = 0
        OBVIOUS
      <3>1. handler'[r].answer = reply /\ reply # 204
        BY ONLY <1>4, reply = 0
      <3>2. \A q \in Reactors \ {r} : handler'[q].answer = handler[q].answer
        BY ONLY <1>5
      <3> QED
        BY ONLY r \in Reactors, <3>1, <3>2, RemoversMove
    <2> DEFINE there == IF dir = Removed THEN 0 ELSE 1
    <2>2. Len(inodes) \in Nat /\ there \in Nat /\ Cardinality(Removers) + there <= Len(inodes)
      BY ONLY <1>1 DEF FileFacts, RemovedOnce
    <2> HIDE DEF there
    <2>3. Cardinality(Removers') + there <= Len(inodes)
      BY ONLY <2>1, <2>2
    <2> QED
      BY ONLY <1>1, <2>3 DEF RemovedOnce, there
  <1>9. Acquainted'
    <2> SUFFICES ASSUME NEW p \in Reactors, NEW q \in Reactors, p # q, Files!Running(p)', Files!Running(q)'
                 PROVE  q \in handler'[p].others
      BY DEF Acquainted
    <2>1. CASE p = r
      BY <1>4, <1>6, <2>1
    <2>2. CASE q = r
      <3>1. Files!Running(p) /\ handler'[p].others = handler[p].others \cup {r}
        BY ONLY <1>5, <1>6, <2>2, p \in Reactors, p # q, Files!Running(p)'
      <3> QED
        BY ONLY <2>2, <3>1
    <2>3. CASE p # r /\ q # r
      <3>1. /\ Files!Running(p) /\ Files!Running(q)
            /\ handler'[p].others = handler[p].others \cup {r}
        BY ONLY <1>5, <1>6, <2>3, p \in Reactors, q \in Reactors, Files!Running(p)', Files!Running(q)'
      <3>2. q \in handler[p].others
        BY ONLY UploadInv, p \in Reactors, q \in Reactors, p # q, <3>1 DEF UploadInv, Acquainted
      <3> QED
        BY ONLY <3>1, <3>2
    <2> QED
      BY <2>1, <2>2, <2>3
  <1>10. AloneWithIt'
    <2> SUFFICES ASSUME NEW q \in Reactors, handler'[q].at \in {"write", "flush"},
                        handler'[q].others = {}
                 PROVE  dir' = handler'[q].inode /\ dir' \in 1 .. Len(inodes') /\ inodes'[dir'] = << >>
      BY DEF AloneWithIt
    <2>1. q # r /\ Files!Running(q)
      BY <1>4, <1>5 DEF Files!Running
    <2>2. handler'[q].others = handler[q].others \cup {r}
      BY ONLY <1>5, <2>1, q \in Reactors
    <2> QED
      BY ONLY <2>2, handler'[q].others = {}
  <1> QED
    BY <1>2, <1>7, <1>8, <1>9, <1>10 DEF UploadInv, MomentInv

LEMMA DiskFillsKeeps ==
  ASSUME UploadInv, Files!DiskFills
  PROVE  UploadInv'
  <1>1. FileFacts /\ UNCHANGED << dir, inodes, handler, fds >> /\ diskFull' = TRUE /\ ~diskFull
    BY FileIsContents DEF Files!DiskFills, UploadInv, MomentInv
  <1>2. Store' /\ Files!File' = Files!File
    BY <1>1 DEF UploadInv, MomentInv, Store, Files!File
  <1>3. Handlers'
    <2>1. ASSUME NEW q \in Reactors
          PROVE  Good(handler'[q], Len(inodes'), Len(fds'), diskFull')
      <3> PICK h : h = handler[q]
        OBVIOUS
      <3> PICK full : full = diskFull
        OBVIOUS
      <3> PICK full2 : full2 = diskFull'
        OBVIOUS
      <3>1. Good(h, Len(inodes), Len(fds), full) /\ Len(inodes) \in Nat /\ (full => full2)
        BY <1>1, Before DEF FileFacts
      <3>2. Good(h, Len(inodes), Len(fds), full2)
        BY ONLY <3>1, GoodLater
      <3> QED
        BY <1>1, <3>2
    <2>2. \A q \in Reactors : Files!Running(q)' => Files!File' \in handler'[q].seen
      BY <1>1, <1>2 DEF UploadInv, MomentInv, Handlers, Files!Running
    <2> QED
      BY <1>1, <2>1, <2>2 DEF UploadInv, MomentInv, Handlers
  <1>4. RemovedOnce'
    BY <1>1 DEF UploadInv, MomentInv, RemovedOnce, Removers
  <1>5. Acquainted' /\ AloneWithIt'
    BY <1>1 DEF UploadInv, Acquainted, AloneWithIt, Files!Running
  <1> QED
    BY <1>2, <1>3, <1>4, <1>5 DEF UploadInv, MomentInv

-----------------------------------------------------------------------------
LEMMA UploadInvInit == Files!Init => UploadInv
  <1> SUFFICES ASSUME Files!Init PROVE UploadInv
    OBVIOUS
  <1>1. Store
    <2>1. << >> \in Seq(Seq(Files!Byte)) /\ << >> \in Seq({Removed} \cup Nat) /\ Len(<< >>) = 0
      OBVIOUS
    <2>2. dir = Removed /\ inodes = << >> /\ fds = << >> /\ diskFull = FALSE /\ MaxOpen \in Nat
      BY HandlersAssume DEF Files!Init
    <2>3. inodes \in Seq(Seq(Files!Byte)) /\ dir \in {Removed} \cup 1 .. Len(inodes) /\ diskFull \in BOOLEAN
      BY ONLY <2>1, <2>2
    <2>4. fds \in Seq({Removed} \cup Nat)
      BY ONLY <2>1, <2>2
    <2>5. Len(fds) <= MaxOpen
      BY ONLY <2>1, <2>2
    <2> QED
      BY ONLY <2>3, <2>4, <2>5 DEF Store
  <1>2. \A r \in Reactors : handler[r] = Files!Idle
    BY DEF Files!Init
  <1>3. Files!Idle.at = "idle" /\ Files!Idle.answer = 0 /\ IsRecord(Files!Idle) /\ Files!Idle.size = 0
        /\ Files!Idle.seen = {} /\ Files!Idle.others = {} /\ Files!Idle.inode = Removed
    BY DEF Files!Idle, IsRecord
  <1>4. Good(Files!Idle, Len(inodes), Len(fds), diskFull)
    BY <1>3 DEF Good, TypeOf, HandlerWorks, Justified, Labels, Codes
  <1>5. Handlers
    BY <1>2, <1>3, <1>4 DEF Files!Init, Handlers, Files!Running
  <1>6. RemovedOnce
    <2>1. Removers = {} /\ dir = Removed /\ inodes = << >>
      BY <1>2, <1>3 DEF Files!Init, Removers
    <2> QED
      BY <2>1, FS_EmptySet DEF RemovedOnce
  <1>7. Acquainted /\ AloneWithIt
    BY <1>2, <1>3 DEF Acquainted, AloneWithIt, Files!Running
  <1> QED
    BY <1>1, <1>5, <1>6, <1>7 DEF UploadInv, MomentInv

LEMMA UploadInvStep == UploadInv /\ [Files!Next]_(Files!vars) => UploadInv'
  <1> SUFFICES ASSUME UploadInv, [Files!Next]_(Files!vars)
               PROVE  UploadInv'
    OBVIOUS
  <1>1. ASSUME NEW r \in Reactors, Files!Start(r) PROVE UploadInv'
    BY <1>1, StartKeeps
  <1>2. ASSUME NEW r \in Reactors, Files!GetFileInfo(r) PROVE UploadInv'
    BY <1>2, GetFileInfoKeeps
  <1>3. ASSUME NEW r \in Reactors, Files!OpenFile(r) PROVE UploadInv'
    BY <1>3, OpenFileKeeps
  <1>4. ASSUME NEW r \in Reactors, Files!RemoveFile(r) PROVE UploadInv'
    BY <1>4, RemoveFileKeeps
  <1>5. ASSUME NEW r \in Reactors, Files!OpenForWriting(r) PROVE UploadInv'
    BY <1>5, OpenForWritingKeeps
  <1>6. ASSUME NEW r \in Reactors, Files!Write(r) PROVE UploadInv'
    BY <1>6, WriteKeeps
  <1>7. ASSUME NEW r \in Reactors, Files!Undo(r) PROVE UploadInv'
    BY <1>7, UndoKeeps
  <1>8. ASSUME NEW r \in Reactors, Files!Flush(r) PROVE UploadInv'
    BY <1>8, FlushKeeps
  <1>9. CASE Files!DiskFills
    BY <1>9, DiskFillsKeeps
  <1>10. CASE UNCHANGED Files!vars
    BY <1>10 DEF Files!vars, UploadInv, MomentInv, Store, Handlers, RemovedOnce, Removers,
                 Acquainted, AloneWithIt, Files!Running, Files!File
  <1> QED
    BY <1>1, <1>2, <1>3, <1>4, <1>5, <1>6, <1>7, <1>8, <1>9, <1>10 DEF Files!Next

LEMMA MomentOfAnswers == UploadInv => Files!AnswersHadTheirMoment
  <1> SUFFICES ASSUME UploadInv PROVE Files!AnswersHadTheirMoment
    OBVIOUS
  <1>1. Cardinality({r \in Reactors : handler[r].answer = 204}) <= Len(inodes)
    <2>1. /\ Removers = {r \in Reactors : handler[r].answer = 204}
          /\ Cardinality(Removers) + (IF dir = Removed THEN 0 ELSE 1) <= Len(inodes)
      BY DEF UploadInv, MomentInv, RemovedOnce, Removers
    <2>2. IsFiniteSet(Removers)
      BY FS_Subset, HandlersAssume DEF Removers
    <2>3. Cardinality(Removers) \in Nat /\ Len(inodes) \in Nat
      BY <2>2, FS_CardinalityType, FileIsContents DEF UploadInv, MomentInv, FileFacts
    <2> QED
      BY <2>1, <2>3
  <1>2. ASSUME NEW r \in Reactors, Files!At(r, "answered")
        PROVE  LET h == handler[r]
                   contents == h.seen \ {Removed}
               IN  CASE h.answer = 404 -> Removed \in h.seen
                     [] h.answer = 200 -> \E c \in contents : Len(c) = h.size
                     [] h.answer = 204 -> Removed \in h.seen /\ contents # {}
                     [] h.answer = 201 -> <<>> \in contents
                     [] h.answer = 500 -> \/ h.req.target = "directory"
                                          \/ diskFull /\ h.req.method = "POST"
                                          \/ Len(fds) = MaxOpen /\ h.req.method = "GET"
                                          \/ Removed \in h.seen /\ contents # {}
                     [] OTHER -> h.req.target # "file"
    <2> PICK h : h = handler[r]
      OBVIOUS
    <2>1. Justified(h, Len(fds), diskFull) /\ h.at = "answered" /\ h.answer \in Codes
          /\ << >> # Removed
      BY <1>2, Before DEF Good, TypeOf, Files!At, FileFacts
    <2> QED
      BY <2>1 DEF Justified, Saw, Found, Codes
  <1>3. Files!Cardinality({r \in Reactors : handler[r].answer = 204})
          = Cardinality({r \in Reactors : handler[r].answer = 204})
    BY DEF Files!Cardinality, Cardinality, Files!IsFiniteSet, IsFiniteSet
  <1> QED
    BY <1>1, <1>2, <1>3 DEF Files!AnswersHadTheirMoment

-----------------------------------------------------------------------------
(***************************************************************************)
(* An upload that met nobody: only its own write can answer it with 201,   *)
(* and what it writes into is the empty file that the name still means.    *)
(***************************************************************************)
LEMMA MoverIs ==
  ASSUME NEW r \in Reactors, NEW h, IsRecord(h), NEW now, Files!Moves(r, h, now)
  PROVE  handler'[r].at = h.at /\ handler'[r].answer = h.answer
  <1> PICK seen : seen = h.seen \cup {now}
    OBVIOUS
  <1> PICK g : g = handler'[r]
    OBVIOUS
  <1>1. g = [h EXCEPT !.seen = seen]
    BY MovesTo DEF Sees
  <1>2. g.at = h.at /\ g.answer = h.answer
    BY ONLY IsRecord(h), <1>1, NewSeen
  <1> QED
    BY <1>2

LEMMA NotBy ==
  ASSUME UploadInv, NEW q \in Reactors, NEW r \in Reactors \ {q}, NEW h, NEW now, Files!Moves(q, h, now)
  PROVE  handler'[r].at = handler[r].at
  <1>1. IsRecord(handler[r])
    BY DEF UploadInv, MomentInv, Handlers, Good, TypeOf
  <1>2. handler'[r] = IF Files!Running(r) THEN Sees(handler[r], now) ELSE handler[r]
    BY MovesTo
  <1> QED
    BY <1>1, <1>2, NewSeen DEF Sees

LEMMA OthersDoNotAnswer ==
  ASSUME UploadInv, NEW q \in Reactors, NEW r \in Reactors \ {q},
         \/ Files!Start(q) \/ Files!GetFileInfo(q) \/ Files!OpenFile(q) \/ Files!RemoveFile(q)
         \/ Files!OpenForWriting(q) \/ Files!Write(q) \/ Files!Undo(q) \/ Files!Flush(q)
  PROVE  handler'[r].at = handler[r].at
  <1>1. CASE Files!Start(q)
    <2>1. \/ handler'[r] = [handler[r] EXCEPT !.others = handler[r].others \cup {q}]
          \/ handler'[r] = handler[r]
      <3> PICK req \in Files!Requests :
            handler' = [p \in Reactors |->
                         IF p = q THEN [Files!Idle EXCEPT !.at = "route", !.req = req, !.seen = {Files!File},
                                                    !.others = {o \in Reactors \ {q} : Files!Running(o)}]
                         ELSE IF Files!Running(p) THEN [handler[p] EXCEPT !.others = @ \union {q}]
                         ELSE handler[p]]
        BY ONLY <1>1, Zenon DEF Files!Start
      <3> PICK begun :
            begun = [Files!Idle EXCEPT !.at = "route", !.req = req, !.seen = {Files!File},
                                 !.others = {o \in Reactors \ {q} : Files!Running(o)}]
        BY ONLY Zenon
      <3>1. handler' = [p \in Reactors |->
                         IF p = q THEN begun
                         ELSE IF Files!Running(p) THEN [handler[p] EXCEPT !.others = @ \union {q}]
                         ELSE handler[p]]
        BY Zenon
      <3> QED
        BY ONLY <3>1, r \in Reactors \ {q}
    <2>2. IsRecord(handler[r])
      BY DEF UploadInv, MomentInv, Handlers, Good, TypeOf
    <2> QED
      BY <2>1, <2>2, NewOthers
  <1>2. CASE Files!GetFileInfo(q)
    BY <1>2, NotBy DEF Files!GetFileInfo
  <1>3. CASE Files!OpenFile(q)
    BY <1>3, NotBy DEF Files!OpenFile
  <1>4. CASE Files!RemoveFile(q)
    BY <1>4, NotBy DEF Files!RemoveFile
  <1>5. CASE Files!OpenForWriting(q)
    BY <1>5, NotBy DEF Files!OpenForWriting
  <1>6. CASE Files!Write(q)
    BY <1>6, NotBy DEF Files!Write
  <1>7. CASE Files!Undo(q)
    BY <1>7, NotBy DEF Files!Undo
  <1>8. CASE Files!Flush(q)
    BY <1>8, NotBy DEF Files!Flush
  <1> QED
    BY <1>1, <1>2, <1>3, <1>4, <1>5, <1>6, <1>7, <1>8

\* Only a write makes a 201.
LEMMA AnswerOf ==
  ASSUME NEW r \in Reactors, NEW h, IsRecord(h), NEW reply, NEW now, Files!Moves(r, Files!Answers(h, reply), now)
  PROVE  handler'[r].answer = reply
  <1> PICK a : a = Files!Answers(h, reply)
    OBVIOUS
  <1>1. IsRecord(a) /\ a.answer = reply
    BY AnswerFields
  <1> QED
    BY <1>1, MoverIs

LEMMA GetFileInfoAnswers ==
  ASSUME UploadInv, NEW r \in Reactors, Files!GetFileInfo(r), handler'[r].at = "answered"
  PROVE  handler'[r].answer # 201
  <1> PICK h : h = handler[r]
    OBVIOUS
  <1>1. IsRecord(h) /\ h.answer = 0 /\ h.req \in Files!Requests /\ h.at = "route"
    BY Before DEF Files!GetFileInfo, Files!At, Good, TypeOf, HandlerWorks
  <1> PICK known : known = [h EXCEPT !.size = Len(inodes[dir])]
    OBVIOUS
  <1>2. IsRecord(known) /\ known.answer = 0
    BY <1>1, NewSize
  <1>3. \/ \E reply \in {400, 403, 404} : Files!Moves(r, Files!Answers(h, reply), Files!File)
        \/ Files!Moves(r, Files!Answers(known, 200), Files!File)
        \/ Files!Moves(r, [known EXCEPT !.at = h.req.method], Files!File)
    <2>1. h.req.target \in {"file", "directory", "refused"}
      BY <1>1 DEF Files!Requests
    <2>2. CASE h.req.target = "refused"
      BY <2>2 DEF Files!GetFileInfo
    <2>3. CASE h.req.target = "directory"
      BY <2>3 DEF Files!GetFileInfo
    <2>4. CASE h.req.target = "file" /\ dir = Removed
      BY <2>4 DEF Files!GetFileInfo
    <2>5. CASE h.req.target = "file" /\ dir # Removed
      BY <2>5 DEF Files!GetFileInfo
    <2> QED
      BY <2>1, <2>2, <2>3, <2>4, <2>5
  <1>4. CASE \E reply \in {400, 403, 404} : Files!Moves(r, Files!Answers(h, reply), Files!File)
    BY <1>1, <1>4, AnswerOf
  <1>5. CASE Files!Moves(r, Files!Answers(known, 200), Files!File)
    BY ONLY r \in Reactors, <1>2, <1>5, AnswerOf
  <1>6. CASE Files!Moves(r, [known EXCEPT !.at = h.req.method], Files!File)
    <2> PICK method : method = h.req.method
      OBVIOUS
    <2> PICK g : g = [known EXCEPT !.at = method]
      OBVIOUS
    <2>1. IsRecord(known)
      BY <1>2
    <2>2. IsRecord(g) /\ g.answer = known.answer
      BY ONLY <2>1, g = [known EXCEPT !.at = method], NewAt
    <2>3. handler'[r].answer = g.answer
      BY <1>6, <2>2, MoverIs
    <2> QED
      BY <1>2, <2>2, <2>3
  <1> QED
    BY <1>3, <1>4, <1>5, <1>6

LEMMA OpenFileAnswers ==
  ASSUME UploadInv, NEW r \in Reactors, Files!OpenFile(r)
  PROVE  handler'[r].answer # 201
  <1> PICK h : h = handler[r]
    OBVIOUS
  <1>1. IsRecord(h)
    BY Before DEF Good, TypeOf
  <1>2. CASE Files!Moves(r, Files!Answers(h, 500), Files!File)
    BY <1>1, <1>2, AnswerOf
  <1>3. CASE Files!Moves(r, [Files!Answers(h, 200) EXCEPT !.inode = dir], Files!File)
    <2> PICK a : a = Files!Answers(h, 200)
      OBVIOUS
    <2> PICK inode : inode = dir
      OBVIOUS
    <2> PICK g : g = [a EXCEPT !.inode = inode]
      OBVIOUS
    <2>1. IsRecord(a) /\ a.answer = 200
      BY <1>1, AnswerFields
    <2>2. IsRecord(a)
      BY <2>1
    <2>3. IsRecord(g) /\ g.answer = a.answer
      BY ONLY <2>2, g = [a EXCEPT !.inode = inode], NewInodeField
    <2>4. Files!Moves(r, g, Files!File)
      BY <1>3
    <2>5. handler'[r].answer = g.answer
      BY ONLY r \in Reactors, <2>3, <2>4, MoverIs
    <2> QED
      BY <2>1, <2>3, <2>5
  <1> QED
    BY <1>2, <1>3 DEF Files!OpenFile

LEMMA OpenForWritingAnswers ==
  ASSUME UploadInv, NEW r \in Reactors, Files!OpenForWriting(r), handler'[r].at = "answered"
  PROVE  handler'[r].answer # 201
  <1> PICK h : h = handler[r]
    OBVIOUS
  <1>1. IsRecord(h)
    BY Before DEF Good, TypeOf
  <1>2. CASE h.req.target = "file"
    <2> PICK inode : inode = IF dir = Removed THEN Files!NewInode ELSE dir
      OBVIOUS
    <2> PICK f : f = [h EXCEPT !.at = "write"]
      OBVIOUS
    <2> PICK g : g = [f EXCEPT !.inode = inode]
      OBVIOUS
    <2>1. Files!Moves(r, [h EXCEPT !.at = "write", !.inode = inode], << >>)
      BY <1>2 DEF Files!OpenForWriting
    <2>2. [h EXCEPT !.at = "write", !.inode = inode] = g
      BY <1>1 DEF IsRecord
    <2>3. IsRecord(f) /\ f.at = "write"
      BY ONLY <1>1, f = [h EXCEPT !.at = "write"], NewAt
    <2>4. IsRecord(f)
      BY <2>3
    <2>5. IsRecord(g) /\ g.at = f.at
      BY ONLY <2>4, g = [f EXCEPT !.inode = inode], NewInodeField
    <2>6. Files!Moves(r, g, << >>)
      BY <2>1, <2>2
    <2>7. handler'[r].at = g.at
      BY ONLY r \in Reactors, <2>5, <2>6, MoverIs
    <2> QED
      BY <2>3, <2>5, <2>7
  <1>3. CASE h.req.target # "file"
    <2>1. Files!Moves(r, Files!Answers(h, 400), Files!File) \/ Files!Moves(r, Files!Answers(h, 500), Files!File)
      BY <1>3 DEF Files!OpenForWriting
    <2> QED
      BY <1>1, <2>1, AnswerOf
  <1> QED
    BY <1>2, <1>3

LEMMA OtherAnswers ==
  ASSUME UploadInv, NEW r \in Reactors, Files!RemoveFile(r) \/ Files!Undo(r)
  PROVE  handler'[r].answer # 201
  <1> PICK h : h = handler[r]
    OBVIOUS
  <1>1. IsRecord(h)
    BY Before DEF Good, TypeOf
  <1>2. \/ Files!Moves(r, Files!Answers(h, 500), Removed)
        \/ Files!Moves(r, Files!Answers(h, 204), Removed)
    BY DEF Files!RemoveFile, Files!Undo
  <1> QED
    BY <1>1, <1>2, AnswerOf

LEMMA LoneWrite ==
  ASSUME UploadInv, NEW r \in Reactors, Files!Write(r) \/ Files!Flush(r),
         handler'[r].at = "answered", handler[r].others = {}, ~diskFull
  PROVE  Files!File' = handler[r].req.body
  <1> PICK h : h = handler[r]
    OBVIOUS
  <1> PICK body : body = h.req.body
    OBVIOUS
  <1>1. /\ FileFacts /\ IsRecord(h) /\ h.at \in {"write", "flush"} /\ UNCHANGED dir
    BY Before DEF Good, TypeOf, Files!Write, Files!Flush, Files!At
  <1>2. inodes' = Files!Put(r)
    <2>1. CASE Files!Write(r) /\ Len(h.req.body) <= BufferSize
      <3> PICK g : g = [h EXCEPT !.at = "flush"]
        OBVIOUS
      <3>1. Files!Moves(r, g, Files!File)
        BY <2>1 DEF Files!Write
      <3>2. IsRecord(h)
        BY <1>1
      <3>3. IsRecord(g) /\ g.at = "flush"
        BY ONLY <3>2, g = [h EXCEPT !.at = "flush"], NewAt
      <3>4. handler'[r].at = g.at
        BY ONLY r \in Reactors, <3>1, <3>3, MoverIs
      <3> QED
        BY <3>3, <3>4
    <2>2. CASE Files!Write(r) /\ ~(Len(h.req.body) <= BufferSize)
      BY <2>2 DEF Files!Write
    <2>3. CASE Files!Flush(r)
      BY <2>3 DEF Files!Flush
    <2> QED
      BY <2>1, <2>2, <2>3
  <1>3. /\ Files!Put(r) \in Seq(Seq(Files!Byte)) /\ h.inode \in 1 .. Len(inodes) /\ body \in Seq(Files!Byte)
        /\ Files!Put(r)[h.inode] = Files!Over(inodes[h.inode], body)
    BY <1>1, PutIsBytes
  <1>4. dir = h.inode /\ inodes[h.inode] = << >> /\ dir # Removed
    <2>1. dir = h.inode /\ dir \in 1 .. Len(inodes) /\ inodes[dir] = << >>
      BY <1>1 DEF UploadInv, AloneWithIt
    <2>2. Len(inodes) \in Nat /\ Removed \notin Nat
      BY <1>1, HandlersAssume DEF FileFacts
    <2>3. dir \in Nat
      BY ONLY <2>1, <2>2
    <2> QED
      BY <2>1, <2>2, <2>3
  <1>5. Files!Over(<< >>, body) = body
    <2>1. << >> \in Seq(Files!Byte)
      OBVIOUS
    <2> QED
      BY <1>3, <2>1, OverIsBytes
  <1>6. Files!File' = Files!Put(r)[h.inode]
    BY <1>1, <1>2, <1>4 DEF Files!File
  <1> QED
    BY <1>3, <1>4, <1>5, <1>6

LEMMA LoneUploadHolds == UploadInv /\ [Files!Next]_(Files!vars) => Files!LoneUploadStep
  <1> SUFFICES ASSUME UploadInv, [Files!Next]_(Files!vars), NEW r \in Reactors, Files!Running(r),
                      handler'[r].at = "answered", handler'[r].answer = 201,
                      handler[r].others = {}, ~diskFull
               PROVE  Files!File' = handler[r].req.body
    BY DEF Files!LoneUploadStep
  <1>1. handler'[r].at # handler[r].at
    BY DEF Files!Running
  <1>2. PICK q \in Reactors :
          \/ Files!Start(q) \/ Files!GetFileInfo(q) \/ Files!OpenFile(q) \/ Files!RemoveFile(q)
          \/ Files!OpenForWriting(q) \/ Files!Write(q) \/ Files!Undo(q) \/ Files!Flush(q)
    BY <1>1 DEF Files!Next, Files!DiskFills, Files!vars
  <1>3. q = r
    BY <1>1, <1>2, OthersDoNotAnswer
  <1>4. ~Files!Start(r)
    BY DEF Files!Start, Files!Running, Files!At
  <1>5. ~Files!GetFileInfo(r)
    BY GetFileInfoAnswers
  <1>6. ~Files!OpenFile(r)
    BY OpenFileAnswers
  <1>7. ~Files!OpenForWriting(r)
    BY OpenForWritingAnswers
  <1>8. ~Files!RemoveFile(r) /\ ~Files!Undo(r)
    BY OtherAnswers
  <1>9. Files!Write(r) \/ Files!Flush(r)
    BY <1>2, <1>3, <1>4, <1>5, <1>6, <1>7, <1>8
  <1> QED
    BY <1>9, LoneWrite

-----------------------------------------------------------------------------
(***************************************************************************)
(* pipex: the same commands, started by another parent.                    *)
(***************************************************************************)
LEMMA PxWords ==
  /\ Px!NoFile = NoFile /\ Px!ThePipe = ThePipe /\ Px!Tty = Tty /\ Px!Nothing = Nothing
  /\ Px!Stages = Stages /\ Px!Pipes = Pipes /\ Px!Parent = Parent /\ Px!Absent = Absent
  /\ Px!Scribe = MaxStages + 1 /\ Px!stageVars = stageVars
  /\ \A text, copies, status1 : Px!Program(text, copies, status1) = Program(text, copies, status1)
  /\ \A q, input : Px!Output(q, input) = Output(q, input)
  BY DEF Px!NoFile, NoFile, Px!ThePipe, ThePipe, Px!Tty, Tty, Px!Nothing, Nothing, Px!Stages, Stages,
         Px!Pipes, Pipes, Px!Parent, Parent, Px!Absent, Absent, Px!Scribe, Px!stageVars, stageVars,
         Px!Program, Program, Px!Output, Output

LEMMA PxCommands ==
  ASSUME NEW i
  PROVE  /\ Px!Over(i) <=> Over(i)
         /\ Px!Work(i) <=> Work(i)
         /\ \A q : Px!Becomes(i, q) <=> Becomes(i, q)
  <1>1. /\ Px!Over(i) <=> Over(i)
        /\ \A q : Px!Becomes(i, q) <=> Becomes(i, q)
        /\ \A how : Px!Leave(i, how) <=> Leave(i, how)
        /\ Px!Readers(i) = Readers(i) /\ Px!Writers(i - 1) = Writers(i - 1)
        /\ (Px!Writing(i) <=> Writing(i)) /\ (Px!Reading(i) <=> Reading(i))
        /\ Px!Written(i) = Written(i) /\ \A item : Px!Copied(i, item) = Copied(i, item)
    BY DEF Px!Over, Over, Px!Becomes, Becomes, Px!Leave, Leave, Px!Readers, Readers, Px!Writers, Writers,
           Px!Writing, Writing, Px!Reading, Reading, Px!Written, Written, Px!Copied, Copied
  <1>2. Px!WriteToPipe(i) <=> WriteToPipe(i)
    BY <1>1, PxWords DEF Px!WriteToPipe, WriteToPipe
  <1>3. Px!WriteToFile(i) <=> WriteToFile(i)
    BY <1>1, PxWords DEF Px!WriteToFile, WriteToFile
  <1>4. Px!ReadFromPipe(i) <=> ReadFromPipe(i)
    BY <1>1, PxWords DEF Px!ReadFromPipe, ReadFromPipe
  <1>5. Px!ReadFromFile(i) <=> ReadFromFile(i)
    BY <1>1, PxWords DEF Px!ReadFromFile, ReadFromFile
  <1>6. Px!AtEnd(i) <=> AtEnd(i)
    BY <1>1, PxWords DEF Px!AtEnd, AtEnd
  <1>7. Px!Finish(i) <=> Finish(i)
    BY <1>1, <1>6 DEF Px!Finish, Finish
  <1> QED
    BY <1>1, <1>2, <1>3, <1>4, <1>5, <1>7 DEF Px!Work, Work

\* A call that can be answered: its programs are there, its output can be opened, and
\* its input is a document, or another file, which can be read.
Fits(c) ==
  /\ \A i \in 1 .. Len(c.programs) : c.programs[i] # <<>>
  /\ c.out # NoFile
  /\ c.heredoc \/ (c.in # NoFile /\ c.in # c.out /\ FileSystem[c.in.name] # Absent)

Given(c) == IF c.heredoc THEN c.lines ELSE FileSystem[c.in.name]
Kept(c) == IF c.heredoc /\ FileSystem[c.out.name] # Absent THEN FileSystem[c.out.name] ELSE <<>>

Flows(c, flow) ==
  /\ flow \in [0 .. Len(c.programs) -> Seq(Items)]
  /\ flow[0] = Given(c)
  /\ \A i \in 1 .. Len(c.programs) : flow[i] = Output(c.programs[i], flow[i - 1])

CallPlan(c, flow) ==
  [i \in 1 .. Len(c.programs) |->
     [program |-> c.programs[i],
      in |-> IF i > 1 \/ c.heredoc THEN ThePipe ELSE c.in,
      out |-> IF i < Len(c.programs) THEN ThePipe ELSE c.out,
      input |-> flow[i - 1], base |-> Kept(c)]]

LEMMA CallIs ==
  ASSUME NEW c \in Calls
  PROVE  /\ Len(c.programs) \in 1 .. MaxStages /\ Len(c.programs) \in Nat /\ MaxStages \in Nat
         /\ DOMAIN c.programs = 1 .. Len(c.programs)
         /\ \A i \in 1 .. Len(c.programs) : c.programs[i] # <<>> => c.programs[i] \in Programs
         /\ c.heredoc \in BOOLEAN /\ c.lines \in Seq(Items) /\ c.in \in Places /\ c.out \in Places
         /\ c.in # NoFile => c.in.name \in Names /\ c.in.kind = "file" /\ c.in.pos = 0 /\ c.in = File(c.in.name)
         /\ c.out # NoFile => c.out.name \in Names /\ c.out.kind = "file" /\ c.out.pos = 0 /\ c.out = File(c.out.name)
  <1>1. /\ c.programs \in Seq({<<>>} \cup Programs) /\ Len(c.programs) \in 1 .. MaxStages
        /\ c.in \in Redirections /\ c.out \in Redirections
        /\ c.heredoc \in BOOLEAN /\ c.lines \in Seq(Items)
    BY CallsAreCalls
  <1>2. /\ DOMAIN c.programs = 1 .. Len(c.programs) /\ Len(c.programs) \in Nat
        /\ \A i \in 1 .. Len(c.programs) : c.programs[i] # <<>> => c.programs[i] \in Programs
    BY <1>1
  <1>3. ASSUME NEW x \in Redirections
        PROVE  /\ x \in Places
               /\ x # NoFile => x.name \in Names /\ x.kind = "file" /\ x.pos = 0 /\ x = File(x.name)
    BY DEF Redirections, File, NoFile, Places
  <1> QED
    BY <1>1, <1>2, <1>3, StagesAreBounded

LEMMA GivenIs ==
  ASSUME NEW c \in Calls, Fits(c)
  PROVE  /\ Given(c) \in Seq(Items) /\ Kept(c) \in Seq(Items) /\ c.out.name \in Names
         /\ \A i \in 1 .. Len(c.programs) : c.programs[i] \in Programs
  BY CallIs, FilesHoldItems DEF Given, Kept, Fits

Texts == Seq(Items)

LEMMA TextsIterate ==
  ASSUME NEW n \in Nat, NEW start \in Texts, NEW f \in [1 .. n -> [Texts -> Texts]]
  PROVE  \E g \in [0 .. n -> Texts] : g[0] = start /\ \A i \in 1 .. n : g[i] = f[i][g[i - 1]]
  <1>1. f \in StepsOver(Texts, n)
    BY ONLY f \in [1 .. n -> [Texts -> Texts]] DEF StepsOver
  <1>2. \E g \in [0 .. n -> Texts] : Iterated(g, n, start, f)
    BY ONLY <1>1, Iterates, n \in Nat, start \in Texts
  <1> QED
    BY ONLY <1>2 DEF Iterated

LEMMA FlowIs ==
  ASSUME NEW c \in Calls, c = call, Fits(c)
  PROVE  Flows(c, Px!Flow)
  <1> DEFINE Steps(f) == [i \in 0 .. Len(c.programs) |-> IF i = 0 THEN Given(c) ELSE Output(c.programs[i], f[i - 1])]
  <1> PICK n : n = Len(c.programs)
    OBVIOUS
  <1> PICK start : start = Given(c)
    OBVIOUS
  <1>1. n \in Nat /\ start \in Seq(Items) /\ \A i \in 1 .. n : c.programs[i] \in Programs
    BY CallIs, GivenIs
  <1>2. ASSUME NEW i \in 1 .. n, NEW s \in Seq(Items) PROVE Output(c.programs[i], s) \in Seq(Items)
    BY <1>1, OutputIs
  <1>3. \E f : f = Steps(f)
    <2> PICK runs : runs = [i \in 1 .. n |-> [s \in Seq(Items) |-> Output(c.programs[i], s)]]
      OBVIOUS
    <2>1. runs \in [1 .. n -> [Seq(Items) -> Seq(Items)]]
      BY <1>2
    <2>2. PICK g \in [0 .. n -> Texts] : g[0] = start /\ \A i \in 1 .. n : g[i] = runs[i][g[i - 1]]
      <3>1. n \in Nat /\ runs \in [1 .. n -> [Texts -> Texts]] /\ start \in Texts
        BY <1>1, <2>1 DEF Texts
      <3> QED
        BY ONLY <3>1, TextsIterate
    <2>3. ASSUME NEW i \in 0 .. n PROVE g[i] = IF i = 0 THEN Given(c) ELSE Output(c.programs[i], g[i - 1])
      <3>1. CASE i = 0
        BY <2>2, <3>1
      <3>2. CASE i # 0
        <4>1. i \in 1 .. n /\ i - 1 \in 0 .. n
          BY <1>1, <3>2
        <4>2. g[i - 1] \in Seq(Items)
          BY <4>1 DEF Texts
        <4> QED
          BY <2>2, <3>2, <4>1, <4>2
      <3> QED
        BY <3>1, <3>2
    <2>4. g = [i \in 0 .. n |-> g[i]]
      OBVIOUS
    <2>5. g = Steps(g)
      BY <2>3, <2>4
    <2> HIDE DEF Steps
    <2> QED
      BY <2>5
  <1> PICK a : a = Px!Flow
    OBVIOUS
  <1>4. a = Steps(a)
    <2>1. Px!InputText = Given(c)
      BY DEF Px!InputText, Px!Content, Given, Fits, Px!Absent, Absent
    <2>2. Px!Count = Len(c.programs)
      BY DEF Px!Count
    <2>3. a = CHOOSE f : f = [i \in 0 .. Px!Count |-> IF i = 0 THEN Px!InputText ELSE Px!Output(call.programs[i], f[i - 1])]
      BY Zenon DEF Px!Flow
    <2>4. \A f : [i \in 0 .. Px!Count |-> IF i = 0 THEN Px!InputText ELSE Px!Output(call.programs[i], f[i - 1])] = Steps(f)
      BY <2>1, <2>2, PxWords
    <2>5. a = CHOOSE f : f = Steps(f)
      <3> HIDE DEF Steps
      <3> QED
        BY ONLY <2>3, <2>4
    <2> HIDE DEF Steps
    <2> QED
      BY <1>3, <2>5
  <1>5. DOMAIN a = 0 .. n /\ a[0] = start /\ \A i \in 1 .. n : a[i] = Output(c.programs[i], a[i - 1])
    BY <1>1, <1>4
  <1>6. a \in [0 .. n -> Seq(Items)]
    <2> PICK S : S = {i \in 0 .. n : a[i] \in Seq(Items)}
      OBVIOUS
    <2>1. 0 \in S
      BY <1>1, <1>5
    <2>2. ASSUME NEW i \in 1 .. n, i - 1 \in S PROVE i \in S
      BY <1>1, <1>2, <1>5, <2>2
    <2>3. 0 .. n \subseteq S
      BY ONLY <1>1, <2>1, <2>2, OneAfterAnother
    <2>4. a = [i \in 0 .. n |-> a[i]]
      BY <1>4
    <2> QED
      BY <2>3, <2>4
  <1> QED
    BY <1>5, <1>6 DEF Flows

LEMMA CallPlanIs ==
  ASSUME NEW c \in Calls, Fits(c), NEW flow, Flows(c, flow), NEW plan, plan = CallPlan(c, flow)
  PROVE  /\ WellFormed(plan) /\ Len(plan) = Len(c.programs)
         /\ \A i \in 1 .. Len(plan) :
              /\ plan[i].program = c.programs[i] /\ plan[i].base = Kept(c) /\ plan[i].input = flow[i - 1]
              /\ plan[i].in = IF i > 1 \/ c.heredoc THEN ThePipe ELSE c.in
              /\ plan[i].out = IF i < Len(plan) THEN ThePipe ELSE c.out
              /\ Told(plan[i]) = flow[i]
  <1> PICK n : n = Len(c.programs)
    OBVIOUS
  <1>1. /\ n \in Nat /\ n \in 1 .. MaxStages /\ c.in \in Places /\ c.out \in Places
        /\ c.out # NoFile /\ c.out.kind = "file" /\ c.out.name \in Names
        /\ c.in # NoFile => c.in.name \in Names /\ c.in.kind = "file" /\ c.in.pos = 0 /\ c.in = File(c.in.name)
        /\ c.out = File(c.out.name)
        /\ ~c.heredoc => c.in # NoFile /\ c.in # c.out
        /\ Kept(c) \in Seq(Items) /\ \A i \in 1 .. n : c.programs[i] \in Programs
    BY CallIs, GivenIs DEF Fits
  <1>2. plan = [i \in 1 .. n |-> plan[i]]
    BY DEF CallPlan
  <1>3. Len(plan) = n
    BY <1>1, <1>2
  <1>4. ASSUME NEW i \in 1 .. n
        PROVE  /\ plan[i] = [program |-> plan[i].program, in |-> plan[i].in, out |-> plan[i].out,
                             input |-> plan[i].input, base |-> plan[i].base]
               /\ plan[i].program = c.programs[i] /\ plan[i].base = Kept(c) /\ plan[i].input = flow[i - 1]
               /\ plan[i].in = IF i > 1 \/ c.heredoc THEN ThePipe ELSE c.in
               /\ plan[i].out = IF i < n THEN ThePipe ELSE c.out
    BY DEF CallPlan
  <1>5. ASSUME NEW i \in 1 .. n PROVE plan[i] \in Tasks /\ Told(plan[i]) = flow[i]
    <2>1. plan[i].input \in Seq(Items)
      <3>1. i - 1 \in 0 .. n
        BY <1>1
      <3> QED
        BY <1>4, <3>1 DEF Flows
    <2>2. plan[i].in \in Places /\ plan[i].out \in Places
      <3>1. ThePipe \in Places
        BY DEF Places
      <3> QED
        BY ONLY <1>1, <1>4, i \in 1 .. n, <3>1
    <2>3. plan[i].program \in Programs /\ plan[i].base \in Seq(Items)
      BY <1>1, <1>4
    <2>4. plan[i] \in Tasks
      <3> PICK t : t = plan[i]
        OBVIOUS
      <3>1. t = [program |-> t.program, in |-> t.in, out |-> t.out, input |-> t.input, base |-> t.base]
        BY <1>4
      <3>2. t.program \in Programs /\ t.in \in Places /\ t.out \in Places /\ t.input \in Seq(Items) /\ t.base \in Seq(Items)
        BY <2>1, <2>2, <2>3
      <3>3. t \in Tasks
        BY ONLY <3>1, <3>2 DEF Tasks
      <3> QED
        BY <3>3
    <2>5. Told(plan[i]) = Output(c.programs[i], flow[i - 1])
      BY <1>4 DEF Told
    <2> QED
      BY <2>4, <2>5 DEF Flows
  <1>6. plan \in Seq(Tasks)
    BY ONLY <1>1, <1>2, <1>5
  <1>7. ASSUME NEW i \in 1 .. n
        PROVE  /\ plan[i].in # NoFile /\ plan[i].out # NoFile /\ plan[i].in # Tty /\ plan[i].out # Tty
               /\ plan[i].in.kind = "file" => plan[i].in.pos = 0 /\ ~c.heredoc /\ plan[i].in = c.in
               /\ plan[i].out.kind = "file" => i = n /\ plan[i].out = c.out
               /\ plan[i].out = ThePipe => i < n
    <2> PICK in : in = plan[i].in
      OBVIOUS
    <2> PICK out : out = plan[i].out
      OBVIOUS
    <2>1. in = (IF i > 1 \/ c.heredoc THEN ThePipe ELSE c.in) /\ out = IF i < n THEN ThePipe ELSE c.out
      BY <1>4
    <2>2. (~c.heredoc => c.in.kind = "file" /\ c.in.pos = 0) /\ c.out.kind = "file"
      BY <1>1
    <2>3. /\ in # NoFile /\ in # Tty /\ (in.kind = "file" => in.pos = 0 /\ ~c.heredoc /\ in = c.in)
      BY ONLY <2>1, <2>2 DEF ThePipe, NoFile, Tty
    <2>4. /\ out # NoFile /\ out # Tty /\ (out.kind = "file" => ~(i < n) /\ out = c.out)
          /\ (out = ThePipe => i < n)
      BY ONLY <2>1, <2>2 DEF ThePipe, NoFile, Tty
    <2>5. ~(i < n) => i = n
      BY <1>1
    <2> QED
      BY ONLY <2>3, <2>4, <2>5, in = plan[i].in, out = plan[i].out
  <1>8. ASSUME NEW i \in 1 .. n, i > 1
        PROVE  plan[i].input = IF plan[i - 1].out = ThePipe THEN Told(plan[i - 1]) ELSE <<>>
    <2>1. i - 1 \in 1 .. n /\ i - 1 < n
      BY <1>1, <1>8
    <2>2. plan[i - 1].out = ThePipe /\ Told(plan[i - 1]) = flow[i - 1]
      BY <1>4, <1>5, <2>1
    <2> QED
      BY <1>4, <2>2
  <1>9. ASSUME NEW i \in 1 .. n, NEW j \in 1 .. n, plan[i].out.kind = "file"
        PROVE  /\ plan[j].in.kind = "file" => plan[j].in.name # plan[i].out.name
               /\ j # i /\ plan[j].out.kind = "file" => plan[j].out.name # plan[i].out.name
    <2>1. i = n /\ plan[i].out = c.out
      BY <1>7, <1>9
    <2>2. plan[j].in.kind = "file" => plan[j].in = c.in /\ ~c.heredoc
      BY <1>7
    <2>3. plan[j].out.kind = "file" => j = n
      BY <1>7
    <2> QED
      BY <1>1, <2>1, <2>2, <2>3
  <1>10. WellFormed(plan)
    BY <1>1, <1>3, <1>6, <1>7, <1>8, <1>9 DEF WellFormed
  <1> QED
    BY <1>3, <1>4, <1>5, <1>10

\* The files as the commands find them.
Opening(c) == [files |-> [FileSystem EXCEPT ![c.out.name] = Kept(c)], shown |-> <<>>]

PxTypes ==
  /\ StageTypes /\ DOMAIN pipe = Pipes \cup {0} /\ DOMAIN ends = {Parent, Px!Scribe} \cup Stages
  /\ call \in Calls /\ document \in Seq(Items)
  /\ pc \in {"begin", "document", "output", "starting", "waiting", "over"}
  /\ pc \notin {"begin", "over"} => \A i \in 1 .. Len(call.programs) : call.programs[i] # <<>>

\* Nothing but the output file is written to.
PxApart ==
  /\ \A i \in Stages : proc[i].state # "none" => proc[i].out \in {ThePipe, call.out}
  /\ \A f \in Names : call.out = NoFile \/ f # call.out.name => files[f] = FileSystem[f]

PxBefore ==
  /\ at = 1 /\ \A i \in Stages : proc[i].state = "none"
  /\ \A j \in Pipes : pipe[j] = <<>>
  /\ files = FileSystem /\ shown = <<>>
  /\ pc = "begin" => pipe[0] = <<>> /\ document = call.lines
  /\ pc # "begin" => /\ (1 .. Len(call.programs) - 1) \X {"r", "w"} \subseteq ends[Parent]
                     /\ call.heredoc => << 0, "r" >> \in ends[Parent]
  /\ pc = "document" => /\ call.heredoc /\ pipe[0] \o document = call.lines
                        /\ ends[Px!Scribe] = {} => document = <<>>
  /\ pc = "output" /\ call.heredoc => pipe[0] = call.lines

PxOnTheWay ==
  \A c, flow, plan, from : c = call /\ Fits(c) /\ Flows(c, flow) /\ plan = CallPlan(c, flow) /\ from = Opening(c) =>
    /\ Net(plan) /\ Untouched(plan, from)
    /\ \A i \in 1 .. Len(plan) : proc[i].state # "none" => proc[i].code = plan[i].program.code

PxBegins == /\ at \in 1 .. Len(call.programs) + 1
            /\ \A i \in Stages : proc[i].state = "none" <=> i >= at
PxGoes == /\ at \in 1 .. Len(call.programs)
          /\ \A i \in Stages : proc[i].state = "none" <=> i > Len(call.programs)
          /\ \A i \in Stages : i < at => Over(i)

PxInv ==
  /\ PxTypes /\ PxApart
  /\ pc \in {"begin", "document", "output"} => PxBefore
  /\ pc = "starting" => PxBegins
  /\ pc = "waiting" => PxGoes
  /\ pc \in {"starting", "waiting"} => PxOnTheWay
  /\ pc = "over" => Px!LikeTheShell /\ \A i \in Stages : proc[i].state \in {"none", "ended", "killed"}

LEMMA OpeningIs ==
  ASSUME NEW c \in Calls, Fits(c), NEW from, from = Opening(c)
  PROVE  /\ from.files \in [Names -> Seq(Items)] /\ from.shown = <<>>
         /\ from.files[c.out.name] = Kept(c) /\ c.out.name \in Names
         /\ \A f \in Names : f # c.out.name => from.files[f] = FileSystem[f]
  <1> PICK name : name = c.out.name
    OBVIOUS
  <1> PICK kept : kept = Kept(c)
    OBVIOUS
  <1>1. name \in Names /\ kept \in Seq(Items) /\ FileSystem \in [Names -> Seq(Items)]
    BY GivenIs, FilesHoldItems
  <1>2. from = [files |-> [FileSystem EXCEPT ![name] = kept], shown |-> <<>>]
    BY DEF Opening
  <1>3. from.files = [FileSystem EXCEPT ![name] = kept] /\ from.shown = <<>>
    BY ONLY <1>2
  <1> QED
    BY ONLY <1>1, <1>3, name = c.out.name, kept = Kept(c)

LEMMA PxNetBegins ==
  ASSUME PxTypes, PxBefore, pc = "output", Px!OpenOutput,
         NEW c, c = call, Fits(c), NEW flow, Flows(c, flow), NEW plan, plan = CallPlan(c, flow),
         NEW from, from = Opening(c)
  PROVE  Net(plan)' /\ Untouched(plan, from)'
  <1> PICK n : n = Len(c.programs)
    OBVIOUS
  <1>1. c \in Calls /\ StageTypes /\ UNCHANGED << proc, pipe, ends, shown >>
    BY DEF PxTypes, Px!OpenOutput
  <1>2. /\ n \in Nat /\ n \in 1 .. MaxStages /\ MaxStages \in Nat /\ Len(plan) = n /\ WellFormed(plan)
        /\ c.heredoc \in BOOLEAN
    BY <1>1, CallIs, CallPlanIs
  <1>3. files' = from.files /\ shown' = from.shown
    <2> PICK name : name = c.out.name
      OBVIOUS
    <2> PICK kept : kept = Kept(c)
      OBVIOUS
    <2>1. files' = [FileSystem EXCEPT ![name] = IF @ = Absent \/ ~c.heredoc THEN <<>> ELSE @]
      BY PxWords DEF Px!OpenOutput, PxBefore, Fits
    <2>2. kept = IF FileSystem[name] = Absent \/ ~c.heredoc THEN <<>> ELSE FileSystem[name]
      BY <1>2 DEF Kept
    <2>3. name \in Names /\ FileSystem \in [Names -> Seq(Items)]
      BY <1>1, GivenIs, FilesHoldItems
    <2>4. files' = [FileSystem EXCEPT ![name] = kept]
      BY ONLY <2>1, <2>2, <2>3
    <2>5. from = [files |-> [FileSystem EXCEPT ![name] = kept], shown |-> <<>>]
      BY DEF Opening
    <2>6. shown' = <<>>
      BY <1>1 DEF PxBefore
    <2> QED
      BY ONLY <2>4, <2>5, <2>6
  <1>4. ASSUME NEW i \in 1 .. n PROVE AtWork(plan, i)'
    <2>1. i \in Stages /\ i \in Nat /\ plan[i] \in Tasks /\ Told(plan[i]) \in Seq(Items) /\ plan[i].base \in Seq(Items)
          /\ plan[i].in \in Places /\ plan[i].out \in Places /\ plan[i].input \in Seq(Items)
      BY <1>2, OneTask
    <2>2. proc'[i].state = "none" /\ Got(plan[i], proc'[i]) = 0 /\ Put(plan[i], proc'[i]) = 0
      BY <1>1, <2>1 DEF Got, Put, PxBefore
    <2>3. Follows(plan[i], proc[i])'
      BY <2>2 DEF Follows
    <2>4. /\ plan[i].in = IF i > 1 \/ c.heredoc THEN ThePipe ELSE c.in
          /\ plan[i].out = IF i < n THEN ThePipe ELSE c.out
          /\ plan[i].input = flow[i - 1]
      BY <1>1, <1>2, CallPlanIs
    <2>5. /\ c.in # NoFile => c.in.kind = "file" /\ c.in.name \in Names
          /\ c.out.kind = "file" /\ c.out.name \in Names
          /\ ~c.heredoc => c.in # NoFile /\ c.in.name # c.out.name
      BY <1>1, CallIs DEF Fits
    <2>6. /\ plan[i].in = ThePipe => i > 1 \/ c.heredoc
          /\ plan[i].in.kind = "file" => i = 1 /\ ~c.heredoc /\ plan[i].in = c.in
          /\ plan[i].out = ThePipe => i < n
          /\ plan[i].out # Tty
      BY <1>2, <2>1, <2>4, <2>5 DEF ThePipe, Tty
    <2>7. PipeKeeps(plan, i)'
      <3> SUFFICES ASSUME plan[i].in = ThePipe PROVE PipeKeeps(plan, i)'
        BY DEF PipeKeeps
      <3>1. CASE i > 1
        <4>1. i - 1 \in Pipes /\ i - 1 \in Stages /\ i - 1 # 0
          BY <1>2, <2>1, <3>1 DEF Pipes, Stages
        <4>2. pipe'[i - 1] = <<>> /\ i - 1 \in DOMAIN pipe'
          BY <1>1, <4>1 DEF PxBefore, PxTypes
        <4>3. Sent(plan, i - 1)' = 0
          BY <1>1, <4>1 DEF Sent, Put, PxBefore
        <4> QED
          BY <2>2, <4>2, <4>3 DEF PipeKeeps
      <3>2. CASE i = 1
        <4>1. pipe'[0] = c.lines /\ 0 \in DOMAIN pipe' /\ plan[1].input = c.lines
          <5>1. c.heredoc
            BY <2>6, <3>2
          <5>2. plan[1].input = flow[0]
            BY ONLY <2>4, <3>2
          <5> QED
            BY <1>1, <5>1, <5>2 DEF PxBefore, PxTypes, Flows, Given
        <4>2. Sent(plan, 0)' = Len(c.lines)
          BY <4>1 DEF Sent
        <4>3. c.lines \in Seq(Items) /\ Got(plan[1], proc'[1]) = 0
          BY <1>1, <2>2, <3>2, CallIs
        <4>4. PipeKeeps(plan, 1)'
          BY <4>1, <4>2, <4>3 DEF PipeKeeps
        <4> QED
          BY <3>2, <4>4
      <3> QED
        BY <2>1, <3>1, <3>2
    <2>8. SourceStays(plan, i)'
      <3> SUFFICES ASSUME plan[i].in.kind = "file" PROVE files'[plan[i].in.name] = plan[i].input
        BY DEF SourceStays
      <3>1. plan[i].input = flow[0]
        BY ONLY <2>4, <2>6, plan[i].in.kind = "file"
      <3>2. plan[i].input = FileSystem[c.in.name] /\ c.in.name # c.out.name /\ c.in.name \in Names /\ plan[i].in = c.in
        BY <2>5, <2>6, <3>1 DEF Flows, Given
      <3>3. from.files[c.in.name] = FileSystem[c.in.name]
        BY <1>1, <3>2, OpeningIs
      <3> QED
        BY <1>3, <3>2, <3>3
    <2>9. SinkGrows(plan, i)'
      BY <2>2, <2>6 DEF SinkGrows
    <2>10. EndsWell(plan, i)'
      BY <2>2 DEF EndsWell
    <2>11. HoldsEnds(plan, i)'
      <3>1. Holder(i)' = Parent /\ ends'[Parent] = ends[Parent]
        BY <1>1, <2>2 DEF Holder
      <3>2. EndsOf(plan, i) \subseteq ends[Parent]
        <4>1. plan[i].in = ThePipe => << i - 1, "r" >> \in ends[Parent]
          <5>1. CASE i = 1
            BY <2>6, <5>1 DEF PxBefore
          <5>2. CASE i > 1
            <6>1. i - 1 \in 1 .. n - 1
              BY <1>2, <2>1, <5>2
            <6> QED
              BY <6>1 DEF PxBefore
          <5> QED
            BY <2>1, <5>1, <5>2
        <4>2. plan[i].out = ThePipe => << i, "w" >> \in ends[Parent]
          <5>1. plan[i].out = ThePipe => i \in 1 .. n - 1
            BY <1>2, <2>1, <2>6
          <5> QED
            BY <5>1 DEF PxBefore
        <4> QED
          BY <4>1, <4>2 DEF EndsOf
      <3>3. EndsOf(plan, i)' = EndsOf(plan, i)
        BY DEF EndsOf
      <3> QED
        BY <3>1, <3>2, <3>3 DEF HoldsEnds
    <2> QED
      BY <2>3, <2>7, <2>8, <2>9, <2>10, <2>11 DEF AtWork
  <1>5. Net(plan)'
    BY <1>1, <1>2, <1>4 DEF Net, PxBefore
  <1>6. Untouched(plan, from)'
    BY <1>3 DEF Untouched
  <1> QED
    BY <1>5, <1>6

LEMMA ThePxPlan ==
  ASSUME PxInv, pc \in {"starting", "waiting"},
         NEW c, c = call, Fits(c), NEW flow, Flows(c, flow), NEW plan, plan = CallPlan(c, flow),
         NEW from, from = Opening(c)
  PROVE  /\ c \in Calls /\ StageTypes
         /\ Net(plan) /\ Untouched(plan, from) /\ WellFormed(plan) /\ Len(plan) = Len(c.programs)
         /\ \A i \in 1 .. Len(plan) : i \in Stages /\ (proc[i].state # "none" => proc[i].code = plan[i].program.code)
         /\ Len(c.programs) \in Nat /\ Len(c.programs) \in 1 .. MaxStages /\ MaxStages \in Nat
  <1>1. c \in Calls /\ StageTypes
    BY DEF PxInv, PxTypes
  <1>2. /\ Net(plan) /\ Untouched(plan, from)
        /\ \A i \in 1 .. Len(plan) : proc[i].state # "none" => proc[i].code = plan[i].program.code
    BY DEF PxInv, PxOnTheWay
  <1>3. WellFormed(plan) /\ Len(plan) = Len(c.programs)
    BY <1>1, CallPlanIs
  <1>4. Len(c.programs) \in Nat /\ Len(c.programs) \in 1 .. MaxStages /\ MaxStages \in Nat
    BY <1>1, CallIs
  <1> QED
    BY <1>1, <1>2, <1>3, <1>4, OneTask

LEMMA PxWorks ==
  ASSUME PxInv, NEW i \in Stages, Work(i), UNCHANGED << call, document, at, pc >>
  PROVE  PxInv'
  <1>0. StageTypes /\ call \in Calls /\ call' = call /\ document' = document /\ at' = at /\ pc' = pc
    BY DEF PxInv, PxTypes
  <1>1. /\ proc[i].state = "runs" /\ proc'[i].state \in {"runs", "ended", "killed"}
        /\ proc'[i].out = proc[i].out /\ proc'[i].code = proc[i].code
        /\ \A k \in Stages : k # i => proc'[k] = proc[k]
    BY <1>0, WorkStates
  <1>2. PxTypes'
    BY <1>0, WorkKeepsTypes DEF PxInv, PxTypes
  <1>3. PxApart'
    <2>1. \A k \in Stages : proc'[k].state # "none" => proc'[k].out \in {ThePipe, call.out}
      BY <1>1 DEF PxInv, PxApart
    <2>2. ASSUME NEW f \in Names, call.out = NoFile \/ f # call.out.name PROVE files'[f] = files[f]
      <3>1. CASE WriteToFile(i)
        <4>1. proc[i].out \in {ThePipe, call.out} /\ proc[i].out.kind \in {"file", "tty"}
          BY <1>1, <3>1 DEF PxInv, PxApart, WriteToFile
        <4>2. proc[i].out = call.out /\ call.out # NoFile
          BY <4>1 DEF ThePipe, NoFile
        <4> QED
          BY <1>0, <2>2, <3>1, <4>2 DEF WriteToFile, StageTypes
      <3>2. CASE ~WriteToFile(i)
        BY <3>2 DEF Work, WriteToPipe, ReadFromPipe, ReadFromFile, Finish
      <3> QED
        BY <3>1, <3>2
    <2> QED
      BY <1>0, <2>1, <2>2 DEF PxInv, PxApart
  <1>4. pc = "starting" => PxBegins'
    BY <1>0, <1>1 DEF PxInv, PxBegins
  <1>5. pc = "waiting" => PxGoes'
    BY <1>0, <1>1 DEF PxInv, PxGoes, Over
  <1>6. ASSUME pc \in {"starting", "waiting"} PROVE PxOnTheWay'
    <2> SUFFICES ASSUME NEW c, NEW flow, NEW plan, NEW from, c = call, Fits(c), Flows(c, flow),
                        plan = CallPlan(c, flow), from = Opening(c)
                 PROVE  /\ Net(plan)' /\ Untouched(plan, from)'
                        /\ \A k \in 1 .. Len(plan) : proc'[k].state # "none" => proc'[k].code = plan[k].program.code
      BY <1>0 DEF PxOnTheWay
    <2>1. /\ WellFormed(plan) /\ Net(plan) /\ Untouched(plan, from) /\ MaxStages \in Nat
          /\ \A k \in 1 .. Len(plan) : k \in Stages /\ (proc[k].state # "none" => proc[k].code = plan[k].program.code)
      BY <1>6, ThePxPlan
    <2> QED
      BY <1>0, <1>1, <2>1, WorkKeepsNet, WorkTouches
  <1>7. pc \in {"starting", "waiting"}
    BY <1>1 DEF PxInv, PxTypes, PxBefore
  <1> QED
    BY <1>0, <1>2, <1>3, <1>4, <1>5, <1>6, <1>7 DEF PxInv

LEMMA PxSetsUp ==
  ASSUME PxInv, NEW i \in Stages, Px!SetUp(i)
  PROVE  PxInv'
  <1> PICK q : q = [proc[i] EXCEPT !.state = "runs"]
    OBVIOUS
  <1>0. StageTypes /\ call \in Calls /\ call' = call /\ document' = document /\ at' = at /\ pc' = pc
    BY DEF PxInv, PxTypes, Px!SetUp
  <1>1. /\ proc[i].state = "forked" /\ proc' = [proc EXCEPT ![i] = q]
        /\ ends' = [ends EXCEPT ![i] = Px!OwnEnds(i, @)] /\ UNCHANGED << pipe, files, shown >>
    BY DEF Px!SetUp, Px!Becomes
  <1>2. proc[i] \in Processes
    BY <1>0, <1>1, OneProcess
  <1>3. /\ proc'[i] = q /\ proc'[i].state = "runs" /\ proc'[i].out = proc[i].out /\ proc'[i].code = proc[i].code
        /\ \A k \in Stages : k # i => proc'[k] = proc[k]
    <2>1. proc'[i] = q /\ \A k \in Stages : k # i => proc'[k] = proc[k]
      BY <1>0, <1>1, Others
    <2>2. q.state = "runs" /\ q.out = proc[i].out /\ q.code = proc[i].code
      BY ONLY <1>2, q = [proc[i] EXCEPT !.state = "runs"] DEF Processes
    <2> QED
      BY <2>1, <2>2
  <1>4. PxTypes'
    <2>1. StageTypes'
      BY <1>0, <1>1, SetUpKeepsTypes
    <2> QED
      BY <1>0, <1>1, <2>1 DEF PxInv, PxTypes
  <1>5. PxApart'
    BY <1>0, <1>1, <1>3 DEF PxInv, PxApart
  <1>6. pc = "starting" => PxBegins'
    BY <1>0, <1>1, <1>3 DEF PxInv, PxBegins
  <1>7. pc = "waiting" => PxGoes'
    BY <1>0, <1>1, <1>3 DEF PxInv, PxGoes, Over
  <1>8. ASSUME pc \in {"starting", "waiting"} PROVE PxOnTheWay'
    <2> SUFFICES ASSUME NEW c, NEW flow, NEW plan, NEW from, c = call, Fits(c), Flows(c, flow),
                        plan = CallPlan(c, flow), from = Opening(c)
                 PROVE  /\ Net(plan)' /\ Untouched(plan, from)'
                        /\ \A k \in 1 .. Len(plan) : proc'[k].state # "none" => proc'[k].code = plan[k].program.code
      BY <1>0 DEF PxOnTheWay
    <2>1. /\ WellFormed(plan) /\ Net(plan) /\ Untouched(plan, from) /\ MaxStages \in Nat
          /\ \A k \in 1 .. Len(plan) : k \in Stages /\ (proc[k].state # "none" => proc[k].code = plan[k].program.code)
      BY <1>8, ThePxPlan
    <2>2. i \in DOMAIN ends /\ \A j \in DOMAIN ends : j # i => ends'[j] = ends[j]
      BY <1>0, <1>1 DEF StageTypes
    <2>3. ends[i] \cap EndsOf(plan, i) \subseteq ends'[i]
      <3>1. ends'[i] = ends[i] \cap {<< i - 1, "r" >>, << i, "w" >>}
        BY <1>1, <2>2 DEF Px!OwnEnds
      <3> QED
        BY <3>1 DEF EndsOf
    <2>4. Net(plan)'
      BY <1>0, <1>1, <2>1, <2>2, <2>3, SetsUp
    <2>5. \A k \in 1 .. Len(plan) : /\ proc'[k].state = "none" <=> proc[k].state = "none"
                                    /\ proc'[k].code = proc[k].code
      BY <1>1, <1>3, <2>1
    <2>6. Untouched(plan, from)'
      BY <1>1, <2>1, <2>5 DEF Untouched
    <2> QED
      BY <2>1, <2>4, <2>5, <2>6
  <1>9. pc \in {"starting", "waiting"}
    BY <1>1 DEF PxInv, PxTypes, PxBefore
  <1> QED
    BY <1>0, <1>4, <1>5, <1>6, <1>7, <1>8, <1>9 DEF PxInv

LEMMA PxCloses ==
  ASSUME PxInv, Px!AllStarted
  PROVE  PxInv'
  <1>1. /\ pc = "starting" /\ at > Len(call.programs) /\ at' = 1 /\ pc' = "waiting"
        /\ ends' = [ends EXCEPT ![Parent] = @ \ Px!Documents]
        /\ call' = call /\ document' = document /\ UNCHANGED << proc, pipe, files, shown >>
    BY PxWords DEF Px!AllStarted, Px!Count
  <1>2. StageTypes /\ PxBegins /\ call \in Calls
    BY <1>1 DEF PxInv, PxTypes
  <1>3. Len(call.programs) \in Nat /\ Len(call.programs) \in 1 .. MaxStages /\ at = Len(call.programs) + 1 /\ MaxStages \in Nat
    BY <1>1, <1>2, CallIs DEF PxBegins
  <1>4. PxTypes'
    <2>1. StageTypes'
      BY <1>1, <1>2 DEF StageTypes
    <2> QED
      BY <1>1, <2>1 DEF PxInv, PxTypes
  <1>5. PxApart'
    BY <1>1 DEF PxInv, PxApart
  <1>6. PxGoes'
    <2>1. \A i \in Stages : proc'[i].state = "none" <=> i > Len(call'.programs)
      BY <1>1, <1>2, <1>3 DEF PxBegins, Stages
    <2>2. \A i \in Stages : ~(i < at')
      BY <1>1, <1>3 DEF Stages
    <2> QED
      BY <1>1, <1>3, <2>1, <2>2 DEF PxGoes
  <1>7. PxOnTheWay'
    <2> SUFFICES ASSUME NEW c, NEW flow, NEW plan, NEW from, c = call, Fits(c), Flows(c, flow),
                        plan = CallPlan(c, flow), from = Opening(c)
                 PROVE  /\ Net(plan)' /\ Untouched(plan, from)'
                        /\ \A k \in 1 .. Len(plan) : proc'[k].state # "none" => proc'[k].code = plan[k].program.code
      BY <1>1 DEF PxOnTheWay
    <2>1. /\ WellFormed(plan) /\ Net(plan) /\ Untouched(plan, from) /\ Len(plan) = Len(c.programs)
          /\ \A k \in 1 .. Len(plan) : k \in Stages /\ (proc[k].state # "none" => proc[k].code = plan[k].program.code)
      BY <1>1, ThePxPlan
    <2>2. ASSUME NEW i \in 1 .. Len(plan) PROVE proc[i].state # "none" /\ ends'[i] = ends[i]
      <3>1. i \in Stages /\ i < at /\ i # Parent
        BY <1>3, <2>1 DEF Stages, Parent
      <3>2. proc[i].state # "none"
        BY <1>2, <1>3, <3>1 DEF PxBegins, Stages
      <3>3. i \in DOMAIN ends
        BY <1>2, <3>1 DEF StageTypes
      <3> QED
        BY <1>1, <3>1, <3>2, <3>3
    <2>3. Net(plan)'
      BY <1>1, <1>2, <1>3, <2>1, <2>2, ParentCloses
    <2>4. Untouched(plan, from)'
      BY <1>1, <2>1 DEF Untouched
    <2> QED
      BY <1>1, <2>1, <2>3, <2>4
  <1> QED
    BY <1>1, <1>4, <1>5, <1>6, <1>7 DEF PxInv

LEMMA PxDone ==
  ASSUME PxInv, pc = "waiting", at = Len(call.programs), Over(at), Fits(call)
  PROVE  /\ files[call.out.name] = (IF call.heredoc THEN Px!Content(call.out.name) ELSE <<>>) \o Px!Result
         /\ proc[at].state = "ended" /\ proc[at].code = call.programs[Px!Count].code
  <1> PICK c : c = call
    OBVIOUS
  <1> PICK flow : flow = Px!Flow
    OBVIOUS
  <1> PICK plan : plan = CallPlan(c, flow)
    OBVIOUS
  <1> PICK from : from = Opening(c)
    OBVIOUS
  <1> PICK n : n = Len(c.programs)
    OBVIOUS
  <1>1. c \in Calls /\ Fits(c) /\ Flows(c, flow)
    BY FlowIs DEF PxInv, PxTypes
  <1>2. /\ WellFormed(plan) /\ Net(plan) /\ StageTypes /\ MaxStages \in Nat
        /\ Len(plan) = n /\ n \in Nat /\ n \in 1 .. MaxStages
        /\ \A k \in 1 .. Len(plan) : proc[k].state # "none" => proc[k].code = plan[k].program.code
    BY <1>1, ThePxPlan
  <1>3. n \in 1 .. Len(plan) /\ n \in Stages /\ ~(n < n)
    BY <1>2 DEF Stages
  <1>4. plan[n].program = c.programs[n] /\ plan[n].base = Kept(c) /\ plan[n].out = c.out /\ Told(plan[n]) = flow[n]
    BY <1>1, <1>2, <1>3, CallPlanIs
  <1>5. c.out.kind = "file" /\ c.out # ThePipe
    BY <1>1, CallIs DEF Fits, ThePipe
  <1>6. Over(n)
    OBVIOUS
  <1>7. proc[n].state = "ended" /\ files[c.out.name] = Kept(c) \o flow[n]
    <2>1. /\ proc[n].state = "ended"
          /\ plan[n].out.kind = "file" => files[plan[n].out.name] = plan[n].base \o Told(plan[n])
      <3>1. plan[n].out # ThePipe
        BY <1>4, <1>5
      <3> QED
        BY ONLY <1>2, <1>3, <1>6, <3>1, AllIsTold
    <2> QED
      BY ONLY <1>4, <1>5, <2>1
  <1>8. proc[n].code = c.programs[n].code
    BY <1>2, <1>3, <1>4, <1>7
  <1>9. Kept(c) = (IF call.heredoc THEN Px!Content(call.out.name) ELSE <<>>)
    BY PxWords DEF Kept, Px!Content
  <1>10. flow[n] = Px!Result /\ Px!Count = n
    BY DEF Px!Result, Px!Count
  <1> QED
    BY <1>7, <1>8, <1>9, <1>10

LEMMA PxWaits ==
  ASSUME PxInv, Px!Wait
  PROVE  PxInv'
  <1>1. /\ pc = "waiting" /\ Over(at) /\ call' = call /\ document' = document
        /\ UNCHANGED << proc, pipe, ends, files, shown, stageVars >>
        /\ \/ at < Len(call.programs) /\ at' = at + 1 /\ pc' = pc
           \/ /\ ~(at < Len(call.programs)) /\ pc' = "over" /\ at' = at
              /\ code' = IF proc[at].state = "killed" THEN Px!Killed ELSE proc[at].code
    <2>1. Over(at)
      BY PxCommands DEF Px!Wait
    <2>2. UNCHANGED << proc, pipe, ends, files, shown, stageVars >>
      BY DEF Px!Wait, Px!stageVars, stageVars
    <2> QED
      BY <2>1, <2>2 DEF Px!Wait, Px!Count
  <1>2. StageTypes /\ PxGoes /\ call \in Calls
    BY <1>1 DEF PxInv, PxTypes
  <1>3. Len(call.programs) \in Nat /\ Len(call.programs) \in 1 .. MaxStages /\ at \in 1 .. Len(call.programs) /\ MaxStages \in Nat
    BY <1>2, CallIs DEF PxGoes
  <1>4. PxTypes'
    <2>1. StageTypes'
      BY <1>1, <1>2 DEF StageTypes
    <2> QED
      BY <1>1, <2>1 DEF PxInv, PxTypes
  <1>5. PxApart'
    BY <1>1 DEF PxInv, PxApart
  <1>6. ASSUME NEW i \in Stages, i < at + 1 PROVE Over(i)
    BY <1>1, <1>2, <1>3, <1>6 DEF PxGoes, Stages
  <1>7. CASE at < Len(call.programs)
    <2>1. PxGoes'
      <3>1. at' \in 1 .. Len(call'.programs)
        BY <1>1, <1>3, <1>7
      <3> QED
        BY <1>1, <1>2, <1>6, <1>7, <3>1 DEF PxGoes, Over
    <2>2. PxOnTheWay'
      <3> SUFFICES ASSUME NEW c, NEW flow, NEW plan, NEW from, c = call, Fits(c), Flows(c, flow),
                          plan = CallPlan(c, flow), from = Opening(c)
                   PROVE  /\ Net(plan)' /\ Untouched(plan, from)'
                          /\ \A k \in 1 .. Len(plan) : proc'[k].state # "none" => proc'[k].code = plan[k].program.code
        BY <1>1 DEF PxOnTheWay
      <3>1. /\ Net(plan) /\ Untouched(plan, from)
            /\ \A k \in 1 .. Len(plan) : proc[k].state # "none" => proc[k].code = plan[k].program.code
        BY <1>1, ThePxPlan
      <3>2. Net(plan)'
        BY <1>1, <3>1, NetStays
      <3> QED
        BY <1>1, <3>1, <3>2 DEF Untouched
    <2> QED
      BY <1>1, <1>4, <1>5, <1>7, <2>1, <2>2 DEF PxInv
  <1>8. CASE ~(at < Len(call.programs))
    <2>1. at = Len(call.programs) /\ pc' = "over"
      BY <1>1, <1>3, <1>8
    <2>2. ASSUME NEW i \in Stages PROVE proc'[i].state \in {"none", "ended", "killed"}
      <3>1. i < at + 1 \/ i > Len(call.programs)
        BY <1>3, <2>1 DEF Stages
      <3> QED
        BY <1>1, <1>2, <1>6, <3>1 DEF PxGoes, Over
    <2>3. ASSUME call.out # NoFile, \A i \in DOMAIN call.programs : call.programs[i] # <<>>,
                 call.heredoc \/ (call.in # call.out /\ ~Px!Unreadable(call.in))
          PROVE  Fits(call)
      <3>1. ASSUME ~call.heredoc PROVE call.in # NoFile /\ call.in # call.out /\ FileSystem[call.in.name] # Absent
        <4>1. call.in # NoFile /\ call.in # call.out
          BY <2>3, <3>1, PxWords DEF Px!Unreadable, NoFile
        <4>2. /\ call.in.kind = "file" /\ call.in.name \in Names /\ call.in = File(call.in.name)
              /\ call.out = File(call.out.name)
          BY <1>2, <2>3, <4>1, CallIs
        <4>3. files[call.in.name] # Absent
          BY <2>3, <3>1, <4>2, PxWords DEF Px!Unreadable
        <4>4. call.in.name # call.out.name
          BY <4>1, <4>2
        <4> QED
          BY <4>1, <4>2, <4>3, <4>4 DEF PxInv, PxApart
      <3> QED
        BY <1>2, <2>3, <3>1, CallIs DEF Fits
    <2>4. ASSUME Fits(call)
          PROVE  /\ files[call.out.name] = (IF call.heredoc THEN Px!Content(call.out.name) ELSE <<>>) \o Px!Result
                 /\ code' = call.programs[Px!Count].code
      BY <1>1, <1>8, <2>1, <2>4, PxDone
    <2>5. Px!Result' = Px!Result
      BY <1>1 DEF Px!Result, Px!Flow, Px!Count, Px!InputText, Px!Content, Px!Output, Px!Absent
    <2>6. Px!LikeTheShell'
      <3>1. Px!Unreadable(call.in)' = Px!Unreadable(call.in)
        BY <1>1 DEF Px!Unreadable
      <3>2. Px!Content(call.out.name)' = Px!Content(call.out.name) /\ Px!Count' = Px!Count
        BY <1>1 DEF Px!Content, Px!Count
      <3> QED
        BY <1>1, <2>3, <2>4, <2>5, <3>1, <3>2, PxWords DEF Px!LikeTheShell
    <2> QED
      BY <1>1, <1>4, <1>5, <2>1, <2>2, <2>6 DEF PxInv
  <1> QED
    BY <1>7, <1>8

\* What Start leaves: the command, and the ends it and the later ones need.
LEMMA PxStarts ==
  ASSUME PxInv, Px!Start
  PROVE  PxInv'
  <1> PICK i : i = at
    OBVIOUS
  <1> PICK c : c = call
    OBVIOUS
  <1> PICK n : n = Len(c.programs)
    OBVIOUS
  <1> PICK src : src = Px!InputOf(i)
    OBVIOUS
  <1> PICK dst : dst = Px!OutputOf(i)
    OBVIOUS
  <1> PICK one : one = IF Px!Unreadable(src) \/ dst = NoFile THEN Program(<<>>, 0, 1) ELSE c.programs[i]
    OBVIOUS
  <1> PICK q : q = [state |-> "forked", text |-> one.text, copies |-> one.copies, code |-> one.code, in |-> src, out |-> dst]
    OBVIOUS
  <1>1. /\ pc = "starting" /\ i <= n /\ proc' = [proc EXCEPT ![i] = q]
        /\ ends' = [ends EXCEPT ![i] = ends[Parent], ![Parent] = Px!CloseEnds(@, i)]
        /\ at' = i + 1 /\ pc' = pc /\ call' = call /\ document' = document /\ UNCHANGED << pipe, files, shown >>
    <2>1. proc' = [proc EXCEPT ![i] = q]
      BY PxWords DEF Px!Start, Px!Becomes
    <2>2. ends' = [ends EXCEPT ![i] = ends[Parent], ![Parent] = Px!CloseEnds(@, i)]
      BY PxWords DEF Px!Start
    <2> QED
      BY <2>1, <2>2 DEF Px!Start, Px!Count
  <1>2. StageTypes /\ PxBegins /\ c \in Calls /\ DOMAIN pipe = Pipes \cup {0} /\ DOMAIN ends = {Parent, Px!Scribe} \cup Stages
        /\ \A k \in 1 .. n : c.programs[k] # <<>>
    BY <1>1 DEF PxInv, PxTypes
  <1>3. n \in Nat /\ n <= MaxStages /\ MaxStages \in Nat /\ i \in 1 .. n /\ i \in Stages
        /\ c.in \in Places /\ c.out \in Places /\ c.programs[i] \in Programs
    BY <1>1, <1>2, CallIs DEF PxBegins, Stages
  <1>4. proc[i].state = "none"
    BY <1>2, <1>3 DEF PxBegins
  <1>5. src = (IF i > 1 \/ c.heredoc THEN ThePipe ELSE c.in) /\ dst = IF i < n THEN ThePipe ELSE c.out
    BY PxWords DEF Px!InputOf, Px!OutputOf, Px!Count
  <1>6. q \in Processes /\ q.state = "forked" /\ q.in = src /\ q.out = dst /\ q.code = one.code
    <2>1. one.text \in Seq(Items) /\ one.copies \in Nat /\ one.code \in Int
      BY <1>3 DEF Program, Programs
    <2>2. src \in Places /\ dst \in Places
      BY <1>3, <1>5 DEF Places
    <2> QED
      BY ONLY <2>1, <2>2, q = [state |-> "forked", text |-> one.text, copies |-> one.copies, code |-> one.code,
                               in |-> src, out |-> dst] DEF Processes
  <1>7. proc'[i] = q /\ \A k \in Stages : k # i => proc'[k] = proc[k]
    <2>1. proc' = [proc EXCEPT ![i] = q] /\ StageTypes /\ i \in Stages
      BY <1>1, <1>2, <1>3
    <2> QED
      BY ONLY <2>1, Others
  <1>8. PxTypes'
    <2>1. i - 1 \in DOMAIN pipe
      BY <1>2, <1>3 DEF Pipes
    <2>2. DOMAIN pipe' = DOMAIN pipe /\ DOMAIN ends' = DOMAIN ends /\ pipe' \in [DOMAIN pipe -> Seq(Items)]
          /\ shown' \in Seq(Items) /\ files' \in [Names -> Seq(Items)]
      BY <1>1, <1>2 DEF StageTypes
    <2>3. StageTypes'
      BY <1>1, <1>2, <1>3, <1>6, <2>1, <2>2, TypesKeep
    <2> QED
      BY <1>1, <2>2, <2>3 DEF PxInv, PxTypes
  <1>9. PxApart'
    <2>1. \A k \in Stages : proc'[k].state # "none" => proc'[k].out \in {ThePipe, call'.out}
      BY <1>1, <1>5, <1>6, <1>7 DEF PxInv, PxApart
    <2> QED
      BY <1>1, <2>1 DEF PxInv, PxApart
  <1>10. PxBegins'
    <2>1. at' \in 1 .. Len(call'.programs) + 1
      BY <1>1, <1>3
    <2>2. ASSUME NEW k \in Stages PROVE proc'[k].state = "none" <=> k >= at'
      <3>1. k \in Int /\ i \in Int
        BY <1>3 DEF Stages
      <3>2. CASE k = i
        BY <1>1, <1>6, <1>7, <3>1, <3>2
      <3>3. CASE k # i
        <4>1. proc'[k].state = "none" <=> k >= i
          BY <1>2, <1>7, <3>3 DEF PxBegins
        <4> QED
          BY <1>1, <3>1, <3>3, <4>1
      <3> QED
        BY <3>2, <3>3
    <2> QED
      BY <2>1, <2>2 DEF PxBegins
  <1>11. PxOnTheWay'
    <2> SUFFICES ASSUME NEW flow, NEW plan, NEW from, Fits(c), Flows(c, flow),
                        plan = CallPlan(c, flow), from = Opening(c)
                 PROVE  /\ Net(plan)' /\ Untouched(plan, from)'
                        /\ \A k \in 1 .. Len(plan) : proc'[k].state # "none" => proc'[k].code = plan[k].program.code
      BY <1>1 DEF PxOnTheWay
    <2>1. /\ WellFormed(plan) /\ Net(plan) /\ Untouched(plan, from) /\ Len(plan) = n
          /\ \A k \in 1 .. Len(plan) : k \in Stages /\ (proc[k].state # "none" => proc[k].code = plan[k].program.code)
      BY <1>1, ThePxPlan
    <2>2. plan[i].in = src /\ plan[i].out = dst /\ plan[i].program = c.programs[i] /\ plan[i].base = Kept(c) /\ i \in 1 .. Len(plan)
      <3>1. i \in 1 .. Len(plan)
        BY <1>3, <2>1
      <3> QED
        BY <1>2, <1>5, <2>1, <3>1, CallPlanIs
    <2>3. one = c.programs[i]
      <3>1. dst # NoFile
        BY <1>5 DEF Fits, ThePipe, NoFile
      <3>2. ~Px!Unreadable(src)
        <4>1. CASE src = ThePipe
          BY <4>1 DEF Px!Unreadable, ThePipe
        <4>2. CASE src # ThePipe
          <5>1. ~c.heredoc /\ src = c.in
            BY <1>5, <4>2
          <5>2. /\ c.in # NoFile /\ c.in # c.out /\ FileSystem[c.in.name] # Absent /\ c.out # NoFile
            BY <5>1 DEF Fits
          <5>3. /\ c.in.kind = "file" /\ c.in.name \in Names /\ c.in = File(c.in.name) /\ c.out = File(c.out.name)
            BY <1>2, <5>2, CallIs
          <5>4. files[c.in.name] = FileSystem[c.in.name]
            BY <5>2, <5>3 DEF PxInv, PxApart
          <5> QED
            BY <5>1, <5>2, <5>3, <5>4, PxWords DEF Px!Unreadable
        <4> QED
          BY <4>1, <4>2
      <3> QED
        BY <3>1, <3>2
    <2>4. ASSUME plan[i].out.kind = "file" PROVE files'[plan[i].out.name] = plan[i].base
      <3>1. plan[i].out = c.out /\ c.out.name \in Names /\ from.files[c.out.name] = Kept(c)
        <4>1. dst = c.out
          BY <1>5, <2>2, <2>4 DEF ThePipe
        <4> QED
          BY <1>2, <2>2, <4>1, OpeningIs
      <3>2. ASSUME NEW k \in 1 .. n, plan[k].out.kind = "file", plan[k].out.name = c.out.name PROVE k = i
        BY <2>1, <2>2, <2>4, <3>1, <3>2 DEF WellFormed
      <3>3. files[c.out.name] = from.files[c.out.name]
        BY <1>4, <2>1, <3>1, <3>2 DEF Untouched
      <3> QED
        BY <1>1, <2>2, <3>1, <3>3
    <2>5. /\ ends'[i] = ends[Parent] /\ ends'[Parent] = ends[Parent] \ {<< i - 1, "r" >>, << i, "w" >>}
          /\ \A j \in DOMAIN ends : j # i /\ j # Parent => ends'[j] = ends[j]
      <3>1. i \in DOMAIN ends /\ Parent \in DOMAIN ends /\ Parent # i
        BY <1>2, <1>3 DEF Parent
      <3> QED
        BY <1>1, <3>1 DEF Px!CloseEnds
    <2>6. ASSUME NEW k \in 1 .. Len(plan), k # i, EndsOf(plan, k) \subseteq ends[Parent]
          PROVE  EndsOf(plan, k) \subseteq ends'[Parent]
      <3>1. k \in Int /\ i \in Int
        BY <1>3, <2>1
      <3>2. \A e \in EndsOf(plan, k) : e \notin {<< i - 1, "r" >>, << i, "w" >>}
        BY <2>6, <3>1 DEF EndsOf
      <3> QED
        BY <2>5, <2>6, <3>2
    <2>7. q = [state |-> "forked", text |-> plan[i].program.text, copies |-> plan[i].program.copies,
               code |-> plan[i].program.code, in |-> plan[i].in, out |-> plan[i].out]
      BY <2>2, <2>3
    <2>8. Net(plan)'
      <3>1. UNCHANGED << pipe, shown >> /\ proc' = [proc EXCEPT ![i] = q] /\ files' = files
        BY <1>1
      <3>2. i \in 1 .. Len(plan) /\ (EndsOf(plan, i) \subseteq ends[Parent] => EndsOf(plan, i) \subseteq ends'[i])
        BY <2>2, <2>5
      <3>3. \A f \in Names : files'[f] = files[f] \/ (plan[i].out.kind = "file" /\ plan[i].out.name = f)
        BY <3>1
      <3> QED
        BY ONLY <1>2, <1>3, <1>4, <2>1, <2>4, <2>5, <2>6, <2>7, <3>1, <3>2, <3>3, Launches
    <2>9. Untouched(plan, from)'
      <3>1. \A k \in 1 .. Len(plan) : proc'[k].state = "none" => proc[k].state = "none"
        BY <1>4, <1>7, <2>1
      <3> QED
        BY <1>1, <2>1, <3>1 DEF Untouched
    <2>10. \A k \in 1 .. Len(plan) : proc'[k].state # "none" => proc'[k].code = plan[k].program.code
      BY <1>6, <1>7, <2>1, <2>2, <2>3
    <2> QED
      BY <2>8, <2>9, <2>10
  <1> QED
    BY <1>1, <1>8, <1>9, <1>10, <1>11 DEF PxInv

\* Before the commands.
LEMMA PxRefuses ==
  ASSUME PxInv, Px!Refuse
  PROVE  PxInv'
  <1>1. /\ pc = "begin" /\ \E i \in DOMAIN call.programs : call.programs[i] = <<>>
        /\ pc' = "over" /\ call' = call /\ document' = document /\ UNCHANGED << proc, pipe, ends, files, shown >>
    BY DEF Px!Refuse, Px!stageVars
  <1>2. PxTypes' /\ PxApart'
    BY <1>1 DEF PxInv, PxTypes, StageTypes, PxApart
  <1>3. Px!LikeTheShell'
    BY <1>1 DEF Px!LikeTheShell
  <1>4. \A i \in Stages : proc'[i].state = "none"
    BY <1>1 DEF PxInv, PxBefore
  <1> QED
    BY <1>1, <1>2, <1>3, <1>4 DEF PxInv

LEMMA PxOpensInput ==
  ASSUME PxInv, Px!OpenInput
  PROVE  PxInv'
  <1> PICK opened : opened = (1 .. Len(call.programs) - 1) \X {"r", "w"}
    OBVIOUS
  <1>1. /\ pc = "begin" /\ \A i \in DOMAIN call.programs : call.programs[i] # <<>>
        /\ pc' = (IF call.heredoc THEN "document" ELSE "output")
        /\ call' = call /\ document' = document /\ at' = at /\ UNCHANGED << proc, pipe, files, shown >>
        /\ IF call.heredoc THEN ends' = [ends EXCEPT ![Parent] = opened \cup {<< 0, "r" >>}, ![Px!Scribe] = opened \cup {<< 0, "w" >>}]
           ELSE ends' = [ends EXCEPT ![Parent] = opened]
    BY PxWords DEF Px!OpenInput, Px!Between, Px!Count
  <1>2. PxBefore /\ StageTypes /\ call \in Calls /\ DOMAIN ends = {Parent, Px!Scribe} \cup Stages /\ DOMAIN ends' = DOMAIN ends
    BY <1>1 DEF PxInv, PxTypes
  <1>3. /\ DOMAIN call.programs = 1 .. Len(call.programs) /\ call.heredoc \in BOOLEAN
        /\ call.lines \in Seq(Items) /\ MaxStages \in Nat /\ Px!Scribe # Parent
    BY <1>2, CallIs, PxWords DEF Parent
  <1>4. PxTypes'
    BY <1>1, <1>2, <1>3 DEF PxInv, PxTypes, StageTypes
  <1>5. PxApart'
    BY <1>1 DEF PxInv, PxApart
  <1>6. PxBefore'
    <2>1. opened \subseteq ends'[Parent] /\ (call.heredoc => << 0, "r" >> \in ends'[Parent] /\ ends'[Px!Scribe] # {})
      <3>1. CASE call.heredoc
        <4> PICK scribe : scribe = Px!Scribe
          OBVIOUS
        <4>1. ends' = [[ends EXCEPT ![Parent] = opened \cup {<< 0, "r" >>}]
                         EXCEPT ![scribe] = opened \cup {<< 0, "w" >>}]
          BY <1>1, <3>1
        <4>2. Parent \in DOMAIN ends /\ scribe \in DOMAIN ends /\ scribe # Parent
          BY <1>2, <1>3
        <4>3. ends'[Parent] = opened \cup {<< 0, "r" >>} /\ ends'[scribe] = opened \cup {<< 0, "w" >>}
          BY ONLY <4>1, <4>2
        <4> QED
          BY ONLY <4>3, scribe = Px!Scribe
      <3>2. CASE ~call.heredoc
        <4>1. ends' = [ends EXCEPT ![Parent] = opened]
          BY <1>1, <3>2
        <4>2. ends'[Parent] = opened
          BY <1>2, <4>1
        <4> QED
          BY <3>2, <4>2
      <3> QED
        BY <1>3, <3>1, <3>2
    <2>2. pipe[0] \o document = call.lines
      BY <1>1, <1>2, <1>3 DEF PxBefore
    <2> QED
      BY <1>1, <1>2, <1>3, <2>1, <2>2 DEF PxBefore
  <1> QED
    BY <1>1, <1>3, <1>4, <1>5, <1>6 DEF PxInv

LEMMA LineMoves ==
  ASSUME NEW u \in Seq(Items), NEW v \in Seq(Items), v # <<>>
  PROVE  /\ Append(u, Head(v)) \o Tail(v) = u \o v
         /\ Head(v) \in Items /\ Tail(v) \in Seq(Items)
  OBVIOUS

LEMMA PxTypesLine ==
  ASSUME PxInv, Px!Type
  PROVE  PxInv'
  <1> PICK u : u = pipe[0]
    OBVIOUS
  <1>1. /\ pc = "document" /\ document # <<>> /\ pipe' = [pipe EXCEPT ![0] = Append(@, Head(document))]
        /\ document' = Tail(document) /\ call' = call /\ at' = at /\ pc' = pc /\ UNCHANGED << proc, ends, files, shown >>
    BY DEF Px!Type
  <1>2. PxBefore /\ StageTypes /\ document \in Seq(Items) /\ DOMAIN pipe = Pipes \cup {0} /\ pipe \in [DOMAIN pipe -> Seq(Items)]
    BY <1>1 DEF PxInv, PxTypes, StageTypes
  <1>3. u \in Seq(Items) /\ 0 \notin Pipes
    BY <1>2, StagesAreBounded DEF Pipes
  <1>4. /\ Append(u, Head(document)) \o Tail(document) = u \o document
        /\ Head(document) \in Items /\ Tail(document) \in Seq(Items)
    BY ONLY <1>1, <1>2, <1>3, LineMoves
  <1>5. /\ pipe'[0] = Append(u, Head(document)) /\ DOMAIN pipe' = DOMAIN pipe
        /\ \A j \in Pipes : pipe'[j] = pipe[j]
    BY <1>1, <1>2, <1>3
  <1>6. pipe' \in [DOMAIN pipe -> Seq(Items)]
    BY <1>1, <1>2, <1>4, OneMore
  <1>7. PxTypes'
    <2>1. StageTypes'
      BY <1>1, <1>2, <1>5, <1>6 DEF StageTypes
    <2> QED
      BY <1>1, <1>2, <1>4, <1>5, <2>1 DEF PxInv, PxTypes
  <1>8. PxApart'
    BY <1>1 DEF PxInv, PxApart
  <1>9. PxBefore'
    <2>1. pipe'[0] \o document' = call'.lines
      BY <1>1, <1>2, <1>4, <1>5 DEF PxBefore
    <2>2. ends'[Px!Scribe] = {} => document' = <<>>
      BY <1>1, <1>2 DEF PxBefore
    <2> QED
      BY <1>1, <1>2, <1>5, <2>1, <2>2 DEF PxBefore
  <1> QED
    BY <1>1, <1>7, <1>8, <1>9 DEF PxInv

LEMMA PxDocumentEnds ==
  ASSUME PxInv, Px!EndDocument \/ Px!AwaitDocument
  PROVE  PxInv'
  <1>1. /\ pc = "document" /\ call' = call /\ at' = at /\ document' = document /\ UNCHANGED << proc, pipe, files, shown >>
        /\ \/ ends' = [ends EXCEPT ![Px!Scribe] = {}] /\ document = <<>> /\ pc' = "document"
           \/ ends' = ends /\ ends[Px!Scribe] = {} /\ pc' = "output"
    BY DEF Px!EndDocument, Px!AwaitDocument, Px!stageVars
  <1>2. PxBefore /\ StageTypes /\ 0 \in DOMAIN pipe /\ DOMAIN ends' = DOMAIN ends /\ Px!Scribe # Parent
        /\ ends'[Parent] = ends[Parent]
    <2>1. Px!Scribe # Parent
      BY StagesAreBounded, PxWords DEF Parent
    <2> QED
      BY <1>1, <2>1 DEF PxInv, PxTypes
  <1>3. document = <<>> /\ pipe[0] = call.lines
    <2>1. document = <<>> /\ pipe[0] \o document = call.lines
      BY <1>1, <1>2 DEF PxBefore
    <2>2. pipe[0] \in Seq(Items)
      BY <1>2 DEF StageTypes
    <2> QED
      BY ONLY <2>1, <2>2
  <1>4. PxTypes'
    BY <1>1, <1>2 DEF PxInv, PxTypes, StageTypes
  <1>5. PxApart'
    BY <1>1 DEF PxInv, PxApart
  <1>6. PxBefore'
    BY <1>1, <1>2, <1>3 DEF PxBefore
  <1> QED
    BY <1>1, <1>4, <1>5, <1>6 DEF PxInv

LEMMA PxOpensOutput ==
  ASSUME PxInv, Px!OpenOutput
  PROVE  PxInv'
  <1>1. /\ pc = "output" /\ pc' = "starting" /\ call' = call /\ document' = document /\ at' = at
        /\ UNCHANGED << proc, pipe, ends, shown >>
    BY DEF Px!OpenOutput
  <1>2. PxTypes /\ PxBefore /\ StageTypes /\ call \in Calls
    BY <1>1 DEF PxInv, PxTypes
  <1>3. /\ files' \in [Names -> Seq(Items)]
        /\ \A f \in Names : call.out = NoFile \/ f # call.out.name => files'[f] = files[f]
    <2>1. CASE call.out = NoFile
      BY <1>2, <2>1, PxWords DEF Px!OpenOutput, StageTypes
    <2>2. CASE call.out # NoFile
      <3> PICK name : name = call.out.name
        OBVIOUS
      <3> PICK new : new = IF files[name] = Absent \/ ~call.heredoc THEN <<>> ELSE files[name]
        OBVIOUS
      <3>1. name \in Names /\ files \in [Names -> Seq(Items)]
        BY <1>2, <2>2, CallIs DEF StageTypes
      <3>2. files' = [files EXCEPT ![name] = new] /\ new \in Seq(Items)
        BY <2>2, <3>1, PxWords DEF Px!OpenOutput
      <3> QED
        BY ONLY <2>2, <3>1, <3>2, name = call.out.name
    <2> QED
      BY <2>1, <2>2
  <1>4. PxTypes'
    BY <1>1, <1>2, <1>3 DEF PxTypes, StageTypes
  <1>5. PxApart'
    BY <1>1, <1>3 DEF PxInv, PxApart
  <1>6. PxBegins'
    <2>1. Len(call.programs) \in Nat
      BY <1>2, CallIs
    <2>2. \A i \in Stages : proc'[i].state = "none" /\ i >= 1
      BY <1>1, <1>2, StagesAreBounded DEF PxBefore, Stages
    <2> QED
      BY <1>1, <1>2, <2>1, <2>2 DEF PxBegins, PxBefore
  <1>7. PxOnTheWay'
    <2> SUFFICES ASSUME NEW c, NEW flow, NEW plan, NEW from, c = call, Fits(c), Flows(c, flow),
                        plan = CallPlan(c, flow), from = Opening(c)
                 PROVE  /\ Net(plan)' /\ Untouched(plan, from)'
                        /\ \A k \in 1 .. Len(plan) : proc'[k].state # "none" => proc'[k].code = plan[k].program.code
      BY <1>1 DEF PxOnTheWay
    <2>1. Net(plan)' /\ Untouched(plan, from)'
      BY <1>1, <1>2, PxNetBegins
    <2>2. \A k \in 1 .. Len(plan) : k \in Stages
      BY <1>2, CallPlanIs, OneTask, StagesAreBounded
    <2> QED
      BY <1>1, <1>2, <2>1, <2>2 DEF PxBefore
  <1> QED
    BY <1>1, <1>4, <1>5, <1>6, <1>7 DEF PxInv

LEMMA PxInvInit == Px!Init => PxInv
  <1> SUFFICES ASSUME Px!Init PROVE PxInv
    OBVIOUS
  <1>1. /\ call \in Calls /\ document = call.lines /\ at = 1 /\ pc = "begin" /\ files = FileSystem /\ shown = <<>>
        /\ proc = [i \in Stages |-> Nothing] /\ pipe = [j \in Pipes \cup {0} |-> <<>>]
        /\ ends = [p \in {Parent, Px!Scribe} \cup Stages |-> {}]
    BY PxWords DEF Px!Init
  <1>2. \A i \in Stages : proc[i].state = "none"
    BY <1>1 DEF Nothing
  <1>3. StageTypes
    BY <1>1, FilesHoldItems DEF StageTypes, Nothing
  <1>4. PxTypes
    BY <1>1, <1>3, CallIs DEF PxTypes
  <1> QED
    BY <1>1, <1>2, <1>4 DEF PxInv, PxApart, PxBefore

LEMMA PxStutters ==
  ASSUME PxInv, UNCHANGED << call, document, code, at, pc, proc, pipe, ends, files, shown >>
  PROVE  PxInv'
  <1>1. PxTypes'
    BY DEF PxInv, PxTypes, StageTypes
  <1>2. PxApart' = PxApart /\ PxBefore' = PxBefore /\ PxBegins' = PxBegins /\ PxGoes' = PxGoes
    BY DEF PxApart, PxBefore, PxBegins, PxGoes, Over, Px!Scribe
  <1>3. PxOnTheWay => PxOnTheWay'
    <2> SUFFICES ASSUME PxOnTheWay, NEW c, NEW flow, NEW plan, NEW from, c = call, Fits(c), Flows(c, flow),
                        plan = CallPlan(c, flow), from = Opening(c)
                 PROVE  /\ Net(plan)' /\ Untouched(plan, from)'
                        /\ \A k \in 1 .. Len(plan) : proc'[k].state # "none" => proc'[k].code = plan[k].program.code
      BY DEF PxOnTheWay
    <2>1. /\ Net(plan) /\ Untouched(plan, from)
          /\ \A k \in 1 .. Len(plan) : proc[k].state # "none" => proc[k].code = plan[k].program.code
      BY DEF PxOnTheWay
    <2>2. Net(plan)'
      BY <2>1, NetStays DEF stageVars
    <2> QED
      BY <2>1, <2>2 DEF Untouched
  <1>4. Px!LikeTheShell => Px!LikeTheShell'
    <2>1. Px!Result' = Px!Result
      BY DEF Px!Result, Px!Flow, Px!Count, Px!InputText, Px!Content, Px!Output, Px!Absent
    <2>2. Px!Unreadable(call.in)' = Px!Unreadable(call.in)
      BY DEF Px!Unreadable
    <2>3. Px!Content(call.out.name)' = Px!Content(call.out.name) /\ Px!Count' = Px!Count
      BY DEF Px!Content, Px!Count
    <2> QED
      BY <2>1, <2>2, <2>3 DEF Px!LikeTheShell
  <1> QED
    BY <1>1, <1>2, <1>3, <1>4 DEF PxInv

LEMMA PxInvStep == PxInv /\ [Px!Next]_(Px!vars) => PxInv'
  <1> SUFFICES ASSUME PxInv, [Px!Next]_(Px!vars) PROVE PxInv'
    OBVIOUS
  <1>1. CASE Px!Main
    BY <1>1, PxRefuses, PxOpensInput, PxDocumentEnds, PxOpensOutput, PxStarts, PxCloses, PxWaits DEF Px!Main
  <1>2. CASE Px!Typing
    BY <1>2, PxTypesLine, PxDocumentEnds DEF Px!Typing
  <1>3. ASSUME NEW i \in Stages, Px!Child(i) PROVE PxInv'
    <2>1. CASE Px!SetUp(i)
      BY <1>3, <2>1, PxSetsUp
    <2>2. CASE Px!Work(i) /\ UNCHANGED << call, document, at, pc, code >>
      <3>1. Work(i) /\ UNCHANGED << call, document, at, pc >>
        BY <2>2, PxCommands
      <3> QED
        BY <1>3, <3>1, PxWorks
    <2> QED
      BY <1>3, <2>1, <2>2 DEF Px!Child
  <1>4. CASE UNCHANGED Px!vars
    <2>1. UNCHANGED << call, document, code, at, pc, proc, pipe, ends, files, shown >>
      BY <1>4 DEF Px!vars, Px!stageVars
    <2> QED
      BY <2>1, PxStutters
  <1> QED
    BY <1>1, <1>2, <1>3, <1>4, PxWords DEF Px!Next

-----------------------------------------------------------------------------
(***************************************************************************)
(* One of the programs runs, and stays the one that does.                  *)
(***************************************************************************)
ProcessesInv ==
  /\ program \in {"shell", "pipex", "cgi", "boxes", "files"}
  /\ program = "shell" => ShellInv
  /\ program = "pipex" => PxInv
  /\ program = "cgi" => CgiInv
  /\ program = "boxes" => SiteInv
  /\ program = "files" => UploadInv

LEMMA ProcessesInvInit == MCInit => ProcessesInv
  BY ShellInvInit, PxInvInit, CgiInvInit, SiteInvInit, UploadInvInit DEF MCInit, ProcessesInv

LEMMA ProcessesInvStep == ProcessesInv /\ [MCNext]_all => ProcessesInv'
  <1> SUFFICES ASSUME ProcessesInv, [MCNext]_all PROVE ProcessesInv'
    OBVIOUS
  <1>1. CASE OnlyShell /\ Next
    <2>1. program = "shell" /\ program' = "shell"
      BY <1>1 DEF OnlyShell
    <2>2. ShellInv'
      BY <1>1, <2>1, ShellInvStep DEF ProcessesInv
    <2> QED
      BY <2>1, <2>2 DEF ProcessesInv
  <1>6. CASE OnlyPipex /\ Px!Next
    <2>1. program = "pipex" /\ program' = "pipex"
      BY <1>6 DEF OnlyPipex
    <2>2. PxInv'
      BY <1>6, <2>1, PxInvStep DEF ProcessesInv
    <2> QED
      BY <2>1, <2>2 DEF ProcessesInv
  <1>2. CASE OnlyCgi /\ Cgi!Next
    <2>1. program = "cgi" /\ program' = "cgi"
      BY <1>2 DEF OnlyCgi
    <2>2. CgiInv'
      BY <1>2, <2>1, CgiInvStep DEF ProcessesInv
    <2> QED
      BY <2>1, <2>2 DEF ProcessesInv
  <1>3. CASE OnlyBoxes /\ Boxes!Next
    <2>1. program = "boxes" /\ program' = "boxes"
      BY <1>3 DEF OnlyBoxes
    <2>2. SiteInv'
      BY <1>3, <2>1, SiteInvStep DEF ProcessesInv
    <2> QED
      BY <2>1, <2>2 DEF ProcessesInv
  <1>5. CASE OnlyFiles /\ Files!Next
    <2>1. program = "files" /\ program' = "files"
      BY <1>5 DEF OnlyFiles
    <2>2. UploadInv'
      BY <1>5, <2>1, UploadInvStep DEF ProcessesInv
    <2> QED
      BY <2>1, <2>2 DEF ProcessesInv
  <1>4. CASE UNCHANGED all
    <2>1. program' = program
      BY <1>4 DEF all
    <2>2. UNCHANGED Cgi!vars /\ UNCHANGED Boxes!vars /\ UNCHANGED Files!vars
      BY <1>4 DEF all, ofCgi, ofBoxes, ofFiles, Cgi!vars, Boxes!vars, Files!vars
    <2>6. UNCHANGED vars /\ UNCHANGED Px!vars
      BY <1>4 DEF all, ofStages, ofShell, ofPipex, vars, stageVars, Px!vars, Px!stageVars
    <2>7. program = "shell" => ShellInv'
      BY <2>6, ShellInvStep DEF ProcessesInv
    <2>8. program = "pipex" => PxInv'
      BY <2>6, PxInvStep DEF ProcessesInv
    <2>5. program = "files" => UploadInv'
      BY <2>2, UploadInvStep DEF ProcessesInv
    <2>3. program = "cgi" => CgiInv'
      BY <2>2, CgiInvStep DEF ProcessesInv
    <2>4. program = "boxes" => SiteInv'
      BY <2>2, SiteInvStep DEF ProcessesInv
    <2> QED
      BY <2>1, <2>3, <2>4, <2>5, <2>7, <2>8 DEF ProcessesInv
  <1> QED
    BY <1>1, <1>2, <1>3, <1>4, <1>5, <1>6 DEF MCNext

(***************************************************************************)
(* Whatever the line is and however its commands are scheduled: when       *)
(* minishell is back at its prompt, files and terminal hold what they      *)
(* would hold if the commands had run one after another, each on what the  *)
(* one before it had written (executor.c:16), unless a file is written to  *)
(* that another one uses; and what pipex leaves is what a shell's pipeline *)
(* would have left (pipex.c:8), its code the last command's.  For all      *)
(* programs, files, lines and calls, and any room in the pipes.            *)
(***************************************************************************)
THEOREM LinesMeanWhatTheySay == MCSpec => []PipelinesCompose
  <1>1. ASSUME ProcessesInv PROVE PipelinesCompose
    <2>1. ASSUME program = "shell" PROVE PipelineComposes
      <3>1. ShellInv
        BY <1>1, <2>1 DEF ProcessesInv
      <3> QED
        BY <3>1 DEF ShellInv, PipelineComposes
    <2>2. ASSUME program = "pipex" PROVE Px!LikeTheShell
      <3>1. PxInv
        BY <1>1, <2>2 DEF ProcessesInv
      <3> QED
        BY <3>1 DEF PxInv, Px!LikeTheShell
    <2> QED
      BY <2>1, <2>2 DEF PipelinesCompose
  <1> QED
    BY ProcessesInvInit, ProcessesInvStep, <1>1, PTL DEF MCSpec

(***************************************************************************)
(* What DefaultCgiRunner::run returns is what its own script has written,  *)
(* all of it, and only if the script left with 0, however many reactors    *)
(* run scripts at the same time and whatever they inherit of each other's  *)
(* pipes; and when nothing moves any more, it is because body and output   *)
(* are both too long for their pipes (DefaultCgiRunner.cc:52) or because a *)
(* script waits for the end of an input that another one has inherited     *)
(* (DefaultCgiRunner.cc:59).  There is no third way to hang.               *)
(***************************************************************************)
THEOREM ReturnsWhatWasWritten == MCSpec => []ReturnsOrHangs
  <1>1. ProcessesInv => ReturnsOrHangs
    BY CgiReturns DEF ProcessesInv, ReturnsOrHangs
  <1> QED
    BY ProcessesInvInit, ProcessesInvStep, <1>1, PTL DEF MCSpec

(***************************************************************************)
(* Whatever is killed however often, a half site and a database without    *)
(* its user are served only if the script that made them was cut in the    *)
(* middle: on any other way to the servers the guards of wp-config.sh:5    *)
(* and of mariadb's init.sh:11 are enough.                                 *)
(***************************************************************************)
THEOREM OnlyACutLeavesHalf == MCSpec => []HalfIsServedOnlyAfterACut
  <1>1. ProcessesInv => HalfIsServedOnlyAfterACut
    BY DEF ProcessesInv, SiteInv, WordpressAllOrNothing, MariadbAllOrNothing,
           ServesBehindTheGuard, HalfIsServedOnlyAfterACut, Boxes!HalfIsServedOnlyAfterACut
  <1> QED
    BY ProcessesInvInit, ProcessesInvStep, <1>1, PTL DEF MCSpec

(***************************************************************************)
(* Whatever the reactors do to one file at the same time, every answer was *)
(* true at a moment of its request, and no file was removed twice          *)
(* (StaticFileHandler.cc:54, :74, :78; UploadHandler.cc:45).               *)
(***************************************************************************)
THEOREM AnswersWereTrue == MCSpec => []AnswersHadTheirMoment
  <1>1. ASSUME UploadInv PROVE Files!AnswersHadTheirMoment
    BY <1>1, MomentOfAnswers
  <1>2. ProcessesInv => AnswersHadTheirMoment
    BY <1>1 DEF ProcessesInv, AnswersHadTheirMoment
  <1> QED
    BY ProcessesInvInit, ProcessesInvStep, <1>2, PTL DEF MCSpec

(***************************************************************************)
(* An upload that met no other request, and a disk with room, is the file  *)
(* when it has been answered (UploadHandler.cc:45).                        *)
(***************************************************************************)
THEOREM LoneUploads == MCSpec => LoneUploadIsTheFile
  <1>1. ASSUME ProcessesInv, [MCNext]_all, program = "files" PROVE Files!LoneUploadStep
    <2>1. [Files!Next]_(Files!vars)
      BY <1>1 DEF MCNext, OnlyShell, OnlyPipex, OnlyCgi, OnlyBoxes, all, ofFiles, Files!vars
    <2>2. UploadInv
      BY <1>1 DEF ProcessesInv
    <2> QED
      BY <2>1, <2>2, LoneUploadHolds
  <1>2. ProcessesInv /\ [MCNext]_all => (program = "files" => Files!LoneUploadStep)
    BY <1>1
  <1> QED
    BY ProcessesInvInit, ProcessesInvStep, <1>2, PTL DEF MCSpec, LoneUploadIsTheFile
=============================================================================
