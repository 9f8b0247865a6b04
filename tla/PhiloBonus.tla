----------------------------- MODULE PhiloBonus -----------------------------
(***************************************************************************)
(* philo_bonus.c: every philosopher is a process with a monitor thread of  *)
(* its own; the forks are one counting semaphore on the middle of the      *)
(* table, printing is another.  The parent waits for the first child that  *)
(* ends, whatever its reason, and terminates the others.                   *)
(***************************************************************************)
EXTENDS Integers, FiniteSets

CONSTANTS N,            \* number of philosophers, and of forks
          TimeToDie,
          MustEat,      \* meals after which a philosopher leaves
          Unlimited,    \* the value of MustEat when the argument is absent
          MaxTime       \* bound of the model: the clock stops there

\* MaxTime > TimeToDie: there is time to die.

Philos == 1 .. N

VARIABLES pc,           \* where the main thread of each philosopher is
          process,      \* "running", "left" (exit 0), "died" (exit 1), "killed"
          eaten,        \* eat_count; stays 0 when MustEat is Unlimited
          forks,        \* the value of sem_forks
          printer,      \* the value of sem_print
          parent,       \* 0 while it waits, then the last child it has killed
          line,         \* the last line on stdout
          now           \* time since the start

childs == << pc, process, eaten, forks, printer, line >>
vars   == << childs, parent, now >>

Running(p) == process[p] = "running"

TypeOK == /\ pc \in [Philos -> {"top", "first", "second", "forks", "eat", "eating",
                                "post", "sleep"}]
          /\ process \in [Philos -> {"running", "left", "died", "killed"}]
          /\ eaten \in [Philos -> Nat]
          /\ forks \in 0 .. N
          /\ printer \in 0 .. 1
          /\ parent \in 0 .. N
          /\ now \in 0 .. MaxTime

Init == /\ pc = [p \in Philos |-> "top"]
        /\ process = [p \in Philos |-> "running"]
        /\ eaten = [p \in Philos |-> 0]
        /\ forks = N
        /\ printer = 1
        /\ parent = 0
        /\ line = << 0, "nothing" >>
        /\ now = 0

-----------------------------------------------------------------------------
Move(p, l, l2) == /\ Running(p) /\ pc[p] = l
                  /\ pc' = [pc EXCEPT ![p] = l2]

\* print_action: one line between sem_wait and sem_post on sem_print.
Say(p, what) == printer = 1 /\ line' = << p, what >>

Enough(p) == MustEat # Unlimited /\ eaten[p] >= MustEat

\* The philosopher has had its meals: exit(0).
Leave(p) == /\ Running(p) /\ pc[p] = "top" /\ Enough(p)
            /\ process' = [process EXCEPT ![p] = "left"]
            /\ UNCHANGED << pc, eaten, forks, printer, line >>

SayLine(p) ==
    /\ \/ ~Enough(p) /\ Move(p, "top", "first") /\ Say(p, "thinks")
       \/ Move(p, "forks", "eat") /\ Say(p, "forks")
       \/ Move(p, "sleep", "top") /\ Say(p, "sleeps")
    /\ UNCHANGED << process, eaten, forks, printer >>

\* Mutant: the second fork is taken without a wait.
TakeOneFork(p) == /\ \/ Move(p, "first", "second") /\ forks > 0 /\ forks' = forks - 1
                     \/ Move(p, "second", "forks") /\ UNCHANGED forks
                  /\ UNCHANGED << process, eaten, printer, line >>

\* sem_wait twice: one fork, then another, and no order among forks.
TakeFork(p) == /\ Move(p, "first", "second") \/ Move(p, "second", "forks")
               /\ forks > 0
               /\ forks' = forks - 1
               /\ UNCHANGED << process, eaten, printer, line >>

BeginMeal(p) == /\ Move(p, "eat", "eating") /\ Say(p, "eats")
                /\ UNCHANGED << process, eaten, forks, printer >>

PostFork(p) == /\ \/ Move(p, "eating", "post") /\ UNCHANGED eaten
                  \/ /\ Move(p, "post", "sleep")
                     /\ eaten' = IF MustEat = Unlimited THEN eaten
                                 ELSE [eaten EXCEPT ![p] = @ + 1]
               /\ forks' = forks + 1
               /\ UNCHANGED << process, printer, line >>

Philosopher(p) == /\ \/ Leave(p) \/ SayLine(p) \/ TakeFork(p)
                     \/ BeginMeal(p) \/ PostFork(p)
                  /\ UNCHANGED << parent, now >>

\* Mutant: the dying process gives the printer back.
DieAndPost(p) == /\ Running(p) /\ now > TimeToDie
                 /\ Say(p, "died")
                 /\ process' = [process EXCEPT ![p] = "died"]
                 /\ UNCHANGED << pc, eaten, forks, printer, parent, now >>

(***************************************************************************)
(* monitor_routine: its last_meal is the time the thread began and is      *)
(* never written again.  It takes sem_print for good: exit(1) does not     *)
(* post it.                                                                *)
(***************************************************************************)
Die(p) == /\ Running(p) /\ now > TimeToDie
          /\ Say(p, "died")
          /\ printer' = 0
          /\ process' = [process EXCEPT ![p] = "died"]
          /\ UNCHANGED << pc, eaten, forks, parent, now >>

\* Mutant: the last child is forgotten.
KillAllButOne == /\ \E p \in Philos : process[p] \in {"left", "died"}
                 /\ parent < N - 1
                 /\ parent' = parent + 1
                 /\ process' = [process EXCEPT ![parent + 1] =
                                   IF @ = "running" THEN "killed" ELSE @]
                 /\ UNCHANGED << pc, eaten, forks, printer, line, now >>

\* The parent: waitpid(-1) returns for the first child that ends, then SIGTERM
\* to every child, in order.
KillNext == /\ \E p \in Philos : process[p] \in {"left", "died"}
            /\ parent < N
            /\ parent' = parent + 1
            /\ process' = [process EXCEPT ![parent + 1] =
                              IF @ = "running" THEN "killed" ELSE @]
            /\ UNCHANGED << pc, eaten, forks, printer, line, now >>

Tick == now < MaxTime /\ now' = now + 1 /\ UNCHANGED << childs, parent >>

Next == Tick \/ KillNext \/ \E p \in Philos : Philosopher(p) \/ Die(p)

\* Every process, every monitor thread and the parent go on when they can.
Spec == /\ Init /\ [][Next]_vars
        /\ WF_vars(Tick) /\ WF_vars(KillNext)
        /\ \A p \in Philos : WF_vars(Philosopher(p)) /\ WF_vars(Die(p))

-----------------------------------------------------------------------------
ForksInHand(p) == CASE pc[p] \in {"second", "post"}          -> 1
                    [] pc[p] \in {"forks", "eat", "eating"}  -> 2
                    [] OTHER                                 -> 0

\* The forks in the hands: the first and the second of each philosopher.
HeldForks == UNION {{p} \X (1 .. ForksInHand(p)) : p \in Philos}

(***************************************************************************)
(* The forks on the table and in the hands add up to N: none is made or    *)
(* lost however the semaphore's waits interleave, and those of a process   *)
(* that dies stay with it.                                                 *)
(***************************************************************************)
ForksAddUp == forks + Cardinality(HeldForks) = N

(***************************************************************************)
(* A death is the last line: the dead process keeps sem_print, so that     *)
(* no other can print, not even another death.                             *)
(***************************************************************************)
DeathIsTheLastLine == [][line[2] = "died" => line' = line]_vars

(***************************************************************************)
(* The program ends although the philosophers may deadlock, each with one  *)
(* fork in its hand: the monitors do not need the forks.                   *)
(***************************************************************************)
EverybodyEnds == <>(\A p \in Philos : ~Running(p))
=============================================================================
