----------------------------- MODULE StrategyV1 -----------------------------
(***************************************************************************)
(* Strategy v1: every fork is a mutex and a philosopher locks the fork     *)
(* with the lower index first.                                             *)
(***************************************************************************)
EXTENDS PhiloRoutine

VARIABLE owner          \* the philosopher that holds each fork's mutex, or 0

vars == << pc, stop, owner >>

Nobody == 0

\* Mutant: everybody takes the left fork first.
NeverSwapped(p) == FALSE

\* strategy_v1_init orders the two forks of every philosopher: the last one
\* has N - 1 on its left and 0 on its right, which are swapped.
Swapped(p) == Left(p) >= Right(p)
First(p)   == IF Swapped(p) THEN Right(p) ELSE Left(p)
Second(p)  == IF Swapped(p) THEN Left(p) ELSE Right(p)

Labels == RoutineLabels \cup {"second", "putting1", "quitting1"}

TypeOK == /\ pc \in [Philos -> Labels]
          /\ stop \in BOOLEAN
          /\ owner \in [Forks -> Philos \cup {Nobody}]

Init == /\ RoutineInit
        /\ owner = [f \in Forks |-> Nobody]

-----------------------------------------------------------------------------
Lock(p, f)   == owner[f] = Nobody /\ owner' = [owner EXCEPT ![f] = p]
Unlock(p, f) == owner' = [owner EXCEPT ![f] = Nobody]

\* strategy_v1_take
TakeFirst(p) == /\ Move(p, "take", "second")
                /\ Lock(p, First(p))
                /\ UNCHANGED stop

\* Mutant: the second fork is taken from whoever has it.
GrabSecond(p) == /\ Move(p, "second", "recheck")
                 /\ owner' = [owner EXCEPT ![Second(p)] = p]
                 /\ UNCHANGED stop

TakeSecond(p) == /\ Move(p, "second", "recheck")
                 /\ Lock(p, Second(p))
                 /\ UNCHANGED stop

\* strategy_v1_put, after a meal and after a stop
PutSecond(p) == /\ \/ Move(p, "putting", "putting1")
                   \/ Move(p, "quitting", "quitting1")
                /\ Unlock(p, Second(p))
                /\ UNCHANGED stop

\* Mutant: a thread that quits keeps its first fork.
PutFirstAfterMeal(p) == /\ \/ Move(p, "putting1", "top") /\ Unlock(p, First(p))
                           \/ Move(p, "quitting1", "done") /\ UNCHANGED owner
                        /\ UNCHANGED stop

PutFirst(p) == /\ \/ Move(p, "putting1", "top")
                  \/ Move(p, "quitting1", "done")
               /\ Unlock(p, First(p))
               /\ UNCHANGED stop

Step(p) == \/ RoutineStep(p) /\ UNCHANGED owner
           \/ TakeFirst(p) \/ TakeSecond(p)
           \/ PutSecond(p) \/ PutFirst(p)

Next == \/ \E p \in Philos : Step(p)
        \/ StopSimulation /\ UNCHANGED owner

(***************************************************************************)
(* Every philosopher thread that can run does run, and one that waits for  *)
(* a fork that stays free gets it.  A mutex promises nothing to a thread   *)
(* that others keep overtaking, so fairness is weak.                       *)
(***************************************************************************)
Spec == Init /\ [][Next]_vars /\ \A p \in Philos : WF_vars(Step(p))

-----------------------------------------------------------------------------
\* The fork a thread is asking for.
Wants(p, f) == \/ At(p, "take")   /\ f = First(p)
               \/ At(p, "second") /\ f = Second(p)

(***************************************************************************)
(* "Breaks the Circular Wait condition" (strategy_v1.c:5-7): a philosopher *)
(* that waits for a fork whose holder waits too, waits for a lower fork    *)
(* than that holder.  Chains of waiting threads only climb, so none closes.*)
(***************************************************************************)
WaitsClimb ==
    \A p, q \in Philos : \A f, g \in Forks :
        Wants(p, f) /\ owner[f] = q /\ Wants(q, g) => f < g

(***************************************************************************)
(* Philosophers eat only with both forks and their neighbours do not:      *)
(* the two mutexes give the table of Dining, whatever the interleaving.    *)
(***************************************************************************)
Table == INSTANCE Dining WITH eating <- Eating

ImplementsDining == Table!Spec

(***************************************************************************)
(* Some philosopher always gets to eat again, until the simulation stops:  *)
(* no deadlock (README.md, 2.1).  Not every philosopher: a mutex may       *)
(* starve a thread.                                                        *)
(***************************************************************************)
SomebodyEats == []<>(stop \/ Eating # {})

(***************************************************************************)
(* The joins of main return: once the flag is up every thread that is      *)
(* still blocked on a fork gets it, sees the flag, and leaves.             *)
(***************************************************************************)
StopReachesEverybody == stop ~> AllDone
=============================================================================
