----------------------------- MODULE StrategyV2 -----------------------------
(***************************************************************************)
(* Strategy v2: one monitor (a mutex and a condition variable) for all the *)
(* forks; a philosopher takes both at once or sleeps.  The stop flag is    *)
(* read without its mutex, and raising it wakes nobody: a philosopher that *)
(* returns from take_forks without forks releases them all the same.       *)
(***************************************************************************)
EXTENDS PhiloRoutine

VARIABLES taken,        \* the forks with is_taken set
          asleep        \* the threads waiting on fork_monitor.cond

vars == << pc, stop, taken, asleep >>

TypeOK == /\ pc \in [Philos -> RoutineLabels]
          /\ stop \in BOOLEAN
          /\ taken \subseteq Forks
          /\ asleep \subseteq Philos

Init == /\ RoutineInit
        /\ taken = {}
        /\ asleep = {}

-----------------------------------------------------------------------------
\* Mutant: only the left fork is looked at.
LeftIsFree(p) == Left(p) \notin taken

CanTake(p) == ForksOf(p) \cap taken = {}

\* strategy_v2_take, one turn of its loop per action: both forks are free ...
TakeBoth(p) == /\ Move(p, "take", "recheck") /\ p \notin asleep
               /\ CanTake(p)
               /\ taken' = taken \cup ForksOf(p)
               /\ UNCHANGED << stop, asleep >>

\* ... or they are not, and the simulation has stopped: return without ...
TakeNothing(p) == /\ Move(p, "take", "recheck") /\ p \notin asleep
                  /\ ~CanTake(p) /\ stop
                  /\ UNCHANGED << stop, taken, asleep >>

\* ... or wait.
WaitForForks(p) == /\ At(p, "take") /\ p \notin asleep
                   /\ ~CanTake(p) /\ ~stop
                   /\ asleep' = asleep \cup {p}
                   /\ UNCHANGED << pc, stop, taken >>

SpuriousWakeup(p) == /\ p \in asleep
                     /\ asleep' = asleep \ {p}
                     /\ UNCHANGED << pc, stop, taken >>

\* Mutant: the forks are put down without a broadcast.
PutBothSilently(p) == /\ pc[p] \in {"putting", "quitting"}
                      /\ Goto(p, AfterPut(p))
                      /\ taken' = taken \ ForksOf(p)
                      /\ UNCHANGED << stop, asleep >>

\* Mutant: only the left fork is put down.
PutLeft(p) == /\ pc[p] \in {"putting", "quitting"}
              /\ Goto(p, AfterPut(p))
              /\ taken' = taken \ {Left(p)}
              /\ asleep' = {}
              /\ UNCHANGED stop

\* strategy_v2_put: clear both, wake everybody.
PutBoth(p) == /\ pc[p] \in {"putting", "quitting"}
              /\ Goto(p, AfterPut(p))
              /\ taken' = taken \ ForksOf(p)
              /\ asleep' = {}
              /\ UNCHANGED stop

Step(p) == \/ RoutineStep(p) /\ UNCHANGED << taken, asleep >>
           \/ TakeBoth(p) \/ TakeNothing(p) \/ WaitForForks(p)
           \/ PutBoth(p)

Next == \/ \E p \in Philos : Step(p) \/ SpuriousWakeup(p)
        \/ StopSimulation /\ UNCHANGED << taken, asleep >>

(***************************************************************************)
(* A thread that is awake goes on; a sleeper is owed nothing but the       *)
(* broadcasts.                                                             *)
(***************************************************************************)
Spec == Init /\ [][Next]_vars /\ \A p \in Philos : WF_vars(Step(p))

-----------------------------------------------------------------------------
\* Between take_forks and put_forks.
Holds(p) == pc[p] \in {"recheck", "eating", "putting"}

(***************************************************************************)
(* While the simulation runs, is_taken says exactly what the philosophers  *)
(* hold, and a fork has one holder.  Once it stops this is no longer true: *)
(* threads that return empty-handed clear their neighbours' forks.         *)
(***************************************************************************)
ForksAreHeldOnce ==
    ~stop => /\ \A f \in Forks :
                   f \in taken <=> \E p \in Philos : Holds(p) /\ f \in ForksOf(p)
             /\ \A p, q \in Philos : Neighbours(p, q) => ~(Holds(p) /\ Holds(q))

(***************************************************************************)
(* A sleeper always has somebody to wake it: while a thread sleeps in      *)
(* take_forks, a neighbour holds one of its forks, or a thread awake has   *)
(* still to call put_forks.  Raising the flag broadcasts nothing, so only  *)
(* this gets the sleepers to see it.                                       *)
(***************************************************************************)
SleepersHaveAWaker ==
    asleep # {} => \E q \in Philos :
        pc[q] \in {"recheck", "eating", "putting", "quitting"}

(***************************************************************************)
(* Neighbours never eat together, before the stop and after it, although   *)
(* after it is_taken cannot be trusted: what keeps them apart then is that *)
(* the flag is read again before the meal (routines.c:66-72).              *)
(***************************************************************************)
Table == INSTANCE Dining WITH eating <- Eating

ImplementsDining == Table!Spec

(***************************************************************************)
(* Some philosopher always gets to eat again, until the simulation stops.  *)
(***************************************************************************)
SomebodyEats == []<>(stop \/ Eating # {})

(***************************************************************************)
(* The joins of main return although the monitor raises the flag without a *)
(* broadcast on fork_monitor.cond.                                         *)
(***************************************************************************)
StopReachesEverybody == stop ~> AllDone
=============================================================================
