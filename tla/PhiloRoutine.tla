---------------------------- MODULE PhiloRoutine ----------------------------
(***************************************************************************)
(* The loop every philosopher thread runs around the strategy it was       *)
(* given (philo_routine).  The strategies extend this module with their    *)
(* own take_forks, which ends at "recheck", and put_forks, which starts at *)
(* "putting" or "quitting".                                                *)
(*                                                                         *)
(*   top --CheckStop--> take ..take_forks.. recheck --Recheck--> eating    *)
(*    |                                        |                    |      *)
(*   done <..put_forks.. quitting <------------+     putting <------+      *)
(*                                       top <..put_forks..|               *)
(*                                                                         *)
(* The stop flag belongs to the monitor thread, which may raise it at any  *)
(* moment: here nothing is said of why (Simulation models that).           *)
(***************************************************************************)
EXTENDS Integers, FiniteSets

CONSTANT N              \* num_philos

ASSUME NumPhilos == N \in Nat \ {0}

Philos == 1 .. N
Forks  == 0 .. N - 1

Left(p)    == p - 1
Right(p)   == p % N
ForksOf(p) == {Left(p), Right(p)}

Neighbours(p, q) == p # q /\ ForksOf(p) \cap ForksOf(q) # {}

VARIABLES pc,           \* where each philosopher thread is
          stop          \* stop_simulation

Goto(p, l)     == pc' = [pc EXCEPT ![p] = l]
At(p, l)       == pc[p] = l
Move(p, l, l2) == At(p, l) /\ Goto(p, l2)

RoutineLabels == {"top", "take", "recheck", "eating", "putting", "quitting", "done"}

RoutineInit == /\ pc = [p \in Philos |-> "top"]
               /\ stop = FALSE

\* The flag is read under sim_stop_mutex at the top of the loop, after the
\* sleep of the round before; thinking is a line printed.
CheckStop(p) == /\ Move(p, "top", IF stop THEN "done" ELSE "take")
                /\ UNCHANGED stop

\* Mutant: take_forks is trusted to return with the forks.
EatAtOnce(p) == /\ Move(p, "recheck", "eating")
                /\ UNCHANGED stop

\* ... and again once the forks are there, "as it might have taken time".
Recheck(p) == /\ Move(p, "recheck", IF stop THEN "quitting" ELSE "eating")
              /\ UNCHANGED stop

\* The meal is over: usleep(time_to_eat) returned.
FinishMeal(p) == /\ Move(p, "eating", "putting")
                 /\ UNCHANGED stop

RoutineStep(p) == CheckStop(p) \/ Recheck(p) \/ FinishMeal(p)

\* Where put_forks returns to.
AfterPut(p) == IF pc[p] = "putting" THEN "top" ELSE "done"

\* The monitor raises the flag, once, under sim_stop_mutex.
StopSimulation == /\ ~stop
                  /\ stop' = TRUE
                  /\ UNCHANGED pc

Eating  == {p \in Philos : At(p, "eating")}
AllDone == \A p \in Philos : At(p, "done")
=============================================================================
