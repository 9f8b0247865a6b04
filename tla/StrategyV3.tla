----------------------------- MODULE StrategyV3 -----------------------------
(***************************************************************************)
(* Strategy v3: a semaphore admits N - 1 philosophers to the forks; one    *)
(* that is admitted polls for both forks for 100 ms, gives its place back  *)
(* when the time is over, and backs off.                                   *)
(*                                                                         *)
(* Durations are not modelled: a poll may time out after any failed look,  *)
(* and the cooling off, whose length backoff_us is read from what malloc   *)
(* returned, lasts as long as it lasts.                                    *)
(***************************************************************************)
EXTENDS PhiloRoutine

VARIABLES taken,        \* the forks with is_taken set
          limiter       \* the value of limiter_sem

vars == << pc, stop, taken, limiter >>

Labels == RoutineLabels \cup {"trywait", "polling", "givingUp", "coolingOff"}
                        \cup {"postAfterMeal", "postAfterStop"}

TypeOK == /\ pc \in [Philos -> Labels]
          /\ stop \in BOOLEAN
          /\ taken \subseteq Forks
          /\ limiter \in Nat

Init == /\ RoutineInit
        /\ taken = {}
        /\ limiter = N - 1

-----------------------------------------------------------------------------
\* Mutant: only the left fork is looked at.
LeftIsFree(p) == Left(p) \notin taken

CanTake(p) == ForksOf(p) \cap taken = {}

\* The top of the loop of strategy_v3_take: the flag, read without a mutex,
\* and sem_trywait.  (The flag may also rise between the two.)
ReadFlag(p) == /\ Move(p, "take", IF stop THEN "recheck" ELSE "trywait")
               /\ UNCHANGED << stop, taken, limiter >>

EnterLimiter(p) == /\ Move(p, "trywait", "polling")
                   /\ limiter > 0
                   /\ limiter' = limiter - 1
                   /\ UNCHANGED << stop, taken >>

LimiterIsFull(p) == /\ Move(p, "trywait", "coolingOff")
                    /\ limiter = 0
                    /\ UNCHANGED << stop, taken, limiter >>

\* One look of try_execute_with_timeout, under the mutex of the monitor.
\* A look that fails before the time is over changes nothing.
TakeBoth(p) == /\ Move(p, "polling", "recheck")
               /\ CanTake(p)
               /\ taken' = taken \cup ForksOf(p)
               /\ UNCHANGED << stop, limiter >>

TimeOut(p) == /\ Move(p, "polling", "givingUp")
              /\ ~CanTake(p)
              /\ UNCHANGED << stop, taken, limiter >>

\* Mutant: a philosopher that gives up keeps its place.
KeepSlot(p) == /\ Move(p, "givingUp", "coolingOff")
               /\ UNCHANGED << stop, taken, limiter >>

GiveSlotBack(p) == /\ Move(p, "givingUp", "coolingOff")
                   /\ limiter' = limiter + 1
                   /\ UNCHANGED << stop, taken >>

\* usleep, and back to the top of the loop.
CoolOff(p) == /\ Move(p, "coolingOff", "take")
              /\ UNCHANGED << stop, taken, limiter >>

\* Mutant: only the left fork is put down.
PutLeft(p) == /\ \/ Move(p, "putting", "postAfterMeal")
                 \/ Move(p, "quitting", "postAfterStop")
              /\ taken' = taken \ {Left(p)}
              /\ UNCHANGED << stop, limiter >>

\* strategy_v3_put: the forks under the mutex, then the semaphore.
PutBoth(p) == /\ \/ Move(p, "putting", "postAfterMeal")
                 \/ Move(p, "quitting", "postAfterStop")
              /\ taken' = taken \ ForksOf(p)
              /\ UNCHANGED << stop, limiter >>

PostSlot(p) == /\ \/ Move(p, "postAfterMeal", "top")
                  \/ Move(p, "postAfterStop", "done")
               /\ limiter' = limiter + 1
               /\ UNCHANGED << stop, taken >>

Step(p) == \/ RoutineStep(p) /\ UNCHANGED << taken, limiter >>
           \/ ReadFlag(p) \/ EnterLimiter(p) \/ LimiterIsFull(p)
           \/ TakeBoth(p) \/ TimeOut(p) \/ GiveSlotBack(p) \/ CoolOff(p)
           \/ PutBoth(p) \/ PostSlot(p)

Next == \/ \E p \in Philos : Step(p)
        \/ StopSimulation /\ UNCHANGED << taken, limiter >>

Spec == Init /\ [][Next]_vars /\ \A p \in Philos : WF_vars(Step(p))

-----------------------------------------------------------------------------
\* Past sem_trywait and before sem_post.
Admitted(p) == pc[p] \in {"polling", "givingUp", "recheck", "eating", "putting",
                          "postAfterMeal"}

\* Between taking the forks and clearing them.
Holds(p) == pc[p] \in {"recheck", "eating", "putting"}

(***************************************************************************)
(* The limiter: while the simulation runs its value is N - 1 less the      *)
(* philosophers inside, so that at most N - 1 compete for forks however    *)
(* often they give up and come back.  After the stop the value may exceed  *)
(* N - 1: take_forks then returns without a place, put_forks posts one.    *)
(***************************************************************************)
LimiterCountsTheAdmitted ==
    ~stop => limiter + Cardinality({p \in Philos : Admitted(p)}) = N - 1

(***************************************************************************)
(* While the simulation runs, is_taken says exactly what the philosophers  *)
(* hold, and a fork has one holder.                                        *)
(***************************************************************************)
ForksAreHeldOnce ==
    ~stop => /\ \A f \in Forks :
                   f \in taken <=> \E p \in Philos : Holds(p) /\ f \in ForksOf(p)
             /\ \A p, q \in Philos : Neighbours(p, q) => ~(Holds(p) /\ Holds(q))

(***************************************************************************)
(* Neighbours never eat together, not even when the stop lets a thread     *)
(* clear forks it does not hold.                                           *)
(***************************************************************************)
Table == INSTANCE Dining WITH eating <- Eating

ImplementsDining == Table!Spec

(***************************************************************************)
(* With two philosophers or more some philosopher always gets to eat       *)
(* again, until the simulation stops: giving up and backing off does not   *)
(* let all of them retreat for ever.                                       *)
(***************************************************************************)
SomebodyEats == []<>(stop \/ Eating # {})
=============================================================================
