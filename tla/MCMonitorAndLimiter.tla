------------------------- MODULE MCMonitorAndLimiter -------------------------
(***************************************************************************)
(* The fork monitor of strategy v2, the limiter of v3, or the processes of *)
(* the bonus, one of them at a time.  The strategies share the table, and  *)
(* the forks marked taken.                                                 *)
(***************************************************************************)
EXTENDS StrategyV2

CONSTANTS Processes, TimeToDie, MustEat, Unlimited, MaxTime

\* sem_open takes an unsigned number (philo_bonus.c:90).
ASSUME NumProcesses == Processes \in Nat

VARIABLES program,                                                  \* the one that runs
          limiter,                                                  \* of v3
          at, process, eaten, forks, printer, parent, line, now     \* of the bonus

V3 == INSTANCE StrategyV3
Bonus == INSTANCE PhiloBonus WITH N <- Processes, pc <- at

ofBonus == << at, process, eaten, forks, printer, parent, line, now >>
all     == << program, vars, limiter, ofBonus >>

MCInit == program \in {"v2", "v3", "bonus"} /\ Init /\ V3!Init /\ Bonus!Init

OnlyV2    == program = "v2" /\ UNCHANGED << program, limiter, ofBonus >>
OnlyV3    == program = "v3" /\ UNCHANGED << program, asleep, ofBonus >>
OnlyBonus == program = "bonus" /\ UNCHANGED << program, vars, limiter >>

MCNext == \/ OnlyV2 /\ Next
          \/ OnlyV3 /\ V3!Next
          \/ OnlyBonus /\ Bonus!Next

\* Every thread and every process goes on when it can; the bonus's clock goes on.
MCSpec ==
    /\ MCInit /\ [][MCNext]_all
    /\ \A p \in Philos : WF_all((OnlyV2 /\ Step(p)) \/ (OnlyV3 /\ V3!Step(p)))
    /\ \A p \in Bonus!Philos : /\ WF_all(OnlyBonus /\ Bonus!Philosopher(p))
                               /\ WF_all(OnlyBonus /\ Bonus!Die(p))
    /\ WF_all(OnlyBonus /\ Bonus!Tick)
    /\ WF_all(OnlyBonus /\ Bonus!KillNext)

\* Whatever is waited for is accounted for: a sleeper of v2 has a thread that has
\* still to call put_forks, the limiter's places are N - 1 less the philosophers
\* inside, and the bonus's forks are on the table or in somebody's hands
\* (strategy_v2.c:18, strategy_v3.c:87, philo_bonus.c:70).
WaitingIsAccountedFor ==
    /\ SleepersHaveAWaker
    /\ program = "v3" => V3!LimiterCountsTheAdmitted
    /\ Bonus!ForksAddUp

\* A death is the last line (philo_bonus.c:52).
DeathIsTheLastLine == [][line[2] = "died" => line' = line]_all

\* Somebody eats again until the stop, which under v2 reaches everybody although
\* it wakes nobody, and the bonus's processes end although each may hold one fork
\* (strategy_v3.c:94, routines.c:134, philo_bonus.c:70).
Progress ==
    /\ program # "bonus" => SomebodyEats
    /\ program = "v2" => StopReachesEverybody
    /\ program = "bonus" => Bonus!EverybodyEnds
=============================================================================
