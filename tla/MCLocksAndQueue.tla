--------------------------- MODULE MCLocksAndQueue ---------------------------
(***************************************************************************)
(* Two of the strategies, one at a time: the ordered locks of v1 and the   *)
(* waiter queue of v4.  They share the table.                              *)
(***************************************************************************)
EXTENDS StrategyV1

CONSTANTS MaxQueue, Epochs, UsPerMs, TimeToDie, CriticalUs, MaxTickets

\* The queue has cells; the clock and the times that are subtracted are whole.
ASSUME NumCells == MaxQueue \in Nat \ {0}
ASSUME NumTickets == MaxTickets \in Nat
ASSUME ClockIsWhole == Epochs \subseteq Nat /\ UsPerMs \in Nat /\ TimeToDie \in Nat
                       /\ CriticalUs \in Nat

\* A clock that shows a date is so far from the Epoch that what take_forks computes
\* is below the threshold: 200 ms against some 1.7e12 ms (strategy_v4.c:7, :84).
ASSUME DatesAreFar ==
    \A e \in Epochs : e > TimeToDie => (TimeToDie - e) * UsPerMs + e < CriticalUs

VARIABLES strategy,                                                     \* the one that runs
          taken, forkSleep, queue, head, tail, queueSleep, epochMs      \* of v4

V4 == INSTANCE StrategyV4

ofV4 == << taken, forkSleep, queue, head, tail, queueSleep, epochMs >>
all  == << strategy, vars, ofV4 >>

MCInit == strategy \in {"v1", "v4"} /\ Init /\ V4!Init

OnlyV1 == strategy = "v1" /\ UNCHANGED << strategy, ofV4 >>
OnlyV4 == strategy = "v4" /\ UNCHANGED << strategy, owner >>

MCNext == \/ OnlyV1 /\ Next
          \/ OnlyV4 /\ V4!Next

MCSpec == /\ MCInit /\ [][MCNext]_all
          /\ \A p \in Philos : WF_all((OnlyV1 /\ Step(p)) \/ (OnlyV4 /\ V4!Step(p)))

\* The waiter forgets nobody: there is a cell of its queue for each philosopher in
\* it, one of them is awake once the clock is set, and the forks are marked as
\* they are held (strategy_v4.c:49, :84, :127).
WaiterForgetsNobody ==
    strategy = "v4" => V4!OneCellEach /\ V4!SomebodyIsServed /\ V4!ForksAreHeldOnce

\* Under the ordered locks somebody eats again; the stop reaches everybody there
\* and, with the clock set, in the queue (strategy_v1.c:13, routines.c:134).
Progress ==
    /\ strategy = "v1" => SomebodyEats /\ StopReachesEverybody
    /\ strategy = "v4" => V4!StopReachesEverybody
=============================================================================
