----------------------------- MODULE StrategyV4 -----------------------------
(***************************************************************************)
(* Strategy v4: a "waiter" queue decides who may reach for the forks; a    *)
(* philosopher about to starve enters it at the head.  Time is measured as *)
(* the code does it: last_meal_time is in milliseconds since the Epoch,    *)
(* now_us() in microseconds since the Epoch, and take_forks subtracts one  *)
(* from the other.                                                         *)
(***************************************************************************)
EXTENDS PhiloRoutine

CONSTANTS MaxQueue,     \* MAX_QUEUE, 200
          Epochs,       \* milliseconds since the Epoch when the program may start
          UsPerMs,      \* microseconds in a millisecond
          TimeToDie,    \* in milliseconds
          CriticalUs,   \* CRITICAL_THRESHOLD_US
          MaxTickets    \* a bound of the model: entries at the tail

\* The queue holds everybody: N < MaxQueue.  The times are natural numbers.

VARIABLES taken,        \* the forks with is_taken set
          forkSleep,    \* the threads waiting on fork_monitor.cond
          queue,        \* the cells of the waiter queue
          head, tail,   \* its indices, taken modulo MAX_QUEUE when used
          queueSleep,   \* the threads waiting on g_fifo_queue.cond
          epochMs       \* what the clock said when the program started

waiter == << queue, head, tail, queueSleep, epochMs >>
forks  == << taken, forkSleep >>
vars   == << pc, stop, forks, waiter >>

(***************************************************************************)
(* A cell is queue[i % MAX_QUEUE] with the remainder of C, which has the   *)
(* sign of i: head starts at 0 and is decremented, so cells below 0 are    *)
(* reached.  They are the words in front of the array; what is written     *)
(* there is read back.                                                     *)
(***************************************************************************)
Cell(i) == IF i >= 0 THEN i % MaxQueue ELSE -((-i) % MaxQueue)
Cells   == 1 - MaxQueue .. MaxQueue - 1

HeadOf(q, h) == q[Cell(h)]         \* fifo_head: does not look if it is empty

Labels == RoutineLabels \cup {"queued", "forks", "leaving", "leavingAtStop"}

TypeOK == /\ pc \in [Philos -> Labels]
          /\ stop \in BOOLEAN
          /\ taken \subseteq Forks
          /\ forkSleep \subseteq Philos
          /\ queue \in [Cells -> Philos \cup {0}]
          /\ head \in -N .. MaxTickets
          /\ tail \in 0 .. MaxTickets
          /\ queueSleep \subseteq Philos
          /\ epochMs \in Epochs

Init == /\ RoutineInit
        /\ taken = {}
        /\ forkSleep = {}
        /\ queue = [c \in Cells |-> 0]
        /\ head = 0
        /\ tail = 0
        /\ queueSleep = {}
        /\ epochMs \in Epochs

-----------------------------------------------------------------------------
\* What take_forks computes when `since` ms have passed since the last meal,
\* and what would be left to live.
RemainingUs(since) == TimeToDie * UsPerMs - ((epochMs + since) * UsPerMs - epochMs)

EnqueueHead(p) == /\ head' = head - 1
                  /\ queue' = [queue EXCEPT ![Cell(head - 1)] = p]
                  /\ UNCHANGED tail

EnqueueTail(p) == /\ tail < MaxTickets
                  /\ queue' = [queue EXCEPT ![Cell(tail)] = p]
                  /\ tail' = tail + 1
                  /\ UNCHANGED head

\* Under the mutex of the queue: go on when it is one's turn, or at the stop.
AwaitTurn(p) == IF ~stop /\ HeadOf(queue', head') # p
                THEN Goto(p, "queued") /\ queueSleep' = queueSleep \cup {p}
                ELSE Goto(p, "forks") /\ UNCHANGED queueSleep

\* strategy_v4_take: enter the queue, at the head if critical, and look.
EnterQueue(p) == /\ At(p, "take")
                 /\ \E since \in 0 .. TimeToDie :
                       IF RemainingUs(since) < CriticalUs THEN EnqueueHead(p)
                                                          ELSE EnqueueTail(p)
                 /\ AwaitTurn(p)
                 /\ UNCHANGED << stop, forks, epochMs >>

\* Awake again.
LookAgain(p) == /\ At(p, "queued") /\ p \notin queueSleep
                /\ UNCHANGED << stop, forks, queue, head, tail, epochMs >>
                /\ AwaitTurn(p)

\* Mutant: only the left fork is looked at.
LeftIsFree(p) == Left(p) \notin taken

CanTake(p) == ForksOf(p) \cap taken = {}

\* Wait for the forks, or for the stop; either way both are marked taken.
WaitForForks(p) == /\ At(p, "forks") /\ p \notin forkSleep
                   /\ ~stop /\ ~CanTake(p)
                   /\ forkSleep' = forkSleep \cup {p}
                   /\ UNCHANGED << pc, stop, taken, waiter >>

TakeBoth(p) == /\ Move(p, "forks", "recheck") /\ p \notin forkSleep
               /\ stop \/ CanTake(p)
               /\ taken' = taken \cup ForksOf(p)
               /\ UNCHANGED << stop, forkSleep, waiter >>

\* Mutant: the forks are put down without a broadcast.
PutBothSilently(p) == /\ \/ Move(p, "putting", "leaving")
                         \/ Move(p, "quitting", "leavingAtStop")
                      /\ taken' = taken \ ForksOf(p)
                      /\ UNCHANGED << stop, forkSleep, waiter >>

\* strategy_v4_put: the forks first, then the head of the queue, whoever it is.
PutBoth(p) == /\ \/ Move(p, "putting", "leaving")
                 \/ Move(p, "quitting", "leavingAtStop")
              /\ taken' = taken \ ForksOf(p)
              /\ forkSleep' = {}
              /\ UNCHANGED << stop, waiter >>

\* Mutant: a thread that quits leaves its cell in the queue.
LeaveQueueAfterMeal(p) == /\ \/ Move(p, "leaving", "top") /\ head' = head + 1
                             \/ Move(p, "leavingAtStop", "done") /\ UNCHANGED head
                          /\ queueSleep' = {}
                          /\ UNCHANGED << stop, forks, queue, tail, epochMs >>

LeaveQueue(p) == /\ \/ Move(p, "leaving", "top")
                    \/ Move(p, "leavingAtStop", "done")
                 /\ head' = head + 1
                 /\ queueSleep' = {}
                 /\ UNCHANGED << stop, forks, queue, tail, epochMs >>

SpuriousWakeup(p) == /\ \/ /\ p \in forkSleep
                           /\ forkSleep' = forkSleep \ {p}
                           /\ UNCHANGED queueSleep
                        \/ /\ p \in queueSleep
                           /\ queueSleep' = queueSleep \ {p}
                           /\ UNCHANGED forkSleep
                     /\ UNCHANGED << pc, stop, taken, queue, head, tail, epochMs >>

Step(p) == \/ RoutineStep(p) /\ UNCHANGED << forks, waiter >>
           \/ EnterQueue(p) \/ LookAgain(p)
           \/ WaitForForks(p) \/ TakeBoth(p)
           \/ PutBoth(p) \/ LeaveQueue(p)

Next == \/ \E p \in Philos : Step(p) \/ SpuriousWakeup(p)
        \/ StopSimulation /\ UNCHANGED << forks, waiter >>

Spec == Init /\ [][Next]_vars /\ \A p \in Philos : WF_vars(Step(p))

-----------------------------------------------------------------------------
\* Between entering the queue and leaving it.
Queued(p) == pc[p] \in {"queued", "forks", "recheck", "eating", "putting", "quitting",
                        "leaving", "leavingAtStop"}

Asleep(p) == p \in queueSleep \cup forkSleep

Holds(p) == pc[p] \in {"recheck", "eating", "putting"}

(***************************************************************************)
(* The queue has a cell for every philosopher that is in it, though not    *)
(* always the right one: entering takes one at either end, and leaving     *)
(* drops the first one whoever stands there.                               *)
(***************************************************************************)
OneCellEach == tail - head = Cardinality({p \in Philos : Queued(p)})

\* Not the clock of a machine that has just been switched on, at the Epoch.
ClockIsSet == epochMs > TimeToDie

(***************************************************************************)
(* Although the head may be dropped by a philosopher that was not there,   *)
(* the waiter never forgets everybody: while anyone is in the queue, one   *)
(* of them is awake and will come to the broadcasts of put_forks.  With    *)
(* the clock at the Epoch it does: entries are taken at both ends, one of  *)
(* them is dropped for another, and its owner sleeps until others come by. *)
(***************************************************************************)
SomebodyIsServed == ClockIsSet /\ (\E p \in Philos : Queued(p)) =>
                        \E p \in Philos : Queued(p) /\ ~Asleep(p)

(***************************************************************************)
(* While the simulation runs a fork has one holder, and is_taken is set    *)
(* for the forks that are held.                                            *)
(***************************************************************************)
ForksAreHeldOnce ==
    ~stop => /\ \A f \in Forks :
                   f \in taken <=> \E p \in Philos : Holds(p) /\ f \in ForksOf(p)
             /\ \A p, q \in Philos : Neighbours(p, q) => ~(Holds(p) /\ Holds(q))

(***************************************************************************)
(* Neighbours never eat together, although at the stop everybody who waits *)
(* marks the forks taken and clears them again.                            *)
(***************************************************************************)
Table == INSTANCE Dining WITH eating <- Eating

ImplementsDining == Table!Spec

\* The joins of main return, although raising the flag wakes no sleeper.
StopReachesEverybody == ClockIsSet => (stop ~> AllDone)
=============================================================================
