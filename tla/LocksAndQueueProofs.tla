-------------------------- MODULE LocksAndQueueProofs --------------------------
(***************************************************************************)
(* Proofs about the strategies v1 and v4, for every number of philosophers;*)
(* that waiting under v1 cannot close a circle needs at least two of them. *)
(* The last part puts the two together into what MCLocksAndQueue runs.     *)
(***************************************************************************)
EXTENDS MCLocksAndQueue, FiniteSetTheorems, TLAPS

\* The order strategy_v1_init gives the two forks of a philosopher.
LEMMA ForkOrder ==
  ASSUME NEW p \in Philos
  PROVE  /\ First(p) \in Forks /\ Second(p) \in Forks
         /\ ForksOf(p) = {First(p), Second(p)}
         /\ N > 1 => First(p) < Second(p)
  <1>1. Left(p) \in Forks /\ Right(p) \in Forks
    BY NumPhilos DEF Philos, Forks, Left, Right
  <1>2. N > 1 => Left(p) # Right(p)
    <2>1. CASE p = N
      BY <2>1, NumPhilos DEF Left, Right
    <2>2. CASE p # N
      <3>1. p \in 1 .. N - 1
        BY <2>2, NumPhilos DEF Philos
      <3>2. p % N = p
        BY <3>1, NumPhilos
      <3> QED
        BY <3>1, <3>2 DEF Left, Right
    <2> QED
      BY <2>1, <2>2
  <1> QED
    BY <1>1, <1>2, NumPhilos DEF Swapped, First, Second, ForksOf, Forks

\* No thread is number 0, the owner of a free mutex.
LEMMA NobodyIsNoPhilosopher == Nobody \notin Philos
  BY NumPhilos DEF Nobody, Philos

-----------------------------------------------------------------------------
LEMMA TypeInit == Init => TypeOK
  BY DEF Init, RoutineInit, TypeOK, Labels, RoutineLabels

LEMMA TypeStep == TypeOK /\ [Next]_vars => TypeOK'
  <1> SUFFICES ASSUME TypeOK, [Next]_vars
               PROVE  TypeOK'
    OBVIOUS
  <1> USE DEF TypeOK, Labels, RoutineLabels, Move, At, Goto
  <1>1. ASSUME NEW p \in Philos, RoutineStep(p), UNCHANGED owner
        PROVE  TypeOK'
    BY <1>1 DEF RoutineStep, CheckStop, Recheck, FinishMeal
  <1>2. ASSUME NEW p \in Philos, TakeFirst(p) \/ TakeSecond(p)
        PROVE  TypeOK'
    BY <1>2 DEF TakeFirst, TakeSecond, Lock
  <1>3. ASSUME NEW p \in Philos, PutFirst(p) \/ PutSecond(p)
        PROVE  TypeOK'
    BY <1>3 DEF PutFirst, PutSecond, Unlock
  <1>4. CASE StopSimulation /\ UNCHANGED owner
    BY <1>4 DEF StopSimulation
  <1>5. CASE UNCHANGED vars
    BY <1>5 DEF vars
  <1> QED
    BY <1>1, <1>2, <1>3, <1>4, <1>5 DEF Next, Step

(***************************************************************************)
(* The variables keep their types.                                         *)
(***************************************************************************)
THEOREM TypeCorrect == Spec => []TypeOK
  BY TypeInit, TypeStep, PTL DEF Spec

-----------------------------------------------------------------------------
(***************************************************************************)
(* The inductive invariant: which mutexes a thread has locked can be read  *)
(* off its program counter.                                                *)
(***************************************************************************)
HasFirst(p)  == pc[p] \in {"second", "recheck", "eating", "putting", "quitting",
                           "putting1", "quitting1"}
HasSecond(p) == pc[p] \in {"recheck", "eating", "putting", "quitting"}

OwnersInv == \A p \in Philos : \A f \in Forks :
    owner[f] = p <=> \/ HasFirst(p) /\ f = First(p)
                     \/ HasSecond(p) /\ f = Second(p)

LEMMA OwnersInvInit == Init => OwnersInv
  BY NobodyIsNoPhilosopher DEF Init, RoutineInit, OwnersInv, HasFirst, HasSecond

LEMMA OwnersInvStep ==
  ASSUME N > 1, TypeOK, OwnersInv, [Next]_vars
  PROVE  OwnersInv'
  <1> USE DEF TypeOK, Move, At, Goto
  <1>1. ASSUME NEW p \in Philos, RoutineStep(p), UNCHANGED owner
        PROVE  OwnersInv'
    <2>1. ASSUME NEW q \in Philos
          PROVE  (HasFirst(q)' <=> HasFirst(q)) /\ (HasSecond(q)' <=> HasSecond(q))
      BY <1>1 DEF RoutineStep, CheckStop, Recheck, FinishMeal, HasFirst, HasSecond
    <2> QED
      BY <1>1, <2>1 DEF OwnersInv
  <1>2. ASSUME NEW p \in Philos, TakeFirst(p)
        PROVE  OwnersInv'
    BY <1>2, NobodyIsNoPhilosopher, ForkOrder
       DEF TakeFirst, Lock, OwnersInv, HasFirst, HasSecond
  <1>3. ASSUME NEW p \in Philos, TakeSecond(p)
        PROVE  OwnersInv'
    BY <1>3, NobodyIsNoPhilosopher, ForkOrder
       DEF TakeSecond, Lock, OwnersInv, HasFirst, HasSecond
  <1>4. ASSUME NEW p \in Philos, PutSecond(p)
        PROVE  OwnersInv'
    <2>1. First(p) # Second(p)
      BY ForkOrder, NumPhilos DEF Forks
    <2> QED
      BY <1>4, <2>1, NobodyIsNoPhilosopher, ForkOrder
         DEF PutSecond, Unlock, OwnersInv, HasFirst, HasSecond
  <1>5. ASSUME NEW p \in Philos, PutFirst(p)
        PROVE  OwnersInv'
    BY <1>5, NobodyIsNoPhilosopher, ForkOrder
       DEF PutFirst, Unlock, OwnersInv, HasFirst, HasSecond
  <1>6. CASE (StopSimulation /\ UNCHANGED owner) \/ UNCHANGED vars
    BY <1>6 DEF StopSimulation, vars, OwnersInv, HasFirst, HasSecond
  <1> QED
    BY <1>1, <1>2, <1>3, <1>4, <1>5, <1>6 DEF Next, Step

LEMMA OwnersInvHolds == N > 1 /\ Spec => [](TypeOK /\ OwnersInv)
  <1> SUFFICES ASSUME N > 1
               PROVE  Spec => [](TypeOK /\ OwnersInv)
    OBVIOUS
  <1> QED
    BY OwnersInvInit, OwnersInvStep, TypeCorrect, PTL DEF Spec

LEMMA WaitersClimb == N > 1 /\ TypeOK /\ OwnersInv => WaitsClimb
  BY ForkOrder DEF TypeOK, OwnersInv, HasFirst, HasSecond, WaitsClimb, Wants, At

(***************************************************************************)
(* With two philosophers or more, a thread that waits for a fork of a      *)
(* waiting thread waits for a lower fork than that one: threads never wait *)
(* for each other in a circle, whatever their number.  With one            *)
(* philosopher, whose two forks are the same mutex, this fails.            *)
(***************************************************************************)
THEOREM NoCircularWait == N > 1 /\ Spec => []WaitsClimb
  <1> SUFFICES ASSUME N > 1
               PROVE  Spec => []WaitsClimb
    OBVIOUS
  <1> QED
    BY WaitersClimb, OwnersInvHolds, PTL

-----------------------------------------------------------------------------
LEMMA DiningInit == Init => Table!Init
  BY DEF Init, RoutineInit, Table!Init, Eating, At

LEMMA DiningStep ==
  N > 1 /\ TypeOK /\ OwnersInv /\ [Next]_vars => [Table!Next]_Eating
  <1> SUFFICES ASSUME N > 1, TypeOK, OwnersInv, [Next]_vars
               PROVE  [Table!Next]_Eating
    OBVIOUS
  <1> USE DEF TypeOK, Move, At, Goto, Eating
  <1>1. ASSUME NEW p \in Philos, Recheck(p), ~stop
        PROVE  Table!Start(p)
    <2>1. p \notin Eating /\ Eating' = Eating \cup {p}
      BY <1>1 DEF Recheck
    <2>2. ASSUME NEW q \in Eating
          PROVE  ForksOf(p) \cap ForksOf(q) = {}
      <3>1. \A f \in ForksOf(p) : owner[f] = p
        BY <1>1, ForkOrder DEF Recheck, OwnersInv, HasFirst, HasSecond
      <3>2. \A f \in ForksOf(q) : owner[f] = q
        BY <2>2, ForkOrder DEF OwnersInv, HasFirst, HasSecond
      <3> QED
        BY <2>1, <2>2, <3>1, <3>2
    <2>3. \A q \in Philos : Table!ForksOf(q) = ForksOf(q)
      BY DEF Table!ForksOf, ForksOf, Table!Left, Left, Table!Right, Right
    <2> QED
      BY <2>1, <2>2, <2>3 DEF Table!Start, Table!Neighbours
  <1>2. ASSUME NEW p \in Philos, FinishMeal(p)
        PROVE  Table!Finish(p)
    BY <1>2 DEF FinishMeal, Table!Finish
  <1>3. ASSUME NEW p \in Philos,
               \/ CheckStop(p) \/ (Recheck(p) /\ stop)
               \/ TakeFirst(p) \/ TakeSecond(p) \/ PutSecond(p) \/ PutFirst(p)
        PROVE  Eating' = Eating
    BY <1>3 DEF CheckStop, Recheck, TakeFirst, TakeSecond, PutSecond, PutFirst
  <1>4. CASE StopSimulation \/ UNCHANGED vars
    BY <1>4 DEF StopSimulation, vars
  <1> QED
    BY <1>1, <1>2, <1>3, <1>4 DEF Next, Step, RoutineStep, Table!Next, Table!Philos, Philos

(***************************************************************************)
(* Ordered locking implements the table: neighbours never eat together.    *)
(***************************************************************************)
THEOREM Implements == N > 1 /\ Spec => ImplementsDining
  <1> SUFFICES ASSUME N > 1
               PROVE  Spec => ImplementsDining
    OBVIOUS
  <1> QED
    BY DiningInit, DiningStep, OwnersInvHolds, PTL DEF Spec, ImplementsDining, Table!Spec

-----------------------------------------------------------------------------
(***************************************************************************)
(* Strategy v4.  The types, with indices that are only said to be whole:   *)
(* how far they run follows from the count of the queue.                   *)
(***************************************************************************)
TypesV4 == /\ pc \in [V4!Philos -> V4!Labels]
           /\ stop \in BOOLEAN
           /\ taken \subseteq V4!Forks
           /\ forkSleep \subseteq V4!Philos
           /\ queue \in [V4!Cells -> V4!Philos \cup {0}]
           /\ head \in Int
           /\ tail \in 0 .. MaxTickets
           /\ queueSleep \subseteq V4!Philos
           /\ epochMs \in Epochs

\* The cells below 0 count.
LEMMA CellsExist ==
  ASSUME NEW i \in Int
  PROVE  V4!Cell(i) \in V4!Cells
  <1>1. CASE i >= 0
    <2>1. i % MaxQueue \in 0 .. MaxQueue - 1
      BY <1>1, NumCells
    <2> QED
      BY <1>1, <2>1, NumCells DEF V4!Cell, V4!Cells
  <1>2. CASE ~(i >= 0)
    <2>1. (-i) \in Nat
      BY <1>2
    <2>2. (-i) % MaxQueue \in 0 .. MaxQueue - 1
      BY <2>1, NumCells
    <2> DEFINE r == (-i) % MaxQueue
    <2>3. V4!Cell(i) = -r
      BY <1>2 DEF V4!Cell
    <2>4. -r \in 1 - MaxQueue .. MaxQueue - 1
      <3> HIDE DEF r
      <3> QED
        BY <2>2, NumCells DEF r
    <2> QED
      BY <2>3, <2>4 DEF V4!Cells
  <1> QED
    BY <1>1, <1>2

LEMMA ForksOnTableV4 ==
  ASSUME NEW p \in V4!Philos
  PROVE  V4!ForksOf(p) \subseteq V4!Forks
  BY NumPhilos DEF V4!Philos, V4!Forks, V4!ForksOf, V4!Left, V4!Right

LEMMA OneMovesV4 ==
  ASSUME TypesV4, NEW p \in V4!Philos, NEW l \in V4!Labels, NEW l2 \in V4!Labels,
         V4!Move(p, l, l2)
  PROVE  /\ pc[p] = l /\ pc' \in [V4!Philos -> V4!Labels]
         /\ pc'[p] = l2 /\ \A q \in V4!Philos : q # p => pc'[q] = pc[q]
  BY DEF TypesV4, V4!Move, V4!At, V4!Goto

\* Who enters the queue, at either end, changes one cell and one index.
LEMMA Entering ==
  ASSUME TypesV4, NEW p \in V4!Philos, V4!EnterQueue(p)
  PROVE  /\ queue' \in [V4!Cells -> V4!Philos \cup {0}]
         /\ \/ head' = head - 1 /\ UNCHANGED tail
            \/ tail' = tail + 1 /\ UNCHANGED head /\ tail < MaxTickets
  <1>1. CASE V4!EnqueueHead(p)
    BY <1>1, CellsExist DEF V4!EnqueueHead, TypesV4
  <1>2. CASE V4!EnqueueTail(p)
    BY <1>2, CellsExist DEF V4!EnqueueTail, TypesV4
  <1> QED
    BY <1>1, <1>2 DEF V4!EnterQueue

\* AwaitTurn sends p to the queue or on to the forks.
LEMMA Turns ==
  ASSUME NEW p \in V4!Philos, NEW l \in {"take", "queued"}, V4!At(p, l), V4!AwaitTurn(p),
         TypesV4
  PROVE  /\ \E l2 \in {"queued", "forks"} : V4!Move(p, l, l2)
         /\ queueSleep' \subseteq V4!Philos
  BY DEF V4!AwaitTurn, V4!Move, TypesV4

LEMMA TypesInitV4 == V4!Init => TypesV4
  <1> SUFFICES ASSUME V4!Init PROVE TypesV4
    OBVIOUS
  <1>1. pc \in [V4!Philos -> V4!Labels] /\ stop \in BOOLEAN
    BY DEF V4!Init, V4!RoutineInit, V4!Labels, V4!RoutineLabels
  <1>2. queue \in [V4!Cells -> V4!Philos \cup {0}]
    BY DEF V4!Init
  <1>3. head \in Int /\ tail \in 0 .. MaxTickets
    BY NumTickets DEF V4!Init
  <1> QED
    BY <1>1, <1>2, <1>3 DEF V4!Init, TypesV4

LEMMA TypesStepV4 == TypesV4 /\ [V4!Next]_(V4!vars) => TypesV4'
  <1> SUFFICES ASSUME TypesV4, [V4!Next]_(V4!vars) PROVE TypesV4'
    OBVIOUS
  <1> USE DEF V4!Labels, V4!RoutineLabels
  <1>1. ASSUME NEW p \in V4!Philos, NEW l \in V4!Labels, NEW l2 \in V4!Labels,
               V4!Move(p, l, l2), UNCHANGED stop, taken' \subseteq V4!Forks,
               forkSleep' \subseteq V4!Philos, UNCHANGED << queue, epochMs, tail >>,
               head' \in Int, queueSleep' \subseteq V4!Philos
        PROVE  TypesV4'
    BY <1>1, OneMovesV4 DEF TypesV4
  <1>2. ASSUME NEW p \in V4!Philos, V4!RoutineStep(p), UNCHANGED << V4!forks, V4!waiter >>
        PROVE  TypesV4'
    BY <1>1, <1>2 DEF V4!RoutineStep, V4!CheckStop, V4!Recheck, V4!FinishMeal, V4!forks,
                      V4!waiter, TypesV4
  <1>3. ASSUME NEW p \in V4!Philos, V4!EnterQueue(p)
        PROVE  TypesV4'
    <2>1. PICK l2 \in {"queued", "forks"} : V4!Move(p, "take", l2)
      BY <1>3, Turns DEF V4!EnterQueue
    <2>2. pc' \in [V4!Philos -> V4!Labels]
      BY <2>1, OneMovesV4
    <2>3. queueSleep' \subseteq V4!Philos
      BY <1>3, Turns DEF V4!EnterQueue
    <2>4. head' \in Int /\ tail' \in 0 .. MaxTickets
      BY <1>3, Entering, NumTickets DEF TypesV4
    <2> QED
      BY <1>3, <2>2, <2>3, <2>4, Entering DEF V4!EnterQueue, V4!forks, TypesV4
  <1>4. ASSUME NEW p \in V4!Philos, V4!LookAgain(p)
        PROVE  TypesV4'
    BY <1>1, <1>4, Turns DEF V4!LookAgain, V4!forks, TypesV4
  <1>5. ASSUME NEW p \in V4!Philos, V4!WaitForForks(p) \/ V4!SpuriousWakeup(p)
        PROVE  TypesV4'
    BY <1>5 DEF V4!WaitForForks, V4!SpuriousWakeup, V4!waiter, TypesV4
  <1>6. ASSUME NEW p \in V4!Philos, V4!TakeBoth(p)
        PROVE  TypesV4'
    BY <1>1, <1>6, ForksOnTableV4 DEF V4!TakeBoth, V4!waiter, TypesV4
  <1>7. ASSUME NEW p \in V4!Philos, V4!PutBoth(p)
        PROVE  TypesV4'
    BY <1>1, <1>7 DEF V4!PutBoth, V4!waiter, TypesV4
  <1>8. ASSUME NEW p \in V4!Philos, V4!LeaveQueue(p)
        PROVE  TypesV4'
    BY <1>1, <1>8 DEF V4!LeaveQueue, V4!forks, TypesV4
  <1>9. CASE V4!StopSimulation /\ UNCHANGED << V4!forks, V4!waiter >>
    BY <1>9 DEF V4!StopSimulation, V4!forks, V4!waiter, TypesV4
  <1>10. CASE UNCHANGED V4!vars
    BY <1>10 DEF V4!vars, V4!forks, V4!waiter, TypesV4
  <1> QED
    BY <1>2, <1>3, <1>4, <1>5, <1>6, <1>7, <1>8, <1>9, <1>10 DEF V4!Next, V4!Step

-----------------------------------------------------------------------------
(***************************************************************************)
(* The forks of v4.  Before the stop a thread takes both forks when both   *)
(* are free; at the stop whoever waits marks them and clears them again,   *)
(* and nothing can be said of is_taken, but nobody begins to eat.          *)
(***************************************************************************)
NeighboursDoNotEatV4 ==
    \A p, q \in V4!Philos :
        V4!Neighbours(p, q) => ~(V4!At(p, "eating") /\ V4!At(q, "eating"))

QuitOnlyAfterStopV4 ==
    \A p \in V4!Philos : pc[p] \in {"quitting", "leavingAtStop", "done"} => stop

ForksInvV4 == V4!ForksAreHeldOnce /\ NeighboursDoNotEatV4 /\ QuitOnlyAfterStopV4
TableInvV4 == TypesV4 /\ ForksInvV4

LEMMA TableInvInitV4 == V4!Init => TableInvV4
  <1> SUFFICES ASSUME V4!Init PROVE TableInvV4
    OBVIOUS
  <1>1. V4!ForksAreHeldOnce /\ NeighboursDoNotEatV4 /\ QuitOnlyAfterStopV4
    BY DEF V4!Init, V4!RoutineInit, V4!ForksAreHeldOnce, NeighboursDoNotEatV4,
           QuitOnlyAfterStopV4, V4!Holds, V4!At
  <1> QED
    BY <1>1, TypesInitV4 DEF TableInvV4, ForksInvV4

\* The steps that leave forks and flag alone, and those who hold and eat.
LEMMA AsideV4 ==
  ASSUME TableInvV4, NEW p \in V4!Philos, NEW l \in V4!Labels, NEW l2 \in V4!Labels,
         V4!Move(p, l, l2), UNCHANGED << stop, taken >>,
         \/ stop
         \/ l \in {"recheck", "eating", "putting"} <=> l2 \in {"recheck", "eating", "putting"},
         l2 # "eating",
         l2 \in {"quitting", "leavingAtStop", "done"} => stop
  PROVE  ForksInvV4'
  <1> USE DEF TableInvV4, ForksInvV4, TypesV4
  <1>1. /\ pc[p] = l /\ pc' \in [V4!Philos -> V4!Labels]
        /\ pc'[p] = l2 /\ \A q \in V4!Philos : q # p => pc'[q] = pc[q]
    BY OneMovesV4
  <1>2. V4!ForksAreHeldOnce'
    <2> SUFFICES ASSUME ~stop PROVE V4!ForksAreHeldOnce'
      BY DEF V4!ForksAreHeldOnce
    <2>1. \A q \in V4!Philos : V4!Holds(q)' <=> V4!Holds(q)
      BY <1>1 DEF V4!Holds
    <2> QED
      BY <2>1 DEF V4!ForksAreHeldOnce
  <1>3. NeighboursDoNotEatV4' /\ QuitOnlyAfterStopV4'
    BY <1>1 DEF NeighboursDoNotEatV4, QuitOnlyAfterStopV4, V4!At
  <1> QED
    BY <1>2, <1>3

\* The steps that leave the table alone altogether.
LEMMA TableStaysV4 == TableInvV4 /\ UNCHANGED << pc, stop, taken >> => ForksInvV4'
  BY DEF TableInvV4, ForksInvV4, V4!ForksAreHeldOnce, NeighboursDoNotEatV4,
         QuitOnlyAfterStopV4, V4!Holds, V4!At

LEMMA TableStepV4 == TableInvV4 /\ [V4!Next]_(V4!vars) => ForksInvV4'
  <1> SUFFICES ASSUME TableInvV4, [V4!Next]_(V4!vars) PROVE ForksInvV4'
    OBVIOUS
  <1> USE DEF TableInvV4, ForksInvV4, V4!Labels, V4!RoutineLabels
  <1>1. ASSUME NEW p \in V4!Philos, V4!CheckStop(p), UNCHANGED taken
        PROVE  ForksInvV4'
    <2>1. PICK l2 \in {"take", "done"} : V4!Move(p, "top", l2) /\ (l2 = "done" => stop)
      BY <1>1 DEF V4!CheckStop
    <2> QED
      BY <1>1, <2>1, AsideV4 DEF V4!CheckStop
  <1>2. ASSUME NEW p \in V4!Philos, V4!Recheck(p), UNCHANGED taken
        PROVE  ForksInvV4'
    <2>1. CASE stop
      <3>1. V4!Move(p, "recheck", "quitting") /\ UNCHANGED << stop, taken >>
        BY <1>2, <2>1 DEF V4!Recheck
      <3> QED
        BY <2>1, <3>1, AsideV4
    <2>2. CASE ~stop
      <3>1. V4!Move(p, "recheck", "eating") /\ UNCHANGED << stop, taken >>
        BY <1>2, <2>2 DEF V4!Recheck
      <3>2. /\ pc[p] = "recheck" /\ pc' \in [V4!Philos -> V4!Labels]
            /\ pc'[p] = "eating" /\ \A q \in V4!Philos : q # p => pc'[q] = pc[q]
        BY <3>1, OneMovesV4
      <3>3. \A q \in V4!Philos : V4!Holds(q)' <=> V4!Holds(q)
        BY <3>2 DEF V4!Holds
      <3>4. V4!ForksAreHeldOnce'
        BY <3>1, <3>3 DEF V4!ForksAreHeldOnce
      <3>5. NeighboursDoNotEatV4'
        \* Who sits down does so before the stop, and holds both forks alone.
        BY <2>2, <3>2, <3>3 DEF V4!ForksAreHeldOnce, NeighboursDoNotEatV4, V4!Holds,
                                V4!At, V4!Neighbours
      <3>6. QuitOnlyAfterStopV4'
        BY <3>1, <3>2 DEF QuitOnlyAfterStopV4
      <3> QED
        BY <3>4, <3>5, <3>6
    <2> QED
      BY <2>1, <2>2
  <1>3. ASSUME NEW p \in V4!Philos, V4!FinishMeal(p), UNCHANGED taken
        PROVE  ForksInvV4'
    BY <1>3, AsideV4 DEF V4!FinishMeal
  <1>4. ASSUME NEW p \in V4!Philos, V4!EnterQueue(p) \/ V4!LookAgain(p)
        PROVE  ForksInvV4'
    <2>1. PICK l \in {"take", "queued"}, l2 \in {"queued", "forks"} : V4!Move(p, l, l2)
      BY <1>4, Turns DEF V4!EnterQueue, V4!LookAgain
    <2>2. UNCHANGED << stop, taken >>
      BY <1>4 DEF V4!EnterQueue, V4!LookAgain, V4!forks
    <2> QED
      BY <2>1, <2>2, AsideV4
  <1>5. ASSUME NEW p \in V4!Philos, V4!WaitForForks(p) \/ V4!SpuriousWakeup(p)
        PROVE  ForksInvV4'
    BY <1>5, TableStaysV4 DEF V4!WaitForForks, V4!SpuriousWakeup
  <1>6. ASSUME NEW p \in V4!Philos, V4!TakeBoth(p)
        PROVE  ForksInvV4'
    <2>1. /\ pc[p] = "forks" /\ pc' \in [V4!Philos -> V4!Labels]
          /\ pc'[p] = "recheck" /\ \A q \in V4!Philos : q # p => pc'[q] = pc[q]
      BY <1>6, OneMovesV4 DEF V4!TakeBoth
    <2>2. ASSUME ~stop, NEW q \in V4!Philos, V4!Holds(q)
          PROVE  V4!ForksOf(p) \cap V4!ForksOf(q) = {}
      BY <1>6, <2>2, ForksOnTableV4 DEF V4!TakeBoth, V4!CanTake, V4!ForksAreHeldOnce
    <2>3. \A q \in V4!Philos : V4!Holds(q)' <=> V4!Holds(q) \/ q = p
      BY <2>1 DEF V4!Holds
    <2>4. V4!ForksAreHeldOnce'
      BY <1>6, <2>2, <2>3 DEF V4!TakeBoth, V4!ForksAreHeldOnce, V4!Neighbours
    <2>5. NeighboursDoNotEatV4' /\ QuitOnlyAfterStopV4'
      BY <1>6, <2>1 DEF V4!TakeBoth, NeighboursDoNotEatV4, QuitOnlyAfterStopV4, V4!At
    <2> QED
      BY <2>4, <2>5
  <1>7. ASSUME NEW p \in V4!Philos, V4!PutBoth(p)
        PROVE  ForksInvV4'
    <2>1. PICK l \in {"putting", "quitting"}, l2 \in {"leaving", "leavingAtStop"} :
             V4!Move(p, l, l2) /\ (l = "quitting" <=> l2 = "leavingAtStop")
      BY <1>7 DEF V4!PutBoth
    <2>2. /\ pc[p] = l /\ pc' \in [V4!Philos -> V4!Labels]
          /\ pc'[p] = l2 /\ \A q \in V4!Philos : q # p => pc'[q] = pc[q]
      BY <2>1, OneMovesV4
    <2>3. ~stop => V4!Holds(p)
      BY <2>1, <2>2 DEF QuitOnlyAfterStopV4, V4!Holds
    <2>4. ASSUME ~stop, NEW q \in V4!Philos, V4!Holds(q), q # p
          PROVE  V4!ForksOf(p) \cap V4!ForksOf(q) = {}
      BY <2>3, <2>4 DEF V4!ForksAreHeldOnce, V4!Neighbours
    <2>5. \A q \in V4!Philos : V4!Holds(q)' <=> V4!Holds(q) /\ q # p
      BY <2>1, <2>2 DEF V4!Holds
    <2>6. V4!ForksAreHeldOnce'
      BY <1>7, <2>3, <2>4, <2>5 DEF V4!PutBoth, V4!ForksAreHeldOnce
    <2>7. NeighboursDoNotEatV4' /\ QuitOnlyAfterStopV4'
      BY <1>7, <2>1, <2>2 DEF V4!PutBoth, NeighboursDoNotEatV4, QuitOnlyAfterStopV4, V4!At
    <2> QED
      BY <2>6, <2>7
  <1>8. ASSUME NEW p \in V4!Philos, V4!LeaveQueue(p)
        PROVE  ForksInvV4'
    <2>1. UNCHANGED << stop, taken >>
      BY <1>8 DEF V4!LeaveQueue, V4!forks
    <2>2. CASE V4!Move(p, "leaving", "top")
      BY <2>1, <2>2, AsideV4
    <2>3. CASE V4!Move(p, "leavingAtStop", "done")
      <3>1. stop
        BY <2>3 DEF V4!Move, V4!At, QuitOnlyAfterStopV4
      <3> QED
        BY <2>1, <2>3, <3>1, AsideV4
    <2> QED
      BY <1>8, <2>2, <2>3 DEF V4!LeaveQueue
  <1>9. CASE V4!StopSimulation /\ UNCHANGED V4!forks
    BY <1>9 DEF V4!StopSimulation, V4!forks, V4!ForksAreHeldOnce, NeighboursDoNotEatV4,
                QuitOnlyAfterStopV4, V4!At
  <1>10. CASE UNCHANGED V4!vars
    BY <1>10, TableStaysV4 DEF V4!vars, V4!forks
  <1> QED
    BY <1>1, <1>2, <1>3, <1>4, <1>5, <1>6, <1>7, <1>8, <1>9, <1>10
       DEF V4!Next, V4!Step, V4!RoutineStep, V4!forks

LEMMA TableInvStepV4 == TableInvV4 /\ [V4!Next]_(V4!vars) => TableInvV4'
  BY TypesStepV4, TableStepV4 DEF TableInvV4

-----------------------------------------------------------------------------
(***************************************************************************)
(* The queue of v4: one cell for each philosopher in it.                   *)
(***************************************************************************)
QueuedOnes == {p \in V4!Philos : V4!Queued(p)}

LEMMA SameCardinality == \A S : V4!Cardinality(S) = Cardinality(S)
  BY DEF V4!Cardinality, Cardinality

LEMMA QueuedAreFinite ==
  IsFiniteSet(QueuedOnes) /\ Cardinality(QueuedOnes) \in 0 .. N
  <1>1. IsFiniteSet(V4!Philos) /\ Cardinality(V4!Philos) = N
    BY NumPhilos, FS_Interval DEF V4!Philos
  <1>2. QueuedOnes \subseteq V4!Philos
    BY DEF QueuedOnes
  <1>3. IsFiniteSet(QueuedOnes) /\ Cardinality(QueuedOnes) <= Cardinality(V4!Philos)
    BY <1>1, <1>2, FS_Subset
  <1>4. Cardinality(QueuedOnes) \in Nat
    BY <1>3, FS_CardinalityType
  <1> QED
    BY <1>1, <1>3, <1>4, NumPhilos

LEMMA CountedQueue ==
  V4!OneCellEach <=> tail - head = Cardinality(QueuedOnes)
  BY SameCardinality DEF V4!OneCellEach, QueuedOnes

LEMMA OneCellInit == V4!Init => V4!OneCellEach
  <1> SUFFICES ASSUME V4!Init PROVE V4!OneCellEach
    OBVIOUS
  <1>1. QueuedOnes = {}
    BY DEF V4!Init, V4!RoutineInit, QueuedOnes, V4!Queued
  <1> QED
    BY <1>1, FS_EmptySet, CountedQueue DEF V4!Init

LEMMA OneCellStep ==
  TypesV4 /\ V4!OneCellEach /\ [V4!Next]_(V4!vars) => V4!OneCellEach'
  <1> SUFFICES ASSUME TypesV4, V4!OneCellEach, [V4!Next]_(V4!vars)
               PROVE  tail' - head' = Cardinality(QueuedOnes')
    BY SameCardinality DEF V4!OneCellEach, QueuedOnes
  <1> USE DEF V4!Labels, V4!RoutineLabels
  <1>1. /\ head \in Int /\ tail \in Int /\ tail - head = Cardinality(QueuedOnes)
        /\ IsFiniteSet(QueuedOnes) /\ Cardinality(QueuedOnes) \in Nat
    BY CountedQueue, QueuedAreFinite DEF TypesV4
  <1>2. ASSUME NEW p \in V4!Philos, NEW l \in V4!Labels, NEW l2 \in V4!Labels,
               V4!Move(p, l, l2), UNCHANGED << head, tail >>,
               l \in {"top", "take", "done"} <=> l2 \in {"top", "take", "done"}
        PROVE  tail' - head' = Cardinality(QueuedOnes')
    <2>1. pc[p] = l /\ pc'[p] = l2 /\ \A q \in V4!Philos : q # p => pc'[q] = pc[q]
      BY <1>2, OneMovesV4
    <2>2. \A q \in V4!Philos : V4!Queued(q)' <=> V4!Queued(q)
      BY <1>2, <2>1 DEF V4!Queued
    <2>3. QueuedOnes' = QueuedOnes
      BY <2>2 DEF QueuedOnes
    <2> QED
      BY <1>1, <1>2, <2>3
  <1>3. ASSUME UNCHANGED << pc, head, tail >>
        PROVE  tail' - head' = Cardinality(QueuedOnes')
    BY <1>1, <1>3 DEF QueuedOnes, V4!Queued
  <1>4. ASSUME NEW p \in V4!Philos, V4!EnterQueue(p)
        PROVE  tail' - head' = Cardinality(QueuedOnes')
    <2>1. PICK l2 \in {"queued", "forks"} : V4!Move(p, "take", l2)
      BY <1>4, Turns DEF V4!EnterQueue
    <2>2. pc[p] = "take" /\ pc'[p] = l2 /\ \A q \in V4!Philos : q # p => pc'[q] = pc[q]
      BY <2>1, OneMovesV4
    <2>3. p \notin QueuedOnes /\ QueuedOnes' = QueuedOnes \cup {p}
      BY <2>2 DEF QueuedOnes, V4!Queued
    <2>4. Cardinality(QueuedOnes') = Cardinality(QueuedOnes) + 1
      BY <1>1, <2>3, FS_AddElement
    <2>5. tail' - head' = tail - head + 1
      BY <1>1, <1>4, Entering
    <2> QED
      BY <1>1, <2>4, <2>5
  <1>5. ASSUME NEW p \in V4!Philos, V4!LeaveQueue(p)
        PROVE  tail' - head' = Cardinality(QueuedOnes')
    <2>1. PICK l \in {"leaving", "leavingAtStop"}, l2 \in {"top", "done"} : V4!Move(p, l, l2)
      BY <1>5 DEF V4!LeaveQueue
    <2>2. pc[p] = l /\ pc'[p] = l2 /\ \A q \in V4!Philos : q # p => pc'[q] = pc[q]
      BY <2>1, OneMovesV4
    <2>3. p \in QueuedOnes /\ QueuedOnes' = QueuedOnes \ {p}
      BY <2>2 DEF QueuedOnes, V4!Queued
    <2>4. Cardinality(QueuedOnes') = Cardinality(QueuedOnes) - 1
      BY <1>1, <2>3, FS_RemoveElement
    <2>5. head' = head + 1 /\ tail' = tail
      BY <1>5 DEF V4!LeaveQueue
    <2> QED
      BY <1>1, <2>4, <2>5
  <1>6. ASSUME NEW p \in V4!Philos, V4!RoutineStep(p), UNCHANGED << V4!forks, V4!waiter >>
        PROVE  tail' - head' = Cardinality(QueuedOnes')
    BY <1>2, <1>6 DEF V4!RoutineStep, V4!CheckStop, V4!Recheck, V4!FinishMeal, V4!waiter
  <1>7. ASSUME NEW p \in V4!Philos, V4!LookAgain(p)
        PROVE  tail' - head' = Cardinality(QueuedOnes')
    <2>1. PICK l2 \in {"queued", "forks"} : V4!Move(p, "queued", l2)
      BY <1>7, Turns DEF V4!LookAgain
    <2> QED
      BY <1>2, <1>7, <2>1 DEF V4!LookAgain
  <1>8. ASSUME NEW p \in V4!Philos, V4!TakeBoth(p) \/ V4!PutBoth(p)
        PROVE  tail' - head' = Cardinality(QueuedOnes')
    BY <1>2, <1>8 DEF V4!TakeBoth, V4!PutBoth, V4!waiter
  <1>9. CASE \/ \E p \in V4!Philos : V4!WaitForForks(p) \/ V4!SpuriousWakeup(p)
             \/ V4!StopSimulation /\ UNCHANGED << V4!forks, V4!waiter >>
             \/ UNCHANGED V4!vars
    BY <1>3, <1>9 DEF V4!WaitForForks, V4!SpuriousWakeup, V4!StopSimulation, V4!waiter, V4!vars
  <1> QED
    BY <1>4, <1>5, <1>6, <1>7, <1>8, <1>9 DEF V4!Next, V4!Step

-----------------------------------------------------------------------------
(***************************************************************************)
(* Who is served.  With a clock that shows a date everybody is critical,   *)
(* enters at the head and goes on to the forks at once, so that nobody     *)
(* sleeps in the queue; and who sleeps for a fork sleeps while its holder  *)
(* has still to call put_forks.                                            *)
(***************************************************************************)
SleepAtForks == \A p \in forkSleep : pc[p] = "forks"

HolderWakes == forkSleep # {} => \E q \in V4!Philos :
                   pc[q] \in {"recheck", "eating", "putting", "quitting"}

NobodyQueues == V4!ClockIsSet => queueSleep = {} /\ \A p \in V4!Philos : pc[p] # "queued"

ServedInv == SleepAtForks /\ HolderWakes /\ NobodyQueues

LEMMA EverybodyIsCritical ==
  ASSUME epochMs \in Epochs, V4!ClockIsSet, NEW since \in 0 .. TimeToDie
  PROVE  V4!RemainingUs(since) < CriticalUs
  <1>1. epochMs \in Nat /\ UsPerMs \in Nat /\ TimeToDie \in Nat /\ CriticalUs \in Nat
    BY ClockIsWhole
  <1>2. (TimeToDie - epochMs) * UsPerMs + epochMs < CriticalUs
    BY DatesAreFar DEF V4!ClockIsSet
  <1>3. /\ (TimeToDie - epochMs) * UsPerMs = TimeToDie * UsPerMs - epochMs * UsPerMs
        /\ (epochMs + since) * UsPerMs = epochMs * UsPerMs + since * UsPerMs
        /\ since * UsPerMs >= 0
    BY <1>1
  <1>4. TimeToDie * UsPerMs \in Int /\ epochMs * UsPerMs \in Int /\ since * UsPerMs \in Int
    BY <1>1
  <1> QED
    BY <1>1, <1>2, <1>3, <1>4 DEF V4!RemainingUs

LEMMA NobodyWaitsForATurn ==
  ASSUME TypesV4, V4!ClockIsSet, NEW p \in V4!Philos, V4!EnterQueue(p)
  PROVE  V4!Move(p, "take", "forks") /\ UNCHANGED queueSleep
  <1>1. V4!EnqueueHead(p)
    BY EverybodyIsCritical DEF V4!EnterQueue, TypesV4
  <1>2. V4!HeadOf(queue', head') = p
    BY <1>1, CellsExist DEF V4!EnqueueHead, V4!HeadOf, TypesV4
  <1> QED
    BY <1>2 DEF V4!EnterQueue, V4!AwaitTurn, V4!Move

LEMMA ServedInit == V4!Init => ServedInv
  BY DEF V4!Init, V4!RoutineInit, ServedInv, SleepAtForks, HolderWakes, NobodyQueues

LEMMA ServedStep ==
  TableInvV4 /\ ServedInv /\ [V4!Next]_(V4!vars) => ServedInv'
  <1> SUFFICES ASSUME TableInvV4, ServedInv, [V4!Next]_(V4!vars) PROVE ServedInv'
    OBVIOUS
  <1> DEFINE Before == {"recheck", "eating", "putting", "quitting"}
  <1> USE DEF TableInvV4, V4!Labels, V4!RoutineLabels
  <1>1. ASSUME NEW p \in V4!Philos, NEW l \in V4!Labels, NEW l2 \in V4!Labels,
               V4!Move(p, l, l2), p \notin forkSleep, UNCHANGED << forkSleep, epochMs >>,
               l \in Before => l2 \in Before,
               UNCHANGED queueSleep \/ queueSleep' = {},
               l2 # "queued"
        PROVE  ServedInv'
    <2>1. pc[p] = l /\ pc'[p] = l2 /\ \A q \in V4!Philos : q # p => pc'[q] = pc[q]
      BY <1>1, OneMovesV4
    <2>2. SleepAtForks'
      BY <1>1, <2>1 DEF ServedInv, SleepAtForks, TypesV4
    <2>3. HolderWakes'
      BY <1>1, <2>1 DEF ServedInv, HolderWakes
    <2>4. NobodyQueues'
      BY <1>1, <2>1 DEF ServedInv, NobodyQueues, V4!ClockIsSet
    <2> QED
      BY <2>2, <2>3, <2>4 DEF ServedInv
  <1>2. ASSUME NEW p \in V4!Philos, V4!RoutineStep(p), UNCHANGED << V4!forks, V4!waiter >>
        PROVE  ServedInv'
    <2>1. p \notin forkSleep
      BY <1>2 DEF V4!RoutineStep, V4!CheckStop, V4!Recheck, V4!FinishMeal, V4!Move, V4!At,
                  ServedInv, SleepAtForks
    <2> QED
      BY <1>1, <1>2, <2>1
         DEF V4!RoutineStep, V4!CheckStop, V4!Recheck, V4!FinishMeal, V4!forks, V4!waiter
  <1>3. ASSUME NEW p \in V4!Philos, V4!EnterQueue(p)
        PROVE  ServedInv'
    <2>1. p \notin forkSleep /\ UNCHANGED << forkSleep, epochMs >>
      BY <1>3 DEF V4!EnterQueue, V4!At, ServedInv, SleepAtForks, V4!forks
    <2>2. CASE V4!ClockIsSet
      BY <1>1, <1>3, <2>1, <2>2, NobodyWaitsForATurn
    <2>3. CASE ~V4!ClockIsSet
      <3>1. PICK l2 \in {"queued", "forks"} : V4!Move(p, "take", l2)
        BY <1>3, Turns DEF V4!EnterQueue
      <3>2. pc[p] = "take" /\ pc'[p] = l2 /\ \A q \in V4!Philos : q # p => pc'[q] = pc[q]
        BY <3>1, OneMovesV4
      <3> QED
        BY <2>1, <2>3, <3>2 DEF ServedInv, SleepAtForks, HolderWakes, NobodyQueues,
                                V4!ClockIsSet, TypesV4
    <2> QED
      BY <2>2, <2>3
  <1>4. ASSUME NEW p \in V4!Philos, V4!LookAgain(p)
        PROVE  ServedInv'
    <2>1. ~V4!ClockIsSet /\ UNCHANGED << forkSleep, epochMs >>
      BY <1>4 DEF V4!LookAgain, V4!At, V4!forks, ServedInv, NobodyQueues
    <2>2. PICK l2 \in {"queued", "forks"} : V4!Move(p, "queued", l2)
      BY <1>4, Turns DEF V4!LookAgain
    <2>3. pc[p] = "queued" /\ pc'[p] = l2 /\ \A q \in V4!Philos : q # p => pc'[q] = pc[q]
      BY <2>2, OneMovesV4
    <2> QED
      BY <2>1, <2>3 DEF ServedInv, SleepAtForks, HolderWakes, NobodyQueues, V4!ClockIsSet,
                        TypesV4
  <1>5. ASSUME NEW p \in V4!Philos, V4!WaitForForks(p)
        PROVE  ServedInv'
    <2>1. PICK f \in V4!Forks : f \in V4!ForksOf(p) /\ f \in taken
      BY <1>5, ForksOnTableV4 DEF V4!WaitForForks, V4!CanTake
    <2>2. PICK q \in V4!Philos : V4!Holds(q)
      BY <1>5, <2>1 DEF V4!WaitForForks, ForksInvV4, V4!ForksAreHeldOnce
    <2>3. HolderWakes'
      BY <1>5, <2>2 DEF V4!WaitForForks, V4!Holds, HolderWakes
    <2>4. SleepAtForks' /\ NobodyQueues'
      BY <1>5 DEF V4!WaitForForks, V4!At, V4!waiter, ServedInv, SleepAtForks, NobodyQueues,
                  V4!ClockIsSet
    <2> QED
      BY <2>3, <2>4 DEF ServedInv
  <1>6. ASSUME NEW p \in V4!Philos, V4!SpuriousWakeup(p)
        PROVE  ServedInv'
    BY <1>6 DEF V4!SpuriousWakeup, ServedInv, SleepAtForks, HolderWakes, NobodyQueues,
                V4!ClockIsSet
  <1>7. ASSUME NEW p \in V4!Philos, V4!TakeBoth(p)
        PROVE  ServedInv'
    BY <1>1, <1>7 DEF V4!TakeBoth, V4!waiter
  <1>8. ASSUME NEW p \in V4!Philos, V4!PutBoth(p)
        PROVE  ServedInv'
    <2>1. PICK l \in {"putting", "quitting"}, l2 \in {"leaving", "leavingAtStop"} :
             V4!Move(p, l, l2)
      BY <1>8 DEF V4!PutBoth
    <2>2. pc[p] = l /\ pc'[p] = l2 /\ \A q \in V4!Philos : q # p => pc'[q] = pc[q]
      BY <2>1, OneMovesV4
    <2>3. forkSleep' = {} /\ UNCHANGED << queueSleep, epochMs >>
      BY <1>8 DEF V4!PutBoth, V4!waiter
    <2> QED
      BY <2>2, <2>3 DEF ServedInv, SleepAtForks, HolderWakes, NobodyQueues, V4!ClockIsSet
  <1>9. ASSUME NEW p \in V4!Philos, V4!LeaveQueue(p)
        PROVE  ServedInv'
    <2>1. p \notin forkSleep
      BY <1>9 DEF V4!LeaveQueue, V4!Move, V4!At, ServedInv, SleepAtForks
    <2> QED
      BY <1>1, <1>9, <2>1 DEF V4!LeaveQueue, V4!forks
  <1>10. CASE \/ V4!StopSimulation /\ UNCHANGED << V4!forks, V4!waiter >>
              \/ UNCHANGED V4!vars
    BY <1>10 DEF V4!StopSimulation, V4!forks, V4!waiter, V4!vars, ServedInv, SleepAtForks,
                 HolderWakes, NobodyQueues, V4!ClockIsSet
  <1> QED
    BY <1>2, <1>3, <1>4, <1>5, <1>6, <1>7, <1>8, <1>9, <1>10 DEF V4!Next, V4!Step

\* An awake one: who holds the forks, or, when nobody sleeps for a fork, anybody.
LEMMA ServedMeansAwake == ServedInv => V4!SomebodyIsServed
  <1> SUFFICES ASSUME ServedInv, V4!ClockIsSet, NEW p \in V4!Philos, V4!Queued(p)
               PROVE  \E q \in V4!Philos : V4!Queued(q) /\ ~V4!Asleep(q)
    BY DEF V4!SomebodyIsServed
  <1> USE DEF ServedInv, SleepAtForks, HolderWakes, NobodyQueues, V4!Queued, V4!Asleep
  <1>1. CASE forkSleep = {}
    BY <1>1
  <1>2. CASE forkSleep # {}
    <2>1. PICK q \in V4!Philos : pc[q] \in {"recheck", "eating", "putting", "quitting"}
      BY <1>2
    <2>2. q \notin forkSleep /\ q \notin queueSleep
      BY <2>1
    <2> QED
      BY <2>1, <2>2
  <1> QED
    BY <1>1, <1>2

-----------------------------------------------------------------------------
(* The queue serves the table, too. *)

LEMMA QueueDiningStep ==
  TableInvV4 /\ [V4!Next]_(V4!vars) => [V4!Table!Next]_(V4!Eating)
  <1> SUFFICES ASSUME TableInvV4, [V4!Next]_(V4!vars)
               PROVE  [V4!Table!Next]_(V4!Eating)
    OBVIOUS
  <1> USE DEF TableInvV4, ForksInvV4, V4!Labels, V4!RoutineLabels
  <1>1. ASSUME NEW p \in V4!Philos, V4!Recheck(p), ~stop
        PROVE  V4!Table!Start(p)
    <2>1. V4!Move(p, "recheck", "eating")
      BY <1>1 DEF V4!Recheck
    <2>2. /\ pc[p] = "recheck" /\ pc'[p] = "eating"
          /\ \A q \in V4!Philos : q # p => pc'[q] = pc[q]
      BY <2>1, OneMovesV4
    <2>3. p \notin V4!Eating /\ V4!Eating' = V4!Eating \cup {p}
      BY <2>2 DEF V4!Eating, V4!At
    <2>4. \A q \in V4!Eating : ~V4!Neighbours(p, q)
      BY <1>1, <2>2 DEF V4!ForksAreHeldOnce, V4!Holds, V4!Eating, V4!At
    <2>5. \A q \in V4!Philos : V4!Table!Neighbours(p, q) <=> V4!Neighbours(p, q)
      BY DEF V4!Table!Neighbours, V4!Neighbours, V4!Table!ForksOf, V4!ForksOf,
             V4!Table!Left, V4!Left, V4!Table!Right, V4!Right
    <2> QED
      BY <2>3, <2>4, <2>5 DEF V4!Table!Start, V4!Eating
  <1>2. ASSUME NEW p \in V4!Philos, V4!FinishMeal(p)
        PROVE  V4!Table!Finish(p)
    <2>1. /\ pc[p] = "eating" /\ pc'[p] = "putting"
          /\ \A q \in V4!Philos : q # p => pc'[q] = pc[q]
      BY <1>2, OneMovesV4 DEF V4!FinishMeal
    <2> QED
      BY <2>1 DEF V4!Eating, V4!At, V4!Table!Finish
  <1>3. ASSUME NEW p \in V4!Philos, NEW l \in V4!Labels, NEW l2 \in V4!Labels,
               V4!Move(p, l, l2), l # "eating", l2 # "eating"
        PROVE  V4!Eating' = V4!Eating
    BY <1>3, OneMovesV4 DEF V4!Eating, V4!At
  <1>4. ASSUME NEW p \in V4!Philos,
               \/ V4!CheckStop(p) \/ (V4!Recheck(p) /\ stop)
               \/ V4!TakeBoth(p) \/ V4!PutBoth(p) \/ V4!LeaveQueue(p)
        PROVE  V4!Eating' = V4!Eating
    BY <1>3, <1>4 DEF V4!CheckStop, V4!Recheck, V4!TakeBoth, V4!PutBoth, V4!LeaveQueue
  <1>5. ASSUME NEW p \in V4!Philos, V4!EnterQueue(p) \/ V4!LookAgain(p)
        PROVE  V4!Eating' = V4!Eating
    <2>1. PICK l \in {"take", "queued"}, l2 \in {"queued", "forks"} : V4!Move(p, l, l2)
      BY <1>5, Turns DEF V4!EnterQueue, V4!LookAgain
    <2> QED
      BY <1>3, <2>1
  <1>6. ASSUME UNCHANGED pc
        PROVE  V4!Eating' = V4!Eating
    BY <1>6 DEF V4!Eating, V4!At
  <1>7. CASE \/ \E p \in V4!Philos : V4!WaitForForks(p) \/ V4!SpuriousWakeup(p)
             \/ V4!StopSimulation
             \/ UNCHANGED V4!vars
    BY <1>6, <1>7 DEF V4!WaitForForks, V4!SpuriousWakeup, V4!StopSimulation, V4!vars
  <1> QED
    BY <1>1, <1>2, <1>4, <1>5, <1>7
       DEF V4!Next, V4!Step, V4!RoutineStep, V4!Table!Next, V4!Table!Philos, V4!Philos

-----------------------------------------------------------------------------
(***************************************************************************)
(* What runs is one of the two.  Under v4 the locks of v1 stay open.       *)
(***************************************************************************)
LocksInv == strategy = "v1" => TypeOK /\ (N > 1 => OwnersInv)
QueueInv == strategy = "v4" => /\ owner = [f \in Forks |-> Nobody]
                               /\ TableInvV4 /\ V4!OneCellEach /\ ServedInv

MCInv == strategy \in {"v1", "v4"} /\ LocksInv /\ QueueInv

LEMMA MCInvInit == MCInit => MCInv
  BY TypeInit, OwnersInvInit, TableInvInitV4, OneCellInit, ServedInit
     DEF MCInit, MCInv, LocksInv, QueueInv, Init

LEMMA MCInvStep == MCInv /\ [MCNext]_all => MCInv'
  <1> SUFFICES ASSUME MCInv, [MCNext]_all PROVE MCInv'
    OBVIOUS
  <1>1. CASE strategy = "v1"
    <2>1. strategy' = strategy /\ [Next]_vars
      BY <1>1 DEF MCNext, OnlyV1, OnlyV4, all
    <2>2. TypeOK' /\ (N > 1 => OwnersInv')
      BY <1>1, <2>1, TypeStep, OwnersInvStep DEF MCInv, LocksInv
    <2> QED
      BY <1>1, <2>1, <2>2 DEF MCInv, LocksInv, QueueInv
  <1>2. CASE strategy = "v4"
    <2>1. UNCHANGED << strategy, owner >> /\ [V4!Next]_(V4!vars)
      BY <1>2 DEF MCNext, OnlyV1, OnlyV4, all, ofV4, vars, V4!vars, V4!forks, V4!waiter
    <2>2. TableInvV4' /\ V4!OneCellEach' /\ ServedInv'
      BY <1>2, <2>1, TableInvStepV4, OneCellStep, ServedStep
         DEF MCInv, QueueInv, TableInvV4
    <2> QED
      BY <1>2, <2>1, <2>2 DEF MCInv, LocksInv, QueueInv
  <1> QED
    BY <1>1, <1>2 DEF MCInv

LEMMA MCInvHolds == MCSpec => []MCInv
  BY MCInvInit, MCInvStep, PTL DEF MCSpec

-----------------------------------------------------------------------------
(***************************************************************************)
(* The waiter forgets nobody, however many there are: the queue has a cell *)
(* for each philosopher in it, with the clock set one of them is awake,    *)
(* and is_taken names the forks held (strategy_v4.c:49, :84, :127).        *)
(***************************************************************************)
THEOREM NobodyIsForgotten == MCSpec => []WaiterForgetsNobody
  <1>1. MCInv => WaiterForgetsNobody
    BY ServedMeansAwake DEF MCInv, QueueInv, TableInvV4, ForksInvV4, WaiterForgetsNobody
  <1> QED
    BY <1>1, MCInvHolds, PTL

(***************************************************************************)
(* The head of the waiter queue, which is decremented from 0, goes at most *)
(* one cell per philosopher below the array: the words in front of it that *)
(* v4 writes to are no more than there are philosophers.                   *)
(***************************************************************************)
THEOREM HeadStaysNear == MCSpec => [](strategy = "v4" => V4!TypeOK)
  <1>1. TypesV4 /\ V4!OneCellEach => V4!TypeOK
    <2> SUFFICES ASSUME TypesV4, V4!OneCellEach PROVE V4!TypeOK
      OBVIOUS
    <2>1. tail - head \in 0 .. N
      BY CountedQueue, QueuedAreFinite
    <2>2. head \in -N .. MaxTickets
      BY <2>1, NumPhilos, NumTickets DEF TypesV4
    <2> QED
      BY <2>2 DEF TypesV4, V4!TypeOK
  <1>2. MCInv => (strategy = "v4" => V4!TypeOK)
    BY <1>1 DEF MCInv, QueueInv, TableInvV4
  <1> QED
    BY <1>2, MCInvHolds, PTL

(***************************************************************************)
(* Whoever waits for a fork of a waiting thread waits for a lower one      *)
(* (under v4 nobody waits at a mutex).                                     *)
(***************************************************************************)
THEOREM NoCircle == N > 1 /\ MCSpec => []WaitsClimb
  <1> SUFFICES ASSUME N > 1 PROVE MCSpec => []WaitsClimb
    OBVIOUS
  <1>1. QueueInv /\ strategy = "v4" => WaitsClimb
    BY NobodyIsNoPhilosopher DEF QueueInv, WaitsClimb
  <1>2. MCInv => WaitsClimb
    BY <1>1, WaitersClimb DEF MCInv, LocksInv
  <1> QED
    BY <1>2, MCInvHolds, PTL

(***************************************************************************)
(* Ordered locks and the waiter queue both give the table of Dining,       *)
(* before the stop and after it.                                           *)
(***************************************************************************)
THEOREM BothImplement == N > 1 /\ MCSpec => ImplementsDining
  <1> SUFFICES ASSUME N > 1 PROVE MCSpec => ImplementsDining
    OBVIOUS
  <1>1. V4!Eating = Eating /\ V4!Eating' = Eating'
    BY DEF V4!Eating, Eating, V4!At, At, V4!Philos, Philos
  <1>2. V4!Table!Next <=> Table!Next
    <2>1. \A p : V4!Table!ForksOf(p) = Table!ForksOf(p)
      BY DEF V4!Table!ForksOf, Table!ForksOf, V4!Table!Left, Table!Left, V4!Table!Right,
             Table!Right
    <2> QED
      BY <1>1, <2>1 DEF V4!Table!Next, Table!Next, V4!Table!Start, Table!Start,
         V4!Table!Finish, Table!Finish, V4!Table!Neighbours, Table!Neighbours,
         V4!Table!Philos, Table!Philos
  <1>3. MCInit => Table!Init
    BY DiningInit DEF MCInit
  <1>4. MCInv /\ [MCNext]_all => [Table!Next]_Eating
    <2> SUFFICES ASSUME MCInv, [MCNext]_all PROVE [Table!Next]_Eating
      OBVIOUS
    <2>1. CASE OnlyV1 /\ Next
      BY <2>1, DiningStep DEF MCInv, LocksInv, OnlyV1
    <2>2. CASE OnlyV4 /\ V4!Next
      BY <1>1, <1>2, <2>2, QueueDiningStep DEF MCInv, QueueInv, OnlyV4
    <2>3. CASE UNCHANGED vars
      BY <2>3 DEF vars, Eating, At
    <2> QED
      BY <2>1, <2>2, <2>3 DEF MCNext, all
  <1> QED
    BY <1>3, <1>4, MCInvHolds, PTL DEF MCSpec, ImplementsDining, Table!Spec
=============================================================================
