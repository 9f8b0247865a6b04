----------------------- MODULE MonitorAndLimiterProofs -----------------------
(***************************************************************************)
(* Proofs about the strategies v2 and v3, for every number of              *)
(* philosophers, and about the bonus, for every number of processes; the   *)
(* last part puts them together into what MCMonitorAndLimiter runs.        *)
(***************************************************************************)
EXTENDS MCMonitorAndLimiter, FiniteSetTheorems, TLAPS

\* A philosopher's forks are forks of the table.
LEMMA ForksOnTable ==
  ASSUME NEW p \in Philos
  PROVE  ForksOf(p) \subseteq Forks
  BY NumPhilos DEF Philos, Forks, ForksOf, Left, Right

-----------------------------------------------------------------------------
LEMMA TypeInit == Init => TypeOK
  BY DEF Init, RoutineInit, TypeOK, RoutineLabels

LEMMA TypeStep == TypeOK /\ [Next]_vars => TypeOK'
  <1> SUFFICES ASSUME TypeOK, [Next]_vars
               PROVE  TypeOK'
    OBVIOUS
  <1> USE DEF TypeOK, RoutineLabels
  <1>1. ASSUME NEW p \in Philos, RoutineStep(p), UNCHANGED << taken, asleep >>
        PROVE  TypeOK'
    BY <1>1 DEF RoutineStep, CheckStop, Recheck, FinishMeal, Move, At, Goto
  <1>2. ASSUME NEW p \in Philos, TakeBoth(p)
        PROVE  TypeOK'
    BY <1>2, ForksOnTable DEF TakeBoth, Move, At, Goto
  <1>3. ASSUME NEW p \in Philos, TakeNothing(p)
        PROVE  TypeOK'
    BY <1>3 DEF TakeNothing, Move, At, Goto
  <1>4. ASSUME NEW p \in Philos, WaitForForks(p)
        PROVE  TypeOK'
    BY <1>4 DEF WaitForForks
  <1>5. ASSUME NEW p \in Philos, PutBoth(p)
        PROVE  TypeOK'
    BY <1>5 DEF PutBoth, AfterPut, Goto
  <1>6. ASSUME NEW p \in Philos, SpuriousWakeup(p)
        PROVE  TypeOK'
    BY <1>6 DEF SpuriousWakeup
  <1>7. CASE StopSimulation /\ UNCHANGED << taken, asleep >>
    BY <1>7 DEF StopSimulation
  <1>8. CASE UNCHANGED vars
    BY <1>8 DEF vars
  <1> QED
    BY <1>1, <1>2, <1>3, <1>4, <1>5, <1>6, <1>7, <1>8 DEF Next, Step

(***************************************************************************)
(* The variables keep their types under every interleaving of takes, puts, *)
(* wakeups and the stop.                                                   *)
(***************************************************************************)
THEOREM TypeCorrect == Spec => []TypeOK
  BY TypeInit, TypeStep, PTL DEF Spec

-----------------------------------------------------------------------------
(***************************************************************************)
(* The inductive invariant.  While the simulation runs the forks are       *)
(* bookkept exactly; after the stop nothing can be said of is_taken, but   *)
(* nobody begins to eat any more.  A thread quits only after a stop, so    *)
(* that the forks cleared before it are the clearer's own.                 *)
(***************************************************************************)
NeighboursDoNotEat ==
    \A p, q \in Philos : Neighbours(p, q) => ~(At(p, "eating") /\ At(q, "eating"))

QuitOnlyAfterStop ==
    \A p \in Philos : pc[p] \in {"quitting", "done"} => stop

ForksInv == ForksAreHeldOnce /\ NeighboursDoNotEat /\ QuitOnlyAfterStop

LEMMA ForksInvInit == Init => ForksInv
  BY DEF Init, RoutineInit, ForksInv, ForksAreHeldOnce, NeighboursDoNotEat,
         QuitOnlyAfterStop, Holds, At

LEMMA ForksInvStep ==
  ASSUME TypeOK, ForksInv, [Next]_vars
  PROVE  ForksInv'
  <1> USE DEF ForksInv, TypeOK
  <1>1. ASSUME NEW p \in Philos, CheckStop(p), UNCHANGED << taken, asleep >>
        PROVE  ForksInv'
    BY <1>1 DEF CheckStop, Move, At, Goto, ForksAreHeldOnce, NeighboursDoNotEat,
                QuitOnlyAfterStop, Holds
  <1>2. ASSUME NEW p \in Philos, Recheck(p), UNCHANGED << taken, asleep >>
        PROVE  ForksInv'
    <2>1. ForksAreHeldOnce'
      BY <1>2 DEF Recheck, Move, At, Goto, ForksAreHeldOnce, Holds
    <2>2. NeighboursDoNotEat'
      \* Who sits down does so before the stop, and holds both forks alone.
      BY <1>2 DEF Recheck, Move, At, Goto, ForksAreHeldOnce, NeighboursDoNotEat,
                  Holds, Neighbours
    <2>3. QuitOnlyAfterStop'
      BY <1>2 DEF Recheck, Move, At, Goto, QuitOnlyAfterStop
    <2> QED
      BY <2>1, <2>2, <2>3
  <1>3. ASSUME NEW p \in Philos, FinishMeal(p), UNCHANGED << taken, asleep >>
        PROVE  ForksInv'
    BY <1>3 DEF FinishMeal, Move, At, Goto, ForksAreHeldOnce, NeighboursDoNotEat,
                QuitOnlyAfterStop, Holds
  <1>4. ASSUME NEW p \in Philos, TakeBoth(p)
        PROVE  ForksInv'
    <2>1. ASSUME ~stop, NEW q \in Philos, Holds(q)
          PROVE  ForksOf(p) \cap ForksOf(q) = {}
      BY <1>4, <2>1, ForksOnTable DEF TakeBoth, CanTake, ForksAreHeldOnce
    <2>2. \A q \in Philos : Holds(q)' <=> Holds(q) \/ q = p
      BY <1>4 DEF TakeBoth, Move, At, Goto, Holds
    <2>3. ForksAreHeldOnce'
      BY <1>4, <2>1, <2>2 DEF TakeBoth, ForksAreHeldOnce, Neighbours
    <2>4. NeighboursDoNotEat'
      BY <1>4 DEF TakeBoth, Move, At, Goto, NeighboursDoNotEat
    <2>5. QuitOnlyAfterStop'
      BY <1>4 DEF TakeBoth, Move, At, Goto, QuitOnlyAfterStop
    <2> QED
      BY <2>3, <2>4, <2>5
  <1>5. ASSUME NEW p \in Philos, TakeNothing(p)
        PROVE  ForksInv'
    BY <1>5 DEF TakeNothing, Move, At, Goto, ForksAreHeldOnce, NeighboursDoNotEat,
                QuitOnlyAfterStop
  <1>6. ASSUME NEW p \in Philos, WaitForForks(p) \/ SpuriousWakeup(p)
        PROVE  ForksInv'
    BY <1>6 DEF WaitForForks, SpuriousWakeup, At, ForksAreHeldOnce, NeighboursDoNotEat,
                QuitOnlyAfterStop, Holds
  <1>7. ASSUME NEW p \in Philos, PutBoth(p)
        PROVE  ForksInv'
    <2>1. ~stop => Holds(p)
      BY <1>7 DEF PutBoth, QuitOnlyAfterStop, Holds
    <2>2. ASSUME ~stop, NEW q \in Philos, Holds(q), q # p
          PROVE  ForksOf(p) \cap ForksOf(q) = {}
      BY <2>1, <2>2 DEF ForksAreHeldOnce, Neighbours
    <2>3. \A q \in Philos : Holds(q)' <=> Holds(q) /\ q # p
      BY <1>7 DEF PutBoth, AfterPut, Goto, Holds
    <2>4. ForksAreHeldOnce'
      BY <1>7, <2>1, <2>2, <2>3 DEF PutBoth, ForksAreHeldOnce
    <2>5. NeighboursDoNotEat'
      BY <1>7 DEF PutBoth, AfterPut, Goto, At, NeighboursDoNotEat
    <2>6. QuitOnlyAfterStop'
      BY <1>7 DEF PutBoth, AfterPut, Goto, QuitOnlyAfterStop
    <2> QED
      BY <2>4, <2>5, <2>6
  <1>8. CASE StopSimulation /\ UNCHANGED << taken, asleep >>
    BY <1>8 DEF StopSimulation, ForksAreHeldOnce, NeighboursDoNotEat, QuitOnlyAfterStop, At
  <1>9. CASE UNCHANGED vars
    BY <1>9 DEF vars, ForksAreHeldOnce, NeighboursDoNotEat, QuitOnlyAfterStop, Holds, At
  <1> QED
    BY <1>1, <1>2, <1>3, <1>4, <1>5, <1>6, <1>7, <1>8, <1>9 DEF Next, Step, RoutineStep

LEMMA ForksInvHolds == Spec => [](TypeOK /\ ForksInv)
  BY ForksInvInit, ForksInvStep, TypeCorrect, PTL DEF Spec

(***************************************************************************)
(* While the simulation runs every fork has at most one holder and         *)
(* is_taken names exactly the forks held, for any number of philosophers.  *)
(***************************************************************************)
THEOREM ForksHeldOnce == Spec => []ForksAreHeldOnce
  BY ForksInvHolds, PTL DEF ForksInv

-----------------------------------------------------------------------------
LEMMA DiningInit == Init => Table!Init
  BY DEF Init, RoutineInit, Table!Init, Eating, At

LEMMA DiningStep ==
  TypeOK /\ ForksInv /\ (ForksInv)' /\ [Next]_vars => [Table!Next]_Eating
  <1> SUFFICES ASSUME TypeOK, ForksInv, ForksInv', [Next]_vars
               PROVE  [Table!Next]_Eating
    OBVIOUS
  <1> USE DEF TypeOK
  <1>1. ASSUME NEW p \in Philos, Recheck(p), ~stop
        PROVE  Table!Start(p)
    <2>1. p \notin Eating /\ Eating' = Eating \cup {p}
      BY <1>1 DEF Recheck, Move, At, Goto, Eating
    <2>2. \A q \in Eating : ~Neighbours(p, q)
      BY <1>1, <2>1 DEF ForksInv, NeighboursDoNotEat, Eating
    <2>3. \A q \in Philos : Table!Neighbours(p, q) <=> Neighbours(p, q)
      BY DEF Table!Neighbours, Neighbours, Table!ForksOf, ForksOf, Table!Left, Left,
             Table!Right, Right
    <2> QED
      BY <2>1, <2>2, <2>3 DEF Table!Start, Eating
  <1>2. ASSUME NEW p \in Philos, FinishMeal(p)
        PROVE  Table!Finish(p)
    BY <1>2 DEF FinishMeal, Move, At, Goto, Eating, Table!Finish
  <1>3. ASSUME NEW p \in Philos,
               \/ CheckStop(p) \/ (Recheck(p) /\ stop)
               \/ TakeBoth(p) \/ TakeNothing(p) \/ WaitForForks(p)
               \/ PutBoth(p) \/ SpuriousWakeup(p)
        PROVE  Eating' = Eating
    BY <1>3 DEF CheckStop, Recheck, TakeBoth, TakeNothing, WaitForForks, PutBoth,
                SpuriousWakeup, AfterPut, Move, At, Goto, Eating
  <1>4. CASE StopSimulation \/ UNCHANGED vars
    BY <1>4 DEF StopSimulation, vars, Eating, At
  <1> QED
    BY <1>1, <1>2, <1>3, <1>4 DEF Next, Step, RoutineStep, Table!Next, Table!Philos, Philos

(***************************************************************************)
(* The monitor implements the table: every behaviour of the strategy,      *)
(* through the stop and after it, is one in which neighbours never eat     *)
(* together and philosophers sit down and rise one at a time.              *)
(***************************************************************************)
THEOREM Implements == Spec => ImplementsDining
  BY DiningInit, DiningStep, ForksInvHolds, PTL DEF Spec, ImplementsDining, Table!Spec

\* A philosopher's forks are forks of the table.
LEMMA ForksOnTableV3 ==
  ASSUME NEW p \in V3!Philos
  PROVE  V3!ForksOf(p) \subseteq V3!Forks
  BY NumPhilos DEF V3!Philos, V3!Forks, V3!ForksOf, V3!Left, V3!Right

-----------------------------------------------------------------------------
(***************************************************************************)
(* The inductive invariant.  A thread quits only after a stop, so that     *)
(* before it every place posted was taken and every fork cleared was held  *)
(* by the thread that does so; after it nothing can be said of is_taken    *)
(* and of the semaphore, but nobody begins to eat any more.                *)
(***************************************************************************)
NeighboursDoNotEatV3 ==
    \A p, q \in V3!Philos : V3!Neighbours(p, q) => ~(V3!At(p, "eating") /\ V3!At(q, "eating"))

QuitOnlyAfterStopV3 ==
    \A p \in V3!Philos : pc[p] \in {"quitting", "postAfterStop", "done"} => stop

TableInvV3 == V3!TypeOK /\ V3!ForksAreHeldOnce /\ NeighboursDoNotEatV3 /\ QuitOnlyAfterStopV3

LEMMA TableInvInitV3 == V3!Init => TableInvV3
  <1> SUFFICES ASSUME V3!Init PROVE TableInvV3
    OBVIOUS
  <1> USE DEF V3!Init, V3!RoutineInit
  <1>1. limiter \in Nat
    BY NumPhilos
  <1>2. V3!TypeOK
    BY <1>1 DEF V3!TypeOK, V3!Labels, V3!RoutineLabels
  <1>3. V3!ForksAreHeldOnce /\ NeighboursDoNotEatV3 /\ QuitOnlyAfterStopV3
    BY DEF V3!ForksAreHeldOnce, NeighboursDoNotEatV3, QuitOnlyAfterStopV3, V3!Holds, V3!At
  <1> QED
    BY <1>2, <1>3 DEF TableInvV3

\* One philosopher moves and the flag stays: what becomes of the program counters.
LEMMA OneMovesV3 ==
  ASSUME V3!TypeOK, NEW p \in V3!Philos, NEW l \in V3!Labels, NEW l2 \in V3!Labels,
         V3!Move(p, l, l2)
  PROVE  /\ pc[p] = l /\ pc' \in [V3!Philos -> V3!Labels]
         /\ pc'[p] = l2 /\ \A q \in V3!Philos : q # p => pc'[q] = pc[q]
  BY DEF V3!TypeOK, V3!Move, V3!At, V3!Goto

\* The steps that leave forks and flag alone, and those who hold and eat.
LEMMA AsideV3 ==
  ASSUME TableInvV3, NEW p \in V3!Philos, NEW l \in V3!Labels, NEW l2 \in V3!Labels,
         V3!Move(p, l, l2),
         UNCHANGED << stop, taken >>, limiter' \in Nat,
         \/ stop
         \/ l \in {"recheck", "eating", "putting"} <=> l2 \in {"recheck", "eating", "putting"},
         l2 # "eating",
         l2 \in {"quitting", "postAfterStop", "done"} => stop
  PROVE  TableInvV3'
  <1> USE DEF TableInvV3
  <1>1. /\ pc[p] = l /\ pc' \in [V3!Philos -> V3!Labels]
        /\ pc'[p] = l2 /\ \A q \in V3!Philos : q # p => pc'[q] = pc[q]
    BY OneMovesV3
  <1>2. V3!TypeOK'
    BY <1>1 DEF V3!TypeOK
  <1>3. V3!ForksAreHeldOnce'
    <2> SUFFICES ASSUME ~stop PROVE V3!ForksAreHeldOnce'
      BY DEF V3!ForksAreHeldOnce
    <2>1. \A q \in V3!Philos : V3!Holds(q)' <=> V3!Holds(q)
      BY <1>1 DEF V3!Holds
    <2> QED
      BY <2>1 DEF V3!ForksAreHeldOnce
  <1>4. NeighboursDoNotEatV3' /\ QuitOnlyAfterStopV3'
    BY <1>1 DEF NeighboursDoNotEatV3, QuitOnlyAfterStopV3, V3!At
  <1> QED
    BY <1>2, <1>3, <1>4

LEMMA TableInvStepV3 == TableInvV3 /\ [V3!Next]_(V3!vars) => TableInvV3'
  <1> SUFFICES ASSUME TableInvV3, [V3!Next]_(V3!vars) PROVE TableInvV3'
    OBVIOUS
  <1> USE DEF TableInvV3, V3!TypeOK, V3!Labels, V3!RoutineLabels
  <1>1. ASSUME NEW p \in V3!Philos, V3!CheckStop(p), UNCHANGED << taken, limiter >>
        PROVE  TableInvV3'
    <2>1. PICK l2 \in {"take", "done"} : V3!Move(p, "top", l2) /\ (l2 = "done" => stop)
      BY <1>1 DEF V3!CheckStop
    <2> QED
      BY <1>1, <2>1, AsideV3 DEF V3!CheckStop
  <1>2. ASSUME NEW p \in V3!Philos, V3!Recheck(p), UNCHANGED << taken, limiter >>
        PROVE  TableInvV3'
    <2>1. CASE stop
      <3>1. V3!Move(p, "recheck", "quitting") /\ UNCHANGED << stop, taken, limiter >>
        BY <1>2, <2>1 DEF V3!Recheck
      <3> QED
        BY <2>1, <3>1, AsideV3
    <2>2. CASE ~stop
      <3>1. V3!Move(p, "recheck", "eating") /\ UNCHANGED << stop, taken, limiter >>
        BY <1>2, <2>2 DEF V3!Recheck
      <3>2. /\ pc[p] = "recheck" /\ pc' \in [V3!Philos -> V3!Labels]
            /\ pc'[p] = "eating" /\ \A q \in V3!Philos : q # p => pc'[q] = pc[q]
        BY <3>1, OneMovesV3
      <3>3. \A q \in V3!Philos : V3!Holds(q)' <=> V3!Holds(q)
        BY <3>2 DEF V3!Holds
      <3>4. V3!ForksAreHeldOnce'
        BY <3>1, <3>3 DEF V3!ForksAreHeldOnce
      <3>5. NeighboursDoNotEatV3'
        \* Who sits down does so before the stop, and holds both forks alone.
        BY <2>2, <3>2, <3>3 DEF V3!ForksAreHeldOnce, NeighboursDoNotEatV3, V3!Holds,
                                V3!At, V3!Neighbours
      <3>6. V3!TypeOK' /\ QuitOnlyAfterStopV3'
        BY <3>1, <3>2 DEF QuitOnlyAfterStopV3
      <3> QED
        BY <3>4, <3>5, <3>6
    <2> QED
      BY <2>1, <2>2
  <1>3. ASSUME NEW p \in V3!Philos, V3!FinishMeal(p), UNCHANGED << taken, limiter >>
        PROVE  TableInvV3'
    BY <1>3, AsideV3 DEF V3!FinishMeal
  <1>4. ASSUME NEW p \in V3!Philos, V3!ReadFlag(p)
        PROVE  TableInvV3'
    <2>1. PICK l2 \in {"recheck", "trywait"} :
             V3!Move(p, "take", l2) /\ (l2 = "recheck" => stop)
      BY <1>4 DEF V3!ReadFlag
    <2> QED
      BY <1>4, <2>1, AsideV3 DEF V3!ReadFlag
  <1>5. ASSUME NEW p \in V3!Philos,
               \/ V3!EnterLimiter(p) \/ V3!LimiterIsFull(p) \/ V3!TimeOut(p) \/ V3!GiveSlotBack(p)
               \/ V3!CoolOff(p)
        PROVE  TableInvV3'
    <2>1. CASE V3!EnterLimiter(p)
      BY <2>1, AsideV3 DEF V3!EnterLimiter
    <2>2. CASE V3!LimiterIsFull(p)
      BY <2>2, AsideV3 DEF V3!LimiterIsFull
    <2>3. CASE V3!TimeOut(p)
      BY <2>3, AsideV3 DEF V3!TimeOut
    <2>4. CASE V3!GiveSlotBack(p)
      BY <2>4, AsideV3 DEF V3!GiveSlotBack
    <2>5. CASE V3!CoolOff(p)
      BY <2>5, AsideV3 DEF V3!CoolOff
    <2> QED
      BY <1>5, <2>1, <2>2, <2>3, <2>4, <2>5
  <1>6. ASSUME NEW p \in V3!Philos, V3!PostSlot(p)
        PROVE  TableInvV3'
    <2>1. CASE V3!Move(p, "postAfterMeal", "top")
      BY <1>6, <2>1, AsideV3 DEF V3!PostSlot
    <2>2. CASE V3!Move(p, "postAfterStop", "done")
      <3>1. stop
        BY <2>2 DEF V3!Move, V3!At, QuitOnlyAfterStopV3
      <3> QED
        BY <1>6, <2>2, <3>1, AsideV3 DEF V3!PostSlot
    <2> QED
      BY <1>6, <2>1, <2>2 DEF V3!PostSlot
  <1>7. ASSUME NEW p \in V3!Philos, V3!TakeBoth(p)
        PROVE  TableInvV3'
    <2>1. /\ pc[p] = "polling" /\ pc' \in [V3!Philos -> V3!Labels]
          /\ pc'[p] = "recheck" /\ \A q \in V3!Philos : q # p => pc'[q] = pc[q]
      BY <1>7, OneMovesV3 DEF V3!TakeBoth
    <2>2. ASSUME ~stop, NEW q \in V3!Philos, V3!Holds(q)
          PROVE  V3!ForksOf(p) \cap V3!ForksOf(q) = {}
      BY <1>7, <2>2, ForksOnTableV3 DEF V3!TakeBoth, V3!CanTake, V3!ForksAreHeldOnce
    <2>3. \A q \in V3!Philos : V3!Holds(q)' <=> V3!Holds(q) \/ q = p
      BY <2>1 DEF V3!Holds
    <2>4. V3!ForksAreHeldOnce'
      BY <1>7, <2>2, <2>3 DEF V3!TakeBoth, V3!ForksAreHeldOnce, V3!Neighbours
    <2>5. NeighboursDoNotEatV3' /\ QuitOnlyAfterStopV3'
      BY <1>7, <2>1 DEF V3!TakeBoth, NeighboursDoNotEatV3, QuitOnlyAfterStopV3, V3!At
    <2>6. V3!TypeOK'
      BY <1>7, <2>1, ForksOnTableV3 DEF V3!TakeBoth
    <2> QED
      BY <2>4, <2>5, <2>6
  <1>8. ASSUME NEW p \in V3!Philos, V3!PutBoth(p)
        PROVE  TableInvV3'
    <2>1. PICK l \in {"putting", "quitting"}, l2 \in {"postAfterMeal", "postAfterStop"} :
             V3!Move(p, l, l2) /\ (l = "quitting" <=> l2 = "postAfterStop")
      BY <1>8 DEF V3!PutBoth
    <2>2. /\ pc[p] = l /\ pc' \in [V3!Philos -> V3!Labels]
          /\ pc'[p] = l2 /\ \A q \in V3!Philos : q # p => pc'[q] = pc[q]
      BY <2>1, OneMovesV3
    <2>3. ~stop => V3!Holds(p)
      BY <2>1, <2>2 DEF QuitOnlyAfterStopV3, V3!Holds
    <2>4. ASSUME ~stop, NEW q \in V3!Philos, V3!Holds(q), q # p
          PROVE  V3!ForksOf(p) \cap V3!ForksOf(q) = {}
      BY <2>3, <2>4 DEF V3!ForksAreHeldOnce, V3!Neighbours
    <2>5. \A q \in V3!Philos : V3!Holds(q)' <=> V3!Holds(q) /\ q # p
      BY <2>1, <2>2 DEF V3!Holds
    <2>6. V3!ForksAreHeldOnce'
      BY <1>8, <2>3, <2>4, <2>5 DEF V3!PutBoth, V3!ForksAreHeldOnce
    <2>7. NeighboursDoNotEatV3' /\ QuitOnlyAfterStopV3'
      BY <1>8, <2>1, <2>2 DEF V3!PutBoth, NeighboursDoNotEatV3, QuitOnlyAfterStopV3, V3!At
    <2>8. V3!TypeOK'
      BY <1>8, <2>2 DEF V3!PutBoth
    <2> QED
      BY <2>6, <2>7, <2>8
  <1>9. CASE V3!StopSimulation /\ UNCHANGED << taken, limiter >>
    BY <1>9 DEF V3!StopSimulation, V3!ForksAreHeldOnce, NeighboursDoNotEatV3,
                QuitOnlyAfterStopV3, V3!At
  <1>10. CASE UNCHANGED V3!vars
    BY <1>10 DEF V3!vars, V3!ForksAreHeldOnce, NeighboursDoNotEatV3, QuitOnlyAfterStopV3,
                 V3!Holds, V3!At
  <1> QED
    BY <1>1, <1>2, <1>3, <1>4, <1>5, <1>6, <1>7, <1>8, <1>9, <1>10
       DEF V3!Next, V3!Step, V3!RoutineStep

-----------------------------------------------------------------------------
(* The limiter. *)

\* An instance has a Cardinality of its own, which is this one.
LEMMA SameCardinality == \A S : V3!Cardinality(S) = Cardinality(S)
  BY DEF V3!Cardinality, Cardinality

InsideV3 == {p \in V3!Philos : V3!Admitted(p)}

LEMMA InsideIsFiniteV3 ==
  ASSUME NEW S, S \subseteq V3!Philos
  PROVE  IsFiniteSet(S) /\ Cardinality(S) \in Nat
  <1>1. IsFiniteSet(V3!Philos)
    BY NumPhilos, FS_Interval DEF V3!Philos
  <1> QED
    BY <1>1, FS_Subset, FS_CardinalityType

\* Who comes in takes a place, who goes out gives one back, and before the stop
\* nobody does either otherwise.
LEMMA LimiterInitV3 == V3!Init => V3!LimiterCountsTheAdmitted
  <1> SUFFICES ASSUME V3!Init PROVE V3!LimiterCountsTheAdmitted
    OBVIOUS
  <1>1. {p \in V3!Philos : V3!Admitted(p)} = {}
    BY DEF V3!Init, V3!RoutineInit, V3!Admitted
  <1> QED
    BY <1>1, FS_EmptySet, NumPhilos, SameCardinality DEF V3!Init,
                                                         V3!LimiterCountsTheAdmitted

LEMMA LimiterStepV3 ==
  TableInvV3 /\ V3!LimiterCountsTheAdmitted /\ [V3!Next]_(V3!vars)
    => V3!LimiterCountsTheAdmitted'
  <1> SUFFICES ASSUME TableInvV3, V3!LimiterCountsTheAdmitted, [V3!Next]_(V3!vars), ~stop'
               PROVE  limiter' + Cardinality(InsideV3') = N - 1
    BY SameCardinality DEF V3!LimiterCountsTheAdmitted, InsideV3
  <1> USE DEF TableInvV3, V3!Labels, V3!RoutineLabels
  <1>1. ~stop
    BY DEF V3!Next, V3!Step, V3!RoutineStep, V3!CheckStop, V3!Recheck, V3!FinishMeal,
           V3!ReadFlag, V3!EnterLimiter,
           V3!LimiterIsFull, V3!TakeBoth, V3!TimeOut, V3!GiveSlotBack, V3!CoolOff,
           V3!PutBoth, V3!PostSlot,
           V3!StopSimulation, V3!vars
  <1>2. /\ limiter + Cardinality(InsideV3) = N - 1 /\ limiter \in Nat
        /\ IsFiniteSet(InsideV3) /\ Cardinality(InsideV3) \in Nat
    BY <1>1, InsideIsFiniteV3, SameCardinality DEF V3!LimiterCountsTheAdmitted, InsideV3,
                                                   V3!TypeOK
  <1>3. ASSUME InsideV3' = InsideV3, UNCHANGED limiter
        PROVE  limiter' + Cardinality(InsideV3') = N - 1
    BY <1>2, <1>3
  <1>4. ASSUME NEW p \in V3!Philos, V3!EnterLimiter(p)
        PROVE  limiter' + Cardinality(InsideV3') = N - 1
    <2>1. /\ pc[p] = "trywait" /\ pc'[p] = "polling"
          /\ \A q \in V3!Philos : q # p => pc'[q] = pc[q]
      BY <1>4, OneMovesV3 DEF V3!EnterLimiter
    <2>2. p \notin InsideV3 /\ InsideV3' = InsideV3 \cup {p}
      BY <2>1 DEF InsideV3, V3!Admitted
    <2>3. Cardinality(InsideV3') = Cardinality(InsideV3) + 1
      BY <1>2, <2>2, FS_AddElement
    <2> QED
      BY <1>2, <1>4, <2>3, NumPhilos DEF V3!EnterLimiter
  <1>5. ASSUME NEW p \in V3!Philos, V3!GiveSlotBack(p) \/ V3!PostSlot(p)
        PROVE  limiter' + Cardinality(InsideV3') = N - 1
    <2>1. /\ pc[p] \in {"givingUp", "postAfterMeal"} /\ pc'[p] \in {"coolingOff", "top"}
          /\ \A q \in V3!Philos : q # p => pc'[q] = pc[q]
      <3>1. CASE V3!GiveSlotBack(p)
        BY <3>1, OneMovesV3 DEF V3!GiveSlotBack
      <3>2. CASE V3!PostSlot(p)
        <4>1. pc[p] # "postAfterStop"
          BY <1>1 DEF QuitOnlyAfterStopV3
        <4>2. V3!Move(p, "postAfterMeal", "top")
          BY <3>2, <4>1 DEF V3!PostSlot, V3!Move, V3!At
        <4> QED
          BY <4>2, OneMovesV3
      <3> QED
        BY <1>5, <3>1, <3>2
    <2>2. p \in InsideV3 /\ InsideV3' = InsideV3 \ {p}
      BY <2>1 DEF InsideV3, V3!Admitted
    <2>3. Cardinality(InsideV3') = Cardinality(InsideV3) - 1
      BY <1>2, <2>2, FS_RemoveElement
    <2> QED
      BY <1>2, <1>5, <2>3, NumPhilos DEF V3!GiveSlotBack, V3!PostSlot
  <1>6. ASSUME NEW p \in V3!Philos, NEW l \in V3!Labels, NEW l2 \in V3!Labels, V3!Move(p, l, l2),
               \/ {l, l2} \subseteq {"polling", "givingUp", "recheck", "eating", "putting",
                                     "postAfterMeal"}
               \/ {l, l2} \cap {"polling", "givingUp", "recheck", "eating", "putting",
                                "postAfterMeal"} = {}
        PROVE  InsideV3' = InsideV3
    <2>1. pc[p] = l /\ pc'[p] = l2 /\ \A q \in V3!Philos : q # p => pc'[q] = pc[q]
      BY <1>6, OneMovesV3
    <2>2. \A q \in V3!Philos : V3!Admitted(q)' <=> V3!Admitted(q)
      BY <1>6, <2>1 DEF V3!Admitted
    <2> QED
      BY <2>2 DEF InsideV3
  <1>7. ASSUME NEW p \in V3!Philos, V3!RoutineStep(p), UNCHANGED << taken, limiter >>
        PROVE  InsideV3' = InsideV3
    BY <1>1, <1>6, <1>7 DEF V3!RoutineStep, V3!CheckStop, V3!Recheck, V3!FinishMeal
  <1>8. ASSUME NEW p \in V3!Philos,
               \/ V3!ReadFlag(p) \/ V3!LimiterIsFull(p) \/ V3!TakeBoth(p) \/ V3!TimeOut(p) \/ V3!CoolOff(p)
        PROVE  InsideV3' = InsideV3 /\ UNCHANGED limiter
    BY <1>1, <1>6, <1>8 DEF V3!ReadFlag, V3!LimiterIsFull, V3!TakeBoth, V3!TimeOut,
                            V3!CoolOff
  <1>9. ASSUME NEW p \in V3!Philos, V3!PutBoth(p)
        PROVE  InsideV3' = InsideV3 /\ UNCHANGED limiter
    <2>1. pc[p] # "quitting"
      BY <1>1, <1>9 DEF QuitOnlyAfterStopV3
    <2>2. V3!Move(p, "putting", "postAfterMeal") /\ UNCHANGED limiter
      BY <1>9, <2>1 DEF V3!PutBoth, V3!Move, V3!At
    <2> QED
      BY <1>6, <2>2
  <1>10. CASE UNCHANGED V3!vars
    BY <1>3, <1>10 DEF V3!vars, InsideV3, V3!Admitted
  <1> QED
    BY <1>1, <1>3, <1>4, <1>5, <1>7, <1>8, <1>9, <1>10 DEF V3!Next, V3!Step,
                                                           V3!StopSimulation

(***************************************************************************)
(* No place of the limiter is lost or made up while the simulation runs,   *)
(* however often philosophers time out, back off and come back             *)
(* (sem_trywait and sem_post of strategy_v3.c), for any number of them.    *)
(***************************************************************************)
THEOREM LimiterIsExact == V3!Spec => []V3!LimiterCountsTheAdmitted
  BY TableInvInitV3, TableInvStepV3, LimiterInitV3, LimiterStepV3, PTL DEF V3!Spec

-----------------------------------------------------------------------------
LEMMA LimiterDiningInit == V3!Init => V3!Table!Init
  BY DEF V3!Init, V3!RoutineInit, V3!Table!Init, V3!Eating, V3!At

LEMMA LimiterDiningStep ==
  TableInvV3 /\ TableInvV3' /\ [V3!Next]_(V3!vars) => [V3!Table!Next]_(V3!Eating)
  <1> SUFFICES ASSUME TableInvV3, TableInvV3', [V3!Next]_(V3!vars)
               PROVE  [V3!Table!Next]_(V3!Eating)
    OBVIOUS
  <1> USE DEF TableInvV3, V3!TypeOK
  <1>1. ASSUME NEW p \in V3!Philos, V3!Recheck(p), ~stop
        PROVE  V3!Table!Start(p)
    <2>1. p \notin V3!Eating /\ V3!Eating' = V3!Eating \cup {p}
      BY <1>1 DEF V3!Recheck, V3!Move, V3!At, V3!Goto, V3!Eating
    <2>2. \A q \in V3!Eating : ~V3!Neighbours(p, q)
      BY <1>1, <2>1 DEF NeighboursDoNotEatV3, V3!Eating
    <2>3. \A q \in V3!Philos : V3!Table!Neighbours(p, q) <=> V3!Neighbours(p, q)
      BY DEF V3!Table!Neighbours, V3!Neighbours, V3!Table!ForksOf, V3!ForksOf,
             V3!Table!Left, V3!Left,
             V3!Table!Right, V3!Right
    <2> QED
      BY <2>1, <2>2, <2>3 DEF V3!Table!Start, V3!Eating
  <1>2. ASSUME NEW p \in V3!Philos, V3!FinishMeal(p)
        PROVE  V3!Table!Finish(p)
    BY <1>2 DEF V3!FinishMeal, V3!Move, V3!At, V3!Goto, V3!Eating, V3!Table!Finish
  <1>3. ASSUME NEW p \in V3!Philos,
               \/ V3!CheckStop(p) \/ (V3!Recheck(p) /\ stop) \/ V3!ReadFlag(p) \/ V3!EnterLimiter(p)
               \/ V3!LimiterIsFull(p) \/ V3!TakeBoth(p) \/ V3!TimeOut(p) \/ V3!GiveSlotBack(p)
               \/ V3!CoolOff(p) \/ V3!PutBoth(p) \/ V3!PostSlot(p)
        PROVE  V3!Eating' = V3!Eating
    BY <1>3 DEF V3!CheckStop, V3!Recheck, V3!ReadFlag, V3!EnterLimiter, V3!LimiterIsFull,
                V3!TakeBoth, V3!TimeOut,
                V3!GiveSlotBack, V3!CoolOff, V3!PutBoth, V3!PostSlot, V3!Move, V3!At,
                V3!Goto, V3!Eating
  <1>4. CASE V3!StopSimulation \/ UNCHANGED V3!vars
    BY <1>4 DEF V3!StopSimulation, V3!vars, V3!Eating, V3!At
  <1> QED
    BY <1>1, <1>2, <1>3, <1>4 DEF V3!Next, V3!Step, V3!RoutineStep, V3!Table!Next,
                                  V3!Table!Philos, V3!Philos

(***************************************************************************)
(* Strategy v3 implements the table, before the stop and after it, when    *)
(* threads clear forks that their neighbours eat with.                     *)
(***************************************************************************)
THEOREM LimiterImplements == V3!Spec => V3!ImplementsDining
  BY LimiterDiningInit, LimiterDiningStep, TableInvInitV3, TableInvStepV3, PTL
     DEF V3!Spec, V3!ImplementsDining, V3!Table!Spec

-----------------------------------------------------------------------------
(***************************************************************************)
(* A sleeper of v2 has somebody to wake it.  Who goes to sleep has seen a  *)
(* fork taken, and while the simulation runs that fork has a holder, who   *)
(* has still to call put_forks; it calls it, or quits and calls it, and    *)
(* that wakes everybody.                                                   *)
(***************************************************************************)
LEMMA WakerInit == Init => SleepersHaveAWaker
  BY DEF Init, SleepersHaveAWaker

LEMMA WakerStep ==
  ASSUME TypeOK, ForksInv, SleepersHaveAWaker, [Next]_vars
  PROVE  SleepersHaveAWaker'
  <1> DEFINE Before == {"recheck", "eating", "putting", "quitting"}
  <1> USE DEF SleepersHaveAWaker, TypeOK
  <1>1. ASSUME UNCHANGED asleep, NEW p \in Philos, NEW l, NEW l2, Move(p, l, l2),
               l \in Before => l2 \in Before
        PROVE  SleepersHaveAWaker'
    BY <1>1 DEF Move, At, Goto
  <1>2. ASSUME NEW p \in Philos, RoutineStep(p), UNCHANGED << taken, asleep >>
        PROVE  SleepersHaveAWaker'
    BY <1>1, <1>2 DEF RoutineStep, CheckStop, Recheck, FinishMeal
  <1>3. ASSUME NEW p \in Philos, TakeBoth(p) \/ TakeNothing(p)
        PROVE  SleepersHaveAWaker'
    BY <1>1, <1>3 DEF TakeBoth, TakeNothing
  <1>4. ASSUME NEW p \in Philos, WaitForForks(p)
        PROVE  SleepersHaveAWaker'
    <2>1. PICK f \in Forks : f \in ForksOf(p) /\ f \in taken
      BY <1>4, ForksOnTable DEF WaitForForks, CanTake
    <2>2. PICK q \in Philos : Holds(q)
      BY <1>4, <2>1 DEF WaitForForks, ForksInv, ForksAreHeldOnce
    <2> QED
      BY <1>4, <2>2 DEF WaitForForks, Holds
  <1>5. ASSUME NEW p \in Philos, SpuriousWakeup(p)
        PROVE  SleepersHaveAWaker'
    BY <1>5 DEF SpuriousWakeup
  <1>6. ASSUME NEW p \in Philos, PutBoth(p)
        PROVE  SleepersHaveAWaker'
    BY <1>6 DEF PutBoth
  <1>7. CASE (StopSimulation /\ UNCHANGED << taken, asleep >>) \/ UNCHANGED vars
    BY <1>7 DEF StopSimulation, vars
  <1> QED
    BY <1>2, <1>3, <1>4, <1>5, <1>6, <1>7 DEF Next, Step

(***************************************************************************)
(* Whoever sleeps on fork_monitor.cond sleeps while somebody has still to  *)
(* broadcast on it, for any number of philosophers, although raising the   *)
(* flag broadcasts nothing (strategy_v2.c:18, routines.c:134).             *)
(***************************************************************************)
THEOREM SleepersAreWoken == Spec => []SleepersHaveAWaker
  BY ForksInvHolds, WakerInit, WakerStep, PTL DEF Spec

-----------------------------------------------------------------------------
(* The bonus: its forks, and its printer. *)

BonusLabels == {"top", "first", "second", "forks", "eat", "eating", "post", "sleep"}

\* Of a line only what it says matters here.
PrinterKept == line[2] = "died" => printer = 0

BonusInv == /\ at \in [Bonus!Philos -> BonusLabels]
            /\ forks \in Nat
            /\ IsFiniteSet(Bonus!HeldForks)
            /\ Bonus!ForksAddUp
            /\ PrinterKept

LEMMA SameCardinalityOfForks == \A S : Bonus!Cardinality(S) = Cardinality(S)
  BY DEF Bonus!Cardinality, Cardinality

LEMMA ForksOfOne ==
  ASSUME NEW x
  PROVE  x \in Bonus!HeldForks
         <=> \E p \in Bonus!Philos : \E k \in 1 .. Bonus!ForksInHand(p) : x = << p, k >>
  BY DEF Bonus!HeldForks

LEMMA BonusInit == Bonus!Init => BonusInv
  <1> SUFFICES ASSUME Bonus!Init PROVE BonusInv
    OBVIOUS
  <1> USE DEF Bonus!Init
  <1>1. \A p \in Bonus!Philos : Bonus!ForksInHand(p) = 0
    BY DEF Bonus!ForksInHand
  <1>2. Bonus!HeldForks = {}
    BY <1>1, ForksOfOne
  <1>3. Cardinality({}) = 0 /\ IsFiniteSet({})
    BY FS_EmptySet
  <1>4. Bonus!ForksAddUp
    BY <1>2, <1>3, NumProcesses, SameCardinalityOfForks DEF Bonus!ForksAddUp
  <1> QED
    BY <1>2, <1>3, <1>4, NumProcesses DEF BonusInv, BonusLabels, PrinterKept

\* A fork goes from the table into p's hand ...
LEMMA ForkIsTaken ==
  ASSUME BonusInv, NEW p \in Bonus!Philos, NEW k \in {0, 1},
         Bonus!ForksInHand(p) = k, Bonus!ForksInHand(p)' = k + 1,
         \A q \in Bonus!Philos : q # p => Bonus!ForksInHand(q)' = Bonus!ForksInHand(q),
         forks > 0, forks' = forks - 1
  PROVE  IsFiniteSet(Bonus!HeldForks') /\ Bonus!ForksAddUp' /\ forks' \in Nat
  <1> DEFINE fork == << p, k + 1 >>
  <1>1. fork \notin Bonus!HeldForks
    BY ForksOfOne
  <1>2. \A x : x \in Bonus!HeldForks'
               <=> \E q \in Bonus!Philos : \E i \in 1 .. Bonus!ForksInHand(q)' : x = << q, i >>
    BY DEF Bonus!HeldForks
  <1>3. \A i : i \in 1 .. k + 1 <=> i \in 1 .. k \/ i = k + 1
    OBVIOUS
  <1>4. ASSUME NEW x
        PROVE  x \in Bonus!HeldForks' <=> x \in Bonus!HeldForks \/ x = fork
    BY <1>2, <1>3, ForksOfOne
  <1>5. Bonus!HeldForks' = Bonus!HeldForks \cup {fork}
    BY <1>4
  <1>6. /\ IsFiniteSet(Bonus!HeldForks')
        /\ Cardinality(Bonus!HeldForks') = Cardinality(Bonus!HeldForks) + 1
        /\ Cardinality(Bonus!HeldForks) \in Nat
    BY <1>1, <1>5, FS_AddElement, FS_CardinalityType DEF BonusInv
  <1> QED
    BY <1>6, SameCardinalityOfForks DEF BonusInv, Bonus!ForksAddUp

\* ... and back.
LEMMA ForkIsPut ==
  ASSUME BonusInv, NEW p \in Bonus!Philos, NEW k \in {1, 2},
         Bonus!ForksInHand(p) = k, Bonus!ForksInHand(p)' = k - 1,
         \A q \in Bonus!Philos : q # p => Bonus!ForksInHand(q)' = Bonus!ForksInHand(q),
         forks' = forks + 1
  PROVE  IsFiniteSet(Bonus!HeldForks') /\ Bonus!ForksAddUp' /\ forks' \in Nat
  <1> DEFINE fork == << p, k >>
  <1>1. fork \in Bonus!HeldForks
    BY ForksOfOne
  <1>2. \A x : x \in Bonus!HeldForks'
               <=> \E q \in Bonus!Philos : \E i \in 1 .. Bonus!ForksInHand(q)' : x = << q, i >>
    BY DEF Bonus!HeldForks
  <1>3. \A i : i \in 1 .. k - 1 <=> i \in 1 .. k /\ i # k
    OBVIOUS
  <1>4. ASSUME NEW x
        PROVE  x \in Bonus!HeldForks' <=> x \in Bonus!HeldForks /\ x # fork
    BY <1>2, <1>3, ForksOfOne
  <1>5. Bonus!HeldForks' = Bonus!HeldForks \ {fork}
    BY <1>4
  <1>6. /\ IsFiniteSet(Bonus!HeldForks')
        /\ Cardinality(Bonus!HeldForks') = Cardinality(Bonus!HeldForks) - 1
        /\ Cardinality(Bonus!HeldForks) \in Nat
    BY <1>1, <1>5, FS_RemoveElement, FS_CardinalityType DEF BonusInv
  <1> QED
    BY <1>6, SameCardinalityOfForks DEF BonusInv, Bonus!ForksAddUp

\* What leaves the hands alone.
LEMMA HandsUntouched ==
  ASSUME BonusInv, UNCHANGED forks, at' \in [Bonus!Philos -> BonusLabels],
         \A q \in Bonus!Philos : Bonus!ForksInHand(q)' = Bonus!ForksInHand(q),
         PrinterKept'
  PROVE  BonusInv'
  <1>1. Bonus!HeldForks' = Bonus!HeldForks
    BY DEF Bonus!HeldForks
  <1> QED
    BY <1>1, SameCardinalityOfForks DEF BonusInv, Bonus!ForksAddUp

LEMMA BonusStep == BonusInv /\ Bonus!Next => BonusInv'
  <1> SUFFICES ASSUME BonusInv, Bonus!Next PROVE BonusInv'
    OBVIOUS
  <1>1. ASSUME NEW p \in Bonus!Philos, NEW l \in BonusLabels, NEW l2 \in BonusLabels,
               Bonus!Move(p, l, l2)
        PROVE  /\ at[p] = l /\ at' \in [Bonus!Philos -> BonusLabels]
               /\ at'[p] = l2 /\ \A q \in Bonus!Philos : q # p => at'[q] = at[q]
    BY <1>1 DEF BonusInv, Bonus!Move
  <1>2. CASE Bonus!Tick \/ Bonus!KillNext
    <2>1. UNCHANGED << at, forks, printer, line >>
      BY <1>2 DEF Bonus!Tick, Bonus!KillNext, Bonus!childs
    <2> QED
      BY <2>1, HandsUntouched DEF BonusInv, Bonus!ForksInHand, PrinterKept
  <1>3. ASSUME NEW p \in Bonus!Philos, Bonus!Die(p) \/ Bonus!Leave(p)
        PROVE  BonusInv'
    <2>1. UNCHANGED << at, forks >> /\ PrinterKept'
      BY <1>3 DEF Bonus!Die, Bonus!Leave, BonusInv, PrinterKept
    <2> QED
      BY <2>1, HandsUntouched DEF BonusInv, Bonus!ForksInHand
  <1>4. ASSUME NEW p \in Bonus!Philos, Bonus!SayLine(p) \/ Bonus!BeginMeal(p)
        PROVE  BonusInv'
    <2>1. PICK l, l2 \in BonusLabels :
             /\ Bonus!Move(p, l, l2)
             /\ << l, l2 >> \in {<< "top", "first" >>, << "forks", "eat" >>, << "sleep", "top" >>,
                                 << "eat", "eating" >>}
      BY <1>4 DEF Bonus!SayLine, Bonus!BeginMeal, BonusLabels
    <2>2. \A q \in Bonus!Philos : Bonus!ForksInHand(q)' = Bonus!ForksInHand(q)
      BY <1>1, <2>1 DEF Bonus!ForksInHand
    <2>3. PrinterKept' /\ UNCHANGED forks
      BY <1>4 DEF Bonus!SayLine, Bonus!BeginMeal, Bonus!Say, PrinterKept
    <2> QED
      BY <1>1, <2>1, <2>2, <2>3, HandsUntouched
  <1>5. ASSUME NEW p \in Bonus!Philos, Bonus!TakeFork(p)
        PROVE  BonusInv'
    <2>1. PICK l, l2 \in BonusLabels :
             /\ Bonus!Move(p, l, l2)
             /\ << l, l2 >> \in {<< "first", "second" >>, << "second", "forks" >>}
      BY <1>5 DEF Bonus!TakeFork, BonusLabels
    <2>2. /\ at[p] = l /\ at' \in [Bonus!Philos -> BonusLabels]
          /\ at'[p] = l2 /\ \A q \in Bonus!Philos : q # p => at'[q] = at[q]
      BY <1>1, <2>1
    <2>3. PICK k \in {0, 1} : Bonus!ForksInHand(p) = k /\ Bonus!ForksInHand(p)' = k + 1
      BY <2>1, <2>2 DEF Bonus!ForksInHand
    <2>4. \A q \in Bonus!Philos : q # p => Bonus!ForksInHand(q)' = Bonus!ForksInHand(q)
      BY <2>2 DEF Bonus!ForksInHand
    <2>5. forks > 0 /\ forks' = forks - 1 /\ UNCHANGED << printer, line >>
      BY <1>5 DEF Bonus!TakeFork
    <2>6. IsFiniteSet(Bonus!HeldForks') /\ Bonus!ForksAddUp' /\ forks' \in Nat
      BY <2>3, <2>4, <2>5, ForkIsTaken
    <2> QED
      BY <2>2, <2>5, <2>6 DEF BonusInv, PrinterKept
  <1>6. ASSUME NEW p \in Bonus!Philos, Bonus!PostFork(p)
        PROVE  BonusInv'
    <2>1. PICK l, l2 \in BonusLabels :
             /\ Bonus!Move(p, l, l2)
             /\ << l, l2 >> \in {<< "eating", "post" >>, << "post", "sleep" >>}
      BY <1>6 DEF Bonus!PostFork, BonusLabels
    <2>2. /\ at[p] = l /\ at' \in [Bonus!Philos -> BonusLabels]
          /\ at'[p] = l2 /\ \A q \in Bonus!Philos : q # p => at'[q] = at[q]
      BY <1>1, <2>1
    <2>3. PICK k \in {1, 2} : Bonus!ForksInHand(p) = k /\ Bonus!ForksInHand(p)' = k - 1
      BY <2>1, <2>2 DEF Bonus!ForksInHand
    <2>4. \A q \in Bonus!Philos : q # p => Bonus!ForksInHand(q)' = Bonus!ForksInHand(q)
      BY <2>2 DEF Bonus!ForksInHand
    <2>5. forks' = forks + 1 /\ UNCHANGED << printer, line >>
      BY <1>6 DEF Bonus!PostFork
    <2>6. IsFiniteSet(Bonus!HeldForks') /\ Bonus!ForksAddUp' /\ forks' \in Nat
      BY <2>3, <2>4, <2>5, ForkIsPut
    <2> QED
      BY <2>2, <2>5, <2>6 DEF BonusInv, PrinterKept
  <1> QED
    BY <1>2, <1>3, <1>4, <1>5, <1>6 DEF Bonus!Next, Bonus!Philosopher

LEMMA BonusStays == BonusInv /\ UNCHANGED ofBonus => BonusInv'
  <1> SUFFICES ASSUME BonusInv, UNCHANGED ofBonus PROVE BonusInv'
    OBVIOUS
  <1>1. UNCHANGED << at, forks, line, printer >>
    BY DEF ofBonus
  <1> QED
    BY <1>1, HandsUntouched DEF BonusInv, Bonus!ForksInHand, PrinterKept

\* While the dead process has the printer nobody else writes.
LEMMA DeadKeepsThePrinter ==
  ASSUME BonusInv, Bonus!Next, line[2] = "died"
  PROVE  line' = line
  <1>1. printer = 0
    BY DEF BonusInv, PrinterKept
  <1> QED
    BY <1>1 DEF Bonus!Next, Bonus!Tick, Bonus!KillNext, Bonus!Philosopher, Bonus!Leave,
                Bonus!SayLine, Bonus!TakeFork, Bonus!BeginMeal, Bonus!PostFork, Bonus!Die,
                Bonus!Say, Bonus!childs

-----------------------------------------------------------------------------
(***************************************************************************)
(* What runs is one of the three.  The other two stay where they start, so *)
(* that the invariant is that of the program that runs.                    *)
(***************************************************************************)
MonitorInv == program = "v2" => TypeOK /\ ForksInv /\ SleepersHaveAWaker
LimiterInv == program = "v3" => TableInvV3 /\ V3!LimiterCountsTheAdmitted /\ asleep = {}
TableIsLaid == program = "bonus" => Init

MCInv == /\ program \in {"v2", "v3", "bonus"}
         /\ MonitorInv /\ LimiterInv /\ TableIsLaid /\ BonusInv

LEMMA MCInvInit == MCInit => MCInv
  BY TypeInit, ForksInvInit, WakerInit, TableInvInitV3, LimiterInitV3, BonusInit
     DEF MCInit, MCInv, MonitorInv, LimiterInv, TableIsLaid, Init

LEMMA MCInvStep == MCInv /\ [MCNext]_all => MCInv'
  <1> SUFFICES ASSUME MCInv, [MCNext]_all PROVE MCInv'
    OBVIOUS
  <1>1. CASE OnlyV2 /\ Next
    <2>1. TypeOK' /\ ForksInv' /\ SleepersHaveAWaker'
      BY <1>1, TypeStep, ForksInvStep, WakerStep DEF MCInv, MonitorInv, OnlyV2
    <2>2. BonusInv'
      BY <1>1, BonusStays DEF MCInv, OnlyV2
    <2> QED
      BY <1>1, <2>1, <2>2 DEF MCInv, MonitorInv, LimiterInv, TableIsLaid, OnlyV2
  <1>2. CASE OnlyV3 /\ V3!Next
    <2>1. TableInvV3 /\ V3!LimiterCountsTheAdmitted /\ asleep = {} /\ asleep' = {}
      BY <1>2 DEF MCInv, LimiterInv, OnlyV3
    <2>2. TableInvV3'
      BY <1>2, <2>1, TableInvStepV3
    <2>3. V3!LimiterCountsTheAdmitted'
      BY <1>2, <2>1, <2>2, LimiterStepV3
    <2>4. BonusInv'
      BY <1>2, BonusStays DEF MCInv, OnlyV3
    <2> QED
      BY <1>2, <2>1, <2>2, <2>3, <2>4 DEF MCInv, MonitorInv, LimiterInv, TableIsLaid, OnlyV3
  <1>3. CASE OnlyBonus /\ Bonus!Next
    <2>1. Init'
      BY <1>3 DEF MCInv, TableIsLaid, OnlyBonus, Init, RoutineInit, vars
    <2>2. BonusInv'
      BY <1>3, BonusStep DEF MCInv
    <2> QED
      BY <1>3, <2>1, <2>2 DEF MCInv, MonitorInv, LimiterInv, TableIsLaid, OnlyBonus
  <1>4. CASE UNCHANGED all
    <2>1. UNCHANGED << program, vars, limiter, ofBonus >>
      BY <1>4 DEF all
    <2>2. BonusInv'
      BY <2>1, BonusStays DEF MCInv
    <2>3. program = "v2" => TypeOK' /\ ForksInv' /\ SleepersHaveAWaker'
      BY <2>1, TypeStep, ForksInvStep, WakerStep DEF MCInv, MonitorInv
    <2>4. program = "v3" => TableInvV3' /\ V3!LimiterCountsTheAdmitted' /\ asleep' = {}
      <3>1. UNCHANGED V3!vars /\ UNCHANGED asleep
        BY <2>1 DEF vars, V3!vars
      <3> QED
        BY <3>1, TableInvStepV3, LimiterStepV3 DEF MCInv, LimiterInv
    <2>5. program = "bonus" => Init'
      BY <2>1 DEF MCInv, TableIsLaid, Init, RoutineInit, vars
    <2> QED
      BY <2>1, <2>2, <2>3, <2>4, <2>5 DEF MCInv, MonitorInv, LimiterInv, TableIsLaid
  <1> QED
    BY <1>1, <1>2, <1>3, <1>4 DEF MCNext

LEMMA MCInvHolds == MCSpec => []MCInv
  BY MCInvInit, MCInvStep, PTL DEF MCSpec

-----------------------------------------------------------------------------
(***************************************************************************)
(* Nothing waited for is lost, for any number of philosophers and of       *)
(* processes: sleepers of v2 have somebody to wake them, the places of the *)
(* limiter are N - 1 less the philosophers inside, and the forks of the    *)
(* bonus lie on the table or are in somebody's hands.                      *)
(***************************************************************************)
THEOREM WaitersAreAccountedFor == MCSpec => []WaitingIsAccountedFor
  <1>1. MCInv => WaitingIsAccountedFor
    BY DEF MCInv, MonitorInv, LimiterInv, TableIsLaid, BonusInv, Init,
           SleepersHaveAWaker, WaitingIsAccountedFor
  <1> QED
    BY <1>1, MCInvHolds, PTL

(***************************************************************************)
(* Under the monitor and under the limiter alike is_taken names the forks  *)
(* held while the simulation runs, and a fork has one holder.              *)
(***************************************************************************)
THEOREM ForksHeldOnceByAll == MCSpec => []ForksAreHeldOnce
  <1>1. V3!ForksAreHeldOnce <=> ForksAreHeldOnce
    BY DEF V3!ForksAreHeldOnce, ForksAreHeldOnce, V3!Holds, Holds, V3!Neighbours,
           Neighbours, V3!ForksOf, ForksOf, V3!Left, Left, V3!Right, Right, V3!Forks,
           Forks, V3!Philos, Philos
  <1>2. MCInv => ForksAreHeldOnce
    BY <1>1, ForksInvInit
       DEF MCInv, MonitorInv, LimiterInv, TableIsLaid, ForksInv, TableInvV3
  <1> QED
    BY <1>2, MCInvHolds, PTL

(***************************************************************************)
(* The table is the table of Dining whichever strategy serves it.          *)
(***************************************************************************)
THEOREM AllImplement == MCSpec => ImplementsDining
  <1>1. V3!Eating = Eating /\ V3!Eating' = Eating'
    BY DEF V3!Eating, Eating, V3!At, At, V3!Philos, Philos
  <1>2. V3!Table!Next <=> Table!Next
    <2>1. \A p : V3!Table!ForksOf(p) = Table!ForksOf(p)
      BY DEF V3!Table!ForksOf, Table!ForksOf, V3!Table!Left, Table!Left, V3!Table!Right,
             Table!Right
    <2> QED
      BY <1>1, <2>1 DEF V3!Table!Next, Table!Next, V3!Table!Start, Table!Start,
         V3!Table!Finish, Table!Finish, V3!Table!Neighbours, Table!Neighbours,
         V3!Table!Philos, Table!Philos
  <1>3. MCInit => Table!Init
    BY DiningInit DEF MCInit
  <1>4. MCInv /\ MCInv' /\ [MCNext]_all => [Table!Next]_Eating
    <2> SUFFICES ASSUME MCInv, MCInv', [MCNext]_all PROVE [Table!Next]_Eating
      OBVIOUS
    <2>1. CASE OnlyV2 /\ Next
      BY <2>1, DiningStep DEF MCInv, MonitorInv, OnlyV2
    <2>2. CASE OnlyV3 /\ V3!Next
      BY <1>1, <1>2, <2>2, LimiterDiningStep DEF MCInv, LimiterInv, OnlyV3
    <2>3. CASE UNCHANGED vars
      BY <2>3 DEF vars, Eating, At
    <2> QED
      BY <2>1, <2>2, <2>3 DEF MCNext, OnlyBonus, all
  <1> QED
    BY <1>3, <1>4, MCInvHolds, PTL DEF MCSpec, ImplementsDining, Table!Spec

(***************************************************************************)
(* A process of the bonus that dies keeps the printer, so that "died" is   *)
(* the last line, for any number of processes (philo_bonus.c:52).          *)
(***************************************************************************)
THEOREM DeathComesLast == MCSpec => DeathIsTheLastLine
  <1>1. MCInv /\ [MCNext]_all => [line[2] = "died" => line' = line]_all
    BY DeadKeepsThePrinter
       DEF MCInv, MCNext, OnlyV2, OnlyV3, OnlyBonus, ofBonus, all
  <1> QED
    BY <1>1, MCInvHolds, PTL DEF MCSpec, DeathIsTheLastLine
=============================================================================
