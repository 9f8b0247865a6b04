-------------------------- MODULE SimulationProofs --------------------------
(***************************************************************************)
(* Proofs about Simulation, for every number of philosophers, every        *)
(* deadline, every number of meals and every queue.                        *)
(***************************************************************************)
EXTENDS Simulation, FiniteSetTheorems, SequenceTheorems, TLAPS

(***************************************************************************)
(* The inductive invariant.  A death is real when it is printed because it *)
(* was real when the watchdog saw it: a philosopher that has once been     *)
(* late has been late for good, and the lateness is handed on from the     *)
(* watchdog through the queue and the monitor's hand to the line.          *)
(***************************************************************************)
TheLate == {p \in Philos : longest[p] > TimeToDie \/ now - lastMeal[p] > TimeToDie}

Shapes == /\ lastMeal \in [Philos -> Nat]
          /\ longest \in [Philos -> Nat]
          /\ now \in Nat
          /\ queue \in Seq(Events)
          /\ watchdog \in [at : {"check", "scan", "report", "done"}, time : Nat, who : Nat \ {0}]
          /\ watchdog.at = "report" => watchdog.who \in Philos
          /\ monitor \in [at : {"dequeue", "handle", "verdict", "done"},
                          ev : Events \cup {NoEvent}, count : Nat]
          /\ monitor.at \in {"handle", "verdict"} => monitor.ev \in Events

IsDeath(ev) == ev.type = "DIED"

SeenLate      == watchdog.time <= now /\ (watchdog.at = "report" => watchdog.who \in TheLate)
QueuedLate    == \A i \in 1 .. Len(queue) : IsDeath(queue[i]) => queue[i].id \in TheLate
HandledLate   == monitor.at \in {"handle", "verdict"} /\ IsDeath(monitor.ev) => monitor.ev.id \in TheLate
PrintedLate   == \A p \in Philos : line = << p, "died" >> => p \in TheLate

DeathInv == Shapes /\ SeenLate /\ QueuedLate /\ HandledLate /\ PrintedLate

-----------------------------------------------------------------------------
LEMMA DeathInvInit == Init => DeathInv
  BY Parameters DEF Init, Idle, DeathInv, Shapes, SeenLate, QueuedLate, HandledLate,
                    PrintedLate, Events, NoEvent, Philos, IsDeath

\* What a thread does to the meals and the clock: nothing, a meal, or a tick.
Meal(p) == /\ lastMeal' = [lastMeal EXCEPT ![p] = now]
           /\ longest' = [longest EXCEPT ![p] = Longer(@, now - lastMeal[p])]
           /\ UNCHANGED now

LEMMA MealKeepsLate ==
  ASSUME Shapes, NEW p \in Philos, Meal(p)
  PROVE  /\ lastMeal' \in [Philos -> Nat] /\ longest' \in [Philos -> Nat] /\ now' \in Nat
         /\ TheLate \subseteq TheLate'
  <1> USE DEF Shapes, Meal
  <1>1. lastMeal[p] \in Nat /\ longest[p] \in Nat /\ now \in Nat
    OBVIOUS
  <1>2. Longer(longest[p], now - lastMeal[p]) \in Nat
    BY <1>1 DEF Longer
  <1>3. ASSUME NEW q \in Philos, q \in TheLate
        PROVE  q \in TheLate'
    <2>1. CASE q = p
      BY <1>1, <1>2, <1>3, <2>1, Parameters DEF TheLate, Longer
    <2>2. CASE q # p
      BY <1>3, <2>2 DEF TheLate
    <2> QED
      BY <2>1, <2>2
  <1>4. TheLate \subseteq Philos
    BY DEF TheLate
  <1> QED
    BY <1>1, <1>2, <1>3, <1>4

LEMMA TickKeepsLate ==
  ASSUME Shapes, now' = now + 1, UNCHANGED people
  PROVE  /\ lastMeal' \in [Philos -> Nat] /\ longest' \in [Philos -> Nat] /\ now' \in Nat
         /\ TheLate \subseteq TheLate'
  BY Parameters DEF Shapes, people, TheLate

-----------------------------------------------------------------------------
LEMMA DeathInvStep ==
  ASSUME DeathInv, [Next]_vars
  PROVE  DeathInv'
  <1> USE DEF DeathInv
  <1>1. CASE Tick
    <2>1. /\ lastMeal' \in [Philos -> Nat] /\ longest' \in [Philos -> Nat] /\ now' \in Nat
          /\ TheLate \subseteq TheLate'
      BY <1>1, TickKeepsLate DEF Tick
    <2> USE <1>1 DEF Tick
    <2>2. Shapes'
      BY <2>1 DEF Shapes
    <2>3. SeenLate' /\ HandledLate' /\ PrintedLate'
      BY <2>1 DEF SeenLate, HandledLate, PrintedLate, Shapes, Events, IsDeath
    <2>4. QueuedLate'
      BY <2>1 DEF QueuedLate, Shapes, Events, IsDeath
    <2> QED
      BY <2>2, <2>3, <2>4
  <1>2. CASE Watchdog
    <2> USE <1>2 DEF Watchdog
    <2>1. UNCHANGED << people, monitor, now, line >>
      OBVIOUS
    <2>2. TheLate' = TheLate
      BY <2>1 DEF people, TheLate
    <2>3. CASE Look
      BY <2>1, <2>2, <2>3 DEF Look, Idle, Shapes, SeenLate, QueuedLate, HandledLate,
                              PrintedLate, people, IsDeath, Events, Philos
    <2>4. CASE Scan
      <3>1. ASSUME watchdog.who <= N, LateAtRound(watchdog.who)
            PROVE  watchdog.who \in Philos /\ watchdog.who \in TheLate
        BY <3>1, Parameters DEF LateAtRound, Deadline, TheLate, Shapes, SeenLate, Philos
      <3> DEFINE w == watchdog
      <3>2. /\ w.at = "scan" /\ w.time \in Nat /\ w.who \in Nat \ {0} /\ w.time <= now
            /\ w = [at |-> "scan", time |-> w.time, who |-> w.who]
        BY <2>4 DEF Scan, Shapes, SeenLate
      <3>3. \/ watchdog' = Idle("check")
            \/ watchdog' = [at |-> "report", time |-> w.time, who |-> w.who] /\ w.who \in TheLate
            \/ watchdog' = [at |-> "scan", time |-> w.time, who |-> w.who + 1]
        BY <2>4, <3>1, <3>2, Parameters DEF Scan
      <3>4. /\ watchdog' \in [at : {"check", "scan", "report", "done"}, time : Nat, who : Nat \ {0}]
            /\ watchdog'.time <= now
            /\ watchdog'.at = "report" => watchdog'.who \in TheLate
        BY <3>2, <3>3 DEF Idle, Shapes
      <3>5. Shapes' /\ SeenLate'
        BY <2>1, <2>2, <2>4, <3>4 DEF Scan, Shapes, SeenLate, people, TheLate
      <3>6. QueuedLate' /\ HandledLate' /\ PrintedLate'
        BY <2>1, <2>2, <2>4 DEF Scan, Shapes, QueuedLate, HandledLate, PrintedLate, IsDeath, Events
      <3> QED
        BY <3>5, <3>6
    <2>5. CASE Report
      <3> DEFINE ev == [id |-> watchdog.who, type |-> "DIED"]
      <3>1. ev \in Events /\ queue' = Append(queue, ev) /\ ev.id \in TheLate
        BY <2>5 DEF Report, Channel!Send, Shapes, SeenLate, Events
      <3>2. queue' \in Seq(Events) /\ Len(queue') = Len(queue) + 1
            /\ \A i \in 1 .. Len(queue') : queue'[i] = IF i <= Len(queue) THEN queue[i] ELSE ev
        BY <3>1 DEF Shapes
      <3>3. QueuedLate'
        BY <2>2, <3>1, <3>2 DEF QueuedLate, Shapes, IsDeath, Events
      <3>4. Shapes' /\ SeenLate'
        BY <2>1, <2>5, <3>2, Parameters DEF Report, Idle, Shapes, SeenLate, people
      <3>5. HandledLate' /\ PrintedLate'
        BY <2>1, <2>2 DEF Shapes, HandledLate, PrintedLate, IsDeath, Events
      <3> QED
        BY <3>3, <3>4, <3>5
    <2> QED
      BY <2>3, <2>4, <2>5
  <1>3. CASE Monitor
    <2> USE <1>3 DEF Monitor
    <2>1. UNCHANGED << people, watchdog, now >>
      OBVIOUS
    <2>2. TheLate' = TheLate
      BY <2>1 DEF people, TheLate
    <2>3. SeenLate'
      BY <2>1, <2>2 DEF SeenLate, Shapes
    <2>4. CASE Dequeue
      <3>1. queue # << >> /\ queue' = Tail(queue)
        BY <2>4 DEF Dequeue, Channel!Receive
      <3>2. /\ queue[1] \in Events /\ (IsDeath(queue[1]) => queue[1].id \in TheLate)
            /\ queue' \in Seq(Events) /\ Len(queue') = Len(queue) - 1
            /\ \A i \in 1 .. Len(queue') : queue'[i] = queue[i + 1] /\ i + 1 \in 1 .. Len(queue)
        BY <3>1 DEF Shapes, QueuedLate
      <3>3. QueuedLate'
        <4> SUFFICES ASSUME NEW i \in 1 .. Len(queue'), IsDeath(queue'[i])
                     PROVE  queue'[i].id \in TheLate'
          BY DEF QueuedLate, IsDeath
        <4> QED
          BY <2>2, <3>2 DEF QueuedLate
      <3>4. Shapes'
        BY <2>1, <2>4, <3>2 DEF Dequeue, Shapes, people
      <3>5. HandledLate' /\ PrintedLate'
        BY <2>2, <2>4, <3>2 DEF Dequeue, Shapes, HandledLate, PrintedLate, IsDeath, Events
      <3> QED
        BY <2>3, <3>3, <3>4, <3>5
    <2>5. CASE Handle
      <3>1. CountAfter(monitor.ev) \in Nat
        BY DEF CountAfter, Shapes
      <3>2. Shapes'
        BY <2>1, <2>5, <3>1 DEF Handle, Shapes, people
      <3>3. QueuedLate' /\ HandledLate' /\ PrintedLate'
        BY <2>2, <2>5 DEF Handle, Shapes, QueuedLate, HandledLate, PrintedLate, IsDeath, Events
      <3> QED
        BY <2>3, <3>2, <3>3
    <2>6. CASE Pronounce
      <3>1. Shapes'
        BY <2>1, <2>6 DEF Pronounce, Shapes, people
      <3>2. QueuedLate' /\ HandledLate'
        BY <2>2, <2>6 DEF Pronounce, Shapes, QueuedLate, HandledLate, IsDeath, Events
      <3>3. PrintedLate'
        \* The line is a verdict: the monitor's hand becomes the line.
        BY <2>2, <2>6 DEF Pronounce, Shapes, HandledLate, PrintedLate, IsDeath, Events, Philos
      <3> QED
        BY <2>3, <3>1, <3>2, <3>3
    <2> QED
      BY <2>4, <2>5, <2>6
  <1>4. ASSUME NEW p \in Philos, Philosopher(p)
        PROVE  DeathInv'
    <2> USE <1>4
    <2>1. UNCHANGED << watchdog, monitor, stop, now >>
      BY DEF Philosopher
    <2>2. Meal(p) \/ UNCHANGED << lastMeal, longest, now >>
      BY DEF Philosopher, CheckStop, SayLine, Take, Recheck, BeginMeal, AnnounceMeal,
             AnnounceFinished, Put, Meal
    <2>3. /\ lastMeal' \in [Philos -> Nat] /\ longest' \in [Philos -> Nat] /\ now' \in Nat
          /\ TheLate \subseteq TheLate'
      BY <2>2, MealKeepsLate DEF Shapes, TheLate
    <2>4. UNCHANGED queue \/ \E ev \in Events : ~IsDeath(ev) /\ queue' = Append(queue, ev)
      BY DEF Philosopher, CheckStop, SayLine, Take, Recheck, BeginMeal, AnnounceMeal,
             AnnounceFinished, Put, Channel!Send, Events, IsDeath
    <2>5. queue' \in Seq(Events) /\ QueuedLate'
      <3>1. CASE UNCHANGED queue
        BY <2>3, <3>1 DEF QueuedLate, Shapes, IsDeath, Events
      <3>2. ASSUME NEW ev \in Events, ~IsDeath(ev), queue' = Append(queue, ev)
            PROVE  queue' \in Seq(Events) /\ QueuedLate'
        <4>1. queue' \in Seq(Events) /\ Len(queue') = Len(queue) + 1
              /\ \A i \in 1 .. Len(queue') : queue'[i] = IF i <= Len(queue) THEN queue[i] ELSE ev
          BY <3>2 DEF Shapes
        <4>2. ASSUME NEW i \in 1 .. Len(queue'), IsDeath(queue'[i])
              PROVE  queue'[i].id \in TheLate'
          <5>1. queue'[i] = queue[i] /\ i \in 1 .. Len(queue)
            BY <3>2, <4>1, <4>2 DEF Shapes
          <5> QED
            BY <2>3, <4>2, <5>1 DEF QueuedLate
        <4> QED
          BY <4>1, <4>2 DEF QueuedLate, IsDeath
      <3> QED
        BY <2>4, <3>1, <3>2
    <2>6. line' = line \/ \E what \in {"thinks", "eats", "sleeps"} : line' = << p, what >>
      BY DEF Philosopher, CheckStop, SayLine, Say, Take, Recheck, BeginMeal, AnnounceMeal,
             AnnounceFinished, Put
    <2>7. PrintedLate'
      BY <2>3, <2>6 DEF PrintedLate
    <2>8. Shapes'
      BY <2>1, <2>3, <2>5 DEF Shapes
    <2>9. SeenLate' /\ HandledLate'
      BY <2>1, <2>3 DEF SeenLate, HandledLate, Shapes, IsDeath, Events
    <2> QED
      BY <2>5, <2>7, <2>8, <2>9
  <1>5. CASE UNCHANGED vars
    BY <1>5 DEF vars, people, Shapes, SeenLate, QueuedLate, HandledLate, PrintedLate, TheLate, IsDeath
  <1> QED
    BY <1>1, <1>2, <1>3, <1>4, <1>5 DEF Next

-----------------------------------------------------------------------------
(***************************************************************************)
(* Nobody is declared dead who was not late, whatever happens between the  *)
(* watchdog's round, its report and the verdict (routines.c:106, :138).    *)
(***************************************************************************)
THEOREM DeathsAreReal == Spec => []DeathIsReal
  <1>1. DeathInv => DeathIsReal
    BY Parameters DEF DeathInv, PrintedLate, TheLate, DeathIsReal, Longer, Shapes
  <1> QED
    BY DeathInvInit, DeathInvStep, <1>1, PTL DEF Spec

(***************************************************************************)
(* After the stop no line but a verdict comes: whoever prints looks at the *)
(* flag under the mutex that raising it takes (utils.c:23, routines.c:138) *)
(***************************************************************************)
THEOREM VerdictIsLast == Spec => OnlyTheVerdictAfterStop
  <1>1. ASSUME DeathInv, [Next]_vars, stop
        PROVE  line' = line \/ line' \in Verdicts
    <2>1. CASE Tick \/ Watchdog \/ UNCHANGED vars
      BY <2>1 DEF Tick, Watchdog, vars
    <2>2. CASE Monitor
      BY <1>1, <2>2 DEF Monitor, Dequeue, Handle, Pronounce, Verdicts, DeathInv, Shapes, Events
    <2>3. ASSUME NEW p \in Philos, Philosopher(p)
          PROVE  line' = line
      BY <1>1, <2>3 DEF Philosopher, CheckStop, SayLine, Say, Take, Recheck, BeginMeal,
                        AnnounceMeal, AnnounceFinished, Put
    <2> QED
      BY <1>1, <2>1, <2>2, <2>3 DEF Next
  <1> QED
    BY DeathInvInit, DeathInvStep, <1>1, PTL DEF Spec, OnlyTheVerdictAfterStop

-----------------------------------------------------------------------------
(***************************************************************************)
(* Counting the FINISHED events.  The queue is counted by its positions:   *)
(* one more when an event is appended, and shifted down by one when the    *)
(* first is taken.                                                         *)
(***************************************************************************)
LEMMA PositionsAreFinite ==
  ASSUME NEW q \in Seq(Events)
  PROVE  IsFiniteSet(FinishedIn(q)) /\ Cardinality(FinishedIn(q)) \in Nat
  <1>1. FinishedIn(q) \subseteq 1 .. Len(q) /\ IsFiniteSet(1 .. Len(q))
    BY FS_Interval DEF FinishedIn
  <1> QED
    BY <1>1, FS_Subset, FS_CardinalityType

LEMMA AppendCounts ==
  ASSUME NEW q \in Seq(Events), NEW ev \in Events
  PROVE  Cardinality(FinishedIn(Append(q, ev)))
         = Cardinality(FinishedIn(q)) + IF IsFinished(ev) THEN 1 ELSE 0
  <1>1. /\ Len(Append(q, ev)) = Len(q) + 1 /\ Len(q) \in Nat
        /\ \A i \in 1 .. Len(q) : Append(q, ev)[i] = q[i]
        /\ Append(q, ev)[Len(q) + 1] = ev
    OBVIOUS
  <1>2. Len(q) + 1 \notin FinishedIn(q)
    BY <1>1 DEF FinishedIn
  <1>3. CASE IsFinished(ev)
    <2>1. FinishedIn(Append(q, ev)) = FinishedIn(q) \cup {Len(q) + 1}
      BY <1>1, <1>3 DEF FinishedIn, IsFinished
    <2> QED
      BY <1>2, <1>3, <2>1, PositionsAreFinite, FS_AddElement
  <1>4. CASE ~IsFinished(ev)
    <2>1. FinishedIn(Append(q, ev)) = FinishedIn(q)
      BY <1>1, <1>4 DEF FinishedIn, IsFinished
    <2> QED
      BY <1>4, <2>1, PositionsAreFinite
  <1> QED
    BY <1>3, <1>4

LEMMA TailCounts ==
  ASSUME NEW q \in Seq(Events), q # << >>
  PROVE  Cardinality(FinishedIn(q))
         = Cardinality(FinishedIn(Tail(q))) + IF IsFinished(q[1]) THEN 1 ELSE 0
  <1>1. /\ Tail(q) \in Seq(Events) /\ Len(q) \in Nat \ {0} /\ Len(Tail(q)) = Len(q) - 1
        /\ \A i \in 1 .. Len(q) - 1 : Tail(q)[i] = q[i + 1]
    OBVIOUS
  <1>2. FinishedIn(q) \ {1} = {i + 1 : i \in FinishedIn(Tail(q))}
    <2>1. ASSUME NEW k \in FinishedIn(q) \ {1}
          PROVE  k - 1 \in FinishedIn(Tail(q)) /\ k = (k - 1) + 1
      BY <1>1 DEF FinishedIn, IsFinished
    <2>2. ASSUME NEW i \in FinishedIn(Tail(q))
          PROVE  i + 1 \in FinishedIn(q) \ {1}
      BY <1>1 DEF FinishedIn, IsFinished
    <2> QED
      BY <2>1, <2>2
  <1>3. ExistsBijection(FinishedIn(Tail(q)), FinishedIn(q) \ {1})
    <2> DEFINE shift == [i \in FinishedIn(Tail(q)) |-> i + 1]
    <2>1. FinishedIn(Tail(q)) \subseteq Int
      BY DEF FinishedIn
    <2>2. shift \in Bijection(FinishedIn(Tail(q)), FinishedIn(q) \ {1})
      BY <1>2, <2>1 DEF Bijection, Injection, Surjection, IsInjective
    <2> QED
      BY <2>2 DEF ExistsBijection
  <1>4. Cardinality(FinishedIn(q) \ {1}) = Cardinality(FinishedIn(Tail(q)))
    BY <1>1, <1>3, PositionsAreFinite, FS_Bijection
  <1>5. 1 \in FinishedIn(q) <=> IsFinished(q[1])
    BY <1>1 DEF FinishedIn
  <1>6. IsFiniteSet(FinishedIn(q)) /\ Cardinality(FinishedIn(q)) \in Nat
    BY PositionsAreFinite
  <1>7. Cardinality(FinishedIn(q) \ {1})
        = IF 1 \in FinishedIn(q) THEN Cardinality(FinishedIn(q)) - 1
                                 ELSE Cardinality(FinishedIn(q))
    BY <1>6, FS_RemoveElement
  <1> QED
    BY <1>4, <1>5, <1>6, <1>7
-----------------------------------------------------------------------------
(***************************************************************************)
(* The inductive invariant of the count.  A FINISHED event answers for one *)
(* meal from the MustEat-th on, and is sent once; the monitor throws an    *)
(* event away only when the flag is up, and then it is past handling any.  *)
(***************************************************************************)
MealShapes == pc \in [Philos -> Labels] /\ meals \in [Philos -> Nat]

FinishedAtItsMeal ==
    \A p \in Philos : /\ pc[p] \in {"sayEat", "sayFinished"} => meals[p] # 0
                      /\ pc[p] = "sayFinished" => Finished(p)

StopEndsCounting == stop => monitor.at \in {"verdict", "done"}

CountInv == /\ Shapes /\ MealShapes /\ FinishedAtItsMeal /\ StopEndsCounting
            /\ IsFiniteSet(FinishedSent)
            /\ EveryFinishedIsCounted

LEMMA SentMeals ==
  ASSUME MustEat # Unlimited, NEW x
  PROVE  x \in FinishedSent
         <=> \E p \in Philos : \E m \in 1 .. Announced(p) : m >= MustEat /\ x = << p, m >>
  BY DEF FinishedSent

LEMMA CountInvInit == Init => CountInv
  <1> SUFFICES ASSUME Init PROVE CountInv
    OBVIOUS
  <1>1. Shapes
    BY DeathInvInit DEF DeathInv
  <1>2. MealShapes /\ FinishedAtItsMeal /\ StopEndsCounting
    BY DEF Init, MealShapes, FinishedAtItsMeal, StopEndsCounting, Labels
  <1>3. FinishedSent = {}
    <2>1. \A p \in Philos : 1 .. Announced(p) = {}
      BY DEF Init, Announced
    <2> QED
      BY <2>1, SentMeals DEF FinishedSent
  <1>4. FinishedIn(queue) = {} /\ InHand = 0 /\ monitor.count = 0
    BY DEF Init, FinishedIn, InHand
  <1> QED
    BY <1>1, <1>2, <1>3, <1>4, FS_EmptySet DEF CountInv, EveryFinishedIsCounted

\* Nothing is announced.
LEMMA NothingAnnounced ==
  ASSUME \A q \in Philos : Announced(q)' = Announced(q)
  PROVE  FinishedSent' = FinishedSent
  BY DEF FinishedSent

\* One more meal of p is announced.
LEMMA OneAnnounced ==
  ASSUME MealShapes, NEW p \in Philos,
         Announced(p) \in Nat,
         Announced(p)' = Announced(p) + 1,
         \A q \in Philos : q # p => Announced(q)' = Announced(q)
  PROVE  LET last == << p, Announced(p) + 1 >>
         IN  /\ last \notin FinishedSent
             /\ FinishedSent' = IF MustEat # Unlimited /\ Announced(p) + 1 >= MustEat
                                THEN FinishedSent \cup {last} ELSE FinishedSent
  <1>1. CASE MustEat = Unlimited
    BY <1>1 DEF FinishedSent
  <1>2. CASE MustEat # Unlimited
    <2>1. Announced(p) \in Int /\ MustEat \in Nat
      BY <1>2, Parameters DEF Announced, MealShapes
    <2>2. << p, Announced(p) + 1 >> \notin FinishedSent
      BY <1>2, <2>1, SentMeals
    <2>3. \A x : x \in FinishedSent'
                <=> \E q \in Philos : \E m \in 1 .. Announced(q)' : m >= MustEat /\ x = << q, m >>
      BY <1>2 DEF FinishedSent
    <2>4. \A m : m \in 1 .. Announced(p)'
                <=> m \in 1 .. Announced(p) \/ m = Announced(p) + 1
      BY <2>1
    <2>5. ASSUME NEW x
          PROVE  x \in FinishedSent'
                 <=> \/ x \in FinishedSent
                     \/ x = << p, Announced(p) + 1 >> /\ Announced(p) + 1 >= MustEat
      BY <1>2, <2>3, <2>4, SentMeals
    <2> QED
      BY <1>2, <2>2, <2>5
  <1> QED
    BY <1>1, <1>2
\* A philosopher's announcement: what it sends is what is counted as sent.
LEMMA PhilosopherCounts ==
  ASSUME CountInv, Shapes', NEW p \in Philos, Philosopher(p)
  PROVE  CountInv'
  <1> USE DEF CountInv
  <1>1. UNCHANGED << watchdog, monitor, stop, now >>
    BY DEF Philosopher
  <1>2. StopEndsCounting' /\ InHand' = InHand /\ InHand \in Nat /\ monitor.count \in Nat
    BY <1>1 DEF StopEndsCounting, InHand, Shapes
  <1>3. pc[p] \in Labels /\ meals[p] \in Nat /\ queue \in Seq(Events)
    BY DEF MealShapes, Shapes
  <1>4. ASSUME UNCHANGED << meals, queue >>,
               NEW l, NEW l2 \in Labels \ {"sayEat", "sayFinished"},
               l \notin {"sayEat", "sayFinished"}, Move(p, l, l2)
        PROVE  CountInv'
    <2>1. MealShapes' /\ FinishedAtItsMeal'
      BY <1>3, <1>4 DEF Move, At, MealShapes, FinishedAtItsMeal, Finished
    <2>2. \A q \in Philos : Announced(q)' = Announced(q)
      BY <1>4 DEF Move, At, MealShapes, Announced
    <2> QED
      BY <1>1, <1>2, <1>4, <2>1, <2>2, NothingAnnounced DEF EveryFinishedIsCounted
  <1>5. CASE CheckStop(p) \/ SayLine(p) \/ Take(p) \/ Recheck(p) \/ Put(p)
    <2>1. UNCHANGED << meals, queue >>
      BY <1>5 DEF CheckStop, SayLine, Take, Recheck, Put
    <2>2. \E l, l2 \in Labels \ {"sayEat", "sayFinished"} : Move(p, l, l2)
      BY <1>5 DEF CheckStop, SayLine, Take, Recheck, Put, Labels
    <2> QED
      BY <1>4, <2>1, <2>2
  <1>6. CASE BeginMeal(p)
    <2>1. /\ pc[p] = "meal" /\ pc' = [pc EXCEPT ![p] = "sayEat"]
          /\ meals' = [meals EXCEPT ![p] = @ + 1] /\ queue' = queue
      BY <1>6 DEF BeginMeal, Move, At
    <2>2. MealShapes' /\ FinishedAtItsMeal'
      BY <1>3, <2>1 DEF MealShapes, FinishedAtItsMeal, Finished, Labels
    <2>3. \A q \in Philos : Announced(q)' = Announced(q)
      BY <1>3, <2>1 DEF MealShapes, Announced
    <2> QED
      BY <1>1, <1>2, <2>1, <2>2, <2>3, NothingAnnounced DEF EveryFinishedIsCounted
  <1>7. CASE AnnounceMeal(p)
    <2>1. PICK ev \in Events : /\ queue' = Append(queue, ev) /\ ~IsFinished(ev)
      BY <1>7 DEF AnnounceMeal, Channel!Send, Events, IsFinished
    <2>2. /\ pc[p] = "sayEat" /\ meals' = meals
          /\ pc' = [pc EXCEPT ![p] = IF Finished(p) THEN "sayFinished" ELSE "eating"]
      BY <1>7 DEF AnnounceMeal, Move, At
    <2>3. MealShapes' /\ FinishedAtItsMeal'
      BY <1>3, <2>2 DEF MealShapes, FinishedAtItsMeal, Finished, Labels
    <2>4. FinishedSent' = FinishedSent
      <3>1. CASE Finished(p)
        <4>1. \A q \in Philos : Announced(q)' = Announced(q)
          BY <2>2, <3>1 DEF MealShapes, Announced
        <4> QED
          BY <4>1, NothingAnnounced
      <3>2. CASE ~Finished(p)
        <4>1. /\ Announced(p) = meals[p] - 1 /\ Announced(p)' = meals[p]
              /\ \A q \in Philos : q # p => Announced(q)' = Announced(q)
          BY <2>2, <3>2 DEF MealShapes, Announced
        <4>2. Announced(p) \in Nat /\ Announced(p)' = Announced(p) + 1
          BY <1>3, <2>2, <4>1 DEF FinishedAtItsMeal
        <4>3. MustEat = Unlimited \/ ~(Announced(p) + 1 >= MustEat)
          BY <1>3, <3>2, <4>1 DEF Finished
        <4> QED
          BY <4>1, <4>2, <4>3, OneAnnounced
      <3> QED
        BY <3>1, <3>2
    <2>5. Cardinality(FinishedIn(queue)') = Cardinality(FinishedIn(queue))
      BY <1>3, <2>1, AppendCounts, PositionsAreFinite DEF FinishedIn
    <2> QED
      BY <1>1, <1>2, <2>3, <2>4, <2>5 DEF EveryFinishedIsCounted
  <1>8. CASE AnnounceFinished(p)
    <2>1. PICK ev \in Events : /\ queue' = Append(queue, ev) /\ IsFinished(ev)
      BY <1>8 DEF AnnounceFinished, Channel!Send, Events, IsFinished
    <2>2. /\ pc[p] = "sayFinished" /\ meals' = meals
          /\ pc' = [pc EXCEPT ![p] = "eating"]
      BY <1>8 DEF AnnounceFinished, Move, At
    <2>3. MealShapes' /\ FinishedAtItsMeal'
      BY <1>3, <2>2 DEF MealShapes, FinishedAtItsMeal, Finished, Labels
    <2>4. /\ Announced(p) = meals[p] - 1 /\ Announced(p)' = meals[p]
          /\ \A q \in Philos : q # p => Announced(q)' = Announced(q)
      BY <2>2 DEF MealShapes, Announced
    <2>5. Announced(p) \in Nat /\ Announced(p)' = Announced(p) + 1
      BY <1>3, <2>2, <2>4 DEF FinishedAtItsMeal
    <2>6. MustEat # Unlimited /\ Announced(p) + 1 >= MustEat
      BY <1>3, <2>2, <2>4 DEF FinishedAtItsMeal, Finished
    <2>7. /\ << p, Announced(p) + 1 >> \notin FinishedSent
          /\ FinishedSent' = FinishedSent \cup {<< p, Announced(p) + 1 >>}
      BY <2>4, <2>5, <2>6, OneAnnounced
    <2>8. /\ IsFiniteSet(FinishedSent')
          /\ Cardinality(FinishedSent') = Cardinality(FinishedSent) + 1
      BY <2>7, FS_AddElement
    <2>9. /\ Cardinality(FinishedIn(queue)') = Cardinality(FinishedIn(queue)) + 1
          /\ Cardinality(FinishedIn(queue)) \in Nat
      BY <1>3, <2>1, AppendCounts, PositionsAreFinite DEF FinishedIn
    <2>10. EveryFinishedIsCounted'
      BY <1>1, <1>2, <2>8, <2>9 DEF EveryFinishedIsCounted
    <2> QED
      BY <1>2, <2>3, <2>8, <2>10
  <1> QED
    BY <1>5, <1>6, <1>7, <1>8 DEF Philosopher

\* The watchdog sends no FINISHED event.
LEMMA WatchdogCounts ==
  ASSUME CountInv, Shapes', Watchdog
  PROVE  CountInv'
  <1> USE DEF CountInv
  <1>1. UNCHANGED << pc, meals, monitor, stop >>
    BY DEF Watchdog, people
  <1>2. MealShapes' /\ FinishedAtItsMeal' /\ StopEndsCounting' /\ InHand' = InHand
    BY <1>1 DEF MealShapes, FinishedAtItsMeal, Finished, StopEndsCounting, InHand
  <1>3. FinishedSent' = FinishedSent
    BY <1>1 DEF FinishedSent, Announced
  <1>4. Cardinality(FinishedIn(queue)') = Cardinality(FinishedIn(queue))
    <2>1. CASE UNCHANGED queue
      BY <2>1 DEF FinishedIn
    <2>2. ASSUME Report PROVE Cardinality(FinishedIn(queue)') = Cardinality(FinishedIn(queue))
      <3> DEFINE died == [id |-> watchdog.who, type |-> "DIED"]
      <3>1. died \in Events /\ queue' = Append(queue, died) /\ ~IsFinished(died)
        BY <2>2 DEF Report, Channel!Send, Shapes, Events, IsFinished
      <3>2. queue \in Seq(Events)
        BY DEF Shapes
      <3> QED
        BY <3>1, <3>2, AppendCounts, PositionsAreFinite DEF FinishedIn
    <2> QED
      BY <2>1, <2>2 DEF Watchdog, Look, Scan
  <1> QED
    BY <1>1, <1>2, <1>3, <1>4 DEF EveryFinishedIsCounted

\* An event goes from the queue to the monitor's hand, and from there into
\* the count.
LEMMA MonitorCounts ==
  ASSUME CountInv, Shapes', Monitor
  PROVE  CountInv'
  <1> USE DEF CountInv
  <1>1. UNCHANGED << pc, meals >>
    BY DEF Monitor, people
  <1>2. MealShapes' /\ FinishedAtItsMeal' /\ FinishedSent' = FinishedSent
    BY <1>1 DEF MealShapes, FinishedAtItsMeal, Finished, FinishedSent, Announced
  <1>3. /\ monitor.count \in Nat /\ queue \in Seq(Events)
        /\ monitor = [at |-> monitor.at, ev |-> monitor.ev, count |-> monitor.count]
    BY DEF Shapes
  <1>4. CASE Dequeue
    <2>1. /\ monitor.at = "dequeue" /\ queue # << >> /\ queue' = Tail(queue)
          /\ monitor'.at = "handle" /\ monitor'.ev = queue[1] /\ monitor'.count = monitor.count
          /\ stop' = stop
      BY <1>3, <1>4 DEF Dequeue, Channel!Receive
    <2>2. StopEndsCounting'
      BY <2>1 DEF StopEndsCounting
    <2>3. InHand = 0 /\ InHand' = IF IsFinished(queue[1]) THEN 1 ELSE 0
      BY <2>1 DEF InHand, IsFinished
    <2>4. /\ Cardinality(FinishedIn(queue))
             = Cardinality(FinishedIn(queue)') + IF IsFinished(queue[1]) THEN 1 ELSE 0
      BY <1>3, <2>1, TailCounts DEF FinishedIn
    <2>5. Cardinality(FinishedIn(queue)) \in Nat /\ Cardinality(FinishedIn(queue)') \in Nat
      <3>1. queue' \in Seq(Events)
        BY DEF Shapes
      <3> QED
        BY <1>3, <3>1, PositionsAreFinite DEF FinishedIn
    <2>6. EveryFinishedIsCounted'
      BY <1>2, <1>3, <2>1, <2>3, <2>4, <2>5 DEF EveryFinishedIsCounted
    <2> QED
      BY <1>2, <2>2, <2>6
  <1>5. CASE Handle
    <2>1. monitor.at = "handle" /\ queue' = queue /\ ~stop
      BY <1>5 DEF Handle, StopEndsCounting
    <2>2. /\ monitor'.at \in {"dequeue", "verdict"} /\ monitor'.count = CountAfter(monitor.ev)
          /\ stop' => monitor'.at = "verdict"
      BY <1>3, <1>5, <2>1 DEF Handle
    <2>3. StopEndsCounting'
      BY <2>2 DEF StopEndsCounting
    <2>4. InHand' = 0 /\ InHand \in Nat /\ CountAfter(monitor.ev) = monitor.count + InHand
      BY <1>3, <2>1, <2>2 DEF InHand, CountAfter, IsFinished
    <2>5. Cardinality(FinishedIn(queue)) \in Nat /\ FinishedIn(queue)' = FinishedIn(queue)
      BY <1>3, <2>1, PositionsAreFinite DEF FinishedIn
    <2>6. EveryFinishedIsCounted'
      BY <1>2, <1>3, <2>2, <2>4, <2>5 DEF EveryFinishedIsCounted
    <2> QED
      BY <1>2, <2>3, <2>6
  <1>6. CASE Pronounce
    <2>1. /\ monitor.at = "verdict" /\ monitor'.at = "done" /\ monitor'.count = monitor.count
          /\ queue' = queue
      BY <1>3, <1>6 DEF Pronounce
    <2>2. InHand = 0 /\ InHand' = 0 /\ FinishedIn(queue)' = FinishedIn(queue)
      BY <2>1 DEF InHand, FinishedIn
    <2>3. EveryFinishedIsCounted'
      BY <1>2, <2>1, <2>2 DEF EveryFinishedIsCounted
    <2> QED
      BY <1>2, <2>1, <2>3 DEF StopEndsCounting
  <1> QED
    BY <1>4, <1>5, <1>6 DEF Monitor

(***************************************************************************)
(* The monitor's count is the number of FINISHED events that were sent     *)
(* less those still under way, whatever order the philosophers send them   *)
(* in: none is lost in the queue, or thrown away while it could matter, or *)
(* counted twice (routines.c:28, :60 and :144).                            *)
(***************************************************************************)
THEOREM FinishedIsCounted == Spec => []EveryFinishedIsCounted
  <1>1. DeathInv' => Shapes'
    BY DEF DeathInv
  <1>2. DeathInv' /\ CountInv /\ [Next]_vars => CountInv'
    <2> SUFFICES ASSUME DeathInv', CountInv, [Next]_vars PROVE CountInv'
      OBVIOUS
    <2>1. ASSUME UNCHANGED << pc, meals, queue, monitor, stop >>
          PROVE  CountInv'
      <3>1. FinishedSent' = FinishedSent /\ FinishedIn(queue)' = FinishedIn(queue)
        BY <2>1 DEF FinishedSent, Announced, FinishedIn
      <3> QED
        BY <1>1, <2>1, <3>1 DEF CountInv, MealShapes, FinishedAtItsMeal, Finished,
                                StopEndsCounting, EveryFinishedIsCounted, InHand
    <2> QED
      BY <1>1, <2>1, PhilosopherCounts, WatchdogCounts, MonitorCounts
      DEF Next, Tick, vars, people
  <1>3. CountInv => EveryFinishedIsCounted
    BY DEF CountInv
  <1> QED
    BY <1>2, <1>3, CountInvInit, DeathInvInit, DeathInvStep, PTL DEF Spec
=============================================================================
