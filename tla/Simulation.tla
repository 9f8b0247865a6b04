----------------------------- MODULE Simulation -----------------------------
(***************************************************************************)
(* The whole simulation: the philosophers, the watchdog that looks for     *)
(* missed deadlines, the monitor that pronounces the verdict, the event    *)
(* queue between them and the lines they print.                            *)
(*                                                                         *)
(* The forks and the queue appear as what their modules show them to be:   *)
(* the table of Dining (implemented by StrategyV1 .. StrategyV4) and the   *)
(* channel of EventChannel (implemented by EventQueue).  How long a meal   *)
(* or a nap takes is left open; deadlines are not.  Of the lines printed   *)
(* "has taken a fork" is left out: it goes through print_status, too.      *)
(***************************************************************************)
EXTENDS Integers, Sequences, FiniteSets
LOCAL INSTANCE FiniteSetsExt

CONSTANTS N,            \* num_philos
          TimeToDie,    \* time_to_die
          MustEat,      \* num_must_eat
          Unlimited,    \* num_must_eat when the argument is absent (-1)
          Capacity,     \* events the queue holds
          MaxTime,      \* bound of the model: the clock stops there
          MaxMeals      \* bound of the model: after so many, nobody starts a round

ASSUME Parameters == /\ {N, Capacity, MaxTime, MaxMeals} \subseteq Nat \ {0}
                     /\ TimeToDie \in Nat
                     /\ MustEat \in Nat \cup {Unlimited}

VARIABLES
    pc,             \* where each philosopher is
    meals,          \* meal_count
    lastMeal,       \* last_meal_time; the deadline is TimeToDie later
    holding,        \* the philosophers that hold their two forks
    queue,          \* event_queue
    watchdog,       \* where the watchdog is, what it read, whom it looks at
    monitor,        \* where the monitor is, the event it took, finished_count
    stop,           \* stop_simulation
    now,            \* get_time_in_ms()
    line,           \* the last line on stdout: who and what
    longest         \* history: the longest time a philosopher went unfed

people == << pc, meals, lastMeal, holding, longest >>
vars   == << people, queue, watchdog, monitor, stop, now, line >>

Philos == 1 .. N
Events == [id : Philos, type : {"EAT", "DIED", "FINISHED"}]

Table   == INSTANCE Dining WITH eating <- holding
Channel == INSTANCE EventChannel WITH chan <- queue

Deadline(p) == lastMeal[p] + TimeToDie
Finished(p) == MustEat # Unlimited /\ meals[p] >= MustEat

Labels == {"top", "think", "take", "recheck", "eat", "meal", "sayEat",
           "sayFinished", "eating", "sleep", "quit", "done"}

NoEvent  == [id |-> 0, type |-> "none"]
Verdicts == {<< p, "died" >> : p \in Philos} \cup {<< 0, "all have eaten" >>}
Lines    == Verdicts \cup (Philos \X {"thinks", "eats", "sleeps"})
                     \cup {<< 0, "nothing" >>}

TypeOK ==
    /\ pc \in [Philos -> Labels]
    /\ meals \in [Philos -> 0 .. MaxMeals]
    /\ lastMeal \in [Philos -> 0 .. MaxTime]
    /\ longest \in [Philos -> 0 .. MaxTime]
    /\ holding \subseteq Philos
    /\ queue \in Seq(Events) /\ Len(queue) <= Capacity
    /\ watchdog \in [at : {"check", "scan", "report", "done"},
                     time : 0 .. MaxTime, who : 1 .. N + 1]
    /\ monitor \in [at : {"dequeue", "handle", "verdict", "done"},
                    ev : Events \cup {NoEvent}, count : 0 .. N]
    /\ stop \in BOOLEAN
    /\ now \in 0 .. MaxTime
    /\ line \in Lines

\* The variables of the watchdog's and the monitor's loops live for one turn.
Idle(l) == [at |-> l, time |-> 0, who |-> 1]

Init == /\ pc = [p \in Philos |-> "top"]
        /\ meals = [p \in Philos |-> 0]
        /\ lastMeal = [p \in Philos |-> 0]
        /\ longest = [p \in Philos |-> 0]
        /\ holding = {}
        /\ queue = << >>
        /\ watchdog = Idle("check")
        /\ monitor = [at |-> "dequeue", ev |-> NoEvent, count |-> 0]
        /\ stop = FALSE
        /\ now = 0
        /\ line = << 0, "nothing" >>

-----------------------------------------------------------------------------
(* Philosophers *)

At(p, l)       == pc[p] = l
Move(p, l, l2) == At(p, l) /\ pc' = [pc EXCEPT ![p] = l2]

\* Mutant: the line is printed without a look at the flag.
SayAnyway(p, what) == line' = << p, what >>

\* print_status: the flag and the line under sim_stop_mutex.
Say(p, what) == line' = IF stop THEN line ELSE << p, what >>

CheckStop(p) == /\ MapThenSumSet(LAMBDA q : meals[q], Philos) < MaxMeals \/ stop
                /\ Move(p, "top", IF stop THEN "done" ELSE "think")
                /\ UNCHANGED << meals, lastMeal, holding, longest, queue, line >>

SayLine(p) == /\ \/ Move(p, "think", "take")    /\ Say(p, "thinks")
                 \/ Move(p, "eat", "meal")      /\ Say(p, "eats")
                 \/ Move(p, "sleep", "top")     /\ Say(p, "sleeps")
              /\ UNCHANGED << meals, lastMeal, holding, longest, queue >>

\* take_forks returns with the forks, or without them after a stop.
Take(p) == /\ Move(p, "take", "recheck")
           /\ \/ Table!Start(p)
              \/ stop /\ UNCHANGED holding
           /\ UNCHANGED << meals, lastMeal, longest, queue, line >>

Recheck(p) == /\ Move(p, "recheck", IF stop THEN "quit" ELSE "eat")
              /\ UNCHANGED << meals, lastMeal, holding, longest, queue, line >>

Longer(a, b) == IF a > b THEN a ELSE b

\* philo_act_eat under data_mutex.
BeginMeal(p) == /\ Move(p, "meal", "sayEat")
                /\ meals' = [meals EXCEPT ![p] = @ + 1]
                /\ lastMeal' = [lastMeal EXCEPT ![p] = now]
                /\ longest' = [longest EXCEPT ![p] = Longer(@, now - lastMeal[p])]
                /\ UNCHANGED << holding, queue, line >>

AnnounceMeal(p) == /\ Move(p, "sayEat", IF Finished(p) THEN "sayFinished" ELSE "eating")
                   /\ Channel!Send([id |-> p, type |-> "EAT"])
                   /\ UNCHANGED << meals, lastMeal, holding, longest, line >>

AnnounceFinished(p) == /\ Move(p, "sayFinished", "eating")
                       /\ Channel!Send([id |-> p, type |-> "FINISHED"])
                       /\ UNCHANGED << meals, lastMeal, holding, longest, line >>

\* put_forks, after the meal and after a stop.
Put(p) == /\ Move(p, "eating", "sleep") \/ Move(p, "quit", "done")
          /\ holding' = holding \ {p}
          /\ UNCHANGED << meals, lastMeal, longest, queue, line >>

Philosopher(p) == /\ \/ CheckStop(p) \/ SayLine(p) \/ Take(p) \/ Recheck(p)
                     \/ BeginMeal(p) \/ AnnounceMeal(p) \/ AnnounceFinished(p)
                     \/ Put(p)
                  /\ UNCHANGED << watchdog, monitor, stop, now >>

-----------------------------------------------------------------------------
(* The watchdog: reads the clock once per round, then each philosopher's    *)
(* deadline under that philosopher's data_mutex.                            *)

\* Mutant: the watchdog does not look at the flag.
LookForEver == /\ watchdog.at = "check"
               /\ watchdog' = [at |-> "scan", time |-> now, who |-> 1]
               /\ UNCHANGED queue

Look == /\ watchdog.at = "check"
        /\ watchdog' = IF stop THEN Idle("done")
                       ELSE [at |-> "scan", time |-> now, who |-> 1]
        /\ UNCHANGED queue

\* Mutant: late at the deadline, not after it.
LateOnTheDot(p) == ~Finished(p) /\ watchdog.time >= Deadline(p)

LateAtRound(p) == ~Finished(p) /\ watchdog.time > Deadline(p)

Scan == /\ watchdog.at = "scan"
        /\ watchdog' = IF watchdog.who > N
                       THEN Idle("check")
                       ELSE IF LateAtRound(watchdog.who)
                       THEN [watchdog EXCEPT !.at = "report"]
                       ELSE [watchdog EXCEPT !.who = @ + 1]
        /\ UNCHANGED queue

\* Mutant: the watchdog leaves without telling the monitor.
ReportNothing == /\ watchdog.at = "report"
                 /\ watchdog' = Idle("done")
                 /\ UNCHANGED queue

Report == /\ watchdog.at = "report"
          /\ Channel!Send([id |-> watchdog.who, type |-> "DIED"])
          /\ watchdog' = Idle("done")

Watchdog == /\ Look \/ Scan \/ Report
            /\ UNCHANGED << people, monitor, stop, now, line >>

-----------------------------------------------------------------------------
(* The monitor: the only thread that raises the flag. *)

Dequeue == /\ monitor.at = "dequeue"
           /\ Channel!Receive
           /\ monitor' = [monitor EXCEPT !.at = "handle", !.ev = queue[1]]
           /\ UNCHANGED << stop, line >>

\* Mutant: every event is counted.
CountEvery(ev) == monitor.count + 1

\* How many FINISHED events there are when this one is handled.
CountAfter(ev) == monitor.count + IF ev.type = "FINISHED" THEN 1 ELSE 0

IsVerdict(ev) == ev.type = "DIED" \/ CountAfter(ev) >= N

Handle == /\ monitor.at = "handle"
          /\ monitor' = IF stop THEN [monitor EXCEPT !.at = "dequeue", !.ev = NoEvent]
                        ELSE IF IsVerdict(monitor.ev)
                        THEN [monitor EXCEPT !.at = "verdict",
                                             !.count = CountAfter(monitor.ev)]
                        ELSE [at |-> "dequeue", ev |-> NoEvent,
                              count |-> CountAfter(monitor.ev)]
          /\ stop' = (stop \/ IsVerdict(monitor.ev))
          /\ UNCHANGED << queue, line >>

Pronounce == /\ monitor.at = "verdict"
             /\ line' = IF monitor.ev.type = "DIED" THEN << monitor.ev.id, "died" >>
                        ELSE << 0, "all have eaten" >>
             /\ monitor' = [monitor EXCEPT !.at = "done"]
             /\ UNCHANGED << queue, stop >>

Monitor == /\ Dequeue \/ Handle \/ Pronounce
           /\ UNCHANGED << people, watchdog, now >>

Tick == /\ now < MaxTime
        /\ now' = now + 1
        /\ UNCHANGED << people, queue, watchdog, monitor, stop, line >>

Next == Tick \/ Watchdog \/ Monitor \/ \E p \in Philos : Philosopher(p)

(***************************************************************************)
(* Every thread that can take a step takes one.  Nothing is said of how    *)
(* fast, nor of which of two philosophers gets a fork.                     *)
(***************************************************************************)
Fairness == /\ WF_vars(Tick) /\ WF_vars(Watchdog) /\ WF_vars(Monitor)
            /\ \A p \in Philos : WF_vars(Philosopher(p))

Spec == Init /\ [][Next]_vars /\ Fairness

-----------------------------------------------------------------------------
AllDone == /\ \A p \in Philos : At(p, "done")
           /\ watchdog.at = "done"
           /\ monitor.at = "done"

(***************************************************************************)
(* Once the flag is up only the verdict is printed: no philosopher is seen *)
(* eating after a death, however late its thread comes to its line.        *)
(***************************************************************************)
OnlyTheVerdictAfterStop ==
    [][stop => line' = line \/ line' \in Verdicts]_vars

(***************************************************************************)
(* Nobody is declared dead who did not go without food for longer than     *)
(* time_to_die, although the watchdog compares a clock read at the start   *)
(* of its round with deadlines read later, and the philosopher may eat     *)
(* between the report and the verdict.                                     *)
(***************************************************************************)
DeathIsReal ==
    \A p \in Philos : line = << p, "died" >> =>
        Longer(longest[p], now - lastMeal[p]) > TimeToDie

\* The meals of p whose EAT event is sent and, if it is due, whose FINISHED
\* event is, too.
Announced(p) == IF pc[p] \in {"sayEat", "sayFinished"} THEN meals[p] - 1 ELSE meals[p]

\* The FINISHED events sent: one per meal from the MustEat-th on.
FinishedSent == IF MustEat = Unlimited THEN {}
                ELSE UNION {{p} \X {m \in 1 .. Announced(p) : m >= MustEat} : p \in Philos}

IsFinished(ev) == ev.type = "FINISHED"
FinishedIn(q)  == {i \in 1 .. Len(q) : IsFinished(q[i])}
InHand         == IF monitor.at = "handle" /\ IsFinished(monitor.ev) THEN 1 ELSE 0

(***************************************************************************)
(* The monitor counts what was announced, no more and no less: every       *)
(* FINISHED event is counted, in the queue, or in the monitor's hand.      *)
(***************************************************************************)
EveryFinishedIsCounted ==
    monitor.count + Cardinality(FinishedIn(queue)) + InHand = Cardinality(FinishedSent)

(***************************************************************************)
(* "All philosophers have eaten %d times." (routines.c:153): when the line *)
(* is printed, they have.                                                  *)
(***************************************************************************)
AllHaveEaten ==
    line = << 0, "all have eaten" >> => \A p \in Philos : meals[p] >= MustEat

(***************************************************************************)
(* A philosopher that misses its deadline does not go unnoticed: it eats,  *)
(* or the simulation stops.                                                *)
(***************************************************************************)
LatenessIsNoticed ==
    \A p \in Philos :
        now > Deadline(p) /\ ~Finished(p) ~> stop \/ now <= Deadline(p) \/ Finished(p)

(***************************************************************************)
(* The joins of main return, provided the queue has room for what may      *)
(* still be sent when the monitor leaves: two events of every philosopher  *)
(* and one of the watchdog.  Nobody dequeues any more: with less room a    *)
(* philosopher would sleep in enqueue for ever.                            *)
(***************************************************************************)
JoinsReturnIfRoom == stop /\ Len(queue) + 2 * N + 1 <= Capacity ~> AllDone
=============================================================================
