----------------------------- MODULE EventQueue -----------------------------
(***************************************************************************)
(* The event queue between the philosophers and the watchdog (producers)   *)
(* and the monitor (its only consumer): a ring buffer guarded by one mutex *)
(* and ONE condition variable that full producers and the empty consumer   *)
(* share, woken with pthread_cond_signal.  Every critical section is one   *)
(* action: the mutex is held from its first to its last statement, and     *)
(* pthread_cond_wait is the only place inside it where it is released.     *)
(***************************************************************************)
EXTENDS Integers, FiniteSets

CONSTANTS Producers,    \* the philosopher threads and the watchdog
          Monitor,      \* the monitor thread, the only one that dequeues
          Events,       \* what a producer may announce
          MaxEvents,    \* slots of the ring (MAX_EVENTS, 1024)
          None          \* no event

Threads == Producers \cup {Monitor}

(***************************************************************************)
(* One slot stays empty, so the ring holds MaxEvents - 1 events.  The code *)
(* has at most MAX_PHILOS + 1 = 201 producers for 1023 events.             *)
(***************************************************************************)
Capacity == MaxEvents - 1

ASSUME ThreadsAreDistinct == IsFiniteSet(Producers) /\ Monitor \notin Producers
ASSUME RoomForEveryProducer == /\ MaxEvents \in Nat
                               /\ Cardinality(Producers) <= Capacity

ASSUME NoneIsNoEvent == None \notin Events

Slots == 0 .. MaxEvents - 1

VARIABLES buf,          \* the ring
          head, tail,   \* next slot to read, next slot to write
          waitSet,      \* the threads asleep on the condition variable
          offer         \* the event a producer is enqueuing, or None

vars == << buf, head, tail, waitSet, offer >>

Next1(i) == (i + 1) % MaxEvents
Empty    == head = tail
Full     == Next1(tail) = head

\* Events in the ring.
Count == IF tail >= head THEN tail - head ELSE tail - head + MaxEvents

TypeOK == /\ buf \in [Slots -> Events \cup {None}]
          /\ head \in Slots
          /\ tail \in Slots
          /\ waitSet \subseteq Threads
          /\ offer \in [Producers -> Events \cup {None}]

Init == /\ buf = [i \in Slots |-> None]
        /\ head = 0
        /\ tail = 0
        /\ waitSet = {}
        /\ offer = [t \in Producers |-> None]

-----------------------------------------------------------------------------
\* pthread_cond_wait: releases the mutex and sleeps.
Wait(t) == waitSet' = waitSet \cup {t}

\* Mutant: the signal is forgotten everywhere.
SignalNobody == waitSet' = waitSet

\* pthread_cond_signal: wakes one sleeper, whichever the library picks.
Signal == IF waitSet = {} THEN waitSet' = waitSet
                          ELSE \E t \in waitSet : waitSet' = waitSet \ {t}

\* A producer calls enqueue.
Call(t, e) == /\ offer[t] = None
              /\ offer' = [offer EXCEPT ![t] = e]
              /\ UNCHANGED << buf, head, tail, waitSet >>

\* ... finds the ring full and waits ...
EnqueueWaits(t) == /\ offer[t] # None /\ t \notin waitSet
                   /\ Full
                   /\ Wait(t)
                   /\ UNCHANGED << buf, head, tail, offer >>

\* Mutant: enqueue stores without a signal.
EnqueuePutsSilently(t) == /\ offer[t] # None /\ t \notin waitSet
                          /\ ~Full
                          /\ buf' = [buf EXCEPT ![tail] = offer[t]]
                          /\ tail' = Next1(tail)
                          /\ offer' = [offer EXCEPT ![t] = None]
                          /\ UNCHANGED << head, waitSet >>

\* ... or stores its event, signals and returns.
EnqueuePuts(t) == /\ offer[t] # None /\ t \notin waitSet
                  /\ ~Full
                  /\ buf' = [buf EXCEPT ![tail] = offer[t]]
                  /\ tail' = Next1(tail)
                  /\ Signal
                  /\ offer' = [offer EXCEPT ![t] = None]
                  /\ UNCHANGED head

DequeueWaits == /\ Monitor \notin waitSet
                /\ Empty
                /\ Wait(Monitor)
                /\ UNCHANGED << buf, head, tail, offer >>

\* Mutant: dequeue takes without a signal.
DequeueGetsSilently == /\ Monitor \notin waitSet
                       /\ ~Empty
                       /\ head' = Next1(head)
                       /\ UNCHANGED << buf, tail, waitSet, offer >>

DequeueGets == /\ Monitor \notin waitSet
               /\ ~Empty
               /\ head' = Next1(head)
               /\ Signal
               /\ UNCHANGED << buf, tail, offer >>

\* POSIX allows a waiter to wake without a signal; both loops look again.
SpuriousWakeup(t) == /\ t \in waitSet
                     /\ waitSet' = waitSet \ {t}
                     /\ UNCHANGED << buf, head, tail, offer >>

Produce(t) == EnqueueWaits(t) \/ EnqueuePuts(t)
Consume    == DequeueWaits \/ DequeueGets

Next == \/ \E t \in Producers : \/ Produce(t)
                                \/ \E e \in Events : Call(t, e)
        \/ Consume
        \/ \E t \in Threads : SpuriousWakeup(t)

(***************************************************************************)
(* A thread that is awake inside enqueue or dequeue gets the mutex after a *)
(* while.  Nothing forces a producer to call, or a sleeper to wake.        *)
(***************************************************************************)
Fairness == WF_vars(Consume) /\ \A t \in Producers : WF_vars(Produce(t))

Spec == Init /\ [][Next]_vars /\ Fairness

-----------------------------------------------------------------------------
(***************************************************************************)
(* The wakeup is never lost: pthread_cond_signal wakes ONE thread of a     *)
(* condition variable that producers and the consumer share (utils.c:63,   *)
(* 68 and 81, 86), so a signal meant for the monitor could be spent on a   *)
(* producer and leave everybody asleep.  While the ring has room for one   *)
(* event of every producer it does not happen: a sleeping monitor means an *)
(* empty ring and no sleeping producer.                                    *)
(***************************************************************************)
MonitorAsleepOnlyWhenIdle ==
    Monitor \in waitSet => Empty /\ waitSet = {Monitor}

(***************************************************************************)
(* Producers sleep only while there is at least one event in the ring for  *)
(* each of them, each of which wakes one of them when it is taken.         *)
(***************************************************************************)
OneEventPerSleeper == Cardinality(waitSet \ {Monitor}) <= Count

(***************************************************************************)
(* The ring implements the channel: the contents from head to tail, in     *)
(* order.  With the fairness of EventChannel this says, too, that every    *)
(* event put in the ring reaches the monitor.                              *)
(***************************************************************************)
Contents == [i \in 1 .. Count |-> buf[(head + i - 1) % MaxEvents]]

Channel == INSTANCE EventChannel WITH chan <- Contents

ImplementsChannel == Channel!Spec
=============================================================================
