-------------------------- MODULE EventQueueProofs --------------------------
(***************************************************************************)
(* Proofs about EventQueue, for every number of producers and every size   *)
(* of the ring that has room for one event of each producer.               *)
(***************************************************************************)
EXTENDS EventQueue, FiniteSetTheorems, SequenceTheorems, TLAPS

\* The ring has at least one usable slot, and sizes are numbers.
LEMMA Sizes == /\ Cardinality(Producers) \in Nat
               /\ MaxEvents \in Nat \ {0}
               /\ Capacity \in Nat
  <1>1. Cardinality(Producers) \in Nat
    BY FS_CardinalityType, ThreadsAreDistinct
  <1> QED
    BY <1>1, RoomForEveryProducer DEF Capacity

\* The next slot, without the remainder.
LEMMA NextSlot ==
  ASSUME NEW i \in Slots
  PROVE  /\ Next1(i) \in Slots
         /\ Next1(i) = IF i = MaxEvents - 1 THEN 0 ELSE i + 1
  BY Sizes DEF Slots, Next1

-----------------------------------------------------------------------------
\* How the number of events follows the two indices.
LEMMA CountRange ==
  ASSUME TypeOK
  PROVE  /\ Count \in 0 .. Capacity
         /\ Empty <=> Count = 0
         /\ Full <=> Count = Capacity
  <1>1. head \in Slots /\ tail \in Slots
    BY DEF TypeOK
  <1>2. Next1(tail) = IF tail = MaxEvents - 1 THEN 0 ELSE tail + 1
    BY <1>1, NextSlot
  <1> QED
    BY <1>1, <1>2, Sizes DEF Slots, Count, Empty, Full, Capacity

\* A set of sleeping producers is finite and has at most one member for
\* every slot the ring can fill.
LEMMA Sleepers ==
  ASSUME NEW S, S \subseteq Producers
  PROVE  /\ IsFiniteSet(S)
         /\ Cardinality(S) \in 0 .. Capacity
  <1>1. IsFiniteSet(S) /\ Cardinality(S) <= Cardinality(Producers)
    BY FS_Subset, ThreadsAreDistinct
  <1>2. Cardinality(S) \in Nat
    BY <1>1, FS_CardinalityType
  <1> QED
    BY <1>1, <1>2, Sizes, RoomForEveryProducer

\* Fewer sleepers, smaller cardinality.
LEMMA FewerSleepers ==
  ASSUME NEW S, S \subseteq Producers,
         NEW R, R \subseteq S
  PROVE  Cardinality(R) <= Cardinality(S)
  BY Sleepers, FS_Subset

-----------------------------------------------------------------------------
(***************************************************************************)
(* The ring stays well formed: indices are slots, slots hold events, only  *)
(* threads sleep, whatever the interleaving of enqueue and dequeue.        *)
(***************************************************************************)
THEOREM TypeCorrect == Spec => []TypeOK
  <1>1. Init => TypeOK
    BY Sizes DEF Init, TypeOK, Slots
  <1>2. TypeOK /\ [Next]_vars => TypeOK'
    <2> SUFFICES ASSUME TypeOK, [Next]_vars
                 PROVE  TypeOK'
      OBVIOUS
    <2>1. ASSUME NEW t \in Producers, NEW e \in Events, Call(t, e)
          PROVE  TypeOK'
      BY <2>1 DEF Call, TypeOK
    <2>2. ASSUME NEW t \in Producers, EnqueueWaits(t)
          PROVE  TypeOK'
      BY <2>2 DEF EnqueueWaits, Wait, Threads, TypeOK
    <2>3. ASSUME NEW t \in Producers, EnqueuePuts(t)
          PROVE  TypeOK'
      <3>1. waitSet' \subseteq Threads
        BY <2>3 DEF EnqueuePuts, Signal, TypeOK
      <3>2. tail' \in Slots
        BY <2>3, NextSlot DEF EnqueuePuts, TypeOK
      <3> QED
        BY <2>3, <3>1, <3>2 DEF EnqueuePuts, TypeOK
    <2>4. CASE DequeueWaits
      BY <2>4 DEF DequeueWaits, Wait, Threads, TypeOK
    <2>5. CASE DequeueGets
      <3>1. waitSet' \subseteq Threads
        BY <2>5 DEF DequeueGets, Signal, TypeOK
      <3>2. head' \in Slots
        BY <2>5, NextSlot DEF DequeueGets, TypeOK
      <3> QED
        BY <2>5, <3>1, <3>2 DEF DequeueGets, TypeOK
    <2>6. ASSUME NEW t \in Threads, SpuriousWakeup(t)
          PROVE  TypeOK'
      BY <2>6 DEF SpuriousWakeup, TypeOK
    <2>7. CASE UNCHANGED vars
      BY <2>7 DEF vars, TypeOK
    <2> QED
      BY <2>1, <2>2, <2>3, <2>4, <2>5, <2>6, <2>7 DEF Next, Produce, Consume
  <1> QED
    BY <1>1, <1>2, PTL DEF Spec

-----------------------------------------------------------------------------
(***************************************************************************)
(* No wakeup is lost.  The two halves need each other: the monitor may go  *)
(* to sleep on an empty ring only because no producer sleeps then, and a   *)
(* producer's signal reaches the sleeping monitor only because nobody else *)
(* is asleep to take it.                                                   *)
(***************************************************************************)
WakeupInv == MonitorAsleepOnlyWhenIdle /\ OneEventPerSleeper

LEMMA WakeupInvStep ==
  ASSUME TypeOK, TypeOK', WakeupInv, Next
  PROVE  WakeupInv'
  <1> USE DEF WakeupInv
  <1> DEFINE Asleep == waitSet \ {Monitor}
  <1>1. Asleep \subseteq Producers /\ Asleep' \subseteq Producers
    BY DEF TypeOK, Threads
  <1>2. /\ Cardinality(Asleep) \in 0 .. Capacity
        /\ Cardinality(Asleep') \in 0 .. Capacity
    BY <1>1, Sleepers
  <1>3. Count \in 0 .. Capacity /\ (Empty <=> Count = 0) /\ (Full <=> Count = Capacity)
    BY CountRange
  <1>4. /\ head \in Slots /\ tail \in Slots
        /\ Next1(head) = IF head = MaxEvents - 1 THEN 0 ELSE head + 1
        /\ Next1(tail) = IF tail = MaxEvents - 1 THEN 0 ELSE tail + 1
    BY NextSlot DEF TypeOK
  <1>5. ASSUME NEW t \in Producers, NEW e \in Events, Call(t, e)
        PROVE  WakeupInv'
    BY <1>5 DEF Call, MonitorAsleepOnlyWhenIdle, OneEventPerSleeper, Empty, Count
  <1>6. ASSUME NEW t \in Producers, EnqueueWaits(t)
        PROVE  WakeupInv'
    <2>1. Count' = Capacity
      BY <1>3, <1>6 DEF EnqueueWaits, Count
    <2>2. OneEventPerSleeper'
      BY <2>1, <1>2 DEF OneEventPerSleeper
    <2>3. {t} \subseteq Producers /\ Cardinality({t}) = 1
      BY FS_Singleton
    <2>4. Capacity # 0
      BY <2>3, Sleepers, Sizes
    <2>5. ~Empty
      BY <1>3, <1>6, <2>4 DEF EnqueueWaits
    <2>6. Monitor \notin waitSet'
      BY <1>6, <2>5, ThreadsAreDistinct DEF EnqueueWaits, Wait, MonitorAsleepOnlyWhenIdle
    <2> QED
      BY <2>2, <2>6 DEF MonitorAsleepOnlyWhenIdle
  <1>7. ASSUME NEW t \in Producers, EnqueuePuts(t)
        PROVE  WakeupInv'
    <2>1. Count' = Count + 1
      BY <1>3, <1>4, <1>7, Sizes DEF EnqueuePuts, Count, Full, Slots
    <2>2. Monitor \notin waitSet' /\ waitSet' \subseteq waitSet
      BY <1>7 DEF EnqueuePuts, Signal, MonitorAsleepOnlyWhenIdle
    <2>3. Cardinality(Asleep') <= Cardinality(Asleep)
      BY <2>2, <1>1, FewerSleepers
    <2>4. OneEventPerSleeper'
      BY <2>1, <2>3, <1>2, <1>3 DEF OneEventPerSleeper
    <2> QED
      BY <2>2, <2>4 DEF MonitorAsleepOnlyWhenIdle
  <1>8. CASE DequeueWaits
    <2>1. Count = 0 /\ Count' = 0 /\ Empty'
      BY <1>3, <1>8 DEF DequeueWaits, Count, Empty
    <2>2. Cardinality(Asleep) = 0
      BY <2>1, <1>2 DEF OneEventPerSleeper
    <2>3. Asleep = {}
      BY <2>2, <1>1, Sleepers, FS_EmptySet
    <2>4. waitSet' = {Monitor}
      BY <2>3, <1>8 DEF DequeueWaits, Wait
    <2>5. Asleep' = {}
      BY <2>4
    <2>6. Cardinality(Asleep') = 0
      BY <2>5, FS_EmptySet
    <2>7. OneEventPerSleeper'
      BY <2>1, <2>6 DEF OneEventPerSleeper
    <2> QED
      BY <2>1, <2>4, <2>7 DEF MonitorAsleepOnlyWhenIdle
  <1>9. CASE DequeueGets
    <2>1. Count' = Count - 1 /\ Count # 0
      BY <1>3, <1>4, <1>9, Sizes DEF DequeueGets, Count, Empty, Slots
    <2>2. Monitor \notin waitSet /\ Monitor \notin waitSet'
      BY <1>9 DEF DequeueGets, Signal
    <2>3. Asleep = waitSet /\ Asleep' = waitSet'
      BY <2>2
    <2>4. Cardinality(Asleep') <= Count - 1
      <3>1. CASE waitSet = {}
        BY <3>1, <2>1, <2>3, <1>3, <1>9, FS_EmptySet DEF DequeueGets, Signal
      <3>2. CASE waitSet # {}
        <4>1. PICK s \in Asleep : Asleep' = Asleep \ {s}
          BY <3>2, <2>3, <1>9 DEF DequeueGets, Signal
        <4>2. Cardinality(Asleep') = Cardinality(Asleep) - 1
          BY <4>1, <1>1, Sleepers, FS_RemoveElement
        <4> QED
          BY <4>2, <1>2, <1>3 DEF OneEventPerSleeper
      <3> QED
        BY <3>1, <3>2
    <2>5. OneEventPerSleeper'
      BY <2>1, <2>4 DEF OneEventPerSleeper
    <2> QED
      BY <2>2, <2>5 DEF MonitorAsleepOnlyWhenIdle
  <1>10. ASSUME NEW t \in Threads, SpuriousWakeup(t)
         PROVE  WakeupInv'
    <2>1. waitSet' \subseteq waitSet /\ Count' = Count
      BY <1>10 DEF SpuriousWakeup, Count
    <2>2. Cardinality(Asleep') <= Cardinality(Asleep)
      BY <2>1, <1>1, FewerSleepers
    <2>3. OneEventPerSleeper'
      BY <2>1, <2>2, <1>2, <1>3 DEF OneEventPerSleeper
    <2>4. MonitorAsleepOnlyWhenIdle'
      BY <1>10 DEF SpuriousWakeup, MonitorAsleepOnlyWhenIdle, Empty
    <2> QED
      BY <2>3, <2>4
  <1> QED
    BY <1>5, <1>6, <1>7, <1>8, <1>9, <1>10 DEF Next, Produce, Consume

(***************************************************************************)
(* A monitor that sleeps in dequeue sleeps on an empty ring with every     *)
(* producer awake, so the next enqueue wakes it; and there are never more  *)
(* producers asleep in enqueue than events whose removal will wake them.   *)
(***************************************************************************)
THEOREM NoLostWakeup == Spec => [](MonitorAsleepOnlyWhenIdle /\ OneEventPerSleeper)
  <1>1. Init => WakeupInv
    BY FS_EmptySet, Sizes
       DEF Init, WakeupInv, MonitorAsleepOnlyWhenIdle, OneEventPerSleeper, Count, Empty
  <1>2. TypeOK /\ TypeOK' /\ WakeupInv /\ [Next]_vars => WakeupInv'
    <2>1. CASE Next
      BY <2>1, WakeupInvStep
    <2>2. CASE UNCHANGED vars
      BY <2>2 DEF vars, WakeupInv, MonitorAsleepOnlyWhenIdle, OneEventPerSleeper, Count, Empty
    <2> QED
      BY <2>1, <2>2
  <1> QED
    BY <1>1, <1>2, TypeCorrect, PTL DEF Spec, WakeupInv

(***************************************************************************)
(* Producers sleep in enqueue only while there is an event in the ring for *)
(* each of them, whose removal signals the condition variable: the bound   *)
(* on the producers (201 of them for 1023 events) is all that it rests on. *)
(***************************************************************************)
THEOREM EventForEverySleeper == Spec => []OneEventPerSleeper
  BY NoLostWakeup, PTL

-----------------------------------------------------------------------------
\* A slot at most one turn ahead, without the remainder.
LEMMA Wrapped ==
  ASSUME NEW n \in 0 .. 2 * MaxEvents - 1
  PROVE  n % MaxEvents = IF n < MaxEvents THEN n ELSE n - MaxEvents
  BY Sizes

\* The contents are a sequence of what the slots may hold.
Cells == Events \cup {None}

ReadFromHead ==
  /\ Contents \in Seq(Cells)
  /\ Len(Contents) = Count
  /\ \A i \in 1 .. Count :
        Contents[i] = buf[IF head + i - 1 < MaxEvents THEN head + i - 1
                                                    ELSE head + i - 1 - MaxEvents]

LEMMA ContentsAreASequence == TypeOK => ReadFromHead
  <1> SUFFICES ASSUME TypeOK PROVE ReadFromHead
    OBVIOUS
  <1>1. Count \in 0 .. Capacity /\ head \in Slots
    BY CountRange DEF TypeOK
  <1>2. ASSUME NEW i \in 1 .. Count
        PROVE  /\ (head + i - 1) % MaxEvents = IF head + i - 1 < MaxEvents
                                               THEN head + i - 1 ELSE head + i - 1 - MaxEvents
               /\ (head + i - 1) % MaxEvents \in Slots
    <2>1. head + i - 1 \in 0 .. 2 * MaxEvents - 1
      BY <1>1, Sizes DEF Slots, Capacity
    <2> QED
      BY <1>1, <2>1, Wrapped, Sizes DEF Slots
  <1>3. \A i \in 1 .. Count : buf[(head + i - 1) % MaxEvents] \in Cells
    BY <1>2 DEF TypeOK, Cells
  <1>4. Contents \in [1 .. Count -> Cells]
    BY <1>3 DEF Contents
  <1>5. Count \in Nat
    BY <1>1, Sizes
  <1>6. Contents \in Seq(Cells) /\ Len(Contents) = Count
    BY <1>4, <1>5
  <1> QED
    BY <1>2, <1>6 DEF Contents, ReadFromHead

\* Storing at the tail appends, and disturbs nothing that is in the ring.
LEMMA PutAppends ==
  ASSUME TypeOK, TypeOK', NEW t \in Producers, EnqueuePuts(t)
  PROVE  Channel!Send(offer[t])
  <1>1. /\ head \in Slots /\ tail \in Slots /\ Count \in 0 .. Capacity
        /\ Full <=> Count = Capacity
        /\ Next1(tail) = IF tail = MaxEvents - 1 THEN 0 ELSE tail + 1
    BY CountRange, NextSlot DEF TypeOK
  <1>2. /\ buf' = [buf EXCEPT ![tail] = offer[t]] /\ tail' = Next1(tail) /\ head' = head
        /\ Count # Capacity
    BY <1>1 DEF EnqueuePuts
  <1>3. Count' = Count + 1
    BY <1>1, <1>2, Sizes DEF Count, Slots, Capacity
  <1>4. offer[t] \in Cells
    BY DEF TypeOK, Cells
  <1>5. /\ Contents' \in Seq(Cells) /\ Len(Contents') = Count + 1
        /\ \A i \in 1 .. Count + 1 :
              Contents'[i] = buf'[IF head + i - 1 < MaxEvents THEN head + i - 1
                                                             ELSE head + i - 1 - MaxEvents]
    <2>1. ReadFromHead'
      BY ContentsAreASequence, PTL
    <2> QED
      BY <1>2, <1>3, <2>1 DEF ReadFromHead
  <1>6. /\ Append(Contents, offer[t]) \in Seq(Cells)
        /\ Len(Append(Contents, offer[t])) = Count + 1
        /\ \A i \in 1 .. Count : Append(Contents, offer[t])[i] = Contents[i]
        /\ Append(Contents, offer[t])[Count + 1] = offer[t]
    BY <1>4, ContentsAreASequence, AppendProperties DEF ReadFromHead
  <1>7. ASSUME NEW i \in 1 .. Count + 1
        PROVE  Contents'[i] = Append(Contents, offer[t])[i]
    <2> DEFINE cell == IF head + i - 1 < MaxEvents THEN head + i - 1 ELSE head + i - 1 - MaxEvents
    <2>1. cell \in Slots
      BY <1>1, <1>2, Sizes DEF Slots, Capacity
    <2>2. cell = tail <=> i = Count + 1
      BY <1>1, <1>2, Sizes DEF Slots, Capacity, Count
    <2>3. Contents'[i] = IF i = Count + 1 THEN offer[t] ELSE buf[cell]
      BY <1>2, <1>5, <2>1, <2>2 DEF TypeOK
    <2>4. CASE i = Count + 1
      BY <1>6, <2>3, <2>4
    <2>5. CASE i # Count + 1
      <3>1. i \in 1 .. Count
        BY <1>1, <2>5
      <3> QED
        BY <1>6, <2>3, <2>5, <3>1, ContentsAreASequence DEF ReadFromHead
    <2> QED
      BY <2>4, <2>5
  <1>8. Contents' = Append(Contents, offer[t])
    BY <1>5, <1>6, <1>7, SeqEqual
  <1> QED
    BY <1>1, <1>2, <1>8, Sizes, ContentsAreASequence DEF Channel!Send, ReadFromHead

\* Moving the head takes the first.
LEMMA GetTakesTheFirst ==
  ASSUME TypeOK, TypeOK', DequeueGets
  PROVE  Channel!Receive
  <1>1. /\ head \in Slots /\ tail \in Slots /\ Count \in 0 .. Capacity
        /\ Empty <=> Count = 0
        /\ Next1(head) = IF head = MaxEvents - 1 THEN 0 ELSE head + 1
    BY CountRange, NextSlot DEF TypeOK
  <1>2. head' = Next1(head) /\ buf' = buf /\ tail' = tail /\ Count # 0
    BY <1>1 DEF DequeueGets
  <1>3. Count' = Count - 1
    BY <1>1, <1>2, Sizes DEF Count, Slots, Capacity
  <1>4. Contents # << >>
    BY <1>2, ContentsAreASequence, EmptySeq DEF ReadFromHead
  <1>5. /\ Contents' \in Seq(Cells) /\ Len(Contents') = Count - 1
        /\ \A i \in 1 .. Count - 1 :
              Contents'[i] = buf[IF head' + i - 1 < MaxEvents THEN head' + i - 1
                                                             ELSE head' + i - 1 - MaxEvents]
    <2>1. ReadFromHead'
      BY ContentsAreASequence, PTL
    <2> QED
      BY <1>2, <1>3, <2>1 DEF ReadFromHead
  <1>6. /\ Tail(Contents) \in Seq(Cells) /\ Len(Tail(Contents)) = Count - 1
        /\ \A i \in 1 .. Count - 1 : Tail(Contents)[i] = Contents[i + 1]
    BY <1>4, ContentsAreASequence, HeadTailProperties DEF ReadFromHead
  <1>7. ASSUME NEW i \in 1 .. Count - 1
        PROVE  Contents'[i] = Tail(Contents)[i]
    <2>1. i + 1 \in 1 .. Count
      BY <1>1
    <2>2. (IF head' + i - 1 < MaxEvents THEN head' + i - 1 ELSE head' + i - 1 - MaxEvents)
          = IF head + (i + 1) - 1 < MaxEvents THEN head + (i + 1) - 1
                                              ELSE head + (i + 1) - 1 - MaxEvents
      BY <1>1, <1>2, Sizes DEF Slots, Capacity
    <2>3. Contents[i + 1] = buf[IF head + (i + 1) - 1 < MaxEvents THEN head + (i + 1) - 1
                                                     ELSE head + (i + 1) - 1 - MaxEvents]
      BY <2>1, ContentsAreASequence DEF ReadFromHead
    <2> QED
      BY <1>5, <1>6, <2>2, <2>3
  <1>8. Contents' = Tail(Contents)
    BY <1>5, <1>6, <1>7, SeqEqual
  <1> QED
    BY <1>4, <1>8 DEF Channel!Receive

(***************************************************************************)
(* Nothing is lost, doubled or overtaken: the ring, read from head to tail *)
(* and however often the indices have gone round, is a FIFO channel, for   *)
(* every size (enqueue and dequeue, utils.c:58).  This is the safety half  *)
(* of ImplementsChannel; that what is sent is received is left to TLC.     *)
(***************************************************************************)
THEOREM RingIsFifo == Spec => Channel!Init /\ [][Channel!Next]_Contents
  <1>1. Init => Channel!Init
    <2> SUFFICES ASSUME Init PROVE Contents = << >>
      BY DEF Channel!Init
    <2>1. TypeOK /\ Count = 0
      BY Sizes DEF Init, TypeOK, Slots, Count
    <2> QED
      BY <2>1, ContentsAreASequence, EmptySeq DEF ReadFromHead
  <1>2. TypeOK /\ TypeOK' /\ [Next]_vars => [Channel!Next]_Contents
    <2> SUFFICES ASSUME TypeOK, TypeOK', [Next]_vars
                 PROVE  Channel!Next \/ Contents' = Contents
      OBVIOUS
    <2>1. ASSUME UNCHANGED << buf, head, tail >>
          PROVE  Contents' = Contents
      BY <2>1 DEF Contents, Count
    <2>2. ASSUME NEW t \in Producers, EnqueuePuts(t)
          PROVE  Channel!Next
      <3>1. offer[t] \in Events
        BY <2>2 DEF EnqueuePuts, TypeOK
      <3> QED
        BY <2>2, <3>1, PutAppends DEF Channel!Next
    <2>3. CASE DequeueGets
      BY <2>3, GetTakesTheFirst DEF Channel!Next
    <2>4. ASSUME NEW t \in Producers, EnqueueWaits(t) \/ \E e \in Events : Call(t, e)
          PROVE  Contents' = Contents
      BY <2>1, <2>4 DEF EnqueueWaits, Call
    <2>5. ASSUME NEW t \in Threads, SpuriousWakeup(t)
          PROVE  Contents' = Contents
      BY <2>1, <2>5 DEF SpuriousWakeup
    <2>6. CASE DequeueWaits \/ UNCHANGED vars
      BY <2>1, <2>6 DEF DequeueWaits, vars
    <2> QED
      BY <2>2, <2>3, <2>4, <2>5, <2>6 DEF Next, Produce, Consume
  <1> QED
    BY <1>1, <1>2, TypeCorrect, PTL DEF Spec
=============================================================================
