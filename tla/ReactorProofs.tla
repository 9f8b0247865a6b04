---------------------------- MODULE ReactorProofs ----------------------------
(***************************************************************************)
(* Proofs about Reactor, for every set of clients and every number of      *)
(* descriptors and reactors.                                               *)
(***************************************************************************)
EXTENDS Reactor, FiniteSetTheorems, TLAPS

(***************************************************************************)
(* The inductive invariant.  That the callbacks of a descriptor point to   *)
(* its owner follows a client from the backlog through a queue to a table: *)
(* at each stop it must be in no other place, or the descriptor that one   *)
(* place closes would still be served from another.                        *)
(***************************************************************************)
Types == /\ toCome \subseteq Clients /\ backlog \subseteq Clients
         /\ fd \in [Clients -> Fds \cup {0}]
         /\ turn \in Reactors
         /\ queue \in [Reactors -> Seq(Clients)]
         /\ connections \in [Reactors -> [Fds -> Clients \cup {NoClient}]]
         /\ callbacks \in [Reactors -> [Fds -> Clients \cup {NoClient}]]
         /\ registered \in [Reactors -> SUBSET Fds]
         /\ batch = [t \in Threads |-> batch[t]]

\* Who is still to be accepted has no descriptor.
NotAcceptedYet == /\ toCome \cap backlog = {}
                  /\ \A c \in toCome \cup backlog : fd[c] = 0

\* A descriptor has one owner.
OneClientPerFd == \A c, d \in Clients : fd[c] # 0 /\ fd[c] = fd[d] => c = d

\* Who is in a queue has a descriptor, is there once, and in no table.
QueuedOnce ==
    \A r \in Reactors : \A m \in 1 .. Len(queue[r]) :
        /\ fd[queue[r][m]] # 0
        /\ \A s \in Reactors : \A n \in 1 .. Len(queue[s]) :
              queue[s][n] = queue[r][m] => s = r /\ n = m
        /\ \A s \in Reactors, f \in Fds : connections[s][f] # queue[r][m]

\* A live Connection owns the descriptor it is filed under, which is in the
\* epoll set with its callbacks, and is filed by one reactor.
FiledOnce ==
    \A r \in Reactors, f \in Fds :
        connections[r][f] # NoClient =>
            /\ fd[connections[r][f]] = f
            /\ f \in registered[r]
            /\ callbacks[r][f] = connections[r][f]
            /\ \A s \in Reactors : connections[s][f] = connections[r][f] => s = r

\* Nothing else is in the epoll set or in a batch.
OnlyFiled ==
    \A r \in Reactors :
        /\ batch[r] \subseteq registered[r]
        /\ \A f \in registered[r] : connections[r][f] # NoClient

Bookkeeping == /\ Types /\ NotAcceptedYet /\ OneClientPerFd
               /\ QueuedOnce /\ FiledOnce /\ OnlyFiled

-----------------------------------------------------------------------------
LEMMA MainIsNoReactor == Main \notin Reactors /\ Reactors \subseteq Threads /\ Main \in Threads
  BY Sizes DEF Main, Reactors, Threads

LEMMA ZeroIsNoFd == 0 \notin Fds
  BY DEF Fds

(***************************************************************************)
(* Initially no client has a descriptor and all tables are empty.          *)
(***************************************************************************)
LEMMA BookkeepingInit == Init => Bookkeeping
  <1> SUFFICES ASSUME Init PROVE Bookkeeping
    OBVIOUS
  <1> USE DEF Init
  <1>1. Types
    <2>1. turn \in Reactors
      BY Sizes DEF Reactors
    <2>2. queue \in [Reactors -> Seq(Clients)]
      OBVIOUS
    <2>3. batch = [t \in Threads |-> batch[t]]
      OBVIOUS
    <2> QED
      BY <2>1, <2>2, <2>3 DEF Types
  <1>2. NotAcceptedYet /\ OneClientPerFd
    BY DEF NotAcceptedYet, OneClientPerFd
  <1>3. QueuedOnce
    BY DEF QueuedOnce
  <1>4. FiledOnce /\ OnlyFiled
    BY MainIsNoReactor DEF FiledOnce, OnlyFiled
  <1> QED
    BY <1>1, <1>2, <1>3, <1>4 DEF Bookkeeping

(***************************************************************************)
(* Steps that touch none of the queues and tables may at most empty a      *)
(* batch or fill it from the epoll set.                                    *)
(***************************************************************************)
LEMMA BookkeepingKept ==
  ASSUME Bookkeeping,
         UNCHANGED << fd, queue, turn, tables >>,
         toCome' \cup backlog' \subseteq toCome \cup backlog,
         toCome' \cap backlog' = {},
         batch' = [t \in Threads |-> batch'[t]],
         \A r \in Reactors : batch'[r] \subseteq registered[r]
  PROVE  Bookkeeping'
  <1> USE DEF Bookkeeping, tables
  <1>1. Types'
    BY DEF Types
  <1>2. NotAcceptedYet' /\ OneClientPerFd'
    BY DEF NotAcceptedYet, OneClientPerFd
  <1>3. QueuedOnce'
    BY DEF QueuedOnce
  <1>4. FiledOnce' /\ OnlyFiled'
    BY DEF FiledOnce, OnlyFiled
  <1> QED
    BY <1>1, <1>2, <1>3, <1>4

(***************************************************************************)
(* A client that is accepted comes from the backlog, where it had no       *)
(* descriptor and so was in no queue and no table; what it gets nobody has. *)
(***************************************************************************)
LEMMA AcceptKeepsBooks ==
  ASSUME Bookkeeping, Accept
  PROVE  Bookkeeping'
  <1> USE DEF Bookkeeping
  <1>1. PICK c \in backlog, f \in FreeFds :
           /\ backlog' = backlog \ {c}
           /\ fd' = [fd EXCEPT ![c] = f]
           /\ queue' = [queue EXCEPT ![turn] = Append(@, c)]
    BY DEF Accept
  <1>2. /\ c \in Clients /\ fd[c] = 0 /\ turn \in Reactors
        /\ f \in Fds /\ f # 0 /\ \A d \in Clients : fd[d] # f
    BY <1>1, ZeroIsNoFd DEF Types, NotAcceptedYet, FreeFds
  <1>3. UNCHANGED << toCome, tables, batch >>
    BY DEF Accept, loops
  <1>4. Types'
    <2>1. turn' \in Reactors
      BY Sizes DEF Accept, NextTurn, Reactors, Types
    <2>2. Append(queue[turn], c) \in Seq(Clients)
      BY <1>2 DEF Types
    <2>3. queue' \in [Reactors -> Seq(Clients)]
      BY <1>1, <2>2 DEF Types
    <2> QED
      BY <1>1, <1>2, <1>3, <2>1, <2>3 DEF Types, tables
  <1>5. NotAcceptedYet'
    BY <1>1, <1>2, <1>3 DEF NotAcceptedYet, Types
  <1>6. OneClientPerFd'
    BY <1>1, <1>2 DEF OneClientPerFd, Types
  <1>7. /\ \A r \in Reactors : \A n \in 1 .. Len(queue[r]) : queue[r][n] # c
        /\ \A r \in Reactors, g \in Fds : connections[r][g] # c
    BY <1>2, ZeroIsNoFd, NoClientIsNone DEF QueuedOnce, FiledOnce
  <1>8. QueuedOnce'
    <2>1. \A r \in Reactors : r # turn => queue'[r] = queue[r]
      BY <1>1 DEF Types
    <2>2. /\ Len(queue'[turn]) = Len(queue[turn]) + 1
          /\ \A n \in 1 .. Len(queue[turn]) : queue'[turn][n] = queue[turn][n]
          /\ queue'[turn][Len(queue[turn]) + 1] = c
      BY <1>1, <1>2 DEF Types
    <2>3. \A r \in Reactors : Len(queue[r]) \in Nat
      BY DEF Types
    <2>4. \A r \in Reactors : \A n \in 1 .. Len(queue[r]) : queue[r][n] \in Clients
      BY DEF Types
    <2>5. \A r \in Reactors : \A n \in 1 .. Len(queue'[r]) :
             \/ n \in 1 .. Len(queue[r]) /\ queue'[r][n] = queue[r][n]
             \/ r = turn /\ n = Len(queue[turn]) + 1 /\ queue'[r][n] = c
      BY <2>1, <2>2, <2>3
    <2>6. \A d \in Clients : fd[d] # 0 \/ d = c => fd'[d] # 0
      BY <1>1, <1>2 DEF Types
    <2> SUFFICES ASSUME NEW r \in Reactors, NEW m \in 1 .. Len(queue'[r])
                 PROVE  /\ fd'[queue'[r][m]] # 0
                        /\ \A s \in Reactors : \A n \in 1 .. Len(queue'[s]) :
                              queue'[s][n] = queue'[r][m] => s = r /\ n = m
                        /\ \A s \in Reactors, g \in Fds : connections'[s][g] # queue'[r][m]
      BY DEF QueuedOnce
    <2>7. fd'[queue'[r][m]] # 0
      BY <1>2, <2>4, <2>5, <2>6 DEF QueuedOnce
    <2>8. ASSUME NEW s \in Reactors, NEW n \in 1 .. Len(queue'[s]),
                 queue'[s][n] = queue'[r][m]
          PROVE  s = r /\ n = m
      <3>1. CASE queue'[r][m] = c
        BY <1>7, <2>5, <2>8, <3>1
      <3>2. CASE queue'[r][m] # c
        <4>1. m \in 1 .. Len(queue[r]) /\ queue'[r][m] = queue[r][m]
          BY <2>5, <3>2
        <4>2. n \in 1 .. Len(queue[s]) /\ queue'[s][n] = queue[s][n]
          BY <2>5, <2>8, <3>2
        <4> QED
          BY <2>8, <4>1, <4>2 DEF QueuedOnce
      <3> QED
        BY <3>1, <3>2
    <2>9. \A s \in Reactors, g \in Fds : connections'[s][g] # queue'[r][m]
      BY <1>3, <1>7, <2>5 DEF QueuedOnce, tables
    <2> QED
      BY <2>7, <2>8, <2>9
  <1>9. FiledOnce'
    BY <1>1, <1>2, <1>3, <1>7 DEF FiledOnce, Types, tables
  <1>10. OnlyFiled'
    BY <1>3 DEF OnlyFiled, tables
  <1> QED
    BY <1>4, <1>5, <1>6, <1>8, <1>9, <1>10

(***************************************************************************)
(* What is taken from the head of a queue is in no queue any more, and the *)
(* others keep their order.                                                *)
(***************************************************************************)
LEMMA TakenFromQueue ==
  ASSUME Bookkeeping, NEW r \in Reactors, queue[r] # << >>,
         queue' = [queue EXCEPT ![r] = LeftByPop(@)]
  PROVE  /\ queue' \in [Reactors -> Seq(Clients)]
         /\ Head(queue[r]) = queue[r][1] /\ 1 \in 1 .. Len(queue[r])
         /\ Head(queue[r]) \in Clients
         /\ \A s \in Reactors : \A n \in 1 .. Len(queue'[s]) :
               /\ s # r => n \in 1 .. Len(queue[s]) /\ queue'[s][n] = queue[s][n]
               /\ s = r => n + 1 \in 1 .. Len(queue[s]) /\ queue'[s][n] = queue[s][n + 1]
         /\ \A s \in Reactors : \A n \in 1 .. Len(queue'[s]) : queue'[s][n] # Head(queue[r])
  <1> USE DEF Bookkeeping
  <1>1. queue[r] \in Seq(Clients) /\ Len(queue[r]) \in Nat \ {0}
    BY DEF Types
  <1>2. Tail(queue[r]) \in Seq(Clients)
    BY <1>1
  <1>3. queue' \in [Reactors -> Seq(Clients)]
    BY <1>2 DEF Types, LeftByPop
  <1>4. Head(queue[r]) = queue[r][1] /\ 1 \in 1 .. Len(queue[r]) /\ Head(queue[r]) \in Clients
    BY <1>1
  <1>5. \A s \in Reactors : s # r => queue'[s] = queue[s]
    BY DEF Types
  <1>6. /\ Len(queue'[r]) = Len(queue[r]) - 1
        /\ \A n \in 1 .. Len(queue'[r]) : queue'[r][n] = queue[r][n + 1]
    BY <1>1 DEF Types, LeftByPop
  <1>7. \A s \in Reactors : \A n \in 1 .. Len(queue'[s]) :
           /\ s # r => n \in 1 .. Len(queue[s]) /\ queue'[s][n] = queue[s][n]
           /\ s = r => n + 1 \in 1 .. Len(queue[s]) /\ queue'[s][n] = queue[s][n + 1]
    BY <1>1, <1>5, <1>6
  <1>8. ASSUME NEW s \in Reactors, NEW n \in 1 .. Len(queue'[s]), queue'[s][n] = Head(queue[r])
        PROVE  FALSE
    <2>1. CASE s # r
      BY <1>4, <1>7, <1>8, <2>1 DEF QueuedOnce
    <2>2. CASE s = r
      <3>1. n + 1 \in 1 .. Len(queue[r]) /\ queue[r][n + 1] = queue[r][1]
        BY <1>4, <1>7, <1>8, <2>2
      <3>2. n + 1 = 1
        BY <1>4, <3>1 DEF QueuedOnce
      <3> QED
        BY <3>2
    <2> QED
      BY <2>1, <2>2
  <1> QED
    BY <1>3, <1>4, <1>7, <1>8

(***************************************************************************)
(* A reactor that takes over a client files it with the callbacks that     *)
(* point to it, or closes its descriptor: the entry of the table is free,  *)
(* since only the owner of a descriptor is filed under it.                 *)
(***************************************************************************)
LEMMA NewConnectionKeepsBooks ==
  ASSUME Bookkeeping, NEW r \in Reactors, OnNewConnection(r)
  PROVE  Bookkeeping'
  <1> USE DEF Bookkeeping
  <1> DEFINE c == Head(queue[r])
             f == fd[c]
  <1>1. queue[r] # << >> /\ queue' = [queue EXCEPT ![r] = LeftByPop(@)]
    BY DEF OnNewConnection
  <1>2. /\ queue' \in [Reactors -> Seq(Clients)]
        /\ c = queue[r][1] /\ 1 \in 1 .. Len(queue[r])
        /\ c \in Clients
        /\ \A s \in Reactors : \A n \in 1 .. Len(queue'[s]) :
              /\ s # r => n \in 1 .. Len(queue[s]) /\ queue'[s][n] = queue[s][n]
              /\ s = r => n + 1 \in 1 .. Len(queue[s]) /\ queue'[s][n] = queue[s][n + 1]
        /\ \A s \in Reactors : \A n \in 1 .. Len(queue'[s]) : queue'[s][n] # c
    BY <1>1, TakenFromQueue
  <1>9. f = fd[c]
    OBVIOUS
  <1>10. \/ /\ connections' = [connections EXCEPT ![r][f] = c]
            /\ callbacks' = CallbacksFor(r, f, c)
            /\ registered' = [registered EXCEPT ![r] = @ \cup {f}]
            /\ UNCHANGED fd
         \/ /\ connections' = [connections EXCEPT ![r][f] = NoClient]
            /\ callbacks' \in {callbacks, CallbacksFor(r, f, c)}
            /\ fd' = [fd EXCEPT ![c] = 0]
            /\ UNCHANGED registered
    BY DEF OnNewConnection
  <1> HIDE DEF c, f
  <1>3. UNCHANGED << toCome, backlog, turn, batch >>
    BY DEF OnNewConnection
  <1>4. /\ f \in Fds /\ f # 0
        /\ \A s \in Reactors, g \in Fds : connections[s][g] # c
    <2>1. fd[c] # 0 /\ \A s \in Reactors, g \in Fds : connections[s][g] # c
      BY <1>2 DEF QueuedOnce
    <2>2. fd[c] \in Fds \cup {0}
      BY <1>2 DEF Types
    <2> QED
      BY <1>9, <2>1, <2>2
  <1>5. \A s \in Reactors : connections[s][f] = NoClient
    BY <1>2, <1>4, <1>9 DEF FiledOnce, OneClientPerFd, Types
  <1>6. \A s \in Reactors : f \notin registered[s]
    BY <1>5 DEF OnlyFiled
  <1>7. CASE /\ connections' = [connections EXCEPT ![r][f] = c]
             /\ callbacks' = CallbacksFor(r, f, c)
             /\ registered' = [registered EXCEPT ![r] = @ \cup {f}]
             /\ UNCHANGED fd
    <2> USE <1>7 DEF CallbacksFor
    <2>1. Types'
      BY <1>2, <1>3, <1>4 DEF Types
    <2>2. NotAcceptedYet' /\ OneClientPerFd'
      BY <1>3 DEF NotAcceptedYet, OneClientPerFd
    <2>3. \A s \in Reactors, g \in Fds :
             /\ s = r /\ g = f => connections'[s][g] = c /\ callbacks'[s][g] = c
             /\ s # r \/ g # f => /\ connections'[s][g] = connections[s][g]
                                  /\ callbacks'[s][g] = callbacks[s][g]
      BY <1>4 DEF Types
    <2>4. \A s \in Reactors : registered'[s] = IF s = r THEN registered[s] \cup {f} ELSE registered[s]
      BY DEF Types
    <2>5. QueuedOnce'
      <3> SUFFICES ASSUME NEW s \in Reactors, NEW m \in 1 .. Len(queue'[s])
                   PROVE  /\ fd'[queue'[s][m]] # 0
                          /\ \A t \in Reactors : \A n \in 1 .. Len(queue'[t]) :
                                queue'[t][n] = queue'[s][m] => t = s /\ n = m
                          /\ \A t \in Reactors, g \in Fds : connections'[t][g] # queue'[s][m]
        BY DEF QueuedOnce
      <3>1. fd'[queue'[s][m]] # 0
        <4>1. CASE s = r
          <5>1. m + 1 \in 1 .. Len(queue[r]) /\ queue'[s][m] = queue[r][m + 1]
            BY <1>2, <4>1
          <5> QED
            BY <5>1 DEF QueuedOnce
        <4>2. CASE s # r
          BY <1>2, <4>2 DEF QueuedOnce
        <4> QED
          BY <4>1, <4>2
      <3>2. ASSUME NEW t \in Reactors, NEW n \in 1 .. Len(queue'[t]), queue'[t][n] = queue'[s][m]
            PROVE  t = s /\ n = m
        BY <1>2, <3>2 DEF QueuedOnce
      <3>3. \A t \in Reactors, g \in Fds : connections'[t][g] # queue'[s][m]
        BY <1>2, <2>3 DEF QueuedOnce
      <3> QED
        BY <3>1, <3>2, <3>3
    <2>6. FiledOnce'
      <3> SUFFICES ASSUME NEW s \in Reactors, NEW g \in Fds, connections'[s][g] # NoClient
                   PROVE  /\ fd[connections'[s][g]] = g
                          /\ g \in registered'[s]
                          /\ callbacks'[s][g] = connections'[s][g]
                          /\ \A t \in Reactors : connections'[t][g] = connections'[s][g] => t = s
        BY DEF FiledOnce
      <3>1. CASE s = r /\ g = f
        BY <1>4, <1>9, <2>3, <2>4, <3>1
      <3>2. CASE g = f /\ s # r
        BY <1>5, <2>3, <3>2
      <3>3. CASE g # f
        <4>1. \A t \in Reactors : connections'[t][g] = connections[t][g]
          BY <2>3, <3>3
        <4>2. callbacks'[s][g] = callbacks[s][g] /\ registered[s] \subseteq registered'[s]
          BY <2>3, <2>4, <3>3
        <4> QED
          BY <4>1, <4>2 DEF FiledOnce
      <3> QED
        BY <3>1, <3>2, <3>3
    <2>7. OnlyFiled'
      <3> SUFFICES ASSUME NEW s \in Reactors
                   PROVE  /\ batch[s] \subseteq registered'[s]
                          /\ \A g \in registered'[s] : connections'[s][g] # NoClient
        BY <1>3 DEF OnlyFiled
      <3>1. registered[s] \subseteq registered'[s] /\ registered'[s] \subseteq Fds
        BY <1>4, <2>4 DEF Types
      <3>2. batch[s] \subseteq registered'[s]
        BY <3>1 DEF OnlyFiled
      <3>3. ASSUME NEW g \in registered'[s] PROVE connections'[s][g] # NoClient
        <4>1. CASE s = r /\ g = f
          BY <1>2, <1>4, <2>3, <4>1, NoClientIsNone
        <4>2. CASE ~(s = r /\ g = f)
          BY <2>3, <2>4, <3>1, <4>2 DEF OnlyFiled
        <4> QED
          BY <4>1, <4>2
      <3> QED
        BY <3>2, <3>3
    <2> QED
      BY <2>1, <2>2, <2>5, <2>6, <2>7
  <1>8. CASE /\ connections' = [connections EXCEPT ![r][f] = NoClient]
             /\ callbacks' \in {callbacks, CallbacksFor(r, f, c)}
             /\ fd' = [fd EXCEPT ![c] = 0]
             /\ UNCHANGED registered
    <2> USE <1>8 DEF CallbacksFor
    <2>1. Types'
      <3>1. fd' \in [Clients -> Fds \cup {0}]
        BY DEF Types
      <3>2. connections' \in [Reactors -> [Fds -> Clients \cup {NoClient}]]
        BY <1>4 DEF Types
      <3>3. callbacks' \in [Reactors -> [Fds -> Clients \cup {NoClient}]]
        <4>1. CASE callbacks' = callbacks
          BY <4>1 DEF Types
        <4>2. CASE callbacks' = [callbacks EXCEPT ![r][f] = c]
          BY <1>2, <1>4, <4>2 DEF Types
        <4> QED
          BY <4>1, <4>2
      <3> QED
        BY <1>2, <1>3, <3>1, <3>2, <3>3 DEF Types
    <2>2. NotAcceptedYet' /\ OneClientPerFd'
      BY <1>2, <1>3 DEF NotAcceptedYet, OneClientPerFd, Types
    <2>3. /\ connections' = connections
          /\ \A s \in Reactors, g \in Fds : g # f => callbacks'[s][g] = callbacks[s][g]
      <3>1. connections' = connections
        BY <1>4, <1>5 DEF Types
      <3>2. \A s \in Reactors, g \in Fds : g # f => callbacks'[s][g] = callbacks[s][g]
        <4>1. CASE callbacks' = callbacks
          BY <4>1
        <4>2. CASE callbacks' = [callbacks EXCEPT ![r][f] = c]
          BY <1>4, <4>2 DEF Types
        <4> QED
          BY <4>1, <4>2
      <3> QED
        BY <3>1, <3>2
    <2>4. \A d \in Clients : d # c => fd'[d] = fd[d]
      BY DEF Types
    <2>5. QueuedOnce'
      <3> SUFFICES ASSUME NEW s \in Reactors, NEW m \in 1 .. Len(queue'[s])
                   PROVE  /\ fd'[queue'[s][m]] # 0
                          /\ \A t \in Reactors : \A n \in 1 .. Len(queue'[t]) :
                                queue'[t][n] = queue'[s][m] => t = s /\ n = m
                          /\ \A t \in Reactors, g \in Fds : connections'[t][g] # queue'[s][m]
        BY DEF QueuedOnce
      <3>1. queue'[s][m] \in Clients
        BY <1>2
      <3>2. fd'[queue'[s][m]] # 0
        <4>1. fd'[queue'[s][m]] = fd[queue'[s][m]]
          BY <1>2, <2>4, <3>1
        <4>2. fd[queue'[s][m]] # 0
          <5>1. CASE s = r
            <6>1. m + 1 \in 1 .. Len(queue[r]) /\ queue'[s][m] = queue[r][m + 1]
              BY <1>2, <5>1
            <6> QED
              BY <6>1 DEF QueuedOnce
          <5>2. CASE s # r
            BY <1>2, <5>2 DEF QueuedOnce
          <5> QED
            BY <5>1, <5>2
        <4> QED
          BY <4>1, <4>2
      <3>3. ASSUME NEW t \in Reactors, NEW n \in 1 .. Len(queue'[t]), queue'[t][n] = queue'[s][m]
            PROVE  t = s /\ n = m
        BY <1>2, <3>3 DEF QueuedOnce
      <3>4. \A t \in Reactors, g \in Fds : connections'[t][g] # queue'[s][m]
        BY <1>2, <2>3 DEF QueuedOnce
      <3> QED
        BY <3>2, <3>3, <3>4
    <2>6. FiledOnce'
      <3> SUFFICES ASSUME NEW s \in Reactors, NEW g \in Fds, connections[s][g] # NoClient
                   PROVE  /\ fd'[connections[s][g]] = g
                          /\ g \in registered[s]
                          /\ callbacks'[s][g] = connections[s][g]
                          /\ \A t \in Reactors : connections[t][g] = connections[s][g] => t = s
        BY <2>3 DEF FiledOnce
      <3>1. connections[s][g] \in Clients /\ connections[s][g] # c /\ g # f
        BY <1>4, <1>5 DEF Types
      <3> QED
        BY <2>3, <2>4, <3>1 DEF FiledOnce
    <2>7. OnlyFiled'
      BY <1>3, <2>3 DEF OnlyFiled
    <2> QED
      BY <2>1, <2>2, <2>5, <2>6, <2>7
  <1> QED
    BY <1>7, <1>8, <1>10

(***************************************************************************)
(* A connection that is closed leaves the table, the epoll set and the     *)
(* batch of its reactor, and it was in no other; its callbacks stay.       *)
(***************************************************************************)
LEMMA CloseKeepsBooks ==
  ASSUME Bookkeeping, NEW r \in Reactors, NEW f \in Fds, ServeAndClose(r, f)
  PROVE  Bookkeeping'
  <1> USE DEF Bookkeeping
  <1>1. PICK c : c = connections[r][f]
    OBVIOUS
  <1>2. /\ connections' = [connections EXCEPT ![r][f] = NoClient]
        /\ registered' = [registered EXCEPT ![r] = @ \ {f}]
        /\ fd' = [fd EXCEPT ![c] = 0]
        /\ batch' = [batch EXCEPT ![r] = @ \ {f}]
        /\ f \in batch[r]
        /\ UNCHANGED << toCome, backlog, turn, queue, callbacks >>
    BY <1>1 DEF ServeAndClose, Dispatches
  <1>3. c \in Clients /\ c # NoClient /\ fd[c] = f /\ f # 0
    <2>1. f \in registered[r] /\ c # NoClient
      BY <1>1, <1>2 DEF OnlyFiled
    <2>2. c \in Clients \cup {NoClient}
      BY <1>1 DEF Types
    <2> QED
      BY <1>1, <2>1, <2>2, ZeroIsNoFd DEF FiledOnce
  <1>4. Types'
    <2>1. connections' \in [Reactors -> [Fds -> Clients \cup {NoClient}]]
      BY <1>2 DEF Types
    <2>2. fd' \in [Clients -> Fds \cup {0}] /\ registered' \in [Reactors -> SUBSET Fds]
      BY <1>2 DEF Types
    <2>3. batch' = [t \in Threads |-> batch'[t]]
      BY <1>2 DEF Types
    <2> QED
      BY <1>2, <2>1, <2>2, <2>3 DEF Types
  <1>5. NotAcceptedYet' /\ OneClientPerFd'
    BY <1>2, <1>3 DEF NotAcceptedYet, OneClientPerFd, Types
  <1>6. /\ \A d \in Clients : d # c => fd'[d] = fd[d]
        /\ connections'[r][f] = NoClient
        /\ \A s \in Reactors, g \in Fds :
              s # r \/ g # f => connections'[s][g] = connections[s][g]
    BY <1>2 DEF Types
  <1>7. QueuedOnce'
    <2> SUFFICES ASSUME NEW s \in Reactors, NEW m \in 1 .. Len(queue[s])
                 PROVE  /\ fd'[queue[s][m]] # 0
                        /\ \A t \in Reactors : \A n \in 1 .. Len(queue[t]) :
                              queue[t][n] = queue[s][m] => t = s /\ n = m
                        /\ \A t \in Reactors, g \in Fds : connections'[t][g] # queue[s][m]
      BY <1>2 DEF QueuedOnce
    <2>1. queue[s][m] \in Clients
      BY DEF Types
    <2>2. queue[s][m] # c
      BY <1>1 DEF QueuedOnce
    <2>3. \A t \in Reactors, g \in Fds : connections'[t][g] # queue[s][m]
      BY <1>6, <2>1, NoClientIsNone DEF QueuedOnce
    <2> QED
      BY <1>6, <2>1, <2>2, <2>3 DEF QueuedOnce
  <1>8. ASSUME NEW s \in Reactors, NEW g \in Fds, connections'[s][g] # NoClient
        PROVE  /\ connections'[s][g] = connections[s][g]
               /\ connections[s][g] \in Clients /\ connections[s][g] # c
               /\ s # r \/ g # f
    <2>1. (s # r \/ g # f) /\ connections'[s][g] = connections[s][g]
      BY <1>6, <1>8
    <2>2. connections[s][g] \in Clients
      BY <1>8, <2>1 DEF Types
    <2>3. connections[s][g] # c
      BY <1>1, <1>3, <1>8, <2>1 DEF FiledOnce
    <2> QED
      BY <2>1, <2>2, <2>3
  <1>9. FiledOnce'
    <2> SUFFICES ASSUME NEW s \in Reactors, NEW g \in Fds, connections'[s][g] # NoClient
                 PROVE  /\ fd'[connections'[s][g]] = g
                        /\ g \in registered'[s]
                        /\ callbacks[s][g] = connections'[s][g]
                        /\ \A t \in Reactors : connections'[t][g] = connections'[s][g] => t = s
      BY <1>2 DEF FiledOnce
    <2>1. fd'[connections'[s][g]] = g /\ callbacks[s][g] = connections'[s][g]
      BY <1>6, <1>8 DEF FiledOnce
    <2>2. g \in registered'[s]
      BY <1>2, <1>8 DEF FiledOnce, Types
    <2>3. \A t \in Reactors : connections'[t][g] = connections'[s][g] => t = s
      BY <1>8 DEF FiledOnce
    <2> QED
      BY <2>1, <2>2, <2>3
  <1>10. OnlyFiled'
    <2> SUFFICES ASSUME NEW s \in Reactors
                 PROVE  /\ batch'[s] \subseteq registered'[s]
                        /\ \A g \in registered'[s] : connections'[s][g] # NoClient
      BY DEF OnlyFiled
    <2>1. registered'[s] = IF s = r THEN registered[r] \ {f} ELSE registered[s]
      BY <1>2 DEF Types
    <2>2. batch'[s] = IF s = r THEN batch[r] \ {f} ELSE batch[s]
      BY <1>2, MainIsNoReactor DEF Types
    <2>3. registered[s] \subseteq Fds
      BY DEF Types
    <2> QED
      BY <1>6, <2>1, <2>2, <2>3 DEF OnlyFiled
  <1> QED
    BY <1>4, <1>5, <1>7, <1>9, <1>10

-----------------------------------------------------------------------------
(***************************************************************************)
(* Every step keeps the books.                                             *)
(***************************************************************************)
LEMMA BookkeepingStep == Bookkeeping /\ [Next]_vars => Bookkeeping'
  <1> SUFFICES ASSUME Bookkeeping, [Next]_vars PROVE Bookkeeping'
    OBVIOUS
  <1>1. /\ batch = [t \in Threads |-> batch[t]]
        /\ toCome \cap backlog = {} /\ toCome \subseteq Clients
        /\ \A r \in Reactors : batch[r] \subseteq registered[r]
    BY DEF Bookkeeping, Types, NotAcceptedYet, OnlyFiled
  <1>2. ASSUME UNCHANGED << toCome, backlog, fd, queue, turn, tables, batch >>
        PROVE  Bookkeeping'
    BY <1>1, <1>2, BookkeepingKept DEF tables
  <1>3. ASSUME NEW t \in Threads, NEW b,
               UNCHANGED << toCome, backlog, fd, queue, turn, tables >>,
               batch' = [batch EXCEPT ![t] = b],
               t \in Reactors => b \subseteq registered[t]
        PROVE  Bookkeeping'
    <2>1. batch' = [u \in Threads |-> batch'[u]]
      BY <1>1, <1>3
    <2>2. ASSUME NEW r \in Reactors PROVE batch'[r] \subseteq registered[r]
      <3>1. CASE r = t
        BY <1>1, <1>3, <3>1
      <3>2. CASE r # t
        BY <1>1, <1>3, <3>2, MainIsNoReactor
      <3> QED
        BY <3>1, <3>2
    <2> QED
      BY <1>1, <1>3, <2>1, <2>2, BookkeepingKept
  <1>4. ASSUME NEW c \in Clients, Connect(c)
        PROVE  Bookkeeping'
    <2>1. /\ toCome' \cup backlog' \subseteq toCome \cup backlog
          /\ toCome' \cap backlog' = {}
      BY <1>1, <1>4 DEF Connect
    <2>2. UNCHANGED << fd, queue, turn, tables, batch >>
      BY <1>4 DEF Connect, loops
    <2> QED
      BY <1>1, <2>1, <2>2, BookkeepingKept DEF tables
  <1>5. ASSUME NEW c \in Clients, BecomeReady(c)
        PROVE  Bookkeeping'
    BY <1>2, <1>5 DEF BecomeReady, loops
  <1>6. CASE Signal
    BY <1>2, <1>6 DEF Signal, loops
  <1>7. ASSUME NEW t \in Threads, Interrupt(t)
        PROVE  Bookkeeping'
    BY <1>2, <1>7 DEF Interrupt, kernel
  <1>8. ASSUME NEW t \in Threads, Look(t)
        PROVE  Bookkeeping'
    BY <1>2, <1>8 DEF Look, kernel
  <1>9. ASSUME NEW t \in Threads, Wait(t)
        PROVE  Bookkeeping'
    <2>1. t \in Reactors => Pending(t) \subseteq registered[t]
      BY MainIsNoReactor DEF Pending
    <2> QED
      BY <1>3, <1>9, <2>1 DEF Wait, kernel
  <1>10. ASSUME NEW t \in Threads, EndOfBatch(t)
         PROVE  Bookkeeping'
    BY <1>3, <1>10 DEF EndOfBatch, kernel
  <1>11. CASE OnSignal
    <2>1. batch' = [batch EXCEPT ![Main] = @ \ {"signal"}]
      BY <1>11 DEF OnSignal, Dispatches
    <2> QED
      BY <1>3, <1>11, <2>1, MainIsNoReactor DEF OnSignal, kernel
  <1>12. CASE OnListen
    <2>1. batch' = [batch EXCEPT ![Main] = @ \ {"listen"}]
      BY <1>12 DEF OnListen, Dispatches
    <2> QED
      BY <1>3, <1>12, <2>1, MainIsNoReactor DEF OnListen, kernel
  <1>13. CASE Accept
    BY <1>13, AcceptKeepsBooks
  <1>14. CASE AcceptFails
    BY <1>2, <1>14 DEF AcceptFails, kernel
  <1>15. ASSUME NEW r \in Reactors, QueueIsEmpty(r)
         PROVE  Bookkeeping'
    BY <1>2, <1>15 DEF QueueIsEmpty, kernel
  <1>16. ASSUME NEW r \in Reactors, OnNewConnection(r)
         PROVE  Bookkeeping'
    BY <1>16, NewConnectionKeepsBooks
  <1>17. ASSUME NEW r \in Reactors, NEW f \in Fds, Serve(r, f)
         PROVE  Bookkeeping'
    <2>1. batch' = [batch EXCEPT ![r] = @ \ {f}] /\ batch[r] \ {f} \subseteq registered[r]
      BY <1>1, <1>17 DEF Serve, Dispatches
    <2> QED
      BY <1>3, <1>17, <2>1, MainIsNoReactor DEF Serve
  <1>18. ASSUME NEW r \in Reactors, NEW f \in Fds, ServeAndClose(r, f)
         PROVE  Bookkeeping'
    BY <1>18, CloseKeepsBooks
  <1>19. CASE UNCHANGED vars
    BY <1>2, <1>19 DEF vars, kernel, loops
  <1> QED
    BY <1>4, <1>5, <1>6, <1>7, <1>8, <1>9, <1>10, <1>11, <1>12, <1>13, <1>14, <1>15,
       <1>16, <1>17, <1>18, <1>19
    DEF Next, Step, MainStep, ReactorStep

(***************************************************************************)
(* No callback runs on a Connection that is gone or that does not own the  *)
(* descriptor, whatever the clients do and however descriptors are reused  *)
(* among the reactors: removeConnection may leave its callbacks behind.    *)
(***************************************************************************)
THEOREM NoStaleCallback == Spec => []CallbacksAreAlive
  <1>1. Bookkeeping => CallbacksAreAlive
    BY DEF Bookkeeping, Types, FiledOnce, OnlyFiled, CallbacksAreAlive
  <1> QED
    BY <1>1, BookkeepingInit, BookkeepingStep, PTL DEF Spec

(***************************************************************************)
(* No two reactors serve one client, and none serves a client that is      *)
(* still being handed over: the main thread gives each socket away for     *)
(* good (Server::onNewConnection), and to one reactor.                     *)
(***************************************************************************)
ServedByOne ==
    \A r, s \in Reactors :
        /\ \A f, g \in Fds :
              connections[r][f] # NoClient /\ connections[r][f] = connections[s][g]
                  => r = s /\ f = g
        /\ \A f \in Fds : \A n \in 1 .. Len(queue[s]) : connections[r][f] # queue[s][n]

THEOREM OneServer == Spec => []ServedByOne
  <1>1. Bookkeeping => ServedByOne
    BY DEF Bookkeeping, QueuedOnce, FiledOnce, ServedByOne
  <1> QED
    BY <1>1, BookkeepingInit, BookkeepingStep, PTL DEF Spec

-----------------------------------------------------------------------------
(***************************************************************************)
(* That the one place of a client is there at all is a matter of its own:  *)
(* who has a descriptor is in a queue or filed, so that somebody closes it.*)
(***************************************************************************)
Kept(c) == \/ \E r \in Reactors : \E n \in 1 .. Len(queue[r]) : queue[r][n] = c
           \/ \E r \in Reactors, f \in Fds : connections[r][f] = c

NobodyLost == \A c \in Clients : fd[c] # 0 => Kept(c)

LEMMA NobodyLostInit == Init => NobodyLost
  BY DEF Init, NobodyLost

LEMMA AcceptLosesNobody ==
  ASSUME Bookkeeping, NobodyLost, Accept
  PROVE  NobodyLost'
  <1>1. PICK c \in backlog, f \in FreeFds :
           /\ fd' = [fd EXCEPT ![c] = f]
           /\ queue' = [queue EXCEPT ![turn] = Append(@, c)]
    BY DEF Accept
  <1>2. connections' = connections /\ turn \in Reactors /\ c \in Clients
    BY DEF Accept, tables, Bookkeeping, Types
  <1>3. /\ Len(queue'[turn]) = Len(queue[turn]) + 1 /\ Len(queue[turn]) \in Nat
        /\ \A n \in 1 .. Len(queue[turn]) : queue'[turn][n] = queue[turn][n]
        /\ queue'[turn][Len(queue[turn]) + 1] = c
        /\ \A r \in Reactors : r # turn => queue'[r] = queue[r]
    BY <1>1, <1>2 DEF Bookkeeping, Types
  <1>4. Kept(c)'
    BY <1>2, <1>3 DEF Kept
  <1>5. ASSUME NEW d \in Clients, d # c, fd'[d] # 0
        PROVE  Kept(d)'
    <2>1. fd[d] # 0
      BY <1>1, <1>5 DEF Bookkeeping, Types
    <2>2. CASE \E r \in Reactors, g \in Fds : connections[r][g] = d
      BY <1>2, <2>2 DEF Kept
    <2>3. ASSUME NEW r \in Reactors, NEW n \in 1 .. Len(queue[r]), queue[r][n] = d
          PROVE  Kept(d)'
      <3>1. n \in 1 .. Len(queue'[r]) /\ queue'[r][n] = d
        BY <1>3, <2>3
      <3> QED
        BY <3>1 DEF Kept
    <2> QED
      BY <2>1, <2>2, <2>3 DEF NobodyLost, Kept
  <1> QED
    BY <1>4, <1>5 DEF NobodyLost

LEMMA NewConnectionLosesNobody ==
  ASSUME Bookkeeping, NobodyLost, NEW r \in Reactors, OnNewConnection(r)
  PROVE  NobodyLost'
  <1>0. PICK c, f : c = Head(queue[r]) /\ f = fd[c]
    OBVIOUS
  <1>1. queue[r] # << >> /\ queue' = [queue EXCEPT ![r] = LeftByPop(@)]
    BY DEF OnNewConnection
  <1>2. c \in Clients /\ c = queue[r][1] /\ 1 \in 1 .. Len(queue[r])
    BY <1>0, <1>1, TakenFromQueue
  <1>3. f \in Fds
    <2>1. fd[c] # 0
      BY <1>2 DEF Bookkeeping, QueuedOnce
    <2> QED
      BY <1>0, <1>2, <2>1 DEF Bookkeeping, Types
  <1>4. \/ connections' = [connections EXCEPT ![r][f] = c] /\ fd' = fd
        \/ connections' = [connections EXCEPT ![r][f] = NoClient] /\ fd' = [fd EXCEPT ![c] = 0]
    BY <1>0 DEF OnNewConnection
  <1>5. fd'[c] # 0 => Kept(c)'
    <2>1. fd'[c] # 0 => connections'[r][f] = c
      BY <1>2, <1>3, <1>4 DEF Bookkeeping, Types
    <2> QED
      BY <1>3, <2>1 DEF Kept
  <1>6. ASSUME NEW d \in Clients, d # c, fd'[d] # 0
        PROVE  Kept(d)'
    <2>1. fd[d] # 0 /\ fd[d] # f
      BY <1>0, <1>2, <1>3, <1>4, <1>6 DEF Bookkeeping, Types, OneClientPerFd
    <2>2. ASSUME NEW s \in Reactors, NEW g \in Fds, connections[s][g] = d
          PROVE  Kept(d)'
      <3>1. fd[d] = g
        BY <2>2, NoClientIsNone DEF Bookkeeping, FiledOnce
      <3>2. g # f /\ connections \in [Reactors -> [Fds -> Clients \cup {NoClient}]]
        BY <2>1, <3>1 DEF Bookkeeping, Types
      <3>3. connections'[s][g] = connections[s][g]
        <4>1. ASSUME NEW v, connections' = [connections EXCEPT ![r][f] = v]
              PROVE  connections'[s][g] = connections[s][g]
          BY <3>2, <4>1
        <4> QED
          BY <1>4, <4>1
      <3>4. connections'[s][g] = d
        BY <2>2, <3>3
      <3> QED
        BY <3>4 DEF Kept
    <2>3. ASSUME NEW s \in Reactors, NEW n \in 1 .. Len(queue[s]), queue[s][n] = d
          PROVE  Kept(d)'
      <3>1. CASE s # r
        <4>1. queue'[s] = queue[s]
          BY <1>1, <3>1 DEF Bookkeeping, Types
        <4> QED
          BY <2>3, <4>1 DEF Kept
      <3>2. CASE s = r
        <4>1. /\ queue[r] \in Seq(Clients) /\ Len(queue[r]) \in Nat \ {0}
              /\ queue'[r] = Tail(queue[r])
          BY <1>1 DEF Bookkeeping, Types, LeftByPop
        <4>2. n - 1 \in 1 .. Len(queue'[r]) /\ queue'[r][n - 1] = d
          BY <1>2, <1>6, <2>3, <3>2, <4>1
        <4> QED
          BY <4>2 DEF Kept
      <3> QED
        BY <3>1, <3>2
    <2> QED
      BY <2>1, <2>2, <2>3 DEF NobodyLost, Kept
  <1> QED
    BY <1>5, <1>6 DEF NobodyLost

LEMMA CloseLosesNobody ==
  ASSUME Bookkeeping, NobodyLost, NEW r \in Reactors, NEW f \in Fds, ServeAndClose(r, f)
  PROVE  NobodyLost'
  <1>0. PICK c : c = connections[r][f]
    OBVIOUS
  <1>1. /\ connections' = [connections EXCEPT ![r][f] = NoClient]
        /\ fd' = [fd EXCEPT ![c] = 0]
        /\ queue' = queue
        /\ f \in batch[r]
    BY <1>0 DEF ServeAndClose, Dispatches
  <1>2. c \in Clients /\ fd[c] = f
    <2>1. f \in registered[r] /\ c # NoClient
      BY <1>0, <1>1 DEF Bookkeeping, OnlyFiled
    <2> QED
      BY <1>0, <2>1 DEF Bookkeeping, Types, FiledOnce
  <1>3. ASSUME NEW d \in Clients, fd'[d] # 0
        PROVE  Kept(d)'
    <2>1. d # c /\ fd[d] # 0 /\ fd[d] # f
      BY <1>1, <1>2, <1>3 DEF Bookkeeping, Types, OneClientPerFd
    <2>2. ASSUME NEW s \in Reactors, NEW g \in Fds, connections[s][g] = d
          PROVE  Kept(d)'
      <3>1. fd[d] = g
        BY <2>2, NoClientIsNone DEF Bookkeeping, FiledOnce
      <3>2. connections'[s][g] = d
        BY <1>1, <2>1, <2>2, <3>1 DEF Bookkeeping, Types
      <3> QED
        BY <3>2 DEF Kept
    <2> QED
      BY <1>1, <2>1, <2>2 DEF NobodyLost, Kept
  <1> QED
    BY <1>3 DEF NobodyLost

LEMMA NobodyLostStep == Bookkeeping /\ NobodyLost /\ [Next]_vars => NobodyLost'
  <1> SUFFICES ASSUME Bookkeeping, NobodyLost, [Next]_vars PROVE NobodyLost'
    OBVIOUS
  <1>1. ASSUME UNCHANGED << fd, queue, connections >>
        PROVE  NobodyLost'
    BY <1>1 DEF NobodyLost, Kept
  <1>2. ASSUME NEW t \in Threads, Look(t) \/ Wait(t) \/ EndOfBatch(t) \/ Interrupt(t)
        PROVE  NobodyLost'
    BY <1>1, <1>2 DEF Look, Wait, EndOfBatch, Interrupt, tables
  <1>3. CASE OnSignal \/ OnListen \/ AcceptFails \/ Signal \/ UNCHANGED vars
    BY <1>1, <1>3 DEF OnSignal, OnListen, AcceptFails, Signal, vars, tables
  <1>4. ASSUME NEW c \in Clients, Connect(c) \/ BecomeReady(c)
        PROVE  NobodyLost'
    BY <1>1, <1>4 DEF Connect, BecomeReady, tables
  <1>5. ASSUME NEW r \in Reactors, ReactorStep(r)
        PROVE  NobodyLost'
    <2>1. CASE QueueIsEmpty(r) \/ \E f \in Fds : Serve(r, f)
      BY <1>1, <2>1 DEF QueueIsEmpty, Serve, tables
    <2> QED
      BY <1>5, <2>1, NewConnectionLosesNobody, CloseLosesNobody DEF ReactorStep
  <1> QED
    BY <1>2, <1>3, <1>4, <1>5, AcceptLosesNobody DEF Next, Step, MainStep

(***************************************************************************)
(* The places of a client, counted.                                        *)
(***************************************************************************)
LEMMA AtMostOne ==
  ASSUME NEW S, \A p, q \in S : p = q
  PROVE  Cardinality(S) = IF S = {} THEN 0 ELSE 1
  <1>1. CASE S = {}
    BY <1>1, FS_EmptySet
  <1>2. CASE S # {}
    <2>1. PICK p : S = {p}
      BY <1>2
    <2> QED
      BY <2>1, FS_Singleton
  <1> QED
    BY <1>1, <1>2

LEMMA OnePlace ==
  ASSUME Bookkeeping, NobodyLost
  PROVE  OneOwner
  <1> SUFFICES ASSUME NEW c \in Clients
               PROVE  Cardinality(QueuePlaces(c)) + Cardinality(TablePlaces(c))
                      = IF fd[c] = 0 THEN 0 ELSE 1
    BY DEF OneOwner
  <1>1. \A p \in QueuePlaces(c) :
           /\ p = << p[1], p[2] >> /\ p[1] \in Reactors /\ p[2] \in 1 .. Len(queue[p[1]])
           /\ queue[p[1]][p[2]] = c
    BY DEF QueuePlaces
  <1>2. \A p \in TablePlaces(c) :
           /\ p = << p[1], p[2] >> /\ p[1] \in Reactors /\ p[2] \in Fds
           /\ connections[p[1]][p[2]] = c /\ fd[c] = p[2]
    BY NoClientIsNone DEF TablePlaces, Bookkeeping, FiledOnce
  <1>3. \A p, q \in QueuePlaces(c) : p = q
    <2> SUFFICES ASSUME NEW p \in QueuePlaces(c), NEW q \in QueuePlaces(c) PROVE p = q
      OBVIOUS
    <2>1. p[1] = q[1] /\ p[2] = q[2]
      BY <1>1 DEF Bookkeeping, QueuedOnce
    <2> QED
      BY <1>1, <2>1
  <1>4. \A p, q \in TablePlaces(c) : p = q
    <2> SUFFICES ASSUME NEW p \in TablePlaces(c), NEW q \in TablePlaces(c) PROVE p = q
      OBVIOUS
    <2>1. p[2] = q[2]
      BY <1>2
    <2>2. p[1] = q[1]
      BY <1>2, <2>1, NoClientIsNone DEF Bookkeeping, FiledOnce
    <2> QED
      BY <1>2, <2>1, <2>2
  <1>5. QueuePlaces(c) = {} \/ TablePlaces(c) = {}
    BY <1>1, <1>2 DEF Bookkeeping, QueuedOnce
  <1>6. QueuePlaces(c) # {} \/ TablePlaces(c) # {} => fd[c] # 0
    BY <1>1, <1>2, ZeroIsNoFd DEF Bookkeeping, QueuedOnce
  <1>7. fd[c] # 0 => QueuePlaces(c) # {} \/ TablePlaces(c) # {}
    <2>1. ASSUME NEW r \in Reactors, NEW n \in 1 .. Len(queue[r]), queue[r][n] = c
          PROVE  << r, n >> \in QueuePlaces(c)
      BY <2>1 DEF QueuePlaces
    <2>2. ASSUME NEW r \in Reactors, NEW f \in Fds, connections[r][f] = c
          PROVE  << r, f >> \in TablePlaces(c)
      BY <2>2 DEF TablePlaces
    <2> QED
      BY <2>1, <2>2 DEF NobodyLost, Kept
  <1>8. /\ Cardinality(QueuePlaces(c)) = IF QueuePlaces(c) = {} THEN 0 ELSE 1
        /\ Cardinality(TablePlaces(c)) = IF TablePlaces(c) = {} THEN 0 ELSE 1
    BY <1>3, <1>4, AtMostOne
  <1> QED
    BY <1>5, <1>6, <1>7, <1>8

(***************************************************************************)
(* Every accepted socket is in one queue or one reactor's table, once:     *)
(* its descriptor is closed by somebody, and by nobody twice.              *)
(***************************************************************************)
THEOREM OneOwnerAlways == Spec => []OneOwner
  <1>1. Bookkeeping /\ NobodyLost => OneOwner
    BY OnePlace
  <1>2. Init => Bookkeeping /\ NobodyLost
    BY BookkeepingInit, NobodyLostInit
  <1>3. Bookkeeping /\ NobodyLost /\ [Next]_vars => (Bookkeeping /\ NobodyLost)'
    BY BookkeepingStep, NobodyLostStep
  <1> QED
    BY <1>1, <1>2, <1>3, PTL DEF Spec

-----------------------------------------------------------------------------
(***************************************************************************)
(* What the loops and the kernel keep.  That a pending event is one of an  *)
(* open socket needs the bookkeeping: a close takes the events of the      *)
(* client whose descriptor it gives back, and of nobody else.              *)
(***************************************************************************)
LoopTypes == /\ ready \subseteq {c \in Clients : fd[c] # 0}
             /\ batch[Main] \subseteq {"listen", "signal"}
             /\ at \in [Threads -> {"top", "pop", "poll", "dispatch", "accept", "done"}]
             /\ interrupted \in [Threads -> BOOLEAN]
             /\ running \in [Threads -> BOOLEAN]
             /\ signalled \in BOOLEAN

LEMMA LoopTypesInit == Init => LoopTypes
  BY MainIsNoReactor DEF Init, LoopTypes

\* A reactor's steps.
LEMMA ReactorKeepsTypes ==
  ASSUME Bookkeeping, LoopTypes, NEW r \in Reactors, ReactorStep(r)
  PROVE  LoopTypes'
  <1> USE DEF LoopTypes
  <1>1. r \in Threads /\ r # Main /\ Types
    BY MainIsNoReactor DEF Bookkeeping
  <1>2. CASE QueueIsEmpty(r)
    BY <1>1, <1>2 DEF QueueIsEmpty, Move, kernel
  <1>3. CASE OnNewConnection(r)
    <2>1. Head(queue[r]) \in Clients
      BY <1>3, TakenFromQueue DEF OnNewConnection
    <2>2. ready' \subseteq {c \in Clients : fd'[c] # 0}
      <3>1. PICK c : c = Head(queue[r])
        OBVIOUS
      <3>2. \/ UNCHANGED << fd, ready >>
            \/ fd' = [fd EXCEPT ![c] = 0] /\ ready' = ready \ {c}
        BY <1>3, <3>1 DEF OnNewConnection
      <3> QED
        BY <1>1, <2>1, <3>1, <3>2 DEF Types
    <2>3. interrupted' \in [Threads -> BOOLEAN]
      <3>1. PICK e \in {interrupted[r], FALSE} : interrupted' = [interrupted EXCEPT ![r] = e]
        BY <1>3 DEF OnNewConnection
      <3> QED
        BY <1>1, <3>1
    <2> QED
      BY <1>3, <2>2, <2>3 DEF OnNewConnection
  <1>4. ASSUME NEW f \in Fds, Serve(r, f)
        PROVE  LoopTypes'
    BY <1>1, <1>4 DEF Serve, Dispatches
  <1>5. ASSUME NEW f \in Fds, ServeAndClose(r, f)
        PROVE  LoopTypes'
    <2>1. PICK c : c = connections[r][f]
      OBVIOUS
    <2>2. fd' = [fd EXCEPT ![c] = 0] /\ ready' = ready \ {c}
      BY <1>5, <2>1 DEF ServeAndClose
    <2>3. ready' \subseteq {d \in Clients : fd'[d] # 0}
      BY <1>1, <2>2 DEF Types
    <2>4. batch'[Main] = batch[Main]
      BY <1>1, <1>5 DEF ServeAndClose, Dispatches, Types
    <2> QED
      BY <1>5, <2>3, <2>4 DEF ServeAndClose
  <1> QED
    BY <1>2, <1>3, <1>4, <1>5 DEF ReactorStep

LEMMA LoopTypesStep == Bookkeeping /\ LoopTypes /\ [Next]_vars => LoopTypes'
  <1> SUFFICES ASSUME Bookkeeping, LoopTypes, [Next]_vars PROVE LoopTypes'
    OBVIOUS
  <1> USE DEF LoopTypes
  <1>1. Main \in Threads /\ Types
    BY MainIsNoReactor DEF Bookkeeping
  <1>2. ASSUME NEW t \in Threads, Look(t)
        PROVE  LoopTypes'
    <2>1. running' \in [Threads -> BOOLEAN]
      BY <1>2 DEF Look
    <2> QED
      BY <1>2, <2>1 DEF Look, Move, kernel
  <1>3. ASSUME NEW t \in Threads, Wait(t)
        PROVE  LoopTypes'
    <2>1. batch'[Main] \subseteq {"listen", "signal"}
      BY <1>1, <1>3 DEF Wait, Pending, Types
    <2> QED
      BY <1>3, <2>1 DEF Wait, Move, kernel
  <1>4. ASSUME NEW t \in Threads, EndOfBatch(t)
        PROVE  LoopTypes'
    <2>1. batch'[Main] \subseteq {"listen", "signal"}
      BY <1>1, <1>4 DEF EndOfBatch, Types
    <2> QED
      BY <1>4, <2>1 DEF EndOfBatch, Move, kernel
  <1>5. ASSUME NEW t \in Threads, Interrupt(t)
        PROVE  LoopTypes'
    BY <1>5 DEF Interrupt, kernel
  <1>6. CASE OnSignal \/ OnListen
    <2>1. batch'[Main] \subseteq batch[Main]
      BY <1>1, <1>6 DEF OnSignal, OnListen, Dispatches, Types
    <2>2. running' \in [Threads -> BOOLEAN]
      BY <1>6 DEF OnSignal, OnListen
    <2> QED
      BY <1>6, <2>1, <2>2 DEF OnSignal, OnListen, Move, kernel
  <1>7. CASE Accept
    <2>1. PICK c \in backlog, f \in FreeFds : fd' = [fd EXCEPT ![c] = f]
      BY <1>7 DEF Accept
    <2>2. c \in Clients /\ f # 0
      BY <1>1, <2>1, ZeroIsNoFd DEF Types, FreeFds
    <2>3. ready' \subseteq {d \in Clients : fd'[d] # 0}
      BY <1>1, <1>7, <2>1, <2>2 DEF Accept, Types
    <2> QED
      BY <1>7, <2>3 DEF Accept, loops
  <1>8. CASE AcceptFails
    BY <1>8 DEF AcceptFails, Move, kernel
  <1>9. ASSUME NEW c \in Clients, Connect(c) \/ BecomeReady(c)
        PROVE  LoopTypes'
    BY <1>9 DEF Connect, BecomeReady, loops
  <1>10. CASE Signal
    BY <1>10 DEF Signal, loops
  <1>11. CASE UNCHANGED vars
    BY <1>11 DEF vars, kernel, loops
  <1> QED
    BY <1>2, <1>3, <1>4, <1>5, <1>6, <1>7, <1>8, <1>9, <1>10, <1>11, ReactorKeepsTypes
    DEF Next, Step, MainStep

(***************************************************************************)
(* The tables, the flags and the loops stay well formed; of all it says,   *)
(* that epoll never reports a socket that was closed is the part that the  *)
(* bookkeeping is needed for.                                              *)
(***************************************************************************)
THEOREM TypeCorrect == Spec => []TypeOK
  <1>1. Bookkeeping /\ LoopTypes => TypeOK
    BY DEF Bookkeeping, Types, OnlyFiled, LoopTypes, TypeOK
  <1> QED
    BY <1>1, BookkeepingInit, BookkeepingStep, LoopTypesInit, LoopTypesStep, PTL DEF Spec
=============================================================================
