------------------------------- MODULE Reactor -------------------------------
(***************************************************************************)
(* The threads of the web server: the main thread (Server) accepts clients *)
(* and deals them out in turn; each Reactor takes its clients from a queue *)
(* and serves them from its own epoll instance (Poller).  File descriptors *)
(* are those of the process: a number closed by one thread is what the     *)
(* next accept returns, for whichever reactor.                             *)
(*                                                                         *)
(* Of a connection only what it is waiting for is kept; what it does is in *)
(* the module Connection.                                                  *)
(***************************************************************************)
EXTENDS Integers, Sequences, FiniteSets

CONSTANTS Clients,      \* those who connect, each once
          NoClient,
          NumFds,       \* descriptors the process may open for them
          NumReactors   \* kReactorCount

ASSUME Sizes == NumFds \in Nat \ {0} /\ NumReactors \in Nat \ {0}
ASSUME NoClientIsNone == NoClient \notin Clients

Reactors == 0 .. NumReactors - 1
Fds      == 1 .. NumFds
Main     == NumReactors         \* the main thread
Threads  == Reactors \cup {Main}

VARIABLES
    toCome,         \* clients that have not connected yet
    backlog,        \* clients to accept, in the kernel
    fd,             \* the descriptor of each client's socket, 0 when not open
    ready,          \* open sockets on which an event of interest is pending
    turn,           \* reactor_index
    queue,          \* new_connections_queue_ of each reactor
    connections,    \* connections_ and channels_: whose Connection is at an fd
    callbacks,      \* callbacks_: whose Connection the callbacks of an fd use
    registered,     \* the fds in the epoll set
    batch,          \* the events of epoll_wait still to be dispatched
    at,             \* where each thread is
    interrupted,    \* errno = EINTR in that thread
    running,        \* _running of each thread's loop
    signalled       \* SIGINT or SIGTERM is pending on the signalfd

kernel == << toCome, backlog, ready, signalled >>
tables == << connections, callbacks, registered >>
loops  == << batch, at, interrupted >>
vars   == << kernel, fd, turn, queue, tables, loops, running >>

TypeOK == /\ toCome \subseteq Clients /\ backlog \subseteq Clients
          /\ fd \in [Clients -> Fds \cup {0}]
          /\ ready \subseteq {c \in Clients : fd[c] # 0}
          /\ turn \in Reactors
          /\ queue \in [Reactors -> Seq(Clients)]
          /\ connections \in [Reactors -> [Fds -> Clients \cup {NoClient}]]
          /\ callbacks \in [Reactors -> [Fds -> Clients \cup {NoClient}]]
          /\ registered \in [Reactors -> SUBSET Fds]
          /\ batch[Main] \subseteq {"listen", "signal"}
          /\ \A r \in Reactors : batch[r] \subseteq Fds
          /\ at \in [Threads -> {"top", "pop", "poll", "dispatch", "accept", "done"}]
          /\ interrupted \in [Threads -> BOOLEAN]
          /\ running \in [Threads -> BOOLEAN]
          /\ signalled \in BOOLEAN

Init == /\ toCome = Clients
        /\ backlog = {}
        /\ fd = [c \in Clients |-> 0]
        /\ ready = {}
        /\ turn = 0
        /\ queue = [r \in Reactors |-> << >>]
        /\ connections = [r \in Reactors |-> [f \in Fds |-> NoClient]]
        /\ callbacks = [r \in Reactors |-> [f \in Fds |-> NoClient]]
        /\ registered = [r \in Reactors |-> {}]
        /\ batch = [t \in Threads |-> {}]
        /\ at = [t \in Threads |-> "top"]
        /\ interrupted = [t \in Threads |-> FALSE]
        /\ running = [t \in Threads |-> TRUE]
        /\ signalled = FALSE

-----------------------------------------------------------------------------
(* The outside: clients connect and send, somebody stops or interrupts the  *)
(* process.                                                                 *)

Connect(c) == /\ c \in toCome
              /\ toCome' = toCome \ {c}
              /\ backlog' = backlog \cup {c}
              /\ UNCHANGED << ready, signalled, fd, turn, queue, tables, loops, running >>

BecomeReady(c) == /\ fd[c] # 0 /\ c \notin ready
                  /\ ready' = ready \cup {c}
                  /\ UNCHANGED << toCome, backlog, signalled, fd, turn, queue, tables, loops, running >>

Signal == /\ ~signalled
          /\ signalled' = TRUE
          /\ UNCHANGED << toCome, backlog, ready, fd, turn, queue, tables, loops, running >>

\* epoll_wait fails with EINTR: a stopped process is continued.  Nothing that
\* follows sets errno back, so that a second interruption adds nothing.
Interrupt(t) == /\ at[t] = "poll" /\ ~interrupted[t]
                /\ at' = [at EXCEPT ![t] = "top"]
                /\ interrupted' = [interrupted EXCEPT ![t] = TRUE]
                /\ UNCHANGED << kernel, fd, turn, queue, tables, batch, running >>

-----------------------------------------------------------------------------
(* The loop of every thread: look at the flag, poll, dispatch the events.   *)

Move(t, l, l2) == at[t] = l /\ at' = [at EXCEPT ![t] = l2]

\* Mutant: the reactors do not look at their flag.
LookMainOnly(t) == /\ Move(t, "top", IF t # Main THEN "pop"
                                     ELSE IF running[t] THEN "poll" ELSE "done")
                   /\ running' = IF t = Main /\ ~running[t] THEN [u \in Threads |-> FALSE]
                                                            ELSE running
                   /\ UNCHANGED << kernel, fd, turn, queue, tables, batch, interrupted >>

\* Server::run, Reactor::run.  The main thread stops the reactors as it leaves.
Look(t) == /\ Move(t, "top", IF ~running[t] THEN "done"
                             ELSE IF t = Main THEN "poll" ELSE "pop")
           /\ running' = IF t = Main /\ ~running[t] THEN [u \in Threads |-> FALSE]
                                                    ELSE running
           /\ UNCHANGED << kernel, fd, turn, queue, tables, batch, interrupted >>

Pending(t) == IF t = Main
              THEN (IF backlog # {} THEN {"listen"} ELSE {})
                     \cup (IF signalled THEN {"signal"} ELSE {})
              ELSE {f \in registered[t] : \E c \in ready : fd[c] = f}

Wait(t) == /\ Move(t, "poll", "dispatch")
           /\ batch' = [batch EXCEPT ![t] = Pending(t)]
           /\ UNCHANGED << kernel, fd, turn, queue, tables, interrupted, running >>

\* Mutant: pollOnce returns although there are events left.
EndEarly(t) == /\ Move(t, "dispatch", "top")
               /\ batch' = [batch EXCEPT ![t] = {}]
               /\ UNCHANGED << kernel, fd, turn, queue, tables, interrupted, running >>

\* pollOnce returns: all is dispatched, or errno says EINTR before the next
\* event, whoever left it there.
EndOfBatch(t) == /\ Move(t, "dispatch", "top")
                 /\ batch[t] = {} \/ interrupted[t]
                 /\ batch' = [batch EXCEPT ![t] = {}]
                 /\ UNCHANGED << kernel, fd, turn, queue, tables, interrupted, running >>

Dispatches(t, e) == /\ at[t] = "dispatch" /\ ~interrupted[t]
                    /\ e \in batch[t]
                    /\ batch' = [batch EXCEPT ![t] = @ \ {e}]

-----------------------------------------------------------------------------
(* The main thread.                                                         *)

\* The callback of the signalfd, which does not read it.
OnSignal == /\ Dispatches(Main, "signal")
            /\ running' = [t \in Threads |-> FALSE]
            /\ UNCHANGED << kernel, fd, turn, queue, tables, at, interrupted >>

OnListen == /\ Dispatches(Main, "listen")
            /\ Move(Main, "dispatch", "accept")
            /\ UNCHANGED << kernel, fd, turn, queue, tables, interrupted, running >>

FreeFds == Fds \ {fd[c] : c \in Clients}

\* Mutant: the index of the next reactor is not wrapped.
NextTurnUnwrapped == turn + 1

NextTurn == (turn + 1) % NumReactors

\* accept returns the lowest number that is free.  onNewConnection of Server.
Accept == /\ at[Main] = "accept"
          /\ \E c \in backlog, f \in FreeFds :
                /\ \A g \in FreeFds : f <= g
                /\ backlog' = backlog \ {c}
                /\ fd' = [fd EXCEPT ![c] = f]
                /\ queue' = [queue EXCEPT ![turn] = Append(@, c)]
          /\ turn' = NextTurn
          /\ UNCHANGED << toCome, ready, signalled, tables, loops, running >>

\* EAGAIN, or no descriptor is left: out of onAccept.
AcceptFails == /\ Move(Main, "accept", "dispatch")
               /\ backlog = {} \/ FreeFds = {}
               /\ UNCHANGED << kernel, fd, turn, queue, tables, batch, interrupted, running >>

-----------------------------------------------------------------------------
(* A reactor.                                                               *)

\* Mutant: the reactor polls without a look at its queue.
PollAtOnce(r) == /\ Move(r, "pop", "poll")
                 /\ UNCHANGED << kernel, fd, turn, queue, tables, batch, interrupted, running >>

QueueIsEmpty(r) == /\ Move(r, "pop", "poll")
                   /\ queue[r] = << >>
                   /\ UNCHANGED << kernel, fd, turn, queue, tables, batch, interrupted, running >>

\* Mutant: try_pop leaves the element in the queue.
LeftByPeek(q) == q

\* What try_pop leaves of a queue.
LeftByPop(q) == Tail(q)

\* Mutant: callbacks that are there already are kept.
CallbacksKept(r, f, c) == [callbacks EXCEPT ![r][f] = IF @ = NoClient THEN c ELSE @]

\* registerCallback of both events.
CallbacksFor(r, f, c) == [callbacks EXCEPT ![r][f] = c]

\* onNewConnection of Reactor: a Connection and callbacks that hold a pointer
\* to it.  epoll_ctl may fail, before the callbacks are there or after; the
\* Connection is erased then.  What runs here may set errno.
OnNewConnection(r) ==
    /\ at[r] = "pop" /\ queue[r] # << >>
    /\ queue' = [queue EXCEPT ![r] = LeftByPop(@)]
    /\ LET c == Head(queue[r])
           f == fd[c]
       IN  \/ /\ connections' = [connections EXCEPT ![r][f] = c]
              /\ callbacks' = CallbacksFor(r, f, c)
              /\ registered' = [registered EXCEPT ![r] = @ \cup {f}]
              /\ UNCHANGED << fd, ready >>
           \/ /\ connections' = [connections EXCEPT ![r][f] = NoClient]
              /\ callbacks' \in {callbacks, CallbacksFor(r, f, c)}
              /\ fd' = [fd EXCEPT ![c] = 0]
              /\ ready' = ready \ {c}
              /\ UNCHANGED registered
    /\ \E e \in {interrupted[r], FALSE} : interrupted' = [interrupted EXCEPT ![r] = e]
    /\ UNCHANGED << toCome, backlog, signalled, turn, batch, at, running >>

\* The callback of f: onReadable or onWritable of the Connection it points to.
Serve(r, f) == /\ Dispatches(r, f)
               /\ ready' = ready \ {callbacks[r][f]}
               /\ UNCHANGED << toCome, backlog, signalled, fd, turn, queue, tables, at,
                               interrupted, running >>

\* The same, after which the connection is closed: removeConnection.  The
\* destructor closes the descriptor, which takes it out of the epoll set; the
\* callbacks stay.
ServeAndClose(r, f) == /\ Dispatches(r, f)
                       /\ connections' = [connections EXCEPT ![r][f] = NoClient]
                       /\ registered' = [registered EXCEPT ![r] = @ \ {f}]
                       /\ fd' = [fd EXCEPT ![connections[r][f]] = 0]
                       /\ ready' = ready \ {connections[r][f]}
                       /\ UNCHANGED << toCome, backlog, signalled, turn, queue, callbacks,
                                       at, interrupted, running >>

MainStep == OnSignal \/ OnListen \/ Accept \/ AcceptFails

ReactorStep(r) == \/ QueueIsEmpty(r) \/ OnNewConnection(r)
                  \/ \E f \in Fds : Serve(r, f) \/ ServeAndClose(r, f)

Step(t) == \/ Look(t) \/ Wait(t) \/ EndOfBatch(t)
           \/ t = Main /\ MainStep
           \/ t \in Reactors /\ ReactorStep(t)

Next == \/ \E t \in Threads : Step(t) \/ Interrupt(t)
        \/ \E c \in Clients : Connect(c) \/ BecomeReady(c)
        \/ Signal

Spec == Init /\ [][Next]_vars /\ \A t \in Threads : WF_vars(Step(t))

-----------------------------------------------------------------------------
Queued(c)    == \E r \in Reactors : \E n \in DOMAIN queue[r] : queue[r][n] = c
Waiting(c)   == c \in ready /\ \E r \in Reactors : fd[c] \in registered[r]
Interrupted  == \E t \in Threads : interrupted[t]
ToldToStop   == \E t \in Threads : ~running[t]

(***************************************************************************)
(* No callback is ever called on a Connection that is gone or on another's *)
(* descriptor, although removeConnection leaves the callbacks behind and   *)
(* the number of the descriptor comes back, in this reactor or in another: *)
(* for every fd in the epoll set, and every event still to be dispatched,  *)
(* the callbacks point to the live Connection that owns the fd.            *)
(***************************************************************************)
CallbacksAreAlive ==
    \A r \in Reactors :
        /\ batch[r] \subseteq registered[r]
        /\ \A f \in registered[r] : /\ connections[r][f] # NoClient
                                    /\ callbacks[r][f] = connections[r][f]
                                    /\ fd[connections[r][f]] = f

QueuePlaces(c) == UNION {{r} \X {n \in 1 .. Len(queue[r]) : queue[r][n] = c} : r \in Reactors}
TablePlaces(c) == {p \in Reactors \X Fds : connections[p[1]][p[2]] = c}

(***************************************************************************)
(* An accepted socket is in one place: one queue or one reactor's table.   *)
(* None is lost, so that its descriptor would never be closed, and no two  *)
(* threads serve the same one.                                             *)
(***************************************************************************)
OneOwner ==
    \A c \in Clients : Cardinality(QueuePlaces(c)) + Cardinality(TablePlaces(c))
                       = IF fd[c] = 0 THEN 0 ELSE 1

(***************************************************************************)
(* A reactor takes over what it is handed, interrupted or not, unless it   *)
(* is told to stop.                                                        *)
(***************************************************************************)
HandedOverIsTaken == \A c \in Clients : Queued(c) ~> ~Queued(c) \/ ToldToStop

(***************************************************************************)
(* A pending event is served, unless the process is stopped or a thread    *)
(* was interrupted in epoll_wait.                                          *)
(***************************************************************************)
ReadyIsServed ==
    \A c \in Clients : Waiting(c) ~> ~Waiting(c) \/ ToldToStop \/ Interrupted

(***************************************************************************)
(* After SIGINT or SIGTERM every thread leaves its loop, and the destructor *)
(* of Server can join them, unless the main thread was interrupted.        *)
(***************************************************************************)
SignalEndsTheThreads ==
    signalled ~> (\A t \in Threads : at[t] = "done") \/ interrupted[Main]

(***************************************************************************)
(* "Handles the interruption of epoll_wait by a signal (EINTR)             *)
(* transparently" (doc/reactor-core.md:37): a pending event is served also *)
(* after an interruption.                                                  *)
(***************************************************************************)
InterruptionIsTransparent ==
    \A c \in Clients : Waiting(c) ~> ~Waiting(c) \/ ToldToStop
=============================================================================
