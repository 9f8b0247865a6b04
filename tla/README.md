# A verification project for Barcelona

Barcelona is a collection of the projects of the 42 curriculum, in C, C++ and
shell. This directory holds TLA+ models of its programs and libraries, the TLC
configurations that check them on small instances, and theorems about some of
them that TLAPS proves for every value of the constants.

Paths below are relative to `src/project/`.

## 1. Inventory

### Philosophers (`Philosophers/src`, threads and processes)

| part | state | operations | talks to |
|---|---|---|---|
| event queue (`utils.c`) | ring `events`, `head`, `tail`, a mutex, one condition variable | `queue_init`, `enqueue`, `dequeue` | philosophers and watchdog put, the monitor gets |
| strategy v1 (`strategy_v1.c`) | a mutex per fork | take, put: the fork with the lower index first | the routine of each philosopher |
| strategy v2 (`strategy_v2.c`) | `is_taken` per fork, one mutex, one condition variable | take both or wait, put both and broadcast | the same |
| strategy v3 (`strategy_v3.c`) | v2's forks, a semaphore of N - 1 places | enter, poll with a timeout, give up, pause, put and post | the same |
| strategy v4 (`strategy_v4.c`) | v2's forks, a queue of waiters with two ends, counts of forks and heads, the clock | queue up (at the head when death is near), wait for the turn, take, put, leave | the same |
| simulation (`routines.c`, `main.c`, `utils.c`) | `stop_simulation`, `time_to_death`, `meals_eaten`, the print mutex | `philo_routine`, `watchdog_routine`, `monitor_routine`, `print_status` | all of the above |
| bonus (`philo_bonus.c`) | processes, semaphores for the forks and for printing | `philosopher`, its monitor thread, the parent's `waitpid` and `kill` | named semaphores, signals |

Hard: lost wakeups on a condition variable two kinds of threads share; circular
waits; a stop that is raised without a wakeup; a flag read without its mutex;
a put after a take that took nothing; the watchdog's stale reading of the
clock; a queue nobody empties any more; processes that die with semaphores.

Correct when: neighbours never eat together; forks are neither made nor lost;
somebody always gets to eat; every thread ends after the stop; what is
announced (a death, the end of the meals) is so and comes last.

### Webserv (`Webserv`, an HTTP server on epoll)

| part | state | operations | talks to |
|---|---|---|---|
| server (`src/server.cc`) | acceptor, signalfd, `reactor_index`, `_running` | accept and deal out, stop on a signal | kernel, reactors |
| reactor (`src/Reactor.cc`) | queue of new sockets, `connections_`, `channels_`, `_running` | take over, serve, `removeConnection` | server (queue, flag), poller, connections |
| poller (`lib/core/src/Poller.cc`) | epoll set, `callbacks_` | `pollOnce`, `registerCallback`, `updateEvents` | kernel, callbacks into the reactor |
| connection (`lib/core/src/Connection.cc`) | READING, WRITING, CLOSING, CLOSED | `onReadable`, `onWritable`, `updateStateFromProtocol` | source, sinker, protocol handler |
| protocol handler (`lib/http/protocol`) | state, parser's buffer, response, writer's counters | `onData`, `onWriteReady`, reset for the next request | parser, router, writer |
| parser (`RequestParser.cc`) | `_step`, `_buffer`, the rest of a chunk | `parse` | protocol handler |
| request handlers (`lib/http/handlers`, `lib/utils/src/FileUtils.cc`) | the file system; descriptors released into responses | `StaticFileHandler`, `UploadHandler`, `RedirectHandler`, `resolveSafePath` | file system, responses |
| CGI (`DefaultCgiRunner.cc`, `CgiHandler.cc`) | two pipes, a child per request | `run`, `parseCgiOutput` | child processes, and through inherited descriptors the other reactors' |
| configuration and routing (`lib/config`, `src/main.cc`, `src/RouterBuilder.cc`, `lib/http/routing`) | a record read once, a pipeline built once | load, build, dispatch | server, handlers |

Hard: a send buffer that takes part of an answer; a connection used for
several requests; half-closed and vanished clients; file descriptors whose
number comes back, in another reactor perhaps, while callbacks with pointers are
left behind; `errno` read late; a wait with no timeout; SIGPIPE; a request cut
anywhere; two reactors on one file; pipes that fill up and ends of pipes in
processes that should not have them.

Correct when: answers are whole, in order, and none follows a closing one; the
FIN comes after the last byte; whoever waits is answered and whoever ends is
let go; a callback's object is alive; a socket has one owner; a signal ends
every thread; a request means the same however it is cut; what a handler says of
a file was so while it looked; a reactor returns what its own script has written.

### minishell and pipex (processes)

| part | state | operations |
|---|---|---|
| front end (`minishell/src/frontend`, `repl.c`) | none between lines | `tokenize`, `parse`, `expand_commands` |
| execution (`minishell/src/backend`) | descriptors, the builtins' settings, children | `execute_cmd_chain`: pipes, redirections, fork, close, exec, wait |
| `pipex/src` | the same, once | a pipeline between two files, or from a here-document |

Hard: one descriptor too many in one process and a neighbour never sees the end
of its input; a failure at the third of four steps; null pointers at the end of a
malformed line. Correct when: a pipeline leaves what its commands would have left
one after another, and comes to an end.

### Inception (containers)

Start scripts of mariadb, wordpress and nginx (`Inception/srcs/requirements/*/tools`),
volumes, and `restart: unless-stopped`. Hard: a container killed between two steps
of a script whose next start looks only at the first. Correct when: the site
served is the whole site, and it comes up.

### Programs and libraries without concurrency

| part | what makes it correct |
|---|---|
| `push_swap` | the operations printed sort the arguments; the checker executes what it reads |
| `Get_next_line` | the lines returned are the lines of the file, across calls and reads |
| `Libft`, `Ft_printf` | what each function is for, at the edges and when `malloc` fails |
| `cpp_module` | PmergeMe, RPN, Span, BitcoinExchange, Replacer compute right; every materia of CPP04 has one owner |
| `miniRT` | a scene is read as written; a ray meets the nearest object; the picture averages one view |

`FdF`, `Born2beroot`, `NetPractice`, `archive` and Webserv's logger are not
modelled. The state of each part is in `PROJECT.json` under "components", the
hazards under "hazards", each at its line.

## 2. Modules

### Philosophers

| module | models |
|---|---|
| `EventQueue` | `utils.c` 36-90: the ring as it is, sleepers on the one condition variable by the thread they are, signals that wake any of them, spurious wakeups |
| `EventChannel` | what the ring promises: a bounded FIFO channel, and delivery |
| `EventQueueProofs` | theorems about `EventQueue` |
| `PhiloRoutine` | the routine the strategies share: program counters, the stop, the second look at the flag |
| `Dining` | what a strategy promises: neighbours do not eat together |
| `StrategyV1` .. `StrategyV4` | a strategy each, on `PhiloRoutine`; each implements `Dining` |
| `Simulation` | philosophers, watchdog, monitor, queue, clock and printed lines; which forks are held is left to the strategies |
| `SimulationProofs` | theorems about `Simulation` |
| `PhiloBonus` | the processes, their monitors, the semaphores and the parent |
| `LocksAndQueueProofs` | theorems about v1 and v4, as `MCLocksAndQueue` runs them |
| `MonitorAndLimiterProofs` | theorems about v2, v3 and the bonus, as `MCMonitorAndLimiter` runs them |

### Webserv

| module | models |
|---|---|
| `Connection`, `MCConnection` | one connection, its protocol handler, its socket and its client |
| `AnsweringServer` | what a connection promises its client: answers one at a time, in order, each to a request |
| `ConnectionProofs` | theorems about `Connection`, and that it implements `AnsweringServer` |
| `Reactor` | the threads of the server, hand-over, epoll, callbacks and descriptors |
| `ReactorProofs` | theorems about `Reactor` |
| `RequestParser` | `RequestParser.cc`: the steps over the buffer, and every way to cut a request |
| `FileHandlers` | `StaticFileHandler.cc`, `UploadHandler.cc` in two reactors, system call by system call |
| `UriPaths` | from the target of a request to a file and its answer |
| `CgiRunner` | `DefaultCgiRunner.cc` in two reactors, with pipes, inheritance and scripts |
| `CgiOutput` | `CgiHandler.cc`: headers, body and status of what a script wrote |
| `Routing` | `ConfigLoader.cc`, `main.cc`, `RouterBuilder.cc`, `RequestRouter.cc`: a configuration, the pipeline built from it, and a request |

### The others

| module | models |
|---|---|
| `Stages` | what minishell and pipex share: programs that read and write, pipes with a capacity, files, descriptors per process |
| `Executor` | `execute_cmd_chain` and the shell's loop, on `Stages` |
| `Pipex` | `execute_pipeline`, on `Stages` |
| `ShellFrontend` | a line of minishell up to its commands |
| `Inception` | the three start scripts under restarts |
| `PipelineProofs` | what processes joined by pipes do together, on `Stages`, and that `Executor`'s lines mean what they say |
| `ProcessesProofs` | the same of `Pipex`; theorems about these and about `CgiRunner`, `Inception` and `FileHandlers`, as `MCProcesses` runs them |
| `PushSwap`, `GetNextLine`, `Libft`, `Printf`, `Containers`, `Ownership`, `SceneFile`, `Bvh`, `RenderLoop` | the programs and libraries of section 1 |
| `MCMonitorAndLimiter`, `MCLocksAndQueue`, `MCProcesses`, `MCPrograms` | runs: several of the above, one of them per behaviour |

The `MC` modules that hold several programs have a variable that says which one
runs (`program`, `strategy`); the others' variables stay as they are. A run is
the union of their state spaces, and each property names the program it is about.

How models correspond to the code, where it is not plain from the names:

* **Atomic steps.** A critical section (from lock to unlock, or to the wait
  that releases the lock) is one action; so is a handler of a connection, which
  belongs to one thread. A read of shared data outside a lock is an action of
  its own (`CheckStop`, `ReadFlag`, `Look`, `Scan`).
* **`EventQueue`** keeps `head`, `tail` and the cells; `OneEventPerSleeper`
  relates sleepers and cells. A producer has one event under way.
* **`StrategyV3`** leaves out how long anything lasts: a timeout may come
  whenever the code polls, and `backoff_us`, which is read uninitialised, may be
  any number.
* **`StrategyV4`** keeps the arithmetic: milliseconds subtracted from
  microseconds, the clock at the Epoch or set (`Epochs`), `head` decremented
  below zero. With a set clock everybody enters at the head of the queue and the
  gate that `Philosophers/README.md:79` describes never holds anybody back;
  what remains true is what the properties say. With the clock at the Epoch an
  entry of the queue can be lost, hence `ClockIsSet` in two of them.
* **`Simulation`** leaves durations open and keeps deadlines. `TimeToDie` may
  be 0, which `parse_args` accepts.
* **`PhiloBonus`**: the monitor thread's `last_meal` is set once and never
  again, so that each philosopher is declared dead when `time_to_die` has passed
  since the start; `Die` says so.
* **`Connection`** abstracts bytes: a request is a number of pieces, a byte of
  an answer is the request it answers, its position and what it ends. A handler
  of the code is one action that includes the calls it makes, down to
  `sendfile`. What is behind the router is the request's record: how long the
  answer is, whether it is sent from a file, whether the connection stays open.
* **`Reactor`** abstracts a connection to the events that are pending on it.
  Descriptors are the process's: `accept` returns the lowest free number.
  `removeConnection` leaves the callbacks, as in the code.
* **`RequestParser`** takes a byte for a record of a kind and a number. The text
  of a request line or a header line is one byte, since nothing distinguishes a
  part of it from the whole before its CRLF; chunk sizes and data are bytes.
  `Parse` is the whole call, the loop of `parse` included. `CutsDoNotMatter` names
  three exceptions, which the code has: a cut behind the last size line
  (`RequestParser.cc:305`), data that looks like the end of its chunk (`:343`), and
  a request without headers, which is never kept alive (`:160`).
* **`FileHandlers`** has one action per system call. `seen` and `others` record
  what the file was and whom a request overlapped, for the properties only.
  An upload's stream holds back `BufferSize` bytes until its destructor.
* **`CgiRunner`**, **`Stages`**: a descriptor is a process, a pipe and a side; fork
  copies what the forking process has at that moment, whichever thread opened it.
  Programs are records: how much they write, how much they read, and when.
* **`Executor`** executes lines that are already commands; `ShellFrontend` says
  what lines become. A program's exit status is kept where the code keeps it.
* **`Pipex`**: the child that takes the here-document is a process of its own, and
  so is the user who types.
* **`Inception`**: one step of a script is one action; `cut` records which scripts
  were interrupted where the next start does not look.
* **The algorithms** (`PushSwap` to `Bvh`, `UriPaths`, `CgiOutput`, `Routing`) are
  operators on one input, and one or a few actions that apply them; the
  property compares the outcome with a definition of what is wanted, written
  without the code's steps. Integers have the width given by `Width`; memory
  that was not written is any value of `Garbage`.
* **`RenderLoop`** counts angles in quarters of a turn; **`Bvh`** has two axes, rays
  along an axis or a diagonal, and IEEE's zero times infinity as `NaN`.

Definitions named in comments "Mutant: ..." are not part of a model: each is a
definition of the model with a plausible mistake. `PROJECT.json` lists one for
each property under "mutants"; where a property has parts about several
programs, their modules hold further ones, and the property notices each of them.

## 3. Runs

| run | bounds | shows |
|---|---|---|
| `event_queue` | 3 producers, ring of 4 cells | no lost wakeup; the ring is the channel, delivery included |
| `monitor_and_limiter` | 4 philosophers under v2 and v3; the bonus with 3 processes, 1 meal, clock to 2 | exact bookkeeping until the stop; `Dining` throughout; no sleeper, place or fork is forgotten; a death is the last line; progress, and an orderly end of v2 and the bonus |
| `locks_and_queue` | 3 philosophers under v1 and v4; v4 with a ring of 4, both clocks, `MaxTickets` 1 | no circular wait; the queue's bookkeeping; `Dining`; progress, and an orderly end where the clock is set |
| `simulation` | 2 philosophers that must eat twice, no new round after 3 meals, clock to 1, ring of 6 | deaths are real; every FINISHED is counted once; nothing but the verdict after the stop; lateness is noticed; the joins return if there is room |
| `simulation_all_eaten` | the same | **violated**: `routines.c:153` says all have eaten when one has eaten twice |
| `connection` | 7 scripts of up to 3 requests, send buffer of 3 bytes | whole answers, FIN after them, the promise of `AnsweringServer`, who waits is answered, who ends is let go |
| `connection_file` | the same | **violated**: a partly sent file loses bytes (`TcpSinker.cc:78`) |
| `reactor` | 3 clients, 2 descriptors, main thread and 1 reactor | live callbacks, one owner, hand-over, service, stop |
| `reactor_interrupted` | 1 client | **violated**: after an EINTR events are never served (`Poller.cc:97`) |
| `processes` | scripts of 2 out of 16 lines of up to 3 commands, pipes of 1 item, 5 descriptors; pipex with 2 or 3 commands, documents up to 2 lines; 2 reactors with 6 kinds of script; 3 kills of containers; 2 reactors on a file, 3 requests, bodies of 1 and 2 bytes against a stream of 1, 1 descriptor | pipelines compose and end; the runner returns what its script wrote or hangs in one of two ways; half a site is served only after a cut; answers about a file were true at some moment of their request, and an undisturbed upload is the file |
| `cgi_eof` | the same | **violated**: the end of the body does not reach a script whose input another child has inherited (`DefaultCgiRunner.cc:59`) |
| `programs` | the inputs of `MCPrograms` | fourteen programs against what they are for |

*Inputs of `programs`.* push_swap: every order of up to six numbers,
negative ones among them, and malformed arguments. minishell: every line of up to
five characters over four alphabets. Get_next_line: every file of up to
five characters whose lines end, a buffer of three. The parser: eighteen requests
in up to four pieces, cut anywhere. Routing: every member of a configuration missing, of the wrong type or at its
edge; every three of nine locations. Paths: targets of up to four pieces out of
eleven, escaped or not. CGI output: up to two headers, both line ends, bodies of
up to four symbols. Libft: ints of eight bits, texts of up to four bytes, every
allocation failing in turn. ft_printf: every set of flags with four widths and
four precisions, ints of four bits. C++: sequences of up to six, nine different
numbers, formulas of up to seven signs; two characters, two slots, four materias.
miniRT: every line of a scene in each of its forms; scenes of boxes and rays,
an interval asked for; keys for a few turns of the loop.

*Why the bounds are enough.* Four philosophers are the smallest table with two
that are not neighbours, and even, so that both may eat; with three (v1, v4)
every two are neighbours, the worst case for a queue and the shortest circle of
waits that is not a pair. Three producers and four cells are the smallest ring
that may be full with more than one sleeper beside the monitor and keeps the
assumption `Cardinality(Producers) <= MaxEvents - 1`; the code has 201 producers
at most and 1023 usable cells. In `Reactor` three clients on two descriptors
force numbers to come back while others are in use and accept to run out. In
`Connection` the send buffer is smaller than every answer with a body, so that
header and body both get split. Pipes of one item fill at once, so that every
order of writers and readers occurs; three commands have an inner one, with a
neighbour on each side. Two reactors are enough for one to inherit from the
other. An insertion threshold of 2 in PmergeMe (10 in the code)
and ints of four to eight bits bring every branch within reach of short inputs.
Bounds of the models, not of the code: `MaxTime`, `MaxMeals`, `MaxTickets`,
`MaxStages`, `MaxKills`, `MaxRequests`, `MaxPieces`, `MaxMade`, `Reach`,
`MaxSamples`, the clients' scripts, and one `Interrupt` per thread.

*Fairness.* Every thread or process goes on when it can (weak fairness of its
step). Mutexes and semaphores are not fair: nothing says who gets them, so that
progress is "somebody eats", never "everybody". Spurious wakeups, timeouts,
signals, interruptions, kills and arrivals are never forced. In `Connection` a
client sends what it has to send and reads what there is; it need not close. In
`Reactor` the reactor's step is fair but nothing of the environment is. In
`Executor` and `Pipex` the parent and each command are fair, and the user of a
here-document goes on typing; in `Inception` each container's script is.
`CgiRunner`, `FileHandlers` and the algorithms are checked for safety only: that
a reactor may hang in `run` is a finding, not an assumption.

`CHECK_DEADLOCK FALSE` stands where the program ends: philosophers return,
processes exit, connections close, threads leave their loops and an algorithm is
done. Only `EventQueue` is checked for deadlock; for `CgiRunner` the states
without a successor are what `ReturnsOrHangs` is about. It describes them by
`Stuck`, in terms of the pipes and the children, and the first part of
`EverythingEnds` checks that these are the states in which `Next` is not enabled.

The type invariants of the modules that are not proved about describe their
variables and are not among the listed checks.

## 4. Proofs

| theorem | for every |
|---|---|
| `EventQueueProofs!TypeCorrect`, `NoLostWakeup`, `EventForEverySleeper`, `RingIsFifo` | set of producers and size of the ring with `Cardinality(Producers) <= MaxEvents - 1` |
| `LocksAndQueueProofs!NoCircle`, `BothImplement` (v1, v4) | N > 1, size of the ring, set of clocks |
| `LocksAndQueueProofs!NobodyIsForgotten`, `HeadStaysNear` (v4) | N, size of the ring, set of clocks |
| `MonitorAndLimiterProofs!ForksHeldOnceByAll`, `AllImplement`, `SleepersAreWoken`, `LimiterIsExact` (v2, v3) | N |
| `MonitorAndLimiterProofs!WaitersAreAccountedFor`, `DeathComesLast` (the bonus too) | N, number of processes |
| `SimulationProofs!DeathsAreReal`, `VerdictIsLast`, `FinishedIsCounted` | N, deadline, number of meals, size of the queue |
| `ReactorProofs!NoStaleCallback`, `OneServer`, `OneOwnerAlways`, `TypeCorrect` | set of clients, number of descriptors and of reactors |
| `ConnectionProofs!ClosesAfterTheAnswer`, `WholeAnswers`, `KeepsThePromise` | set of requests and scripts, every length, every room in the socket |
| `ProcessesProofs!LinesMeanWhatTheySay` (`Executor`, `Pipex`) | number of commands, set of items, files, scripts and calls, capacity of a pipe |
| `ProcessesProofs!AnswersWereTrue`, `LoneUploads` (`FileHandlers`) | set of reactors, requests and bodies, number of descriptors |
| `ProcessesProofs!ReturnsWhatWasWritten` (`CgiRunner`) | set of reactors and scripts, capacity of a pipe |
| `ProcessesProofs!OnlyACutLeavesHalf` (`Inception`) | number of kills |

### What they assume of the constants

* `NumPhilos`, `NumProcesses`, `NumCells`, `NumTickets`, `Sizes`,
  `LengthsAreNumbers`, `PipesHaveRoom`: numbers are natural numbers, and not 0 where
  the code has an array, a pipe or a thread at least.
* `RoomForEveryProducer`: the code has 200 philosophers and the watchdog, and 1023
  usable cells.
* `StagesAreBounded`, `FilesHoldItems`, `ScriptsAreLines`, `CallsAreCalls`: a line has at
  most `MaxStages` commands, for any number; files hold items of a set `Items`, any
  set; scripts and calls are made of commands that write a text, copy a number of items
  of their input and leave a status.
* `ClockIsWhole`, `DatesAreFar`: times are whole, and a date is so far from the Epoch
  that milliseconds less microseconds come out below v4's threshold. A clock is
  otherwise either one that has passed `time_to_die` or one that has not.
* `ThreadsAreDistinct`, `NoneIsNoEvent`, `NoClientIsNone`, `ServerIsNoReactor`: what
  stands for nobody is nobody.
* `RequestsAreRecords`, `JobsAreJobs`, `Simulation`'s `Parameters`: the shape of the
  inputs.
* `FileHandlers`' `Parameters`: there are finitely many reactors, a body is made of
  bytes, and a missing file is no contents. `MCProcesses`, which has an instance of the
  module, assumes it (`HandlersAreGiven`), and TLC checks it of the run's constants.
* `N > 1` in `NoCircle` and `BothImplement`: with one philosopher both forks of v1 are
  one mutex, which the thread locks twice.

### The arguments

* **EventQueue.** The invariant is `WakeupInv`: the monitor sleeps only when the
  ring is empty and no producer sleeps, *and* for every sleeping producer there
  is an event in the ring or a signalled thread to come. The first alone is not
  inductive: that a full ring and an empty one cannot both have sleepers needs
  the count, and the count is where the assumption on the constants enters.
  `RingIsFifo` is the safety half of `ImplementsChannel` for every size: the
  remainders are turned into a case distinction (`Wrapped`), the contents from
  head to tail into a sequence, and a step on the indices into `Append` or `Tail`.
* **v1.** Who waits for a second fork holds a lower one: waits climb, and
  a climbing chain has no circle.
* **v2.** `ForksInv` joins that a fork has one holder, that neighbours
  do not eat, and that a philosopher leaves only after the stop. After the
  stop the first part fails: a philosopher that took nothing puts forks down its
  neighbours may hold. The refinement holds all the same, because nobody
  begins to eat without a second look at the flag. `SleepersHaveAWaker` is inductive
  on top of it: a put wakes everybody, and one goes to sleep only because a fork is held.
* **v3.** The same, and the semaphore: before the stop a place is posted
  only by a thread inside, since who quits without a place does so after it
  (`QuitOnlyAfterStop`); entering and leaving change the set of those inside by
  one element and the semaphore by one.
* **v4.** `OneCellEach` counts: the distance of the ring's ends is the number of
  those in the queue, whoever's entry a put drops, so that the head is never further
  below the array than there are philosophers. `ServedInv` is why nobody is
  forgotten where the clock is set: the subtraction makes everybody critical
  (`EverybodyIsCritical`), everybody enters at the head and is at its turn at once,
  nobody sleeps in the queue, and while anyone sleeps at the forks another one
  holds some and will broadcast.
* **The bonus.** `BonusInv`: the semaphore of the forks and the hands that hold
  them add up, killed processes included; who prints a death keeps the semaphore
  of the printer, hence no later line.
* **Simulation.** A philosopher that has once been late stays late: `longest`
  remembers it through later meals. `DeathInv` hands the lateness on from the
  watchdog's report through the queue and the monitor's hand to the line.
  `VerdictIsLast` needs of it only the shape of the events. `CountInv` adds that a
  FINISHED is sent for a meal whose turn it is, so that no pair of philosopher and
  meal is sent twice and the set of those sent grows by one; and that the monitor
  throws an event away only when it is past counting.
* **Reactor.** `CallbacksAreAlive` is not inductive: that a closed descriptor
  takes no other connection's callbacks with it needs to know that a client is
  filed by one reactor, this that it was queued once, and this that who is in the
  backlog has no descriptor. `Bookkeeping` follows a client along these places,
  and the theorem `OneServer` is its by-product. That nobody is lost on the way
  (`NobodyLost`) is invariant once it is known where a client is; the two
  together count the places of a client, which is `OneOwner`. Callbacks that stay
  behind are harmless because a descriptor is in an epoll set only while a live
  connection owns it, and the registration writes both callbacks before the
  descriptor may report anything.
* **Connection.** The server closes in the call that wrote the last piece, but
  whether it is the last is the writer's position's business: `ConnInv` ties the
  state of the connection to the protocol's and to what the response has left.
  `OrderInv` adds the order. The pieces that wait, in the parser's buffer and in
  the socket's, follow each other and belong to requests after the current one
  (`Line`), and the last byte on the wire is the one before the writer's place
  (`AtPlace`). Of an answer that comes from a file less is true: its offset runs
  ahead of what was sent (`TcpSinker.cc:78`), and `AnswersAreWhole` says of it what
  the code keeps; the rest is the finding of `connection_file`.
  `KeepsThePromise` is a refinement: of the connection's state the abstract server
  sees the requests the client has begun to send, the one that is being answered,
  the answers that are whole on the wire, and whether the server has ended its side.
  `PromiseInv` is what the mapping needs beyond the order: the pieces on the wire say
  truly what their answer ends with (`OwnMarks`), every request before the current one
  of a client that waits has an answer that kept the connection (`NoneLeftOut`), and
  nothing but a reset ends a connection under an answer (`GoneMeansGone`, `Ending`).
* **FileHandlers.** Each step of a handler has seen already what its answer will
  rest on: a size is that of contents seen, a removal finds a name seen, an upload
  that is written has emptied the file it opened (`HandlerWorks`). Inodes,
  held descriptors and the full disk never go back, so that an answer stays
  justified (`Justified`). `Acquainted` and `AloneWithIt` are for the upload: two requests
  that run at once know of each other, so that one that knows of nobody has the
  inode that the name stands for to itself until it writes.
* **CgiRunner.** `BodyFlows` and `OutputFlows` account for every item of body and
  output: not yet written, in the pipe, or read. `EndsAreHeld` is what ties a live
  child and a waiting reactor to the ends of their pipes; whatever else a process
  has inherited is left open, since the theorem must hold whatever that is. From
  the two follows which states are `Stuck`.
* **Pipelines.** `PipelineProofs` speaks of a plan: a sequence of tasks, each a program
  with where it reads and writes, all that it will read (`input`) and what is there
  already where it writes (`base`). `Net` says of every process how far it is with its
  task: `Got` is how many items it has read and `Put` how many it has written, what it
  has still to do follows from the two (`Follows`), what is in a pipe is what its writer
  has put and its reader has not got, and what is at the other end of a file or of the
  terminal is `base` and as much of the output as `Put` says. No process is told how it
  got there, so that the steps of the others do not disturb it (`NeighboursKeep`). Two
  further parts are why a pipeline ends as it should: a process that is not over holds
  its ends (`HoldsEnds`), hence nobody takes a pipe that is empty for a moment for one
  that is at its end; and who is killed for want of a reader has a neighbour that has
  ended without reading on, so that what is lost is not missed (`EndsWell`). When all
  are over, what is written is the output of the tasks.
  That the outputs are what the line means is an induction over its commands, done
  by the least counterexample (`Least`, from the library's theorem about finite
  subsets of Nat) since an induction theorem cannot be instantiated: `Meaning` and
  `Result` are recursive functions, and `PlanOf` and `CallPlan` read each task off them.
  What holds between the commands of a line is that no file is written that another
  use of the line names. The proof needed that of one command, too: `cat < f > f`
  empties its input, and `NoSharedFiles` has to leave it out.
  minishell and pipex differ in the parent: who opens the ends, what it closes and
  when, and that the here-document's writer is one more process (`ShellInv`, `PxInv`).
* **Inception.** `SiteInv`: as long as nothing was cut, a container that is not in
  the middle of its set-up has not begun it or has finished it.

A theorem about an `MC` module's specification joins those about the programs it
runs: `MCInv` and `ProcessesInv` say that the program that runs keeps its
invariant and the others stay where they begin.

### Only model-checked

* Liveness, delivery in `ImplementsChannel` among it: the prover has no support for
  fairness.
* `StuckMeansStuck`, which is about ENABLED. `ReturnsWhatWasWritten` is about `Stuck`
  as it is defined.
* All of `programs`: the algorithms are recursive operators, or loops over data of any
  length, and what they compute is proved by induction over data. The one induction
  that is proved, over the commands of a line, is over a recursive function of an index,
  by its least counterexample; the algorithms recur over their data, and the prover does
  not handle modules that declare a recursive operator.

## 5. Findings

With a run that shows them:

1. `Philosophers/src/routines.c:28`, `153`: FINISHED is sent again at every meal
   after the last required one, so that the message that everybody has eaten
   may be printed when not everybody has.
2. `Webserv/lib/tcp/src/TcpSinker.cc:78`: the offset of a partly sent file is
   advanced twice; bytes are skipped and the answer never ends
   (`doc/protocol-http.md:79`).
3. `Webserv/lib/core/src/Poller.cc:97`: a stale `errno` drops events after an
   interrupted wait (`doc/reactor-core.md:37`).
4. `Webserv/lib/http/handlers/src/DefaultCgiRunner.cc:59`: without close-on-exec a
   script's input may be held open by another reactor's script
   (`doc/protocol-http.md:243`).

Met while modelling, described in the modules and excepted by name from the
properties (`PROJECT.json` quotes the texts they disagree with):

* Get_next_line finds newlines of an earlier read behind a short one
  (`get_next_line_utils.c:20`).
* Webserv: a location's body limit is read and never used; PUT is accepted and
  has no handler.
* minishell: exit statuses are 0 or -1; a redirection that fails ends the shell; a
  here-document's limiter is opened as a file.
* ft_printf: `%+5d`, `%5c`, `%-05d`. Libft: `ft_lstmap` drops a content.
* miniRT: comments in the first column, quoted materials, the initial yaw, the
  axis of the field of view.

Further behaviour the models show and no text contradicts: v4's gate that does
not gate; the bonus's deaths that come whatever was eaten; a philosopher that
sleeps for ever on a full queue after the monitor has gone; requests that are
lost when a client does not wait for answers; SIGPIPE from a client or a script
that has gone; a chunked request whose end is cut and never noticed; descriptors
of files that are never closed; an upload that is answered before it is written;
a site that is half set up when its container comes back.

## 6. Not modelled

* `FdF` and miniRT's shading and geometry: floating point. `RenderLoop` and `Bvh`
  keep what is discrete of miniRT.
* `Born2beroot` (a script that reports numbers of a machine), `NetPractice` (notes),
  `archive` (an example), Webserv's logger (formats lines).
* Of minishell, what the builtins print; of Libft, the classification of
  characters and the plain list functions; of the C++ modules, those that show a
  feature of the language; of Inception, the bonus services.
* The kernel, the JSON library, `std::filesystem` and the shell's programs are
  external: modelled from how the code uses them and marked so in the map.

## 7. Plan

1. (done) Philosophers; Webserv's connection and reactors.
2. (done) Webserv's parser, handlers, CGI, configuration and routing; the shell and
   pipex; Inception; the algorithms and libraries.
3. (done) Theorems: the ring is a FIFO channel; every strategy implements `Dining`;
   the bookkeeping of v2, v3, v4 and the bonus; deaths are real and FINISHED events
   counted; one owner and live callbacks in `Reactor`; whole answers in `Connection`;
   the answers of `FileHandlers`; the scripts of `CgiRunner`; `Inception`'s half site;
   the pipelines of minishell and pipex.
4. (done) An abstract server that answers each request once, which `Connection`
   implements, with its refinement proved.
