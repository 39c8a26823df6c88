# Verification of the embedded IoT gateway

TLA+ models of the programs in this repository, the TLC configurations that check
them on small instances, and theorems about them proved with TLAPS.

`tlc -config <run>.cfg <module>` repeats a run (the table under *Runs* names the module
of each), `tlapm <module>Proofs.tla` a proof. `PROJECT.json` lists the components, the
runs, the source lines each definition stands for, the hazards of the code with the
properties that watch them, and the theorems.

## 1. The system

Two programs and a supervisor run on the device, over a small C library.

* **The gateway** (`demo/demo.c`) starts the shell server thread and the log manager
  thread, registers the commands of the shell, and writes its process number to
  `/var/run/gateway.pid`.
* **The daemon** (`daemonTask/daemonTask.c`) tests every three seconds whether the
  process of that number exists and starts the gateway again if not.
* **The web server** (`webServer/code`) is an epoll reactor with a thread pool, a heap
  of timers and an asynchronous log.
* **The library** (`frameWork`) has lists, trees, buffers, a hash table, a thread pool
  and a timer in C.

They interact through shared state: the pid file (daemon and gateway), the System V
queue and the log directory (callers, consumer and the next incarnation of the log
manager), a Unix socket (shell clients and the gateway), condition variables
(start-up handshakes, both pools, the log's queue) and epoll registrations (main
thread and workers of the web server). A web worker that logs enters the asynchronous
log, and the reactor's main thread calls the timer, whose callbacks close connections.

| Component | State | Operations | What is hard | What makes it correct |
|---|---|---|---|---|
| Log manager `demo/logMng/LogMng.c` | queue, directory of numbered files with a header and items, list of files, header in memory, initialisation flags | `startLogMngTask`, `initLogMng`, `writeLogApi`, `writeLog` with rotation | a crash or a failing call between any two disk writes; the handshake; memory and disk that disagree | items stored once, in order, never overwritten; bounded number of files; no caller sleeps for ever |
| C thread pool `frameWork/pthreadPool` | queue, counter, `running` | create, push, worker loop, destroy | a push that signals nobody; an unlocked flag; a broadcast that can be missed | each task once and in order; exact counter |
| C++ thread pool `webServer/code/pool` | queue, `isClosed` | `AddTask`, worker loop, destructor | notification after the unlock | no lost wake-up; no abandoned task |
| Asynchronous log `webServer/code/log` | bounded queue, file, day and line counters | `write`, `flush`, write thread, destructor | decisions made before the mutex is taken; a push inside the log's mutex; a flush without it; destruction | each line once; order; nobody blocks |
| Reactor `webServer/code/server`, `http/httpconn.cpp` | descriptors, `HttpConn` objects, epoll registrations, timers, task queue | accept, read, process, write, close by either thread, time-out | one-shot events, descriptor reuse, timer against worker | one thread per connection; requests answered; descriptors released |
| Timer `webServer/code/timer` | heap, map from ids to positions | add, adjust, doWork, tick, clear | the sift loops and the map; index arithmetic at the root | earliest first, each once |
| Buffers | bytes, two positions | append, scattered read, retrieve | growth, move to the front, loss of the oldest | bytes in order, each once |
| Shell server `shell/` | command list, socket, send buffer | start, register, accept, read, dispatch, reply | handshake, clients that die, prefix match, a buffer that is never cleared | no command lost; every client served |
| Daemon `daemonTask/` | pid file, restart counter and time | test, limit, pause, spawn, sleep | a dead process leaves a stale or empty file; numbers are reused | at most one gateway; bounded restarts; recovery |
| List, red-black tree | links, counts, colours | insert, delete, merge, walk, search | link surgery | sequences; a set, balanced |
| HTTP parser and choice of the page `http/httprequest.cpp`, `http/httpresponse.cpp` | `readBuff_`, `request_` with its parsing state, answers | read, one pass of `parse` after another, form, answer | a request cut by a read is parsed as if it were whole; what it leaves behind is parsed as the next one | a whole request gets the answer it deserves, and is acted on once |
| User store `auth/userstore.cpp` | accounts, in memory or in a database | load, log in, register, restart | two workers register one name; a restart; the database does not open | accounts are neither lost nor changed; a welcome means an account |
| Hash table `frameWork/hash` | chains of allocated nodes | insert with replacement, find, clear, free | memory of replaced values; negative chars; empty buckets | a map; one node per key |
| C timer `frameWork/timer` | array, `gs_ref` from ids to positions, size | add, adjust, delete, tick, clear | the map is not maintained by every operation | earliest first, while the map tells the truth |
| Topology tree `demo/node_tree` | four static tables | walk of a path | reads behind the end of a table | the service found is the path's own |
| String search `frameWork/stringAlgorithm` | prefix table, positions | `kmp` | falling back in both loops | first occurrence |
| Trial programs, `liblog.a`, build files, pages | | | | not modelled, see section 8 |

## 2. The modules

| Module | Models | Abstract specification it implements |
|---|---|---|
| `LogMng` (+ `LogMngRefinement`) | the log manager | `RotatingLog`: pending and kept messages, numbered as they were accepted |
| `PthreadPool` | the C pool | `TaskPool` |
| `ThreadPool` | the C++ pool | `TaskPool` with its fairness |
| `AsyncLog` | `Log` and `BlockDeque` | |
| `WebServer` | the reactor with its clients and the pool's queue | |
| `ShellServer` | shell server, its commands and clients | `CommandService` |
| `DaemonTask` | the daemon, the gateway's pid file, other processes | |
| `HeapTimer` | the timer of the web server | `Timer` |
| `HttpRequest` | the requests of the web server's clients, the choice of their pages, the user store in both builds | |
| `HeapTimerC` | the timer of the C library | `Timer` |
| `HashTable` | `hashTable.c` | `Dictionary` |
| `NodeTree` | `node_tree.c` | |
| `Kmp` | `string.c`, against a definition by quantifiers | |
| `LinkedList` | `list.c` | `TwoLists` |
| `RBTree` | `rbtree.c` | `OrderedSet` |
| `Buffer`, `RingBuffer` | both buffers | `ByteStream` |
| `LibraryBytes`, `LibraryTables`, `LibraryTrees` | the instances of the structures of the library, each with variables and constants of its own | |
| `LogMngProofs`, `PthreadPoolProofs`, `AsyncLogProofs`, `WebServerProofs` (reactor and C++ pool), `GatewayProofs` (shell and daemon), `ComponentProofs` (requests, accounts, timer, search, buffers), `TreeProofs` (red-black tree, C timer), `LibraryProofs` (hash table, node tree, lists; and all parts of `MC_Components` side by side) | theorems | |
| `MC_*` | instances for TLC; `MC_Components` puts all parts that stand alone side by side | |

Conventions. An action is a critical section, or the stretch between two system calls
or two accesses to shared memory that another thread can come between; its guard is the
code's condition. Program counters (`pc`, `cpc`, `mpc` ...) say where a thread stands;
the names of variables are those of the code where it has one. `Mut...` operators are
altered forms of a definition that a plausible bug would give; no specification uses
them. They serve to check that each property can fail: with the definition replaced by
its altered form, TLC finds the property violated.

### How state and actions correspond to the code

**LogMng.** `disk` maps a file number to its header (`num`, `wpos` for `logNum`,
`fileWriteSeq`) and its items by offset, so that a wrong offset overwrites; `list`,
`fileNum`, `seq`, `fd`, `logHead` are the fields of `gs_log_mng_t`; `queue` is the
System V queue. Sizes are in units in which a header is longer than an item. The
steps of `writeLog` are its `open`, `unlink` and `write` calls, each with its failing
branch (`Faults` says which may fail in an instance); `Crash` clears memory and keeps
queue and disk. `initLogMng` is one step after its failing calls: nothing else touches
the directory meanwhile.

**PthreadPool, ThreadPool.** A critical section is a step; `running` of the C pool is
read and written outside one. What memory holds before `thread_pool_create` sets it is
`FirstRunning`, and the outcome of joining a detached thread, which POSIX leaves
undefined, is `JoinOutcomes`: glibc returns an error at once. After the pool is freed
workers do nothing in the model.

**AsyncLog.** `Log::mtx_` is explicit (`mtx`), because `write` releases and takes it
three times; the queue's own mutex makes each queue operation one step. A file is a
day and a part number. The flush of `LOG_BASE` takes no mutex: reading `fp_` (`Flush`) and
`fflush` (`FileFlush`) are two steps, `stale` has the threads between them whose FILE has
been closed, and such an `fflush` does no harm or sets `broken`, after which the model stops.

**WebServer.** A connection is a number, a descriptor a slot that is reused. `interest`
is the epoll registration with its one-shot state, `events` what the current
`epoll_wait` returned and is not handled yet, `tasks` the pool's queue with the
operation it is for. `CloseConn_` is three steps (epoll delete, mark and count, close),
in either thread. The content of requests is the choice between keep-alive and close,
and between complete and incomplete.

**ShellServer.** `list` is changed and walked under its mutex, so a walk is one step;
it is given by what it leaves, the level and, in `sendbuf`, the answer of the last command
that matches. Names that begin a command are those the
clients send and the empty one.

**DaemonTask.** Its definitions, and those of `ThreadPool`, have the component's name
(`DaemonNext`, `PoolNext` ...) where a module of proofs has another component besides it.
`procs` says what runs under each process number; `fopen` truncates
the pid file and `fclose` fills it, with a death possible between. Time is counted up to
the five seconds the code compares with.

**HttpRequest.** A request is a sequence of tokens: each line is two halves, so that a
read can cut it, and CR and LF are tokens of their own. `wire` is what the client has
sent and the server has not read, `readBuff` and `request` are the fields of
`HttpConn`. Every pass of the loop of `parse` is a step, because the workers of two
connections run side by side and meet in the user store, whose operations are one step
each (its mutex). `build` is chosen at the start: the map in memory, where a later line of
`users.conf` replaces an earlier one and a restart forgets, or the database, where an
earlier line wins and which may fail to open. A name is known or not, and a password is a
text and whether all of it arrived, because a cut body registers a cut password.

**Library.** Every pass of a loop of `siftup_`, `siftdown_`, of the red-black fix-ups and of
`kmp` is a step, so that the invariants are also checked inside an operation; the loops of
the C timer, between which nothing can come, are recursive functions on its array. A deletion
from the red-black tree is written as the code's moves one after the other: the successor's
child for the successor (`PullOut`), the successor for the node (`TakeOver`). List nodes
are addresses that `malloc` gives out again. `HeapTimerC` keeps `gs_ref` as the code does,
and `sound` says whether an operation has used an entry of it that was wrong; from
then on nothing is promised. `HashTable` computes the code's hash of words that stand for
keys, one of them with chars that are negative; `broken` is the state after the
program has touched memory it does not own. `RingBuffer` has a `broken`, too: a piece
longer than the whole buffer, which `BufferReadFd` can give, is written outside the array
(`AppendOverruns`). A clear of the hash table that finds bucket 0 in use is no `Clear` of
`Dictionary`; `ClearsInPart` says what it does instead. `NodeTree` has the code's tables, and what lies
behind each of them.

## 3. Runs

| Run (module) | Question | Bounds |
|---|---|---|
| `LogMng_faults` (`MC_LogMng`) | Is what is stored kept, once and in order, under any two failing calls and a crash? Is the handshake safe? | 2 callers (symmetric), 1 full file left from before, 2 files of 2 items, queue of 2, 8 messages |
| `LogMng_rotation` (`MC_LogMng`) | From an empty directory: bound on files, refinement of `RotatingLog` (each message is stored behind the earlier ones or lost; only the oldest file of a full log goes), termination of calls, the queue is emptied | 1 crash, 1 failing create/init/open/header, 7 messages: the third file and two deletions are reached |
| `LogMng_first_item` (`MC_LogMng`) | *violation*, see section 7 | 1 caller, 1 failing item write |
| `PthreadPool_tasks` (`MC_PthreadPool`) | Each task once, in order, counted exactly; a busy pool drains | 2 workers, 4 tasks, both initial values of `running`, both outcomes of join |
| `ThreadPool_tasks` (`MC_ThreadPool`) | No lost wake-up, no abandoned task, workers end, refinement | 2 workers, 2 adders, 4 tasks |
| `AsyncLog_lines` (`MC_AsyncLog`) | Each line once, order, no blocking push, no line to a closed file, when the unlocked flush can meet one, the log finishes | 2 writers, queue of 1, files of 2 lines, 2 days, 3 lines |
| `WebServer_reactor` (`MC_WebServer`) | One holder per connection, no close or reuse between an event and the end of its service, exact limit, requests answered, hang-ups release | 2 descriptors, 2 workers, 2 connections, one of which sends a second request when it is kept alive, a limit of 1 or 2, one slow client |
| `WebServer_busy_timeout` (`MC_WebServer`) | *violation*, see section 7 | same, with one request per connection and expiry at any time |
| `ShellServer_commands` (`MC_ShellServer`) | No command lost, main thread goes on, clients served, refinement | 2 clients, every kind of request |
| `DaemonTask_supervision` (`MC_DaemonTask`) | At most one gateway, bounded burst of restarts, recovery | 3 process numbers, 1 stranger, the code's limit of 5 |
| `Components` (`MC_Components`) | Shape of each structure (`StructuresSound`), look-ups (`LookupsRight`), refinement of what each promises (`ImplementsTimer`, `ImplementsLibrary`); requests: a whole request gets its answer (`WholeRequestsAnswered`), is acted on once (`ActedOnOnce`), a welcome means an account (`WelcomeMeansAccount`), accounts are kept (`AccountsKept`) | see below |
| `Components_clear` (`MC_Components`) | *violation*, see section 7 | as `Components` |

A behaviour of `Components` uses one part, chosen at the start, and leaves the others as
they are; the parts share no state. Its bounds: 4 timers with time-outs of 1 and 2 up to
time 2; 4 nodes in 2 lists; 7 keys in the tree; buffers of 6 and 5 bytes with pieces of
up to 6; 3 keys and one with negative chars in 2 buckets, 3 nodes; 3 ids and a capacity of
3 for the C timer; texts of up to 6 and patterns of up to 4 letters out of 2; paths of up
to 3 names; 2 connections with 2 and 1 requests, the first cut after 3, 6, 8 or 15 tokens
(inside the request line, inside a header, before the body, inside the body), one restart.

`TypeOK` is an invariant of the configurations where nothing proves it; for the log manager, the
C++ pool and the daemon it is a theorem (section 5), so their runs do not repeat it.

Why the bounds are enough: every limit of the code that changes behaviour is reached
and passed. The log rotates and deletes, also right after a crash; queues are full and
empty; the log file is changed by line count and by day, by two threads at once; a
descriptor is reused while the old connection's thread may still run; the restart limit
is the code's own; seven keys need every case of both red-black fix-ups; the buffers
grow, move and lose bytes with scattered reads; two clients register the same name; a body
comes in two reads, and one without CRLF is followed by the next request. What the bounds
leave out is more threads, descriptors, clients or tasks of a kind that is already there
twice, or more timers, nodes and keys, which the theorems of section 5 cover.

Every `.cfg` says `CHECK_DEADLOCK FALSE`: the systems do stop in these instances, when
the bounds on messages, lines, tasks or clients are used up, when a pool is destroyed,
or when the modelled process ends. That nobody waits for ever otherwise is what the
liveness properties say.

## 4. Fairness

Each `Fairness` gives weak fairness to every thread that the scheduler of the operating
system runs, and none to what the outside may or may not do: new calls, requests,
crashes, failing calls, spurious wake-ups, the end of the process, strangers. Three
assumptions go beyond:

* `AsyncLog`: strong fairness of each writer and of the write thread, because a thread
  that keeps asking for a mutex gets it at some time although others take it in between.
* `DaemonTask`: `posix_spawn` that is tried again and again succeeds again and again
  (`SF` on `Spawn`); without it nobody could promise a gateway.
* Clients: a shell client that has connected sends its request unless it is killed,
  which is what `shelltools.c` does next; a web client reads its answer.

## 5. Proofs

| Theorem | Statement |
|---|---|
| `LogMngProofs!TypeCorrect` | `Spec => []TypeOK` |
| `LogMngProofs!HandshakeCorrect` | `Spec => []HandshakeSafe`: no caller sleeps with nobody left to wake it, and messages are posted only to a living consumer |
| `LogMngProofs!StoredAtMostOnce` | `Spec => []NoDuplicate`: no message is stored twice, under any crashes and failures |
| `LogMngProofs!FilesBounded` | `InitFiles <= LOG_FILE_MAX_NUM` and no failing `malloc` or `unlink` imply `Spec => []DiskBound` |
| `LogMngProofs!MemoryMirrors` | `FirstItemSafe` implies `Spec /\ []NamesFit => []MemoryMirrorsDisk`: the consumer writes into the newest file, behind what its header counts |
| `LogMngProofs!StoredOrdered` | under the same two conditions `[]StoredInOrder`: files and slots give the messages in the order they were accepted |
| `LogMngProofs!NothingLost` | under the same two conditions `NoOverwrite`: a stored message goes only with its whole file |
| `LogMngProofs!NamesFitForLong` | `Spec => [](InitFiles + accepted - OldItems <= NameBase ^ NameWidth => NamesFit)`: the names sort like their numbers until more messages than names were accepted |
| `LogMngProofs!LogMngImplementsRotatingLog` | `InitFiles <= LOG_FILE_MAX_NUM` and no failing item write, header update, `unlink` or `malloc` imply `Spec /\ []NamesFit => ImplementsRotatingLog` |
| `WebServerProofs!PoolTypeCorrect` | `PoolSpec => []PoolTypeOK` |
| `WebServerProofs!WakeUpsAreNotLost` | `PoolSpec => []NoLostWakeUp` |
| `WebServerProofs!NoTaskAbandoned` | `PoolSpec => []ExitOnlyWhenDrained` |
| `WebServerProofs!PoolImplementsTaskPool` | `PoolSpec => Abstract!Spec` |
| `PthreadPoolProofs!PoolConsistent` | `Spec => []PoolInv`: queue, workers' hands and counter account for every task |
| `PthreadPoolProofs!PoolImplementsTaskPool` | `Spec => ImplementsTaskPool` |
| `GatewayProofs!DaemonTypeCorrect` | `DaemonSpec => []DaemonTypeOK` |
| `GatewayProofs!RestartsAreLimited` | `DaemonSpec => []BurstBound`, for every limit |
| `GatewayProofs!AtMostOneGateway` | `StartsInTime` implies `DaemonSpec => []OneGateway` |
| `AsyncLogProofs!LogConsistent` | `Spec => []LogInv`: the mutex, the files and the wake-ups of the log, and what it takes for a flush to meet a closed FILE |
| `AsyncLogProofs!EveryLineOnceAlways` | `Spec => []EveryLineOnce`: no line is lost or written twice |
| `AsyncLogProofs!OvertakenOnlyWhenFullAlways` | `Spec => []OvertakenOnlyWhenFull` |
| `WebServerProofs!ReactorConsistent` | the inductive invariant `IInv` of the reactor |
| `WebServerProofs!OneHolderAlways` | `TimerMode # "any"` implies `Spec => []OneHolder` |
| `WebServerProofs!KeepsItsConnectionAlways` | under the same condition `Spec => KeepsItsConnection`: a descriptor is neither closed nor reused between its event and the end of its service |
| `WebServerProofs!ServerConsistent` | the same for `ServerInv`: types, exact user count, timers |
| `GatewayProofs!ShellConsistent` | `Spec => []ShellInv`: no command is lost by the start |
| `GatewayProofs!ShellImplementsService` | `Spec => ImplementsCommandService` |
| `ComponentProofs!TypeCorrect` | `HttpSpec => []HttpTypeOK` |
| `ComponentProofs!AccountsAreKept` | `HttpSpec => AccountsKept` |
| `ComponentProofs!WelcomeIsRight` | `HttpSpec => []WelcomeMeansAccount` |
| `ComponentProofs!WholeRequests` | `OutcomePages` implies `HttpSpec => []WholeRequestsAnswered`: requests that were never cut get the answers they deserve, whatever other connections do |
| `ComponentProofs!ActedOnce` | `HttpSpec => []ActedOnOnce`: no request is acted on more often than it was sent |
| `ComponentProofs!TimerConsistent` | `Spec => [](RefExact /\ HeapOrder)`: the map finds each node where it is, also inside an operation, and between operations the heap is in order |
| `ComponentProofs!HeapImplementsTimer` | `Spec => ImplementsTimer`: a tick fires the earliest first, each once, and leaves none that has expired |
| `ComponentProofs!SearchIsRight` | for the instance `K` of `Kmp`, `K!Spec => [](PrefixTable /\ FirstOccurrence)` |
| `ComponentProofs!BufferImplementsStream` | for the instance `B` of `Buffer`, `BufferSizes` implies `B!Spec => []TypeOK /\ ImplementsStream` |
| `ComponentProofs!RingImplementsLossyStream` | for the instance `R` of `RingBuffer`, `RingSizes` implies `R!Spec => []TypeOK /\ ImplementsLossyStream`, up to the first piece longer than the buffer |
| `LibraryProofs!OneNodeAlways` | for the instance `H` of `HashTable`, `HashKeysAndValues` implies `H!Spec => [](TypeOK /\ OneNodePerKey)` |
| `LibraryProofs!HashImplementsDictionary` | under the same condition `H!Spec => ImplementsDictionary`: a map up to the first undefined access, but for a clear that meets something in bucket 0 |
| `LibraryProofs!OwnProcessAlways` | for the instance `N` of `NodeTree`, `N!Spec => []OwnProcess` |
| `LibraryProofs!ListsBothWays` | for the instance `L` of `LinkedList`, `ListAddresses` implies `L!Spec => [](TypeOK /\ BothWays)` |
| `LibraryProofs!ListImplementsSequences` | under the same condition `L!Spec => ImplementsLists` |
| `TreeProofs!TreeConsistent` | for the instance `RB` of `RBTree`, `TreeKeys` implies `RB!Spec => [](TypeOK /\ ParentLinks /\ Walks /\ RedBlack)` |
| `TreeProofs!TreeImplementsSet` | under the same condition `RB!Spec => ImplementsSet` |
| `TreeProofs!ClockHeapOrder` | for the instance `CT` of `HeapTimerC`, `ClockConstants` implies `CT!Spec => []HeapOrder` |
| `TreeProofs!ClockImplementsTimer` | under the same condition `CT!Spec => ImplementsTimer` |
| `LibraryProofs!LookupsAreRight` | `MCSpec => []LookupsRight` |
| `LibraryProofs!StructuresAreSound` | `MCSpec => []StructuresSound`, each part up to its first undefined access |
| `LibraryProofs!LibraryIsImplemented` | `MCSpec => ImplementsLibrary`, with the same limits for the ring buffer and the hash table |

They hold for every value of the constants that the named assumptions allow
(`SizeAssumption`, `ThreadAssumption`, `PoolAssumption`, `DaemonAssumption`,
`LogAssumption`, `ServerAssumption`, `ShellAssumption`, `HttpAssumption`,
`HeapTimerAssumption`, `LibraryBytesAssumption`, `LibraryTablesAssumption`,
`LibraryTreesAssumption`): any number of threads, files, items, lines, descriptors, clients,
requests, names, timers, failures and crashes. The theorems about the reactor are for a server
without a timer (`timeoutMS` 0) or whose timer expires only for connections nobody works
on: with expiry at any time, which the code allows, they are false, as
`WebServer_busy_timeout` shows. The bound on the log files is for a disk on which `unlink`
works and a process that can list the new file: when either call fails the list
forgets a file, which stays on disk until a restart finds it.

The hypotheses of the other theorems about the log are facts of the code, too.
`FirstItemSafe` excludes the state in which a failing write of the first item of the first
file leaves the header in memory wrong, which `LogMng_first_item` exhibits; it holds if
item writes do not fail, or if a file was there at the start and a second is allowed.
`NamesFit` says that every file number has the three digits of its name (`%03d`): from
`log1000` on the directory is not listed in the order of the numbers, and the consumer
takes an old file for the newest. The theorem `NamesFitForLong` says how long it holds
without looking at the files. The refinement
leaves out failing item writes and header updates, after which a file is given up before it
is full, so that a deletion takes the oldest file of a log that holds fewer messages than
`RotatingLog` promises; and failing `unlink` and `malloc`, after which the list forgets a
file, and a rotation deletes younger ones before it. `OutcomePages` says that
`welcome.html` and `error.html` are among the pages the server delivers, as they are in
`webServer/resources`; without them the right answer to a form would be a 404.
`BufferSizes` and `RingSizes` say that the sizes are numbers and that the first size of the
growing buffer is allowed; `HashKeysAndValues` says that keys and lengths of values are
numbers and that no key is the empty string, which is what `hashClear` makes of a key.
`ListAddresses` says that there are finitely many addresses and that none is that of NULL.
`TreeKeys` says that keys are numbers other than 0, which stands for no node; there may be
infinitely many, for a tree always has finitely many nodes. `ClockConstants` says that the
capacity and the time-outs are natural numbers.
`Kmp` needs no condition on its bounds, and `NodeTree` only that the bound on a path's
length is a number; its tables are those of the code.

*Why the invariants have to be strengthened.*

* Log manager. `SleepersAreWoken` alone says nothing about the thread that has tested the
  flag but not slept, or about a consumer that starts later; `HandshakeInv` adds, for each
  place the starter and the consumer can stand at, what `initDone` and `initResult` are.
  `NoDuplicate` is not inductive, for a message in the queue could already be on disk;
  `DeliveryInv` says that the queue holds exactly the numbers after those received, that
  the consumer holds the last of these, and that the disk holds none later, nor, before the
  item is written, that one. `DiskBound` needs that the list in memory is what the
  directory holds, up to one file whose header could not be written (`ListMirrorsDisk`),
  and that a rotation has made room before it opens (`BoundInv`): the code counts, deletes
  and creates in three steps, between which opens fail and the process dies.
* The log's memory and order. `MemoryMirrorsDisk` speaks of the consumer between two writes;
  `MirrorInv` adds what the files are while it writes (`FilesSound`: every header counts the
  items that are there, but for one in a file being written), which number the newest has
  (`NumbersInv`) and where the consumer will write (`PositionInv`). `StoredInOrder` then
  needs the order of the items that no header counts yet, too (`OrderInv`), and that the
  message in the consumer's hand is later than all of them (`DeliveryInv`). For the refinement, `FullInv` says that a file is begun only when all others
  are full and that the list is in the order of the numbers, so that what a rotation deletes
  is the oldest file of a full log. What a reader finds is defined by the rank of a place
  (how many are before it), not by recursion over the files: to add a place behind all
  others appends to the contents, and to delete the places of the first file cuts off their
  beginning.
* Pools. For `NoTaskAbandoned` the missing fact is that a closed pool accepts nothing
  (`ClosedInv`), for the refinements it is the order of the queue (`OrderInv`), and for the
  counter of the C pool that a worker holds a task exactly between pop and count
  (`HeldInv`).
* Asynchronous log. `EveryLineOnce` and `OvertakenOnlyWhenFull` rest on who has the mutex:
  a thread with a line in its hands holds it, and the line is the last one formatted, while
  the queue has room for it (`MutexInv`). The places then partition the lines
  (`PlaceInv`), and the order goes on from the files through the write thread to the queue
  (`OrderInv`). The destructor loses nothing because it closes a queue that is empty and
  that nobody fills any more (`EndInv`). That a flush meets a closed FILE only after a change
  of file by another thread needs where such a thread can stand (`RotationInv`).
* Daemon. `OneGateway` needs `FileInv`: the pid file names the gateway that is up, and
  between the daemon's sleep and the next start none is starting. `BurstBound` needs the
  relation between `restart_count` and the starts that really happened (`BurstInv`).
* Reactor. `OneHolder` counts what `Holders` collects; the proof works with five sets of
  descriptors instead (armed, reported, queued, served, in the main thread's hands) that
  partition the open ones (`HandsInv`), each without repetition (`UniqueInv`). That a
  re-armed or deleted descriptor was nobody else's needs `DisarmedInv` (what waits or is
  worked on is registered and disarmed); that the flag `isClose_` is tested by one thread
  at a time needs `ClosedInv` (an object of an open descriptor is marked exactly while its
  `close` is under way); the counter is the number of unmarked objects (`CountInv`).
  `KeepsItsConnection` follows from the same partition: what is reported and not yet served is
  in nobody else's hands, so that nobody else can close it, and accept takes only what is closed.
* Shell. For the list the missing fact is that the flag is set exactly while the server
  thread serves, so that what the main thread registers is appended to what is there
  (`ListInv`); for the refinement it is where each client stands: once in the backlog, or
  served, or neither, and that what is executed is what this client has sent (`ClientInv`).
* User store. A welcome page answered now is about an account that was tested some
  steps earlier: `Granted` carries the fact from the test to the answer, and `Kept` (no
  step changes an account within one life of the server) carries it on.
* Requests. That a whole request gets its answer needs what the parser knows of it after
  each line, with exactly the rest of its text left in the buffer (`Midway`, `Known`,
  `TidyInv`). That none is acted on twice needs that an answer that keeps the connection has
  consumed its request line (`AnswersInv`), and that a form that is acted on is
  either taken out of the buffer with its last line or stays in front and is refused as a
  request line (`FormsInv`).
* Timer. The heap is out of order while a loop moves a node; `SiftInv` allows for that node
  only, with its children in order with its parent, and `LoopInv` says where it is and that
  the node to be deleted is behind all others. A pass of a loop and the removal of the
  last node are stutters of `Timer`; the loop's end gives the order back, from which
  it follows by induction over positions that the root is the earliest.
* Search. `PrefixTable` and `FirstOccurrence` speak of the end. While the table is made,
  `PrefixInv` says that its entries are right up to where it is made, that `j` letters end
  there as the pattern begins, and that no longer beginning that does can be continued by
  one letter. While the text is read, `MatchInv` says that what is before `k` ends with the
  first `i` letters of the pattern and that the pattern is nowhere before them. That
  falling back skips no place rests on the entry being the longest (`FallBackSkips`).
* Buffers. What is read is one stretch of the array. A lemma for each kind of step says
  where every byte of the stretch was before it (`BufferFed`, `RingFed`): in its old place
  or nearer to the front by as many places as all the others, or in the input; the move
  to the front, growth and the rest of a scattered read are cases of it.
* Hash table. `OneNodePerKey` with types is inductive (`HashInv`), for an
  insertion changes one node, which is the only one of its key or stands behind all others
  (`Differs`); hence what is found for other keys stays.
* Node tree. `Processes` is defined by the tables that each name of the path leads to.
  `NodeInv` says that a walk that has not strayed is in the only one of them for the names
  so far and has passed no row of the next name, and that for one that has strayed there is
  none; once a name leads nowhere, so do all after it (`NothingBelow`).
* Lists. `BothWays` speaks of nodes by their distance from an end, which every operation
  changes. `ListInv` says that the links of all lists are those of disjoint sequences
  without repetition, and these are what `lstDth` finds (`WalkedIs`). Each operation is
  then a lemma about sequences and links: which links it changes, and of which nodes. The
  four cases of `lstDel` are brought into one form first (`DeletedForm`), and both merges
  append a stretch (`JoinedLists`).

* Red-black tree. `TreeInv` says that there is a finite set of nodes, for each node the set of
  those below it (`Shaped`: links go both ways, and what is on the left of a node is less),
  and for each a number of black nodes on every way down from it (`Coloured`). These witnesses
  take the place of an induction over the tree: a rotation changes them for two nodes, a
  new leaf for those above it. Between two operations the colours are in order and the root
  is black; inside an insertion one node may be red with a red parent (`Growing`);
  inside a deletion one black node is missing on one side of one node (`Lacking`), and a
  pass of the loop mends this or moves it up, so that each of the four cases is a lemma. A
  deletion with two children is taken apart into the same moves as in the code
  (`Superseded`). Searches and walks are functions that call themselves once; a descent
  that ends after finitely many nodes has the value one expects (`DescentExists`), by the
  size of what is below the node it has come to.
* C timer. `ClockInv` is about the heap only: in order, no id twice, every id one of `Ids`.
  It need not say that `gs_ref` is right, for `sound` becomes `FALSE` where an operation was
  misled, and says nothing from there on. The loops run to their end inside one step:
  what a pass keeps, with a measure that it makes smaller, holds at the end
  (`DescentKeeps`), and that is the order but for one node on its way down (`Sinking`) or up
  (`Rising`), and the same nodes in other places (`Permuted`).
* Side by side. A behaviour of `MC_Components` is one of each part or a stutter of it
  (`EachAlone`), so that the theorems about the parts give those about the whole.

Each proof has one step per action. Every invariant and every action property of the runs
that are expected to pass is a theorem, under the conditions named above, and so is the safety
part of each refinement. What is left to TLC is liveness (`CallsReturn`, `QueueDrained`, `BusyWorkerDrains`, `WorkersExit`,
`LogFinishes`, `RequestAnswered`, `HangUpReleases`, `ComesUp`, `MainGetsReady`,
`ClientServed`, and the fairness in `TaskPool`), because it needs `ENABLED`.

## 6. Hazards

`PROJECT.json` lists forty places in the code where interleavings, failures, crashes,
stale state or boundary arithmetic could go wrong beyond what a test would reach, each
with the properties that watch it, or a note why none can.

## 7. Where code and documents disagree

Each of these is a run that TLC ends with a counterexample.

* `LogMng_first_item`: when the write of the first item of the first file fails
  (`LogMng.c:364`), the header in memory is never synchronised; its write offset
  is 0, and the next item is written over the file's header. `LogMng.h:89` calls the field the
  next write position. `MemoryMirrorsDisk` of `LogMng_faults` starts from a directory that
  already has a file, where memory and disk do agree, whatever fails.
* `WebServer_busy_timeout`: the time-out that `webserver.h:29` calls an idle time-out closes
  a connection whose request is queued or in a worker's hands.
* `Components_clear`: the loop of `hashClear` begins at bucket 1 (`hashTable.c:110`), and what
  bucket 0 holds is found afterwards. `hashTable.c:102` says that all elements are cleared,
  like by `clear` of an `unordered_map`.

Two more are in the models without a run of their own.

* `ring_buffer.c:92` says that the buffer can always be written and then loses its oldest
  bytes. A piece longer than the whole buffer, and `BufferReadFd` takes up to 65535 bytes
  more than fit (line 145), makes the length of `memmove` or `writePos` wrap around and is
  written outside the array (`AppendOverruns`, which sets `broken`). What is checked
  and proved of the ring buffer holds up to there.
* `pthread_pool.c:154` says that `thread_pool_destroy` wakes the threads and waits for them to
  leave. They are created detached (line 133), and glibc's `pthread_join` of a detached
  thread returns an error at once, so that mutex, condition variable and queue go while
  workers may still run; a worker that missed the broadcast, which is made without the
  mutex, sleeps on a condition variable that is gone. Nothing is claimed of workers after
  the pool is freed.

Behaviour the models contain and no document denies, so that no property forbids it: a
torn file stops `initLogMng` at every later start; from `log1000` on, names sort
in an order that is not that of their numbers; the gateway dies of `SIGPIPE` when a
client leaves before its answer; a request that matches no command is answered with an
earlier client's result; `siftup_` compares with memory before the array at the root;
the write thread of the asynchronous log can go back to sleep after the queue was
closed, and the destructor hangs; `LOG_BASE` flushes a FILE that another thread has closed
or is closing, when two threads log while the file is changed; an empty pid file makes the daemon ask for an
uninitialised process number; a request line that does not parse is answered 404 and not 400,
for the empty path is the directory of the pages; the body of a form without CRLF
stays in the buffer and is answered by a refusal of its own; `hashClear` touches memory of
buckets that are empty, and `malloc(sizeof(int))` makes room for the
value of an int key only; `gs_ref` of the C timer misleads after a deletion; `getProcess`
reads behind the tables when a name is unknown.

## 8. Not modelled, and the plan

Left out: the compiled `liblog.a`, trial programs, build files and pages, which have no
logic of this system. Inside modelled components: level-triggered modes of the reactor, its
set-up and tear-down and signals; the text of the response's header and the mapping of the
file (an empty file makes `mmap` fail and the server die, which no property could
survive); statements that `sqlite3` fails to prepare; cuts of a line other than into halves;
keys so long that their hash overflows; patterns longer than the 256 entries of the prefix
table; the synchronous mode of the asynchronous log and the queue operations nothing
calls; failing `socket`, `bind`, `listen` and `malloc` in the shell server; printing functions.

The order of the work was: the log manager first, as the only part with persistent
state; then the pools and the asynchronous log; the reactor; the shell and the daemon;
the library; the requests and the user store; then the proofs of the pools, the user
store, the reactor, the asynchronous log, the shell and the bound on the log files; then
those of the log's memory, order and refinement, of the timer, of the requests, and of the
search, the buffers, the hash table, the node tree and the lists of the library; last those of the
red-black tree and the C timer, and of all parts of the library side by side. What could
follow:

1. `Gateway`: composition of `DaemonTask`, `ShellServer` and the start of `LogMng`, so
   that a restart of the gateway meets the socket and the queue of its predecessor;
   composition of `WebServer` with `HeapTimer` instead of the set of timers, and with
   `HttpRequest` instead of the choice a worker makes.
2. Proofs: that the composed systems of point 1 implement the abstract specifications of
   their parts.
