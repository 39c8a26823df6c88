----------------------------- MODULE WebServer -----------------------------
(***************************************************************************)
(* The reactor of the web server: WebServer (webServer/code/server/        *)
(* webserver.cpp), the connection objects (http/httpconn.cpp), the epoll   *)
(* set (server/epoller.cpp) and its clients.                               *)
(*                                                                         *)
(* The main thread runs the timer, waits for events, accepts connections   *)
(* and hands reads and writes to the thread pool; a worker reads, builds   *)
(* the response, writes, re-arms the descriptor or closes it.  Descriptors *)
(* are registered with EPOLLONESHOT: an event disarms its descriptor until *)
(* EPOLL_CTL_MOD.  A descriptor that is closed is reused by a later accept *)
(* together with its HttpConn object.                                      *)
(*                                                                         *)
(* A client sends a request in one piece and the next one after the answer *)
(* to it, and may hang up at any time.  Time is abstract: the timer of a   *)
(* connection expires at any moment TimerMode allows.                      *)
(***************************************************************************)
EXTENDS Integers, Sequences, FiniteSets

CONSTANTS
    Fds,            \* descriptors accept can return, a set of numbers
    Workers,        \* threads of the pool
    MaxConns,       \* bound: connections ever made
    MaxRequests,    \* bound: requests of a connection
    Again,          \* bound: connections that send more than one request
    Limits,         \* values of MAX_FD, connections served at a time (65536)
    Slow,           \* bound: connections whose send buffer fills up once
    TimerMode       \* "off": timeoutMS is 0; "idle": a timer expires only when
                    \* its connection waits for the client; "any": at any time

ASSUME ServerAssumption ==
    /\ Fds \subseteq Nat \ {0} /\ IsFiniteSet(Fds)
    /\ MaxConns \in Nat /\ MaxRequests \in Nat /\ Limits \subseteq Nat
    /\ Slow \subseteq 1 .. MaxConns /\ Again \subseteq 1 .. MaxConns
    /\ TimerMode \in {"off", "idle", "any"}

Conns  == 1 .. MaxConns
NoConn == 0
Listen == 0     \* listenFd_

VARIABLES
    \* the clients and the kernel
    client,     \* connection -> what its client does
    sent,       \* connection -> requests sent
    arrived,    \* connection -> a request waits in the socket
    hungUp,     \* connections whose client has closed
    room,       \* connection -> state of its send buffer
    backlog,    \* connections to be accepted, oldest first
    edge,       \* the listening socket has an edge to report
    sock,       \* descriptor -> its connection
    interest,   \* descriptor -> what epoll watches: nothing, in, out, off
    \* the server
    users,      \* users_: descriptor -> its HttpConn
    userCount,  \* HttpConn::userCount
    timers,     \* descriptors with a node in timer_
    tasks,      \* the queue of the pool
    wpc, wfd,   \* the workers and the descriptor each serves
    mpc, mfd,   \* the main thread and the descriptor it handles
    events,     \* events of this epoll_wait that are not handled yet
    maxFd       \* MAX_FD, chosen once

clients == <<client, sent, arrived, hungUp, room>>
kernel  == <<backlog, edge, sock, interest>>
server  == <<users, userCount, timers>>
pool    == <<tasks, wpc, wfd>>
main    == <<mpc, mfd, events, maxFd>>
vars    == <<clients, kernel, server, pool, main>>

\* conn is the connection the object was last initialised for.
NewUser(c) == [isClose |-> FALSE, conn |-> c, unread |-> FALSE, keepAlive |-> FALSE]
NoUser     == [isClose |-> TRUE, conn |-> NoConn, unread |-> FALSE, keepAlive |-> FALSE]

Init ==
    /\ client = [c \in Conns |-> "none"]
    /\ sent = [c \in Conns |-> 0]
    /\ arrived = [c \in Conns |-> FALSE]
    /\ hungUp = {}
    /\ room = [c \in Conns |-> "empty"]
    /\ backlog = << >> /\ edge = FALSE
    /\ sock = [f \in Fds |-> NoConn]
    /\ interest = [f \in Fds |-> "none"]
    /\ users = [f \in Fds |-> NoUser]
    /\ userCount = 0 /\ timers = {}
    /\ tasks = << >>
    /\ wpc = [w \in Workers |-> "idle"] /\ wfd = [w \in Workers |-> Listen]
    /\ mpc = "tick" /\ mfd = Listen /\ events = {} /\ maxFd \in Limits
-----------------------------------------------------------------------------
(* The clients.                                                            *)

Connect(c) ==
    /\ client[c] = "none"
    /\ \A b \in Conns : b < c => client[b] # "none"
    /\ client' = [client EXCEPT ![c] = "ready"]
    /\ backlog' = Append(backlog, c)
    /\ edge' = TRUE
    /\ UNCHANGED <<sent, arrived, hungUp, room, sock, interest, server, pool, main>>

Send(c) ==
    /\ client[c] = "ready"
    /\ sent[c] < MaxRequests
    /\ sent[c] = 0 \/ c \in Again
    /\ client' = [client EXCEPT ![c] = "waiting"]
    /\ sent' = [sent EXCEPT ![c] = @ + 1]
    /\ arrived' = [arrived EXCEPT ![c] = TRUE]
    /\ UNCHANGED <<hungUp, room, kernel, server, pool, main>>

\* The client reads what fills the send buffer.
Receive(c) ==
    /\ room[c] = "full"
    /\ room' = [room EXCEPT ![c] = "drained"]
    /\ UNCHANGED <<client, sent, arrived, hungUp, kernel, server, pool, main>>

HangUp(c) ==
    /\ client[c] # "none"
    /\ c \notin hungUp
    /\ hungUp' = hungUp \cup {c}
    /\ UNCHANGED <<client, sent, arrived, room, kernel, server, pool, main>>
-----------------------------------------------------------------------------
(* CloseConn_, by the main thread or by a worker.                          *)

\* epoller_->DelFd
DelFd(f) == interest' = [interest EXCEPT ![f] = "none"]

\* Mutant: an object that is closed already is counted again.
MutMarkClosed(f) ==
    /\ users' = [users EXCEPT ![f].isClose = TRUE]
    /\ userCount' = userCount - 1

\* The test of isClose_, which is not atomic with what follows for a second
\* thread only because no second thread has the connection (OneHolder).
MarkClosed(f) ==
    IF users[f].isClose
    THEN UNCHANGED <<users, userCount>>
    ELSE /\ users' = [users EXCEPT ![f].isClose = TRUE]
         /\ userCount' = userCount - 1
-----------------------------------------------------------------------------
(* The main thread.                                                        *)

Held(f) ==
    \/ \E i \in 1 .. Len(tasks) : tasks[i].fd = f
    \/ \E w \in Workers : wpc[w] # "idle" /\ wfd[w] = f

\* GetNextTick -> tick: the callback of an expired node closes its connection.
TimerExpires ==
    /\ mpc = "tick"
    /\ \E f \in timers :
          /\ TimerMode = "idle" => ~Held(f) /\ ~arrived[users[f].conn]
          /\ mfd' = f
          /\ DelFd(f)
    /\ mpc' = "tickMark"
    /\ UNCHANGED <<clients, backlog, edge, sock, server, pool, events, maxFd>>

\* Close(): the flag and the counter, then close(fd_).
MainMarks ==
    /\ mpc \in {"tickMark", "mark"}
    /\ MarkClosed(mfd)
    /\ mpc' = IF users[mfd].isClose
              THEN (IF mpc = "tickMark" THEN "tickPop" ELSE "handle")
              ELSE (IF mpc = "tickMark" THEN "tickShut" ELSE "shut")
    /\ UNCHANGED <<clients, kernel, timers, pool, mfd, events, maxFd>>

MainShuts ==
    /\ mpc \in {"tickShut", "shut"}
    /\ sock' = [sock EXCEPT ![mfd] = NoConn]
    /\ mpc' = IF mpc = "tickShut" THEN "tickPop" ELSE "handle"
    /\ UNCHANGED <<clients, backlog, edge, interest, server, pool, mfd, events, maxFd>>

\* pop() of the node whose callback has run; tick looks at the next one.
TimerPops ==
    /\ mpc = "tickPop"
    /\ timers' = timers \ {mfd}
    /\ mpc' = "tick"
    /\ UNCHANGED <<clients, kernel, users, userCount, pool, mfd, events, maxFd>>

\* Mutant: EPOLLRDHUP is not asked for.
MutReady(f) ==
    /\ sock[f] # NoConn
    /\ \/ interest[f] = "in" /\ arrived[sock[f]]
       \/ interest[f] = "out" /\ room[sock[f]] # "full"

Ready(f) ==
    /\ sock[f] # NoConn
    /\ interest[f] \in {"in", "out"}
    /\ \/ sock[f] \in hungUp
       \/ interest[f] = "in" /\ arrived[sock[f]]
       \/ interest[f] = "out" /\ room[sock[f]] # "full"

ReadyFds == {f \in Fds : Ready(f)}

\* What epoll reports of f, in the order in which Start tests it.
EventOf(f) ==
    [fd |-> f, ev |-> IF sock[f] \in hungUp THEN "hup" ELSE interest[f]]

\* Mutant: the descriptors are registered without EPOLLONESHOT.
MutDisarm == UNCHANGED interest

\* EPOLLONESHOT: the descriptors reported are disarmed.
Disarm == interest' = [f \in Fds |-> IF f \in ReadyFds THEN "off" ELSE interest[f]]

\* epoll_wait returns the events there are; the listening socket is watched
\* for edges.
Wait ==
    /\ mpc = "tick"
    /\ edge \/ ReadyFds # {}
    /\ events' = {EventOf(f) : f \in ReadyFds}
                    \cup (IF edge THEN {[fd |-> Listen, ev |-> "in"]} ELSE {})
    /\ Disarm
    /\ edge' = FALSE
    /\ mpc' = "handle"
    /\ UNCHANGED <<clients, backlog, sock, server, pool, mfd, maxFd>>

Handled(e) == events' = events \ {e}

HandleClosing(e) ==
    /\ mpc = "handle" /\ e \in events
    /\ e.ev = "hup"
    /\ Handled(e)
    /\ mfd' = e.fd
    /\ DelFd(e.fd)
    /\ mpc' = "mark"
    /\ UNCHANGED <<clients, backlog, edge, sock, server, pool, maxFd>>

\* DealRead_ and DealWrite_: ExtentTime_ leaves the node where it is in this
\* abstraction of time, and AddTask queues the task.
HandleData(e) ==
    /\ mpc = "handle" /\ e \in events
    /\ e.fd # Listen /\ e.ev \in {"in", "out"}
    /\ Handled(e)
    /\ tasks' = Append(tasks, [fd |-> e.fd, op |-> IF e.ev = "in" THEN "read" ELSE "write"])
    /\ UNCHANGED <<clients, kernel, server, wpc, wfd, mpc, mfd, maxFd>>

HandleListen(e) ==
    /\ mpc = "handle" /\ e \in events
    /\ e.fd = Listen
    /\ Handled(e)
    /\ mpc' = "accept"
    /\ UNCHANGED <<clients, kernel, server, pool, mfd, maxFd>>

NextTurn ==
    /\ mpc = "handle"
    /\ events = {}
    /\ mpc' = "tick"
    /\ UNCHANGED <<clients, kernel, server, pool, mfd, events, maxFd>>

FreeFds == {f \in Fds : sock[f] = NoConn}

\* DealListen_: accept until there is nothing to accept (listenEvent_ has
\* EPOLLET).  The kernel returns the lowest free descriptor.
AcceptNothing ==
    /\ mpc = "accept"
    /\ backlog = << >> \/ FreeFds = {}
    /\ mpc' = "handle"
    /\ UNCHANGED <<clients, kernel, server, pool, mfd, events, maxFd>>

HasPlace == userCount < maxFd

\* SendError_ closes the new descriptor, and DealListen_ returns.
AcceptRefused ==
    /\ mpc = "accept"
    /\ backlog # << >> /\ FreeFds # {}
    /\ ~HasPlace
    /\ backlog' = Tail(backlog)
    /\ mpc' = "handle"
    /\ UNCHANGED <<clients, edge, sock, interest, server, pool, mfd, events, maxFd>>

\* HttpConn::init.
InitUser(f, c) == users' = [users EXCEPT ![f] = NewUser(c)]

\* timer_->add: a node that is there is kept and its time extended.
AddTimer(f) == timers' = IF TimerMode = "off" THEN timers ELSE timers \cup {f}

\* AddClient_ up to the registration: init() and the timer.
AcceptInit ==
    /\ mpc = "accept"
    /\ backlog # << >> /\ FreeFds # {}
    /\ HasPlace
    /\ LET f == CHOOSE g \in FreeFds : \A h \in FreeFds : g <= h
       IN /\ sock' = [sock EXCEPT ![f] = Head(backlog)]
          /\ InitUser(f, Head(backlog))
          /\ AddTimer(f)
          /\ mfd' = f
    /\ backlog' = Tail(backlog)
    /\ userCount' = userCount + 1
    /\ mpc' = "add"
    /\ UNCHANGED <<clients, edge, interest, pool, events, maxFd>>

\* epoller_->AddFd.
AcceptAdd ==
    /\ mpc = "add"
    /\ interest' = [interest EXCEPT ![mfd] = "in"]
    /\ mpc' = "accept"
    /\ UNCHANGED <<clients, backlog, edge, sock, server, pool, mfd, events, maxFd>>
-----------------------------------------------------------------------------
(* The workers.                                                            *)

Goes(w, state) == wpc' = [wpc EXCEPT ![w] = state]

TakeTask(w) ==
    /\ wpc[w] = "idle"
    /\ tasks # << >>
    /\ wfd' = [wfd EXCEPT ![w] = Head(tasks).fd]
    /\ Goes(w, Head(tasks).op)
    /\ tasks' = Tail(tasks)
    /\ UNCHANGED <<clients, kernel, server, main>>

\* OnRead_: connEvent_ has EPOLLET, so read() goes on until there is no more
\* data; a client that has hung up makes the last readv return 0.
OnRead(w) ==
    /\ wpc[w] = "read"
    /\ LET f == wfd[w]
           c == sock[f]
       IN IF c = NoConn \/ c \in hungUp
          THEN Goes(w, "del") /\ UNCHANGED <<arrived, users>>
          ELSE /\ users' = [users EXCEPT ![f].unread = @ \/ arrived[c]]
               /\ arrived' = [arrived EXCEPT ![c] = FALSE]
               /\ Goes(w, "process")
    /\ UNCHANGED <<client, sent, hungUp, room, kernel, userCount, timers, tasks, wfd, main>>

\* HttpConn::process: nothing to read, or a response to a request that asks
\* to keep the connection or not.
Process(w) ==
    /\ wpc[w] = "process"
    /\ IF users[wfd[w]].unread
       THEN /\ \E k \in BOOLEAN :
                  users' = [users EXCEPT ![wfd[w]].unread = FALSE, ![wfd[w]].keepAlive = k]
            /\ Goes(w, "modOut")
       ELSE /\ users' = [users EXCEPT ![wfd[w]].keepAlive = FALSE]
            /\ Goes(w, "modIn")
    /\ UNCHANGED <<clients, kernel, userCount, timers, tasks, wfd, main>>

\* epoller_->ModFd, which fails for a descriptor that is not registered.
ModFd(w) ==
    /\ wpc[w] \in {"modIn", "modOut"}
    /\ IF interest[wfd[w]] = "none" THEN UNCHANGED interest
       ELSE interest' = [interest EXCEPT ![wfd[w]] = IF wpc[w] = "modIn" THEN "in" ELSE "out"]
    /\ Goes(w, "idle")
    /\ UNCHANGED <<clients, backlog, edge, sock, server, tasks, wfd, main>>

\* OnWrite_ when everything is written.
WriteAll(w) ==
    /\ wpc[w] = "write"
    /\ sock[wfd[w]] # NoConn
    /\ room[sock[wfd[w]]] # "full"
    /\ client' = [client EXCEPT ![sock[wfd[w]]] = "ready"]
    /\ Goes(w, IF users[wfd[w]].keepAlive THEN "process" ELSE "del")
    /\ UNCHANGED <<sent, arrived, hungUp, room, kernel, server, tasks, wfd, main>>

\* Mutant: after EAGAIN the descriptor is not re-armed.
MutWritePart(w) ==
    /\ wpc[w] = "write"
    /\ sock[wfd[w]] \in Slow /\ room[sock[wfd[w]]] = "empty"
    /\ room' = [room EXCEPT ![sock[wfd[w]]] = "full"]
    /\ Goes(w, "idle")
    /\ UNCHANGED <<client, sent, arrived, hungUp, kernel, server, tasks, wfd, main>>

\* The send buffer is full (EAGAIN): wait until the client has read.
WritePart(w) ==
    /\ wpc[w] = "write"
    /\ sock[wfd[w]] \in Slow /\ room[sock[wfd[w]]] = "empty"
    /\ room' = [room EXCEPT ![sock[wfd[w]]] = "full"]
    /\ Goes(w, "modOut")
    /\ UNCHANGED <<client, sent, arrived, hungUp, kernel, server, tasks, wfd, main>>

\* The client has reset the connection.
WriteFails(w) ==
    /\ wpc[w] = "write"
    /\ sock[wfd[w]] \in hungUp \cup {NoConn}
    /\ Goes(w, "del")
    /\ UNCHANGED <<clients, kernel, server, tasks, wfd, main>>

WorkerDels(w) ==
    /\ wpc[w] = "del"
    /\ DelFd(wfd[w])
    /\ Goes(w, "mark")
    /\ UNCHANGED <<clients, backlog, edge, sock, server, tasks, wfd, main>>

WorkerMarks(w) ==
    /\ wpc[w] = "mark"
    /\ MarkClosed(wfd[w])
    /\ Goes(w, IF users[wfd[w]].isClose THEN "idle" ELSE "shut")
    /\ UNCHANGED <<clients, kernel, timers, tasks, wfd, main>>

WorkerShuts(w) ==
    /\ wpc[w] = "shut"
    /\ sock' = [sock EXCEPT ![wfd[w]] = NoConn]
    /\ Goes(w, "idle")
    /\ UNCHANGED <<clients, backlog, edge, interest, server, tasks, wfd, main>>
-----------------------------------------------------------------------------
MainThread ==
    \/ MainMarks \/ MainShuts \/ TimerPops \/ Wait
    \/ \E e \in events : HandleClosing(e) \/ HandleData(e) \/ HandleListen(e)
    \/ NextTurn \/ AcceptNothing \/ AcceptRefused \/ AcceptInit \/ AcceptAdd

Worker(w) ==
    \/ TakeTask(w) \/ OnRead(w) \/ Process(w) \/ ModFd(w)
    \/ WriteAll(w) \/ WritePart(w) \/ WriteFails(w)
    \/ WorkerDels(w) \/ WorkerMarks(w) \/ WorkerShuts(w)

Next ==
    \/ \E c \in Conns : Connect(c) \/ Send(c) \/ Receive(c) \/ HangUp(c)
    \/ TimerMode # "off" /\ TimerExpires
    \/ MainThread
    \/ \E w \in Workers : Worker(w)

Spec == Init /\ [][Next]_vars

\* The main thread and the workers run, and a client reads its answer.  No
\* request, hang-up or expiry is forced.
Fairness ==
    /\ WF_vars(MainThread)
    /\ \A w \in Workers : WF_vars(Worker(w))
    /\ \A c \in Conns : WF_vars(Receive(c))

FairSpec == Spec /\ Fairness
-----------------------------------------------------------------------------
(* Properties.                                                             *)

\* Type correctness.
TypeOK ==
    /\ client \in [Conns -> {"none", "ready", "waiting"}]
    /\ sent \in [Conns -> 0 .. MaxRequests]
    /\ arrived \in [Conns -> BOOLEAN]
    /\ hungUp \subseteq Conns
    /\ room \in [Conns -> {"empty", "full", "drained"}]
    /\ backlog \in Seq(Conns) /\ edge \in BOOLEAN
    /\ sock \in [Fds -> Conns \cup {NoConn}]
    /\ interest \in [Fds -> {"none", "in", "out", "off"}]
    /\ users \in [Fds -> [isClose : BOOLEAN, conn : Conns \cup {NoConn},
                          unread : BOOLEAN, keepAlive : BOOLEAN]]
    /\ userCount \in 0 .. maxFd
    /\ timers \subseteq Fds
    /\ tasks \in Seq([fd : Fds, op : {"read", "write"}])
    /\ wpc \in [Workers -> {"idle", "read", "process", "modIn", "modOut", "write",
                            "del", "mark", "shut"}]
    /\ wfd \in [Workers -> Fds \cup {Listen}]
    /\ mpc \in {"tick", "tickMark", "tickShut", "tickPop", "handle", "mark", "shut",
                "accept", "add"}
    /\ mfd \in Fds \cup {Listen}
    /\ events \subseteq [fd : Fds \cup {Listen}, ev : {"in", "out", "hup"}]
    /\ maxFd \in Limits

\* Who may touch the connection on f next: epoll, which has it armed; the main
\* thread, in an event or while it adds or closes it; a task; a worker.
Holders(f) ==
    {<<"epoll", 0>> : x \in {f} \cap {g \in Fds : interest[g] \in {"in", "out"}}}
        \cup {<<"event", e>> : e \in {d \in events : d.fd = f}}
        \cup {<<"task", i>> : i \in {j \in 1 .. Len(tasks) : tasks[j].fd = f}}
        \cup {<<"worker", w>> : w \in {v \in Workers : wpc[v] # "idle" /\ wfd[v] = f}}
        \cup {<<"main", 0>> : x \in {f} \cap
                 (IF mpc \in {"tickShut", "mark", "shut", "add"}
                        \/ (mpc = "tickMark" /\ ~users[mfd].isClose)
                  THEN {mfd} ELSE {})}

\* Every open connection is in exactly one pair of hands, and a descriptor that
\* is not open in none: no two threads work on one HttpConn, no event is
\* handled twice, and no connection is left behind disarmed.
OneHolder ==
    \A f \in Fds : Cardinality(Holders(f)) = IF sock[f] = NoConn THEN 0 ELSE 1

\* f has been reported and is not served yet: it is among the events, in the
\* queue of the pool or with a worker.
Pending(f) == Held(f) \/ \E e \in events : e.fd = f

\* From the moment epoll reports a descriptor until the thread that serves it
\* is done, the descriptor and its HttpConn stay the same connection: no other
\* thread closes it, and accept does not give its number to a new client
\* (webserver.cpp:118, 124).
KeepsItsConnection ==
    [][\A f \in Fds :
          Pending(f) /\ Pending(f)' => sock'[f] = sock[f] /\ users'[f].conn = sock[f]]_vars

\* userCount counts the descriptors in use, up to the close that is under way:
\* the limit MAX_FD neither leaks nor admits too many (webserver.cpp:141).
UserCountExact ==
    LET closing == {f \in Fds : sock[f] # NoConn /\ users[f].isClose}
    IN /\ userCount = Cardinality({f \in Fds : sock[f] # NoConn} \ closing)
       /\ \A f \in closing :
             \/ mpc \in {"tickShut", "shut"} /\ mfd = f
             \/ \E w \in Workers : wpc[w] = "shut" /\ wfd[w] = f

\* The assertion of HeapTimer::adjust (heaptimer.cpp:118) holds whenever
\* ExtentTime_ is called: every descriptor with an event has a timer.
AdjustedTimerExists ==
    TimerMode # "off" =>
        \A e \in events : e.fd # Listen /\ e.ev # "hup" => e.fd \in timers

\* What the server's tables keep consistent: types, user count and timers.
ServerInv == TypeOK /\ UserCountExact /\ AdjustedTimerExists

\* The idle timeout closes only a connection that is idle (webserver.h:29).
OnlyIdleTimesOut == mpc = "tickMark" => ~Held(mfd)

\* A request is answered, unless the server closes the connection, for lack of
\* keep-alive or because it timed out, or the client hangs up.
RequestAnswered ==
    \A c \in Conns :
        (client[c] = "waiting" /\ \E f \in Fds : sock[f] = c)
            ~> (client[c] = "ready" \/ c \in hungUp \/ \A f \in Fds : sock[f] # c)

\* A connection whose client hangs up is closed: descriptors do not leak.
HangUpReleases ==
    \A c \in Conns :
        (c \in hungUp /\ \E f \in Fds : sock[f] = c) ~> \A f \in Fds : sock[f] # c
=============================================================================
