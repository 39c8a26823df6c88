-------------------------- MODULE WebServerProofs --------------------------
(***************************************************************************)
(* Theorems about the web server: its reactor, for every number of         *)
(* descriptors, workers, connections and requests, with or without the     *)
(* timer, as long as it expires only for idle connections; and its thread  *)
(* pool, for every number of workers, of threads that add tasks, and of    *)
(* tasks.                                                                  *)
(***************************************************************************)
EXTENDS WebServer, ThreadPool, FiniteSetTheorems, SequenceTheorems,
        WellFoundedInduction, TLAPS

(* In whose hands a descriptor is, as sets of descriptors.                 *)

Open     == {f \in Fds : sock[f] # NoConn}
Armed    == {f \in Fds : interest[f] \in {"in", "out"}}
Reported == {f \in Fds : \E e \in events : e.fd = f}
Queued   == {f \in Fds : \E i \in 1 .. Len(tasks) : tasks[i].fd = f}
Served   == {f \in Fds : \E w \in Workers : wpc[w] # "idle" /\ wfd[w] = f}
MainHas  == IF mpc \in {"tickShut", "mark", "shut", "add"}
               \/ (mpc = "tickMark" /\ ~users[mfd].isClose)
            THEN {mfd} ELSE {}

Partition(S, A, E, Q, W, M) ==
    /\ S = A \cup E \cup Q \cup W \cup M
    /\ A \cap (E \cup Q \cup W \cup M) = {}
    /\ E \cap (Q \cup W \cup M) = {}
    /\ Q \cap (W \cup M) = {}
    /\ W \cap M = {}

\* Every open connection is in one pair of hands.
HandsInv == Partition(Open, Armed, Reported, Queued, Served, MainHas)

\* Two events, two tasks or two workers are never about the same descriptor.
UniqueInv ==
    /\ \A d, e \in events : d.fd = e.fd => d = e
    /\ \A i, j \in 1 .. Len(tasks) : tasks[i].fd = tasks[j].fd => i = j
    /\ \A u, v \in Workers :
          wpc[u] # "idle" /\ wpc[v] # "idle" /\ wfd[u] = wfd[v] => u = v

\* Where the main thread has which variables set.
PlaceInv ==
    /\ mpc \in {"tick", "tickMark", "tickShut", "tickPop"} => events = {}
    /\ mpc \notin {"tick", "handle", "accept"} => mfd \in Fds
    /\ \A w \in Workers : wpc[w] # "idle" => wfd[w] \in Fds
    /\ \A e \in events : e.fd = Listen => e.ev = "in"

\* What is handled or waits to be handled stays registered, and disarmed.
DisarmedInv ==
    /\ \A f \in Reported \cup Queued : interest[f] = "off"
    /\ \A w \in Workers : wpc[w] \notin {"idle", "mark", "shut"} => interest[wfd[w]] = "off"

\* An object is marked closed while its descriptor is closed or about to be.
ClosedInv ==
    /\ \A f \in Fds : sock[f] = NoConn => users[f].isClose
    /\ \A f \in Open : users[f].isClose <=>
          \/ mpc \in {"tickShut", "shut"} /\ mfd = f
          \/ \E w \in Workers : wpc[w] = "shut" /\ wfd[w] = f
    /\ mpc = "tickMark" /\ users[mfd].isClose => sock[mfd] = NoConn
    /\ mpc = "tickPop" => sock[mfd] = NoConn

CountInv  == userCount = Cardinality({f \in Fds : ~users[f].isClose})
TimersInv == TimerMode # "off" => Open \subseteq timers

\* The object of an open descriptor was initialised for its connection.
ServesItsConnection ==
    \A f \in Fds : sock[f] # NoConn => users[f].conn = sock[f]

IInv == TypeOK /\ HandsInv /\ UniqueInv /\ PlaceInv /\ DisarmedInv /\ ClosedInv
        /\ CountInv /\ TimersInv /\ ServesItsConnection

User == [isClose : BOOLEAN, conn : Conns \cup {NoConn}, unread : BOOLEAN, keepAlive : BOOLEAN]

-----------------------------------------------------------------------------
(* The types, but for the counter.                                         *)

TypeInv ==
    /\ client \in [Conns -> {"none", "ready", "waiting"}]
    /\ sent \in [Conns -> 0 .. MaxRequests]
    /\ arrived \in [Conns -> BOOLEAN]
    /\ hungUp \subseteq Conns
    /\ room \in [Conns -> {"empty", "full", "drained"}]
    /\ backlog \in Seq(Conns) /\ edge \in BOOLEAN
    /\ sock \in [Fds -> Conns \cup {NoConn}]
    /\ interest \in [Fds -> {"none", "in", "out", "off"}]
    /\ users \in [Fds -> User]
    /\ timers \subseteq Fds
    /\ tasks \in Seq([fd : Fds, op : {"read", "write"}])
    /\ wpc \in [Workers -> {"idle", "read", "process", "modIn", "modOut", "write",
                            "del", "mark", "shut"}]
    /\ wfd \in [Workers -> Fds \cup {Listen}]
    /\ mpc \in {"tick", "tickMark", "tickShut", "tickPop", "handle", "mark", "shut",
                "accept", "add"}
    /\ mfd \in Fds \cup {Listen}
    /\ events \subseteq [fd : Fds \cup {Listen}, ev : {"in", "out", "hup"}]
    /\ maxFd \in Limits

LEMMA TypeSplit == TypeOK <=> TypeInv /\ userCount \in 0 .. maxFd
BY DEF TypeOK, TypeInv, User

LEMMA SockConns ==
    ASSUME TypeInv, NEW f \in Fds, sock[f] # NoConn
    PROVE  sock[f] \in Conns
BY DEF TypeInv

\* The clients.
LEMMA TypeClients ==
    ASSUME ServerAssumption, TypeInv, NEW c \in Conns,
           Connect(c) \/ Send(c) \/ Receive(c) \/ HangUp(c)
    PROVE  TypeInv'
<1> USE DEF TypeInv, kernel, server, pool, main
<1>1. CASE Connect(c)
  <2>1. backlog' \in Seq(Conns)
    BY <1>1, AppendProperties DEF Connect
  <2> QED
    BY <1>1, <2>1 DEF Connect
<1>2. CASE Send(c)
  <2>1. sent' \in [Conns -> 0 .. MaxRequests]
    BY <1>2 DEF Send
  <2>2. arrived' \in [Conns -> BOOLEAN]
    BY <1>2 DEF Send
  <2> QED
    BY <1>2, <2>1, <2>2 DEF Send
<1>3. CASE Receive(c)
  BY <1>3 DEF Receive
<1>4. CASE HangUp(c)
  BY <1>4 DEF HangUp
<1> QED
  BY <1>1, <1>2, <1>3, <1>4

LEMMA MarkType ==
    ASSUME TypeInv, NEW f \in Fds, MarkClosed(f)
    PROVE  users' \in [Fds -> User]
<1>1. CASE users[f].isClose
  BY <1>1 DEF MarkClosed, TypeInv
<1>2. CASE ~users[f].isClose
  <2> DEFINE u == [users[f] EXCEPT !.isClose = TRUE]
  <2>0. users[f] \in User
    BY DEF TypeInv
  <2>1. u \in User
    BY <2>0 DEF User
  <2>2. users' = [users EXCEPT ![f] = u]
    BY <1>2 DEF MarkClosed
  <2> HIDE DEF u
  <2> QED
    BY <2>1, <2>2 DEF TypeInv
<1> QED
  BY <1>1, <1>2

LEMMA LeastExists ==
    ASSUME NEW S \in SUBSET Nat, S # {}
    PROVE  \E x \in S : \A y \in S : x <= y
<1>1. PICK x \in S : \A y \in S : ~ (<<y, x>> \in OpToRel(<, Nat))
  BY WFMin, NatLessThanWellFounded
<1>2. \A y \in S : ~(y < x)
  <2> SUFFICES ASSUME NEW y \in S, y < x
               PROVE  <<y, x>> \in OpToRel(<, Nat)
    BY <1>1
  <2>1. x \in Nat /\ y \in Nat
    OBVIOUS
  <2> QED
    BY <2>1, Zenon DEF OpToRel
<1> QED
  BY <1>2

\* The descriptor accept returns.
NewFd == CHOOSE g \in FreeFds : \A h \in FreeFds : g <= h

LEMMA NewFdFree ==
    ASSUME ServerAssumption, FreeFds # {}
    PROVE  NewFd \in Fds /\ sock[NewFd] = NoConn
<1>1. FreeFds \in SUBSET Nat
  BY DEF FreeFds, ServerAssumption
<1>2. NewFd \in FreeFds
  BY <1>1, LeastExists DEF NewFd
<1> QED
  BY <1>2 DEF FreeFds

LEMMA EventType ==
    ASSUME ServerAssumption, TypeInv, Wait
    PROVE  events' \subseteq [fd : Fds \cup {Listen}, ev : {"in", "out", "hup"}]
<1>1. \A f \in ReadyFds : f \in Fds /\ interest[f] \in {"in", "out"}
  BY DEF ReadyFds, Ready
<1>2. \A f \in ReadyFds : EventOf(f) \in [fd : Fds \cup {Listen}, ev : {"in", "out", "hup"}]
  BY <1>1 DEF EventOf
<1>3. [fd |-> Listen, ev |-> "in"] \in [fd : Fds \cup {Listen}, ev : {"in", "out", "hup"}]
  OBVIOUS
<1>4. events' = {EventOf(f) : f \in ReadyFds}
                    \cup (IF edge THEN {[fd |-> Listen, ev |-> "in"]} ELSE {})
  BY DEF Wait
<1> QED
  BY <1>2, <1>3, <1>4, Zenon

\* The main thread.
LEMMA TypeMain ==
    ASSUME ServerAssumption, TypeInv, PlaceInv, MainThread \/ TimerExpires
    PROVE  TypeInv'
<1> USE DEF TypeInv, clients, kernel, server, pool
<1>1. CASE TimerExpires
  <2>1. PICK f \in timers : mfd' = f /\ DelFd(f)
    BY <1>1 DEF TimerExpires
  <2>2. interest' \in [Fds -> {"none", "in", "out", "off"}] /\ mfd' \in Fds
    BY <2>1 DEF DelFd
  <2> QED
    BY <1>1, <2>2 DEF TimerExpires
<1>2. CASE MainMarks
  <2>1. mfd \in Fds
    BY <1>2 DEF MainMarks, PlaceInv
  <2>2. users' \in [Fds -> User]
    BY <1>2, <2>1, MarkType DEF MainMarks
  <2>3. mpc' \in {"tickPop", "handle", "tickShut", "shut"}
    BY <1>2 DEF MainMarks
  <2> QED
    BY <1>2, <2>2, <2>3 DEF MainMarks
<1>3. CASE MainShuts
  <2>1. sock' \in [Fds -> Conns \cup {NoConn}]
    BY <1>3 DEF MainShuts
  <2>2. mpc' \in {"tickPop", "handle"}
    BY <1>3 DEF MainShuts
  <2> QED
    BY <1>3, <2>1, <2>2 DEF MainShuts
<1>4. CASE TimerPops
  BY <1>4 DEF TimerPops
<1>5. CASE Wait
  <2>1. interest' \in [Fds -> {"none", "in", "out", "off"}]
    BY <1>5 DEF Wait, Disarm
  <2>2. events' \subseteq [fd : Fds \cup {Listen}, ev : {"in", "out", "hup"}]
    BY <1>5, EventType
  <2>3. edge' = FALSE /\ mpc' = "handle"
    BY <1>5 DEF Wait
  <2> QED
    BY <1>5, <2>1, <2>2, <2>3 DEF Wait
<1>6. ASSUME NEW e \in events, HandleClosing(e) PROVE TypeInv'
  <2>1. events' \subseteq events /\ mfd' = e.fd /\ mpc' = "mark"
    BY <1>6 DEF HandleClosing, Handled
  <2>2. interest' \in [Fds -> {"none", "in", "out", "off"}]
    BY <1>6 DEF HandleClosing, DelFd
  <2> QED
    BY <1>6, <2>1, <2>2 DEF HandleClosing
<1>7. ASSUME NEW e \in events, HandleData(e) PROVE TypeInv'
  <2>1. e \in [fd : Fds \cup {Listen}, ev : {"in", "out", "hup"}] /\ e.fd # Listen
    BY <1>7 DEF HandleData
  <2>2. [fd |-> e.fd, op |-> IF e.ev = "in" THEN "read" ELSE "write"]
            \in [fd : Fds, op : {"read", "write"}]
    BY <2>1
  <2>3. tasks' \in Seq([fd : Fds, op : {"read", "write"}])
    BY <1>7, <2>2, AppendProperties DEF HandleData
  <2>4. events' \subseteq events
    BY <1>7 DEF HandleData, Handled
  <2> QED
    BY <1>7, <2>3, <2>4 DEF HandleData
<1>8. ASSUME NEW e \in events, HandleListen(e) PROVE TypeInv'
  <2>1. events' \subseteq events /\ mpc' = "accept"
    BY <1>8 DEF HandleListen, Handled
  <2> QED
    BY <1>8, <2>1 DEF HandleListen
<1>9. CASE NextTurn \/ AcceptNothing
  BY <1>9 DEF NextTurn, AcceptNothing
<1>10. CASE AcceptRefused
  <2>1. backlog' \in Seq(Conns)
    BY <1>10, HeadTailProperties DEF AcceptRefused
  <2> QED
    BY <1>10, <2>1 DEF AcceptRefused
<1>11. CASE AcceptInit
  <2>1. backlog' \in Seq(Conns) /\ Head(backlog) \in Conns
    BY <1>11, HeadTailProperties DEF AcceptInit
  <2>2. /\ sock' = [sock EXCEPT ![NewFd] = Head(backlog)]
        /\ users' = [users EXCEPT ![NewFd] = NewUser(Head(backlog))]
        /\ timers' \subseteq timers \cup {NewFd} /\ mfd' = NewFd /\ mpc' = "add"
    BY <1>11 DEF AcceptInit, InitUser, AddTimer, NewFd
  <2>3. NewFd \in Fds
    BY <1>11, NewFdFree DEF AcceptInit
  <2>4. NewUser(Head(backlog)) \in User
    BY <2>1 DEF NewUser, User
  <2>5. sock' \in [Fds -> Conns \cup {NoConn}]
    BY <2>1, <2>2
  <2>6. users' \in [Fds -> User]
    BY <2>2, <2>4
  <2> QED
    BY <1>11, <2>1, <2>2, <2>3, <2>5, <2>6 DEF AcceptInit
<1>12. CASE AcceptAdd
  <2>1. interest' \in [Fds -> {"none", "in", "out", "off"}]
    BY <1>12 DEF AcceptAdd
  <2> QED
    BY <1>12, <2>1 DEF AcceptAdd
<1> QED
  BY <1>1, <1>2, <1>3, <1>4, <1>5, <1>6, <1>7, <1>8, <1>9, <1>10, <1>11, <1>12 DEF MainThread
\* The workers.
LEMMA GoesType ==
    ASSUME TypeInv, NEW w \in Workers,
           NEW state \in {"idle", "read", "process", "modIn", "modOut", "write",
                          "del", "mark", "shut"},
           Goes(w, state)
    PROVE  wpc' \in [Workers -> {"idle", "read", "process", "modIn", "modOut", "write",
                                 "del", "mark", "shut"}]
BY DEF TypeInv, Goes

LEMMA TypeWorker ==
    ASSUME ServerAssumption, TypeInv, PlaceInv, NEW w \in Workers, Worker(w)
    PROVE  TypeInv'
<1> USE DEF TypeInv, clients, kernel, server, main
<1> DEFINE S == {"idle", "read", "process", "modIn", "modOut", "write", "del", "mark", "shut"}
<1>0. wpc[w] # "idle" => wfd[w] \in Fds
  BY DEF PlaceInv
<1>1. CASE TakeTask(w)
  <2>1. Head(tasks) \in [fd : Fds, op : {"read", "write"}]
        /\ tasks' \in Seq([fd : Fds, op : {"read", "write"}])
    BY <1>1, HeadTailProperties DEF TakeTask
  <2>2. Head(tasks).op \in {"read", "write"} /\ Head(tasks).fd \in Fds
    BY <2>1
  <2>3. wpc' \in [Workers -> S]
    BY <1>1, <2>2, GoesType DEF TakeTask
  <2>4. wfd' \in [Workers -> Fds \cup {Listen}]
    BY <1>1, <2>2 DEF TakeTask
  <2> QED
    BY <1>1, <2>1, <2>3, <2>4 DEF TakeTask
<1>2. CASE OnRead(w)
  <2> DEFINE f == wfd[w]
             c == sock[f]
  <2>1. f \in Fds
    BY <1>0, <1>2 DEF OnRead
  <2>2. CASE c = NoConn \/ c \in hungUp
    <3>1. wpc' \in [Workers -> S]
      BY <1>2, <2>2, GoesType DEF OnRead
    <3> QED
      BY <1>2, <2>2, <3>1 DEF OnRead
  <2>3. CASE ~(c = NoConn \/ c \in hungUp)
    <3>1. c \in Conns
      BY <2>1, <2>3, SockConns
    <3>2. /\ users' = [users EXCEPT ![f].unread = users[f].unread \/ arrived[c]]
          /\ arrived' = [arrived EXCEPT ![c] = FALSE] /\ Goes(w, "process")
      BY <1>2, <2>3 DEF OnRead
    <3>3. (users[f].unread \/ arrived[c]) \in BOOLEAN /\ users[f] \in User
      BY <2>1
    <3> DEFINE u == [users[f] EXCEPT !.unread = users[f].unread \/ arrived[c]]
    <3>4. u \in User
      BY <3>3 DEF User
    <3>5. users' = [users EXCEPT ![f] = u]
      BY <3>2
    <3> HIDE DEF u, f, c
    <3>6. users' \in [Fds -> User]
      BY <3>4, <3>5
    <3>7. arrived' \in [Conns -> BOOLEAN]
      BY <3>2
    <3>8. wpc' \in [Workers -> S]
      BY <3>2, GoesType
    <3> QED
      BY <1>2, <3>6, <3>7, <3>8 DEF OnRead
  <2> QED
    BY <2>2, <2>3
<1>3. CASE Process(w)
  <2> DEFINE f == wfd[w]
  <2>1. f \in Fds
    BY <1>0, <1>3 DEF Process
  <2>2. users[f] \in User
    BY <2>1
  <2>3. \E u \in User : users' = [users EXCEPT ![f] = u]
    <3>1. CASE users[f].unread
      <4>1. PICK k \in BOOLEAN :
                users' = [users EXCEPT ![f].unread = FALSE, ![f].keepAlive = k]
        BY <1>3, <3>1 DEF Process
      <4> DEFINE u == [users[f] EXCEPT !.unread = FALSE, !.keepAlive = k]
      <4>2. u \in User
        BY <2>2 DEF User
      <4>3. users' = [users EXCEPT ![f] = u]
        BY <4>1
      <4> HIDE DEF u
      <4> QED
        BY <4>2, <4>3
    <3>2. CASE ~users[f].unread
      <4> DEFINE u == [users[f] EXCEPT !.keepAlive = FALSE]
      <4>1. u \in User
        BY <2>2 DEF User
      <4>2. users' = [users EXCEPT ![f] = u]
        BY <1>3, <3>2 DEF Process
      <4> HIDE DEF u
      <4> QED
        BY <4>1, <4>2
    <3> QED
      BY <3>1, <3>2
  <2>4. users' \in [Fds -> User]
    BY <2>3
  <2>5. wpc' \in [Workers -> S]
    BY <1>3, GoesType DEF Process
  <2> QED
    BY <1>3, <2>4, <2>5 DEF Process
<1>4. CASE ModFd(w)
  <2>1. interest' \in [Fds -> {"none", "in", "out", "off"}]
    BY <1>4 DEF ModFd
  <2>2. wpc' \in [Workers -> S]
    BY <1>4, GoesType DEF ModFd
  <2> QED
    BY <1>4, <2>1, <2>2 DEF ModFd
<1>5. CASE WriteAll(w)
  <2>1. client' \in [Conns -> {"none", "ready", "waiting"}]
    BY <1>5 DEF WriteAll
  <2>2. wpc' \in [Workers -> S]
    BY <1>5, GoesType DEF WriteAll
  <2> QED
    BY <1>5, <2>1, <2>2 DEF WriteAll
<1>6. CASE WritePart(w)
  <2>1. room' \in [Conns -> {"empty", "full", "drained"}]
    BY <1>6 DEF WritePart
  <2>2. wpc' \in [Workers -> S]
    BY <1>6, GoesType DEF WritePart
  <2> QED
    BY <1>6, <2>1, <2>2 DEF WritePart
<1>7. CASE WriteFails(w)
  <2>1. wpc' \in [Workers -> S]
    BY <1>7, GoesType DEF WriteFails
  <2> QED
    BY <1>7, <2>1 DEF WriteFails
<1>8. CASE WorkerDels(w)
  <2>1. interest' \in [Fds -> {"none", "in", "out", "off"}]
    BY <1>8 DEF WorkerDels, DelFd
  <2>2. wpc' \in [Workers -> S]
    BY <1>8, GoesType DEF WorkerDels
  <2> QED
    BY <1>8, <2>1, <2>2 DEF WorkerDels
<1>9. CASE WorkerMarks(w)
  <2>1. users' \in [Fds -> User]
    BY <1>0, <1>9, MarkType DEF WorkerMarks
  <2>2. wpc' \in [Workers -> S]
    BY <1>9, GoesType DEF WorkerMarks
  <2> QED
    BY <1>9, <2>1, <2>2 DEF WorkerMarks
<1>10. CASE WorkerShuts(w)
  <2>1. sock' \in [Fds -> Conns \cup {NoConn}]
    BY <1>10 DEF WorkerShuts
  <2>2. wpc' \in [Workers -> S]
    BY <1>10, GoesType DEF WorkerShuts
  <2> QED
    BY <1>10, <2>1, <2>2 DEF WorkerShuts
<1> QED
  BY <1>1, <1>2, <1>3, <1>4, <1>5, <1>6, <1>7, <1>8, <1>9, <1>10 DEF Worker

LEMMA TypeStep ==
    ASSUME ServerAssumption, TypeInv, PlaceInv, [Next]_vars
    PROVE  TypeInv'
<1>1. CASE UNCHANGED vars
  BY <1>1 DEF TypeInv, vars, clients, kernel, server, pool, main
<1> QED
  BY <1>1, TypeClients, TypeMain, TypeWorker DEF Next
\* Reading and building the response leave the flag and the connection alone.
LEMMA FieldsKept ==
    ASSUME TypeInv, PlaceInv, NEW w \in Workers, OnRead(w) \/ Process(w)
    PROVE  \A g \in Fds : /\ users'[g].isClose = users[g].isClose
                          /\ users'[g].conn = users[g].conn
<1> DEFINE f == wfd[w]
<1>1. f \in Fds
  BY DEF OnRead, Process, PlaceInv
<1>2. users[f] \in User
  BY <1>1 DEF TypeInv
<1>3. CASE users' = users
  BY <1>3
<1>4. CASE OnRead(w) /\ users' # users
  <2> DEFINE u == [users[f] EXCEPT !.unread = users[f].unread \/ arrived[sock[f]]]
  <2>1. users' = [users EXCEPT ![f] = u]
    BY <1>4 DEF OnRead
  <2>2. u.isClose = users[f].isClose /\ u.conn = users[f].conn
    BY <1>2 DEF User
  <2> HIDE DEF u, f
  <2> QED
    BY <2>1, <2>2 DEF TypeInv
<1>5. CASE Process(w)
  <2>1. \E k \in BOOLEAN :
           \/ users' = [users EXCEPT ![f].unread = FALSE, ![f].keepAlive = k]
           \/ users' = [users EXCEPT ![f].keepAlive = k]
    BY <1>5 DEF Process
  <2>2. PICK k \in BOOLEAN :
           \/ users' = [users EXCEPT ![f].unread = FALSE, ![f].keepAlive = k]
           \/ users' = [users EXCEPT ![f].keepAlive = k]
    BY <2>1
  <2> DEFINE u == [users[f] EXCEPT !.unread = FALSE, !.keepAlive = k]
             v == [users[f] EXCEPT !.keepAlive = k]
  <2>3. users' = [users EXCEPT ![f] = u] \/ users' = [users EXCEPT ![f] = v]
    BY <2>2
  <2>4. /\ u.isClose = users[f].isClose /\ u.conn = users[f].conn
        /\ v.isClose = users[f].isClose /\ v.conn = users[f].conn
    BY <1>2 DEF User
  <2> HIDE DEF u, v, f
  <2> QED
    BY <2>3, <2>4 DEF TypeInv
<1> QED
  BY <1>3, <1>4, <1>5
-----------------------------------------------------------------------------
(* Whose hands.                                                            *)

\* A step that moves nothing.
LEMMA HandsKept ==
    ASSUME HandsInv, Open' = Open, Armed' = Armed, Reported' = Reported,
           Queued' = Queued, Served' = Served, MainHas' = MainHas
    PROVE  HandsInv'
BY DEF HandsInv

\* The sets whose variables a step leaves alone.
LEMMA SetsKept ==
    /\ sock' = sock => Open' = Open
    /\ interest' = interest => Armed' = Armed
    /\ events' = events => Reported' = Reported
    /\ tasks' = tasks => Queued' = Queued
    /\ wpc' = wpc /\ wfd' = wfd => Served' = Served
    /\ mpc' = mpc /\ mfd' = mfd /\ users' = users => MainHas' = MainHas
BY DEF Open, Armed, Reported, Queued, Served, MainHas

LEMMA HandsClients ==
    ASSUME HandsInv, NEW c \in Conns, Connect(c) \/ Send(c) \/ Receive(c) \/ HangUp(c)
    PROVE  HandsInv'
<1>1. UNCHANGED <<sock, interest, users, tasks, wpc, wfd, mpc, mfd, events>>
  BY DEF Connect, Send, Receive, HangUp, kernel, server, pool, main
<1> QED
  BY <1>1, SetsKept, HandsKept, Zenon

Task == [fd : Fds, op : {"read", "write"}]

\* A task is added, or the first is taken.
LEMMA QueueGrows ==
    ASSUME TypeInv, NEW t \in Task, tasks' = Append(tasks, t)
    PROVE  /\ Len(tasks) \in Nat /\ Len(tasks') = Len(tasks) + 1
           /\ \A i \in 1 .. Len(tasks) : tasks'[i] = tasks[i]
           /\ tasks'[Len(tasks) + 1] = t
           /\ Queued' = Queued \cup {t.fd}
<1>1. tasks \in Seq(Task)
  BY DEF TypeInv, Task
<1>2. /\ Len(tasks) \in Nat /\ Len(tasks') = Len(tasks) + 1
      /\ \A i \in 1 .. Len(tasks) : tasks'[i] = tasks[i]
      /\ tasks'[Len(tasks) + 1] = t
  BY <1>1, AppendProperties, LenProperties
<1>3. t.fd \in Fds
  BY DEF Task
<1>4. Queued' = Queued \cup {t.fd}
  BY <1>2, <1>3 DEF Queued
<1> QED
  BY <1>2, <1>4

LEMMA QueueShrinks ==
    ASSUME TypeInv, tasks # << >>, tasks' = Tail(tasks)
    PROVE  /\ Head(tasks) \in Task /\ Head(tasks) = tasks[1]
           /\ Len(tasks) \in Nat \ {0} /\ Len(tasks') = Len(tasks) - 1
           /\ \A i \in 1 .. Len(tasks') : tasks'[i] = tasks[i + 1]
           /\ UniqueInv => Queued' = Queued \ {Head(tasks).fd}
           /\ Head(tasks).fd \in Queued
<1>1. tasks \in Seq(Task)
  BY DEF TypeInv, Task
<1>2. Len(tasks) \in Nat \ {0}
  BY <1>1, LenProperties, EmptySeq
<1>3. Head(tasks) \in Task
  BY <1>1, HeadTailProperties
<1>4. Head(tasks) = tasks[1]
  BY <1>1
<1>5. /\ Len(tasks') = Len(tasks) - 1
      /\ \A i \in 1 .. Len(tasks') : tasks'[i] = tasks[i + 1]
  BY <1>1, HeadTailProperties
<1>6. Head(tasks).fd \in Queued
  BY <1>2, <1>3, <1>4 DEF Queued, Task
<1>7. ASSUME UniqueInv PROVE Queued' = Queued \ {Head(tasks).fd}
  <2>1. \A i \in 1 .. Len(tasks') : i + 1 \in 1 .. Len(tasks) /\ i + 1 # 1
    BY <1>2, <1>5
  <2>2. \A i \in 1 .. Len(tasks) : i = 1 \/ (i - 1 \in 1 .. Len(tasks') /\ tasks'[i - 1] = tasks[i])
    BY <1>2, <1>5
  <2>3. 1 \in 1 .. Len(tasks)
    BY <1>2
  <2>4. \A g \in Queued' : g \in Queued /\ g # Head(tasks).fd
    <3> SUFFICES ASSUME NEW g \in Fds, NEW i \in 1 .. Len(tasks'), tasks'[i].fd = g
                 PROVE  g \in Queued /\ g # Head(tasks).fd
      BY DEF Queued
    <3>1. tasks[i + 1].fd = g /\ i + 1 \in 1 .. Len(tasks) /\ i + 1 # 1
      BY <1>5, <2>1
    <3>2. g \in Queued
      BY <3>1 DEF Queued
    <3>3. tasks[i + 1].fd # tasks[1].fd
      BY <1>7, <2>3, <3>1 DEF UniqueInv
    <3> QED
      BY <1>4, <3>1, <3>2, <3>3
  <2>5. \A g \in Queued : g # Head(tasks).fd => g \in Queued'
    <3> SUFFICES ASSUME NEW g \in Fds, NEW i \in 1 .. Len(tasks), tasks[i].fd = g,
                        g # Head(tasks).fd
                 PROVE  g \in Queued'
      BY DEF Queued
    <3>1. i # 1
      BY <1>4
    <3>2. i - 1 \in 1 .. Len(tasks') /\ tasks'[i - 1].fd = g
      BY <2>2, <3>1
    <3> QED
      BY <3>2 DEF Queued
  <2> QED
    BY <2>4, <2>5
<1> QED
  BY <1>2, <1>3, <1>4, <1>5, <1>6, <1>7

\* What the main thread has while it does not close or add.
LEMMA MainHasNone ==
    ASSUME mpc \in {"tick", "handle", "accept", "tickPop"}
    PROVE  MainHas = {}
BY DEF MainHas

LEMMA HandsExpire ==
    ASSUME TypeInv, HandsInv, PlaceInv, ClosedInv, TimerMode = "idle", TimerExpires
    PROVE  HandsInv'
<1>1. PICK f \in timers : ~Held(f) /\ mfd' = f /\ interest' = [interest EXCEPT ![f] = "none"]
  BY DEF TimerExpires, DelFd
<1>2. /\ mpc = "tick" /\ mpc' = "tickMark"
      /\ UNCHANGED <<sock, users, tasks, wpc, wfd, events>>
  BY DEF TimerExpires, server, pool
<1>3. f \in Fds /\ f \notin Queued /\ f \notin Served
  BY <1>1 DEF Held, TypeInv, Queued, Served
<1>4. Reported = {} /\ MainHas = {}
  BY <1>2 DEF PlaceInv, Reported, MainHas
<1>5. Armed' = Armed \ {f}
  BY <1>1 DEF Armed, TypeInv
<1>6. MainHas' = IF users[f].isClose THEN {} ELSE {f}
  BY <1>1, <1>2 DEF MainHas
<1>7. users[f].isClose <=> f \notin Open
  BY <1>2, <1>3 DEF ClosedInv, Open, Served
<1>8. Open' = Open /\ Reported' = Reported /\ Queued' = Queued /\ Served' = Served
  BY <1>2, SetsKept
<1> QED
  BY <1>3, <1>4, <1>5, <1>6, <1>7, <1>8 DEF HandsInv, Partition

LEMMA HandsMain ==
    ASSUME ServerAssumption, TypeInv, HandsInv, PlaceInv, UniqueInv, ClosedInv, MainThread
    PROVE  HandsInv'
<1> USE DEF clients, kernel, server, pool
<1>1. CASE MainMarks
  <2>1. UNCHANGED <<sock, interest, events, tasks, wpc, wfd, mfd>>
    BY <1>1 DEF MainMarks
  <2>2. MainHas' = MainHas
    <3>1. CASE users[mfd].isClose
      <4>1. mpc' = (IF mpc = "tickMark" THEN "tickPop" ELSE "handle")
        BY <1>1, <3>1 DEF MainMarks
      <4>2. mpc = "tickMark"
        <5>1. CASE mpc = "mark"
          <6>1. mfd \in Fds /\ mfd \in MainHas
            BY <5>1 DEF PlaceInv, MainHas
          <6>2. mfd \in Open /\ mfd \notin Served
            BY <6>1 DEF HandsInv, Partition
          <6>3. mfd \in Fds /\ ~users[mfd].isClose
            BY <5>1, <6>1, <6>2 DEF ClosedInv, Served
          <6> QED
            BY <3>1, <6>3
        <5> QED
          BY <1>1, <5>1 DEF MainMarks
      <4> QED
        BY <3>1, <4>1, <4>2 DEF MainHas
    <3>2. CASE ~users[mfd].isClose
      <4>1. mpc' = (IF mpc = "tickMark" THEN "tickShut" ELSE "shut") /\ mfd' = mfd
        BY <1>1, <3>2 DEF MainMarks
      <4>2. mpc \in {"tickMark", "mark"}
        BY <1>1 DEF MainMarks
      <4> QED
        BY <3>2, <4>1, <4>2 DEF MainHas
    <3> QED
      BY <3>1, <3>2
  <2> QED
    BY <2>1, <2>2, SetsKept, HandsKept, Zenon
<1>2. CASE MainShuts
  <2>1. /\ UNCHANGED <<interest, events, tasks, wpc, wfd, mfd>>
        /\ sock' = [sock EXCEPT ![mfd] = NoConn] /\ mpc' \in {"tickPop", "handle"}
    BY <1>2 DEF MainShuts
  <2>2. MainHas = {mfd} /\ mfd \in Fds
    BY <1>2 DEF MainShuts, MainHas, PlaceInv
  <2>3. MainHas' = {}
    BY <2>1 DEF MainHas
  <2>4. Open' = Open \ {mfd}
    BY <2>1, <2>2 DEF Open, TypeInv
  <2>5. Armed' = Armed /\ Reported' = Reported /\ Queued' = Queued /\ Served' = Served
    BY <2>1, SetsKept
  <2> QED
    BY <2>2, <2>3, <2>4, <2>5 DEF HandsInv, Partition
<1>3. CASE TimerPops \/ NextTurn \/ AcceptNothing \/ AcceptRefused
  <2>1. UNCHANGED <<sock, interest, events, tasks, wpc, wfd>>
    BY <1>3 DEF TimerPops, NextTurn, AcceptNothing, AcceptRefused
  <2>2. MainHas' = {} /\ MainHas = {}
    BY <1>3 DEF TimerPops, NextTurn, AcceptNothing, AcceptRefused, MainHas
  <2> QED
    BY <2>1, <2>2, SetsKept, HandsKept, Zenon
<1>4. CASE Wait
  <2>1. UNCHANGED <<sock, tasks, wpc, wfd>> /\ mpc = "tick" /\ mpc' = "handle"
    BY <1>4 DEF Wait
  <2>2. MainHas' = {} /\ MainHas = {} /\ Reported = {}
    BY <2>1 DEF MainHas, PlaceInv, Reported
  <2>3. ReadyFds \subseteq Armed
    BY DEF ReadyFds, Ready, Armed
  <2>4. Armed' = Armed \ ReadyFds
    BY <1>4 DEF Wait, Disarm, Armed, ReadyFds
  <2>5. Reported' = ReadyFds
    <3>1. /\ \A e \in events' : e.fd \in ReadyFds \cup {Listen}
          /\ \A f \in ReadyFds : \E e \in events' : e.fd = f
      <4>1. events' = {EventOf(f) : f \in ReadyFds}
                          \cup (IF edge THEN {[fd |-> Listen, ev |-> "in"]} ELSE {})
        BY <1>4 DEF Wait
      <4>2. \A f \in ReadyFds : EventOf(f).fd = f
        BY DEF EventOf
      <4> QED
        BY <4>1, <4>2
    <3>2. Listen \notin Fds /\ ReadyFds \subseteq Fds
      BY DEF Listen, ServerAssumption, ReadyFds
    <3> QED
      BY <3>1, <3>2 DEF Reported
  <2>6. Open' = Open /\ Queued' = Queued /\ Served' = Served
    BY <2>1, SetsKept
  <2> QED
    BY <2>2, <2>3, <2>4, <2>5, <2>6 DEF HandsInv, Partition
<1>5. ASSUME NEW e \in events, HandleClosing(e) PROVE HandsInv'
  <2>1. /\ UNCHANGED <<sock, tasks, wpc, wfd>> /\ mpc = "handle" /\ mpc' = "mark"
        /\ events' = events \ {e} /\ mfd' = e.fd /\ e.ev = "hup"
        /\ interest' = [interest EXCEPT ![e.fd] = "none"]
    BY <1>5 DEF HandleClosing, Handled, DelFd
  <2>2. e.fd \in Fds
    BY <2>1 DEF PlaceInv, TypeInv
  <2>3. Reported' = Reported \ {e.fd} /\ e.fd \in Reported
    BY <2>1, <2>2 DEF Reported, UniqueInv
  <2>4. Armed' = Armed \ {e.fd}
    BY <2>1 DEF Armed, TypeInv
  <2>5. MainHas = {} /\ MainHas' = {e.fd}
    BY <2>1 DEF MainHas
  <2>6. Open' = Open /\ Queued' = Queued /\ Served' = Served
    BY <2>1, SetsKept
  <2> QED
    BY <2>3, <2>4, <2>5, <2>6 DEF HandsInv, Partition
<1>6. ASSUME NEW e \in events, HandleData(e) PROVE HandsInv'
  <2> DEFINE t == [fd |-> e.fd, op |-> IF e.ev = "in" THEN "read" ELSE "write"]
  <2>1. /\ UNCHANGED <<sock, interest, wpc, wfd, users, mpc, mfd>>
        /\ events' = events \ {e} /\ tasks' = Append(tasks, t) /\ e.fd # Listen
    BY <1>6 DEF HandleData, Handled
  <2>2. e.fd \in Fds /\ t.fd = e.fd
    BY <2>1 DEF TypeInv
  <2>3. Reported' = Reported \ {e.fd} /\ e.fd \in Reported
    BY <2>1, <2>2 DEF Reported, UniqueInv
  <2>4. Queued' = Queued \cup {e.fd}
    <3>1. e.ev \in {"in", "out", "hup"}
      BY DEF TypeInv
    <3>2. t \in Task
      BY <2>2 DEF Task
    <3> QED
      BY <2>1, <2>2, <3>2, QueueGrows
  <2>5. /\ Open' = Open /\ Armed' = Armed /\ Served' = Served /\ MainHas' = MainHas
    BY <2>1, SetsKept
  <2> QED
    BY <2>3, <2>4, <2>5 DEF HandsInv, Partition
<1>7. ASSUME NEW e \in events, HandleListen(e) PROVE HandsInv'
  <2>1. /\ UNCHANGED <<sock, interest, tasks, wpc, wfd>> /\ mpc = "handle" /\ mpc' = "accept"
        /\ events' = events \ {e} /\ e.fd = Listen
    BY <1>7 DEF HandleListen, Handled
  <2>2. MainHas' = {} /\ MainHas = {}
    BY <2>1 DEF MainHas
  <2>3. Reported' = Reported
    BY <2>1 DEF Reported, Listen, ServerAssumption
  <2> QED
    BY <2>1, <2>2, <2>3, SetsKept, HandsKept
<1>8. CASE AcceptInit
  <2>1. /\ UNCHANGED <<interest, events, tasks, wpc, wfd>> /\ mpc = "accept" /\ mpc' = "add"
        /\ sock' = [sock EXCEPT ![NewFd] = Head(backlog)] /\ mfd' = NewFd
        /\ backlog # << >> /\ FreeFds # {}
    BY <1>8 DEF AcceptInit, NewFd
  <2>2. NewFd \in Fds /\ NewFd \notin Open
    BY <2>1, NewFdFree DEF Open
  <2>3. Head(backlog) # NoConn
    <3>1. Head(backlog) \in Conns
      BY <2>1, HeadTailProperties DEF TypeInv
    <3> QED
      BY <3>1 DEF Conns, NoConn
  <2>4. Open' = Open \cup {NewFd}
    BY <2>1, <2>2, <2>3 DEF Open, TypeInv
  <2>5. MainHas = {} /\ MainHas' = {NewFd}
    BY <2>1 DEF MainHas
  <2>6. Armed' = Armed /\ Reported' = Reported /\ Queued' = Queued /\ Served' = Served
    BY <2>1, SetsKept
  <2> QED
    BY <2>2, <2>4, <2>5, <2>6 DEF HandsInv, Partition
<1>9. CASE AcceptAdd
  <2>1. /\ UNCHANGED <<sock, events, tasks, wpc, wfd, mfd>> /\ mpc = "add" /\ mpc' = "accept"
        /\ interest' = [interest EXCEPT ![mfd] = "in"]
    BY <1>9 DEF AcceptAdd
  <2>2. MainHas = {mfd} /\ MainHas' = {} /\ mfd \in Fds
    BY <2>1 DEF MainHas, PlaceInv
  <2>3. Armed' = Armed \cup {mfd}
    BY <2>1, <2>2 DEF Armed, TypeInv
  <2>4. Open' = Open /\ Reported' = Reported /\ Queued' = Queued /\ Served' = Served
    BY <2>1, SetsKept
  <2> QED
    BY <2>2, <2>3, <2>4 DEF HandsInv, Partition
<1> QED
  BY <1>1, <1>2, <1>3, <1>4, <1>5, <1>6, <1>7, <1>8, <1>9 DEF MainThread

\* A worker that goes on serves the same descriptor.
LEMMA ServedKept ==
    ASSUME TypeInv, NEW w \in Workers, wpc[w] # "idle", wfd' = wfd,
           NEW state, state # "idle", Goes(w, state)
    PROVE  Served' = Served
<1>1. \A v \in Workers : wpc'[v] # "idle" <=> wpc[v] # "idle"
  BY DEF Goes, TypeInv
<1> QED
  BY <1>1 DEF Served

\* A worker that has done lets it go.
LEMMA ServedLess ==
    ASSUME TypeInv, UniqueInv, PlaceInv, NEW w \in Workers, wpc[w] # "idle", wfd' = wfd,
           Goes(w, "idle")
    PROVE  Served' = Served \ {wfd[w]} /\ wfd[w] \in Served /\ wfd[w] \in Fds
<1>1. \A v \in Workers : wpc'[v] # "idle" <=> (wpc[v] # "idle" /\ v # w)
  BY DEF Goes, TypeInv
<1>2. wfd[w] \in Fds
  BY DEF PlaceInv
<1> QED
  BY <1>1, <1>2 DEF Served, UniqueInv

\* An object that a worker is about to mark is open.
LEMMA StillOpen ==
    ASSUME TypeInv, HandsInv, UniqueInv, PlaceInv, ClosedInv, NEW w \in Workers, wpc[w] = "mark"
    PROVE  ~users[wfd[w]].isClose
<1>1. wfd[w] \in Fds /\ wfd[w] \in Served
  BY DEF PlaceInv, Served
<1>2. wfd[w] \in Open /\ wfd[w] \notin MainHas
  BY <1>1 DEF HandsInv, Partition
<1>3. ~(mpc \in {"tickShut", "shut"} /\ mfd = wfd[w])
  BY <1>2 DEF MainHas
<1>4. \A v \in Workers : ~(wpc[v] = "shut" /\ wfd[v] = wfd[w])
  BY DEF UniqueInv
<1> QED
  BY <1>1, <1>2, <1>3, <1>4 DEF ClosedInv

LEMMA HandsWorker ==
    ASSUME ServerAssumption, TypeInv, HandsInv, UniqueInv, PlaceInv, DisarmedInv, ClosedInv,
           NEW w \in Workers, Worker(w)
    PROVE  HandsInv'
<1> USE DEF clients, kernel, server, main
<1>1. CASE TakeTask(w)
  <2> DEFINE f == Head(tasks).fd
  <2>1. /\ UNCHANGED <<sock, interest, events, users, mpc, mfd>>
        /\ tasks # << >> /\ tasks' = Tail(tasks) /\ wpc[w] = "idle"
        /\ wfd' = [wfd EXCEPT ![w] = f] /\ wpc' = [wpc EXCEPT ![w] = Head(tasks).op]
    BY <1>1 DEF TakeTask, Goes
  <2>2. Head(tasks) \in Task /\ Queued' = Queued \ {f} /\ f \in Queued
    BY <2>1, QueueShrinks
  <2>3. f \in Fds /\ Head(tasks).op # "idle"
    BY <2>2 DEF Task
  <2> HIDE DEF f
  <2>4. \A v \in Workers : /\ wpc'[v] # "idle" <=> (wpc[v] # "idle" \/ v = w)
                           /\ wfd'[v] = IF v = w THEN f ELSE wfd[v]
    BY <2>1, <2>3 DEF TypeInv
  <2>5. Served' = Served \cup {f}
    BY <2>1, <2>3, <2>4 DEF Served
  <2>6. Open' = Open /\ Armed' = Armed /\ Reported' = Reported /\ MainHas' = MainHas
    BY <2>1, SetsKept
  <2> QED
    BY <2>2, <2>5, <2>6 DEF HandsInv, Partition
<1>2. CASE OnRead(w)
  <2>1. /\ UNCHANGED <<sock, interest, events, tasks, wfd, mpc, mfd>>
        /\ wpc[w] # "idle" /\ (Goes(w, "del") \/ Goes(w, "process"))
    BY <1>2 DEF OnRead
  <2>2. \A f \in Fds : users'[f].isClose = users[f].isClose
    BY <1>2, FieldsKept
  <2>3. MainHas' = MainHas
    BY <2>1, <2>2 DEF MainHas, PlaceInv
  <2>4. Served' = Served
    BY <2>1, ServedKept
  <2> QED
    BY <2>1, <2>3, <2>4, SetsKept, HandsKept, Zenon
<1>3. CASE Process(w)
  <2>1. /\ UNCHANGED <<sock, interest, events, tasks, wfd, mpc, mfd>>
        /\ wpc[w] # "idle" /\ (Goes(w, "modOut") \/ Goes(w, "modIn"))
    BY <1>3 DEF Process
  <2>2. \A f \in Fds : users'[f].isClose = users[f].isClose
    BY <1>3, FieldsKept
  <2>3. MainHas' = MainHas
    BY <2>1, <2>2 DEF MainHas, PlaceInv
  <2>4. Served' = Served
    BY <2>1, ServedKept
  <2> QED
    BY <2>1, <2>3, <2>4, SetsKept, HandsKept, Zenon
<1>4. CASE ModFd(w)
  <2> DEFINE f == wfd[w]
  <2>1. /\ UNCHANGED <<sock, events, users, tasks, wfd, mpc, mfd>>
        /\ wpc[w] \in {"modIn", "modOut"} /\ Goes(w, "idle")
        /\ interest[f] # "none" => interest' = [interest EXCEPT ![f] =
                                       IF wpc[w] = "modIn" THEN "in" ELSE "out"]
    BY <1>4 DEF ModFd
  <2>2. interest[f] = "off"
    BY <2>1 DEF DisarmedInv
  <2>3. Served' = Served \ {f} /\ f \in Served /\ f \in Fds
    BY <2>1, ServedLess
  <2>4. Armed' = Armed \cup {f}
    <3>1. \E x \in {"in", "out"} : interest' = [interest EXCEPT ![f] = x]
      BY <2>1, <2>2
    <3> HIDE DEF f
    <3> QED
      BY <2>3, <3>1 DEF Armed, TypeInv
  <2>5. Open' = Open /\ Reported' = Reported /\ Queued' = Queued /\ MainHas' = MainHas
    BY <2>1, SetsKept
  <2> QED
    BY <2>3, <2>4, <2>5 DEF HandsInv, Partition
<1>5. CASE WriteAll(w) \/ WritePart(w) \/ WriteFails(w)
  <2>1. /\ UNCHANGED <<sock, interest, events, users, tasks, wfd, mpc, mfd>>
        /\ wpc[w] # "idle" /\ (Goes(w, "process") \/ Goes(w, "del") \/ Goes(w, "modOut"))
    BY <1>5 DEF WriteAll, WritePart, WriteFails
  <2>2. Served' = Served
    BY <2>1, ServedKept
  <2> QED
    BY <2>1, <2>2, SetsKept, HandsKept, Zenon
<1>6. CASE WorkerDels(w)
  <2>1. /\ UNCHANGED <<sock, events, users, tasks, wfd, mpc, mfd>>
        /\ wpc[w] = "del" /\ Goes(w, "mark")
        /\ interest' = [interest EXCEPT ![wfd[w]] = "none"]
    BY <1>6 DEF WorkerDels, DelFd
  <2>2. Served' = Served
    BY <2>1, ServedKept
  <2>3. interest[wfd[w]] = "off"
    BY <2>1 DEF DisarmedInv
  <2>4. Armed' = Armed
    BY <2>1, <2>3 DEF Armed, TypeInv
  <2> QED
    BY <2>1, <2>2, <2>4, SetsKept, HandsKept, Zenon
<1>7. CASE WorkerMarks(w)
  <2>1. /\ UNCHANGED <<sock, interest, events, tasks, wfd, mpc, mfd>>
        /\ wpc[w] = "mark" /\ MarkClosed(wfd[w])
        /\ Goes(w, IF users[wfd[w]].isClose THEN "idle" ELSE "shut")
    BY <1>7 DEF WorkerMarks
  <2>2. ~users[wfd[w]].isClose
    BY <2>1, StillOpen
  <2>3. Served' = Served
    BY <2>1, <2>2, ServedKept
  <2>4. MainHas' = MainHas
    <3>1. wfd[w] \in Served /\ wfd[w] \in Fds
      BY <2>1 DEF PlaceInv, Served
    <3>2. wfd[w] \in Open /\ wfd[w] \notin MainHas
      BY <3>1 DEF HandsInv, Partition
    <3>3. users' = [users EXCEPT ![wfd[w]].isClose = TRUE]
      BY <2>1, <2>2 DEF MarkClosed
    <3>4. \A f \in Fds : f # wfd[w] => users'[f] = users[f]
      BY <3>3 DEF TypeInv
    <3>5. mpc = "tickMark" => mfd # wfd[w]
      BY <2>2, <3>2 DEF MainHas
    <3>6. mpc = "tickMark" => mfd \in Fds
      BY DEF PlaceInv
    <3> QED
      BY <2>1, <3>4, <3>5, <3>6 DEF MainHas
  <2> QED
    BY <2>1, <2>3, <2>4, SetsKept, HandsKept, Zenon
<1>8. CASE WorkerShuts(w)
  <2>1. /\ UNCHANGED <<interest, events, users, tasks, wfd, mpc, mfd>>
        /\ wpc[w] = "shut" /\ Goes(w, "idle")
        /\ sock' = [sock EXCEPT ![wfd[w]] = NoConn]
    BY <1>8 DEF WorkerShuts
  <2>2. Served' = Served \ {wfd[w]} /\ wfd[w] \in Served /\ wfd[w] \in Fds
    BY <2>1, ServedLess
  <2>3. Open' = Open \ {wfd[w]}
    BY <2>1, <2>2 DEF Open, TypeInv
  <2>4. Armed' = Armed /\ Reported' = Reported /\ Queued' = Queued /\ MainHas' = MainHas
    BY <2>1, SetsKept
  <2> QED
    BY <2>2, <2>3, <2>4 DEF HandsInv, Partition
<1> QED
  BY <1>1, <1>2, <1>3, <1>4, <1>5, <1>6, <1>7, <1>8 DEF Worker

LEMMA HandsStep ==
    ASSUME ServerAssumption, TimerMode # "any", TypeInv, HandsInv, UniqueInv, PlaceInv,
           DisarmedInv, ClosedInv, [Next]_vars
    PROVE  HandsInv'
<1>1. CASE UNCHANGED vars
  <2>1. UNCHANGED <<sock, interest, users, tasks, wpc, wfd, mpc, mfd, events>>
    BY <1>1 DEF vars, kernel, server, pool, main
  <2> QED
    BY <2>1, SetsKept, HandsKept, Zenon
<1>2. TimerMode # "off" => TimerMode = "idle"
  BY DEF ServerAssumption
<1> QED
  BY <1>1, <1>2, HandsClients, HandsExpire, HandsMain, HandsWorker DEF Next
-----------------------------------------------------------------------------
(* What a step changes.                                                    *)

\* Who changes the queue, the events and the workers.
LEMMA Movers ==
    ASSUME [Next]_vars
    PROVE  /\ events' \subseteq events \/ Wait
           /\ tasks' = tasks \/ (\E e \in events : HandleData(e))
                             \/ (\E w \in Workers : TakeTask(w))
           /\ UNCHANGED <<wpc, wfd>> \/ (\E w \in Workers : Worker(w) /\ UNCHANGED main)
<1> USE DEF main, pool, kernel, server, clients
<1>1. CASE UNCHANGED vars
  BY <1>1 DEF vars
<1>2. ASSUME NEW c \in Conns, Connect(c) \/ Send(c) \/ Receive(c) \/ HangUp(c)
      PROVE  UNCHANGED <<events, tasks, wpc, wfd>>
  BY <1>2 DEF Connect, Send, Receive, HangUp
<1>3. CASE TimerExpires \/ MainMarks \/ MainShuts \/ TimerPops \/ NextTurn \/ AcceptNothing
             \/ AcceptRefused \/ AcceptInit \/ AcceptAdd
  BY <1>3 DEF TimerExpires, MainMarks, MainShuts, TimerPops, NextTurn, AcceptNothing,
     AcceptRefused, AcceptInit, AcceptAdd
<1>4. CASE Wait
  BY <1>4 DEF Wait
<1>5. ASSUME NEW e \in events, HandleClosing(e) \/ HandleData(e) \/ HandleListen(e)
      PROVE  /\ events' \subseteq events /\ UNCHANGED <<wpc, wfd>>
             /\ tasks' = tasks \/ HandleData(e)
  BY <1>5 DEF HandleClosing, HandleData, HandleListen, Handled
<1>6. ASSUME NEW w \in Workers, Worker(w)
      PROVE  events' = events /\ (tasks' = tasks \/ TakeTask(w)) /\ UNCHANGED main
  BY <1>6 DEF Worker, TakeTask, OnRead, Process, ModFd, WriteAll, WritePart, WriteFails,
     WorkerDels, WorkerMarks, WorkerShuts
<1> QED
  BY <1>1, <1>2, <1>3, <1>4, <1>5, <1>6 DEF Next, MainThread

\* A worker takes a task, or goes on with its descriptor.
LEMMA WorkerGoes ==
    ASSUME NEW w \in Workers, Worker(w)
    PROVE  \/ TakeTask(w)
           \/ wpc[w] # "idle" /\ wfd' = wfd /\ tasks' = tasks /\ \E state : Goes(w, state)
BY DEF Worker, OnRead, Process, ModFd, WriteAll, WritePart, WriteFails, WorkerDels,
   WorkerMarks, WorkerShuts

\* What happens to the objects, their descriptors, the counter and the timers.
LEMMA ObjectsStep ==
    ASSUME TypeInv, PlaceInv, [Next]_vars
    PROVE  \/ /\ UNCHANGED <<sock, userCount, timers>>
              /\ \A g \in Fds : /\ users'[g].isClose = users[g].isClose
                                /\ users'[g].conn = users[g].conn
           \/ \E f \in Fds : MarkClosed(f) /\ UNCHANGED <<sock, timers>>
           \/ \E f \in Fds : /\ sock' = [sock EXCEPT ![f] = NoConn]
                             /\ UNCHANGED <<users, userCount, timers>>
           \/ TimerPops
           \/ AcceptInit
<1> USE DEF main, pool, kernel, server, clients
<1>1. CASE UNCHANGED vars
  BY <1>1 DEF vars
<1>2. ASSUME NEW c \in Conns, Connect(c) \/ Send(c) \/ Receive(c) \/ HangUp(c)
      PROVE  UNCHANGED <<sock, users, userCount, timers>>
  BY <1>2 DEF Connect, Send, Receive, HangUp
<1>3. CASE TimerExpires \/ Wait \/ NextTurn \/ AcceptNothing \/ AcceptRefused \/ AcceptAdd
  BY <1>3 DEF TimerExpires, Wait, NextTurn, AcceptNothing, AcceptRefused, AcceptAdd
<1>4. ASSUME NEW e \in events, HandleClosing(e) \/ HandleData(e) \/ HandleListen(e)
      PROVE  UNCHANGED <<sock, users, userCount, timers>>
  BY <1>4 DEF HandleClosing, HandleData, HandleListen
<1>5. CASE MainMarks
  BY <1>5 DEF MainMarks, PlaceInv
<1>6. CASE MainShuts
  BY <1>6 DEF MainShuts, PlaceInv
<1>7. ASSUME NEW w \in Workers, OnRead(w) \/ Process(w)
      PROVE  /\ UNCHANGED <<sock, userCount, timers>>
             /\ \A g \in Fds : /\ users'[g].isClose = users[g].isClose
                               /\ users'[g].conn = users[g].conn
  <2>1. UNCHANGED <<sock, userCount, timers>>
    BY <1>7 DEF OnRead, Process
  <2> QED
    BY <1>7, <2>1, FieldsKept
<1>8. ASSUME NEW w \in Workers,
             TakeTask(w) \/ ModFd(w) \/ WriteAll(w) \/ WritePart(w) \/ WriteFails(w) \/ WorkerDels(w)
      PROVE  UNCHANGED <<sock, users, userCount, timers>>
  BY <1>8 DEF TakeTask, ModFd, WriteAll, WritePart, WriteFails, WorkerDels
<1>9. ASSUME NEW w \in Workers, WorkerMarks(w)
      PROVE  wfd[w] \in Fds /\ MarkClosed(wfd[w]) /\ UNCHANGED <<sock, timers>>
  BY <1>9 DEF WorkerMarks, PlaceInv
<1>10. ASSUME NEW w \in Workers, WorkerShuts(w)
       PROVE  /\ wfd[w] \in Fds /\ sock' = [sock EXCEPT ![wfd[w]] = NoConn]
              /\ UNCHANGED <<users, userCount, timers>>
  BY <1>10 DEF WorkerShuts, PlaceInv
<1> QED
  BY <1>1, <1>2, <1>3, <1>4, <1>5, <1>6, <1>7, <1>8, <1>9, <1>10 DEF Next, MainThread, Worker
-----------------------------------------------------------------------------
(* The other parts of the invariant, one lemma for each.                   *)

\* What epoll_wait returns: one event for each descriptor that is ready.
LEMMA EventsOfWait ==
    ASSUME ServerAssumption, TypeInv, Wait
    PROVE  /\ Reported' = ReadyFds /\ ReadyFds \subseteq Fds
           /\ \A d, e \in events' : d.fd = e.fd => d = e
           /\ \A e \in events' : e.fd = Listen => e.ev = "in"
<1>1. events' = {EventOf(f) : f \in ReadyFds}
                    \cup (IF edge THEN {[fd |-> Listen, ev |-> "in"]} ELSE {})
  BY DEF Wait
<1>2. \A f \in ReadyFds : EventOf(f).fd = f
  BY DEF EventOf
<1>3. ReadyFds \subseteq Fds /\ Listen \notin Fds
  BY DEF ReadyFds, Listen, ServerAssumption
<1>4. \A e \in events' : \/ e.fd \in ReadyFds /\ e = EventOf(e.fd)
                         \/ e = [fd |-> Listen, ev |-> "in"] /\ e.fd = Listen /\ e.ev = "in"
  <2> SUFFICES ASSUME NEW e \in events'
               PROVE  \/ e.fd \in ReadyFds /\ e = EventOf(e.fd)
                      \/ e = [fd |-> Listen, ev |-> "in"] /\ e.fd = Listen /\ e.ev = "in"
    OBVIOUS
  <2>1. CASE \E f \in ReadyFds : e = EventOf(f)
    BY <1>2, <2>1, Zenon
  <2>2. CASE e = [fd |-> Listen, ev |-> "in"]
    BY <2>2
  <2> QED
    BY <1>1, <2>1, <2>2
<1>5. Reported' = ReadyFds
  <2>1. \A f \in ReadyFds : EventOf(f) \in events'
    BY <1>1
  <2> QED
    BY <1>2, <1>3, <1>4, <2>1, Zenon DEF Reported
<1>6. \A d, e \in events' : d.fd = e.fd => d = e
  BY <1>3, <1>4, Zenon
<1>7. \A e \in events' : e.fd = Listen => e.ev = "in"
  BY <1>3, <1>4, Zenon
<1> QED
  BY <1>3, <1>5, <1>6, <1>7

LEMMA PlaceStep ==
    ASSUME ServerAssumption, TypeInv, PlaceInv, [Next]_vars
    PROVE  PlaceInv'
<1>1. /\ mpc' \in {"tick", "tickMark", "tickShut", "tickPop"} => events' = {}
      /\ mpc' \notin {"tick", "handle", "accept"} => mfd' \in Fds
  <2>1. CASE UNCHANGED <<mpc, mfd, events>>
    BY <2>1 DEF PlaceInv
  <2>2. CASE TimerExpires
    BY <2>2 DEF TimerExpires, PlaceInv, TypeInv
  <2>3. CASE MainMarks
    <3>1. /\ UNCHANGED <<mfd, events>> /\ mpc \in {"tickMark", "mark"}
          /\ mpc' \in IF mpc = "tickMark" THEN {"tickPop", "tickShut"} ELSE {"handle", "shut"}
      BY <2>3 DEF MainMarks
    <3> QED
      BY <3>1 DEF PlaceInv
  <2>4. CASE MainShuts
    <3>1. /\ UNCHANGED <<mfd, events>> /\ mpc \in {"tickShut", "shut"}
          /\ mpc' = IF mpc = "tickShut" THEN "tickPop" ELSE "handle"
      BY <2>4 DEF MainShuts
    <3> QED
      BY <3>1 DEF PlaceInv
  <2>5. CASE TimerPops \/ NextTurn \/ AcceptNothing \/ AcceptRefused \/ AcceptAdd \/ Wait
    BY <2>5 DEF TimerPops, NextTurn, AcceptNothing, AcceptRefused, AcceptAdd, Wait, PlaceInv
  <2>6. ASSUME NEW e \in events, HandleClosing(e)
        PROVE  mpc' = "mark" /\ mfd' \in Fds
    BY <2>6 DEF HandleClosing, PlaceInv, TypeInv
  <2>7. ASSUME NEW e \in events, HandleData(e) \/ HandleListen(e)
        PROVE  mpc' \in {"handle", "accept"}
    BY <2>7 DEF HandleData, HandleListen
  <2>8. CASE AcceptInit
    BY <2>8, NewFdFree DEF AcceptInit, NewFd
  <2>9. ASSUME NEW w \in Workers, Worker(w) PROVE UNCHANGED <<mpc, mfd, events>>
    BY <2>9 DEF Worker, main, TakeTask, OnRead, Process, ModFd, WriteAll, WritePart,
       WriteFails, WorkerDels, WorkerMarks, WorkerShuts
  <2>10. ASSUME NEW c \in Conns, Connect(c) \/ Send(c) \/ Receive(c) \/ HangUp(c)
         PROVE  UNCHANGED <<mpc, mfd, events>>
    BY <2>10 DEF Connect, Send, Receive, HangUp, main
  <2>11. CASE UNCHANGED vars
    BY <2>1, <2>11 DEF vars, main
  <2> QED
    BY <2>1, <2>2, <2>3, <2>4, <2>5, <2>6, <2>7, <2>8, <2>9, <2>10, <2>11 DEF Next, MainThread
<1>2. \A w \in Workers : wpc'[w] # "idle" => wfd'[w] \in Fds
  <2>1. CASE UNCHANGED <<wpc, wfd>>
    BY <2>1 DEF PlaceInv
  <2>2. ASSUME NEW w \in Workers, TakeTask(w)
        PROVE  \A v \in Workers : wpc'[v] # "idle" => wfd'[v] \in Fds
    <3>1. Head(tasks) \in Task
      BY <2>2, QueueShrinks DEF TakeTask
    <3>2. Head(tasks).fd \in Fds
      BY <3>1 DEF Task
    <3> QED
      BY <2>2, <3>2 DEF TakeTask, Goes, PlaceInv, TypeInv
  <2>3. ASSUME NEW w \in Workers, wpc[w] # "idle", wfd' = wfd, NEW state, Goes(w, state)
        PROVE  \A v \in Workers : wpc'[v] # "idle" => wfd'[v] \in Fds
    BY <2>3 DEF Goes, PlaceInv, TypeInv
  <2> QED
    BY <2>1, <2>2, <2>3, Movers, WorkerGoes
<1>3. \A e \in events' : e.fd = Listen => e.ev = "in"
  BY Movers, EventsOfWait DEF PlaceInv
<1> QED
  BY <1>1, <1>2, <1>3 DEF PlaceInv

LEMMA UniqueStep ==
    ASSUME ServerAssumption, TypeInv, HandsInv, UniqueInv, PlaceInv, [Next]_vars
    PROVE  UniqueInv'
<1>1. \A d, e \in events' : d.fd = e.fd => d = e
  BY Movers, EventsOfWait DEF UniqueInv
<1>2. \A i, j \in 1 .. Len(tasks') : tasks'[i].fd = tasks'[j].fd => i = j
  <2>1. CASE tasks' = tasks
    BY <2>1 DEF UniqueInv
  <2>2. ASSUME NEW e \in events, HandleData(e)
        PROVE  \A i, j \in 1 .. Len(tasks') : tasks'[i].fd = tasks'[j].fd => i = j
    <3> DEFINE t == [fd |-> e.fd, op |-> IF e.ev = "in" THEN "read" ELSE "write"]
    <3>1. e.fd \in Fds /\ tasks' = Append(tasks, t) /\ t.fd = e.fd
      BY <2>2 DEF HandleData, TypeInv
    <3>2. t \in Task
      BY <3>1 DEF Task
    <3>3. e.fd \notin Queued
      BY <3>1 DEF Reported, HandsInv, Partition
    <3> HIDE DEF t
    <3>4. /\ Len(tasks) \in Nat /\ Len(tasks') = Len(tasks) + 1
          /\ \A i \in 1 .. Len(tasks) : tasks'[i] = tasks[i]
          /\ tasks'[Len(tasks) + 1] = t
      BY <3>1, <3>2, QueueGrows
    <3>5. \A i \in 1 .. Len(tasks) : tasks[i].fd # e.fd
      BY <3>1, <3>3 DEF Queued
    <3>6. \A i \in 1 .. Len(tasks') : i \in 1 .. Len(tasks) \/ i = Len(tasks) + 1
      BY <3>4
    <3> QED
      BY <3>1, <3>4, <3>5, <3>6 DEF UniqueInv
  <2>3. ASSUME NEW w \in Workers, TakeTask(w)
        PROVE  \A i, j \in 1 .. Len(tasks') : tasks'[i].fd = tasks'[j].fd => i = j
    <3>1. /\ Len(tasks) \in Nat \ {0} /\ Len(tasks') = Len(tasks) - 1
          /\ \A i \in 1 .. Len(tasks') : tasks'[i] = tasks[i + 1]
      BY <2>3, QueueShrinks DEF TakeTask
    <3> SUFFICES ASSUME NEW i \in 1 .. Len(tasks'), NEW j \in 1 .. Len(tasks'),
                        tasks'[i].fd = tasks'[j].fd
                 PROVE  i = j
      OBVIOUS
    <3>2. i + 1 \in 1 .. Len(tasks) /\ j + 1 \in 1 .. Len(tasks)
      BY <3>1
    <3>3. i + 1 = j + 1
      BY <3>1, <3>2 DEF UniqueInv
    <3> QED
      BY <3>1, <3>3
  <2> QED
    BY <2>1, <2>2, <2>3, Movers
<1>3. \A u, v \in Workers :
          wpc'[u] # "idle" /\ wpc'[v] # "idle" /\ wfd'[u] = wfd'[v] => u = v
  <2>1. CASE UNCHANGED <<wpc, wfd>>
    BY <2>1 DEF UniqueInv
  <2>2. ASSUME NEW w \in Workers, TakeTask(w)
        PROVE  \A u, v \in Workers :
                  wpc'[u] # "idle" /\ wpc'[v] # "idle" /\ wfd'[u] = wfd'[v] => u = v
    <3> DEFINE f == Head(tasks).fd
    <3>1. f \in Queued
      BY <2>2, QueueShrinks DEF TakeTask
    <3>2. f \notin Served /\ f \in Fds
      BY <3>1 DEF HandsInv, Partition, Queued
    <3> HIDE DEF f
    <3>3. \A v \in Workers : v # w => wpc'[v] = wpc[v] /\ wfd'[v] = wfd[v]
      BY <2>2 DEF TakeTask, Goes, TypeInv
    <3>4. wfd'[w] = f
      BY <2>2 DEF TakeTask, TypeInv, f
    <3>5. \A v \in Workers : wpc[v] # "idle" => wfd[v] # f
      BY <3>2 DEF Served
    <3> QED
      BY <3>3, <3>4, <3>5 DEF UniqueInv
  <2>3. ASSUME NEW w \in Workers, wpc[w] # "idle", wfd' = wfd, NEW state, Goes(w, state)
        PROVE  \A u, v \in Workers :
                  wpc'[u] # "idle" /\ wpc'[v] # "idle" /\ wfd'[u] = wfd'[v] => u = v
    BY <2>3 DEF Goes, UniqueInv, TypeInv
  <2> QED
    BY <2>1, <2>2, <2>3, Movers, WorkerGoes
<1> QED
  BY <1>1, <1>2, <1>3 DEF UniqueInv

\* What is handled or waits moves on from the events to the queue to the workers.
LEMMA WaitingShrinks ==
    ASSUME ServerAssumption, TypeInv, UniqueInv, [Next]_vars
    PROVE  Wait \/ Reported' \cup Queued' \subseteq Reported \cup Queued
<1>1. CASE tasks' = tasks /\ events' \subseteq events
  BY <1>1 DEF Reported, Queued
<1>2. ASSUME NEW e \in events, HandleData(e)
      PROVE  Reported' \cup Queued' \subseteq Reported \cup Queued
  <2> DEFINE t == [fd |-> e.fd, op |-> IF e.ev = "in" THEN "read" ELSE "write"]
  <2>1. /\ e.fd \in Fds /\ tasks' = Append(tasks, t) /\ t.fd = e.fd
        /\ events' \subseteq events
    BY <1>2 DEF HandleData, Handled, TypeInv
  <2>2. t \in Task
    BY <2>1 DEF Task
  <2> HIDE DEF t
  <2>3. Queued' = Queued \cup {e.fd}
    BY <2>1, <2>2, QueueGrows
  <2>4. e.fd \in Reported /\ Reported' \subseteq Reported
    BY <2>1 DEF Reported
  <2> QED
    BY <2>3, <2>4
<1>3. ASSUME NEW w \in Workers, TakeTask(w)
      PROVE  Reported' \cup Queued' \subseteq Reported \cup Queued
  <2>1. Queued' = Queued \ {Head(tasks).fd}
    BY <1>3, QueueShrinks DEF TakeTask
  <2>2. events' = events
    BY <1>3 DEF TakeTask, main
  <2> QED
    BY <2>1, <2>2 DEF Reported
<1> QED
  BY <1>1, <1>2, <1>3, Movers

\* Only the one who has a descriptor in hand changes how it is registered.
LEMMA InterestStep ==
    ASSUME ServerAssumption, TimerMode # "any", TypeInv, HandsInv, UniqueInv, PlaceInv,
           DisarmedInv, [Next]_vars
    PROVE  \/ interest' = interest
           \/ Wait
           \/ \E x \in {"none", "in", "out"}, f \in Fds :
                 /\ interest' = [interest EXCEPT ![f] = x]
                 /\ f \notin Reported' \cup Queued'
                 /\ \A w \in Workers : wpc'[w] \notin {"idle", "mark", "shut"} => wfd'[w] # f
<1> USE DEF main, pool, kernel, server, clients
<1>1. ASSUME UNCHANGED vars PROVE interest' = interest
  BY <1>1 DEF vars
<1>2. ASSUME NEW c \in Conns, Connect(c) \/ Send(c) \/ Receive(c) \/ HangUp(c)
      PROVE  interest' = interest
  BY <1>2 DEF Connect, Send, Receive, HangUp
<1>3. ASSUME MainMarks \/ MainShuts \/ TimerPops \/ NextTurn \/ AcceptNothing \/ AcceptRefused
             \/ AcceptInit
      PROVE  interest' = interest
  BY <1>3 DEF MainMarks, MainShuts, TimerPops, NextTurn, AcceptNothing, AcceptRefused, AcceptInit
<1>4. ASSUME TimerExpires, TimerMode = "idle"
      PROVE  \E f \in Fds : /\ interest' = [interest EXCEPT ![f] = "none"]
                            /\ f \notin Queued \cup Served /\ f \notin Reported'
                            /\ UNCHANGED <<tasks, wpc, wfd>>
  <2>1. PICK f \in timers : ~Held(f) /\ interest' = [interest EXCEPT ![f] = "none"]
    BY <1>4 DEF TimerExpires, DelFd
  <2>2. f \in Fds /\ f \notin Queued \cup Served
    BY <2>1 DEF TypeInv, Held, Queued, Served
  <2>3. events' = {} /\ UNCHANGED <<tasks, wpc, wfd>>
    BY <1>4 DEF TimerExpires, PlaceInv
  <2>4. Reported' = {}
    BY <2>3 DEF Reported
  <2> QED
    BY <2>1, <2>2, <2>3, <2>4
<1>5. ASSUME NEW e \in events, HandleClosing(e)
      PROVE  \E f \in Fds : /\ interest' = [interest EXCEPT ![f] = "none"]
                            /\ f \notin Queued \cup Served /\ f \notin Reported'
                            /\ UNCHANGED <<tasks, wpc, wfd>>
  <2>1. /\ interest' = [interest EXCEPT ![e.fd] = "none"] /\ events' = events \ {e}
        /\ e.ev = "hup" /\ UNCHANGED <<tasks, wpc, wfd>>
    BY <1>5 DEF HandleClosing, DelFd, Handled
  <2>2. e.fd \in Fds
    BY <2>1 DEF PlaceInv, TypeInv
  <2>3. e.fd \in Reported /\ e.fd \notin Reported'
    BY <1>5, <2>1, <2>2 DEF Reported, UniqueInv
  <2>4. e.fd \notin Queued \cup Served
    BY <2>3 DEF HandsInv, Partition
  <2> QED
    BY <2>1, <2>2, <2>3, <2>4
<1>6. ASSUME NEW e \in events, HandleData(e) \/ HandleListen(e) PROVE interest' = interest
  BY <1>6 DEF HandleData, HandleListen
<1>7. ASSUME AcceptAdd
      PROVE  \E f \in Fds : /\ interest' = [interest EXCEPT ![f] = "in"]
                            /\ f \notin Queued \cup Served /\ f \notin Reported'
                            /\ UNCHANGED <<tasks, wpc, wfd>>
  <2>1. /\ interest' = [interest EXCEPT ![mfd] = "in"] /\ UNCHANGED <<events, tasks, wpc, wfd>>
        /\ mpc = "add"
    BY <1>7 DEF AcceptAdd
  <2>2. mfd \in Fds /\ mfd \in MainHas
    BY <2>1 DEF PlaceInv, MainHas
  <2>3. mfd \notin Queued \cup Served /\ mfd \notin Reported
    BY <2>2 DEF HandsInv, Partition
  <2>4. Reported' = Reported
    BY <2>1, SetsKept
  <2> QED
    BY <2>1, <2>2, <2>3, <2>4
<1>8. ASSUME NEW w \in Workers, ModFd(w) \/ WorkerDels(w)
      PROVE  \/ interest' = interest
             \/ \E x \in {"none", "in", "out"}, f \in Fds :
                   /\ interest' = [interest EXCEPT ![f] = x]
                   /\ f \notin Reported' \cup Queued'
                   /\ \A v \in Workers : wpc'[v] \notin {"idle", "mark", "shut"} => wfd'[v] # f
  <2>1. wpc[w] # "idle" /\ UNCHANGED <<events, tasks, wfd>> /\ (Goes(w, "idle") \/ Goes(w, "mark"))
    BY <1>8 DEF ModFd, WorkerDels
  <2>2. wfd[w] \in Fds /\ wfd[w] \in Served
    BY <2>1 DEF PlaceInv, Served
  <2>3. wfd[w] \notin Reported' \cup Queued'
    <3>1. Reported' = Reported /\ Queued' = Queued
      BY <2>1, SetsKept
    <3> QED
      BY <2>2, <3>1 DEF HandsInv, Partition
  <2>4. \A v \in Workers : wpc'[v] \notin {"idle", "mark", "shut"} => wfd'[v] # wfd[w]
    BY <2>1 DEF Goes, UniqueInv, TypeInv
  <2>5. \/ interest' = interest
        \/ \E x \in {"none", "in", "out"} : interest' = [interest EXCEPT ![wfd[w]] = x]
    BY <1>8 DEF ModFd, WorkerDels, DelFd
  <2> QED
    BY <2>2, <2>3, <2>4, <2>5
<1>9. ASSUME NEW w \in Workers,
             TakeTask(w) \/ OnRead(w) \/ Process(w) \/ WriteAll(w) \/ WritePart(w) \/ WriteFails(w)
             \/ WorkerMarks(w) \/ WorkerShuts(w)
      PROVE  interest' = interest
  BY <1>9 DEF TakeTask, OnRead, Process, WriteAll, WritePart, WriteFails, WorkerMarks, WorkerShuts
<1>10. TimerMode # "off" => TimerMode = "idle"
  BY DEF ServerAssumption
<1>11. ASSUME NEW f \in Fds, f \notin Queued \cup Served, f \notin Reported',
              UNCHANGED <<tasks, wpc, wfd>>
       PROVE  /\ f \notin Reported' \cup Queued'
              /\ \A w \in Workers : wpc'[w] \notin {"idle", "mark", "shut"} => wfd'[w] # f
  <2>1. Queued' = Queued
    BY <1>11, SetsKept
  <2> QED
    BY <1>11, <2>1 DEF Served
<1>12. ASSUME NEW x \in {"none", "in", "out"},
              \E f \in Fds : /\ interest' = [interest EXCEPT ![f] = x]
                            /\ f \notin Queued \cup Served /\ f \notin Reported'
                            /\ UNCHANGED <<tasks, wpc, wfd>>
       PROVE  \E f \in Fds :
                 /\ interest' = [interest EXCEPT ![f] = x]
                 /\ f \notin Reported' \cup Queued'
                 /\ \A w \in Workers : wpc'[w] \notin {"idle", "mark", "shut"} => wfd'[w] # f
  BY <1>11, <1>12
<1> DEFINE P == \E x \in {"none", "in", "out"}, f \in Fds :
                 /\ interest' = [interest EXCEPT ![f] = x]
                 /\ f \notin Reported' \cup Queued'
                 /\ \A w \in Workers : wpc'[w] \notin {"idle", "mark", "shut"} => wfd'[w] # f
<1>13. TimerExpires /\ TimerMode = "idle" => P
  BY <1>4, <1>12
<1>14. \A e \in events : HandleClosing(e) => P
  BY <1>5, <1>12
<1>15. AcceptAdd => P
  BY <1>7, <1>12
<1>16. \A w \in Workers : ModFd(w) \/ WorkerDels(w) => interest' = interest \/ P
  BY <1>8
<1> HIDE DEF P
<1>17. interest' = interest \/ Wait \/ P
  <2>1. MainThread => interest' = interest \/ Wait \/ P
    BY <1>3, <1>6, <1>14, <1>15, Zenon DEF MainThread
  <2>2. \A w \in Workers : Worker(w) => interest' = interest \/ P
    BY <1>9, <1>16, Zenon DEF Worker
  <2>3. TimerMode # "off" /\ TimerExpires => P
    BY <1>10, <1>13
  <2> QED
    BY <1>1, <1>2, <2>1, <2>2, <2>3, Zenon DEF Next
<1> QED
  BY <1>17 DEF P

\* A worker is busy with what it had, or with what was queued.
LEMMA BusyStep ==
    ASSUME TypeInv, [Next]_vars, NEW v \in Workers, wpc'[v] \notin {"idle", "mark", "shut"}
    PROVE  \/ wpc[v] \notin {"idle", "mark", "shut"} /\ wfd'[v] = wfd[v]
           \/ wfd'[v] \in Queued
<1>1. CASE UNCHANGED <<wpc, wfd>>
  BY <1>1
<1>2. ASSUME NEW w \in Workers, TakeTask(w)
      PROVE  IF v = w THEN wfd'[v] \in Queued ELSE wpc'[v] = wpc[v] /\ wfd'[v] = wfd[v]
  <2>1. Head(tasks).fd \in Queued
    BY <1>2, QueueShrinks DEF TakeTask
  <2> QED
    BY <1>2, <2>1 DEF TakeTask, Goes, TypeInv
<1>3. ASSUME NEW w \in Workers, Worker(w), ~TakeTask(w)
      PROVE  wpc[v] \notin {"idle", "mark", "shut"} /\ wfd'[v] = wfd[v]
  <2>1. /\ wfd' = wfd
        /\ \/ wpc[w] \notin {"idle", "mark", "shut"} /\ \E state : Goes(w, state)
           \/ Goes(w, "idle") \/ Goes(w, "shut")
    BY <1>3 DEF Worker, OnRead, Process, ModFd, WriteAll, WritePart, WriteFails, WorkerDels,
       WorkerMarks, WorkerShuts
  <2> QED
    BY <2>1 DEF Goes, TypeInv
<1> QED
  BY <1>1, <1>2, <1>3, Movers

LEMMA DisarmedStep ==
    ASSUME ServerAssumption, TimerMode # "any", TypeInv, HandsInv, UniqueInv, PlaceInv,
           DisarmedInv, [Next]_vars
    PROVE  DisarmedInv'
<1>1. CASE Wait
  <2>1. /\ UNCHANGED <<tasks, wpc, wfd>>
        /\ \A f \in Fds : interest'[f] = IF f \in ReadyFds THEN "off" ELSE interest[f]
    BY <1>1 DEF Wait, Disarm, pool
  <2>2. Reported' = ReadyFds /\ ReadyFds \subseteq Fds /\ Queued' = Queued
    BY <1>1, <2>1, EventsOfWait, SetsKept
  <2>3. \A w \in Workers : wpc[w] \notin {"idle", "mark", "shut"} => wfd[w] \in Fds
    BY DEF PlaceInv
  <2>4. Queued \subseteq Fds
    BY DEF Queued
  <2>5. \A f \in Reported' \cup Queued' : interest'[f] = "off"
    BY <2>1, <2>2, <2>4 DEF DisarmedInv
  <2>6. \A w \in Workers : wpc'[w] \notin {"idle", "mark", "shut"} => interest'[wfd'[w]] = "off"
    BY <2>1, <2>3 DEF DisarmedInv
  <2> QED
    BY <2>5, <2>6 DEF DisarmedInv
<1>2. CASE ~Wait
  <2>1. \A f \in Reported' \cup Queued' : interest'[f] = "off"
    <3> SUFFICES ASSUME NEW f \in Reported' \cup Queued'
                 PROVE  interest'[f] = "off"
      OBVIOUS
    <3>1. f \in Reported \cup Queued
      BY <1>2, WaitingShrinks
    <3>2. interest[f] = "off" /\ f \in Fds
      BY <3>1 DEF DisarmedInv, Reported, Queued
    <3>3. interest'[f] = interest[f]
      BY <1>2, <3>2, InterestStep DEF TypeInv
    <3> QED
      BY <3>2, <3>3
  <2>2. \A w \in Workers : wpc'[w] \notin {"idle", "mark", "shut"} => interest'[wfd'[w]] = "off"
    <3> SUFFICES ASSUME NEW w \in Workers, wpc'[w] \notin {"idle", "mark", "shut"}
                 PROVE  interest'[wfd'[w]] = "off"
      OBVIOUS
    <3>1. interest[wfd'[w]] = "off" /\ wfd'[w] \in Fds
      BY BusyStep DEF DisarmedInv, PlaceInv, Queued
    <3>2. interest'[wfd'[w]] = interest[wfd'[w]]
      BY <1>2, <3>1, InterestStep DEF TypeInv
    <3> QED
      BY <3>1, <3>2
  <2> QED
    BY <2>1, <2>2 DEF DisarmedInv
<1> QED
  BY <1>1, <1>2

\* The descriptors whose close() is under way.
Closing ==
    {f \in Fds : \/ mpc \in {"tickShut", "shut"} /\ mfd = f
                 \/ \E w \in Workers : wpc[w] = "shut" /\ wfd[w] = f}

\* Closing, with the object of the same descriptor marked or not.
Flags(objects, open, closing) == \A f \in open : objects[f].isClose <=> f \in closing

LEMMA FlagsHold == ClosedInv => Flags(users, Open, Closing)
BY DEF ClosedInv, Flags, Open, Closing

\* Marking changes the flag of one object.
LEMMA MarkChanges ==
    ASSUME TypeInv, NEW f \in Fds, ~users[f].isClose, MarkClosed(f)
    PROVE  /\ users'[f].isClose /\ users'[f].conn = users[f].conn
           /\ \A g \in Fds : g # f => users'[g] = users[g]
           /\ userCount' = userCount - 1
<1> DEFINE u == [users[f] EXCEPT !.isClose = TRUE]
<1>1. users[f] \in User
  BY DEF TypeInv
<1>2. u.isClose /\ u.conn = users[f].conn
  BY <1>1 DEF User
<1>3. users' = [users EXCEPT ![f] = u] /\ userCount' = userCount - 1
  BY DEF MarkClosed
<1> HIDE DEF u
<1> QED
  BY <1>2, <1>3 DEF TypeInv

\* The main thread.
LEMMA ClosedMain ==
    ASSUME ServerAssumption, TimerMode # "any", TypeInv, HandsInv, UniqueInv, PlaceInv,
           ClosedInv, MainThread \/ (TimerMode # "off" /\ TimerExpires)
    PROVE  ClosedInv'
<1> USE DEF clients, kernel, server, pool
<1>0. Flags(users, Open, Closing)
  BY FlagsHold
<1>1. CASE TimerMode # "off" /\ TimerExpires
  <2>1. PICK f \in timers : ~Held(f) /\ mfd' = f
    BY <1>1 DEF TimerExpires, ServerAssumption
  <2>2. /\ mpc = "tick" /\ mpc' = "tickMark" /\ UNCHANGED <<sock, users, wpc, wfd>>
    BY <1>1 DEF TimerExpires
  <2>3. f \in Fds /\ f \notin Closing
    BY <2>1, <2>2 DEF Held, TypeInv, Closing
  <2>4. Open' = Open /\ Closing' = Closing
    BY <2>2 DEF Open, Closing
  <2>5. users[f].isClose => sock[f] = NoConn
    BY <1>0, <2>3 DEF Flags, Open
  <2>6. Flags(users, Open, Closing)'
    BY <1>0, <2>2, <2>4 DEF Flags
  <2>7. (\A g \in Fds : sock[g] = NoConn => users[g].isClose)'
    BY <2>2 DEF ClosedInv
  <2> QED
    BY <2>1, <2>2, <2>5, <2>6, <2>7 DEF ClosedInv, Flags, Open, Closing
<1>2. CASE MainMarks
  <2>1. /\ UNCHANGED <<sock, wpc, wfd, mfd>> /\ mpc \in {"tickMark", "mark"} /\ MarkClosed(mfd)
        /\ mfd \in Fds
    BY <1>2 DEF MainMarks, PlaceInv
  <2>2. CASE users[mfd].isClose
    <3>1. users' = users /\ mpc' = IF mpc = "tickMark" THEN "tickPop" ELSE "handle"
      BY <1>2, <2>2 DEF MainMarks, MarkClosed
    <3>2. mpc = "tickMark" => sock[mfd] = NoConn
      BY <2>2 DEF ClosedInv
    <3>3. Open' = Open /\ Closing' = Closing
      BY <2>1, <3>1 DEF Open, Closing
    <3>4. Flags(users, Open, Closing)'
      BY <1>0, <3>1, <3>3 DEF Flags
    <3>5. (\A g \in Fds : sock[g] = NoConn => users[g].isClose)'
      BY <2>1, <3>1 DEF ClosedInv
    <3>6. mpc' # "tickMark" /\ (mpc' = "tickPop" => sock'[mfd'] = NoConn)
      BY <2>1, <3>1, <3>2
    <3> QED
      BY <3>4, <3>5, <3>6 DEF ClosedInv, Flags, Open, Closing
  <2>3. CASE ~users[mfd].isClose
    <3>1. mpc' \in {"tickShut", "shut"}
      BY <1>2, <2>1, <2>3 DEF MainMarks
    <3>2. Open' = Open /\ Closing' = Closing \cup {mfd}
      BY <2>1, <3>1 DEF Open, Closing
    <3>3. users'[mfd].isClose /\ \A g \in Fds : g # mfd => users'[g] = users[g]
      BY <2>1, <2>3, MarkChanges
    <3>4. Flags(users, Open, Closing)'
      BY <1>0, <3>2, <3>3 DEF Flags, Open
    <3>5. (\A g \in Fds : sock[g] = NoConn => users[g].isClose)'
      BY <2>1, <3>3 DEF ClosedInv
    <3> QED
      BY <3>1, <3>4, <3>5 DEF ClosedInv, Flags, Open, Closing
  <2> QED
    BY <2>2, <2>3
<1>3. CASE MainShuts
  <2>1. /\ UNCHANGED <<users, wpc, wfd, mfd>> /\ mpc \in {"tickShut", "shut"} /\ mfd \in Fds
        /\ sock' = [sock EXCEPT ![mfd] = NoConn] /\ mpc' \in {"tickPop", "handle"}
    BY <1>3 DEF MainShuts, PlaceInv
  <2>2. users[mfd].isClose
    BY <2>1 DEF ClosedInv, Open
  <2>3. Open' = Open \ {mfd} /\ sock'[mfd] = NoConn
    BY <2>1 DEF Open, TypeInv
  <2>4. \A f \in Fds : f # mfd => (f \in Closing' <=> f \in Closing)
    BY <2>1 DEF Closing
  <2>5. Flags(users, Open, Closing)'
    BY <1>0, <2>1, <2>3, <2>4 DEF Flags, Open
  <2>6. (\A g \in Fds : sock[g] = NoConn => users[g].isClose)'
    BY <2>1, <2>2 DEF ClosedInv, TypeInv
  <2> QED
    BY <2>1, <2>3, <2>5, <2>6 DEF ClosedInv, Flags, Open, Closing
<1>4. CASE AcceptInit
  <2>1. /\ UNCHANGED <<wpc, wfd>> /\ mpc = "accept" /\ mpc' = "add"
        /\ sock' = [sock EXCEPT ![NewFd] = Head(backlog)]
        /\ users' = [users EXCEPT ![NewFd] = NewUser(Head(backlog))]
        /\ backlog # << >> /\ FreeFds # {}
    BY <1>4 DEF AcceptInit, InitUser, NewFd
  <2>2. NewFd \in Fds /\ NewFd \notin Open
    BY <2>1, NewFdFree DEF Open
  <2>3. NewFd \notin Served
    BY <2>2 DEF HandsInv, Partition
  <2>4. NewFd \notin Closing /\ Closing' = Closing
    BY <2>1, <2>2, <2>3 DEF Closing, Served
  <2>5. Open' \subseteq Open \cup {NewFd} /\ ~users'[NewFd].isClose
        /\ \A g \in Fds : g # NewFd => users'[g] = users[g] /\ sock'[g] = sock[g]
    BY <2>1, <2>2 DEF Open, TypeInv, NewUser
  <2>6. Flags(users, Open, Closing)'
    BY <1>0, <2>4, <2>5 DEF Flags, Open
  <2>7. (\A g \in Fds : sock[g] = NoConn => users[g].isClose)'
    <3>1. Head(backlog) \in Conns
      BY <2>1, HeadTailProperties DEF TypeInv
    <3>2. Head(backlog) # NoConn
      BY <3>1 DEF Conns, NoConn
    <3>3. sock'[NewFd] = Head(backlog)
      BY <2>1, <2>2 DEF TypeInv
    <3> QED
      BY <2>5, <3>2, <3>3 DEF ClosedInv
  <2> QED
    BY <2>1, <2>6, <2>7 DEF ClosedInv, Flags, Open, Closing
<1>5. ASSUME UNCHANGED <<sock, users, wpc, wfd>>,
             mpc \notin {"tickShut", "shut"},
             mpc' \notin {"tickShut", "shut", "tickMark", "tickPop"}
      PROVE  ClosedInv'
  <2>1. Open' = Open /\ Closing' = Closing
    BY <1>5 DEF Open, Closing
  <2>2. Flags(users, Open, Closing)'
    BY <1>0, <1>5, <2>1 DEF Flags
  <2>3. (\A g \in Fds : sock[g] = NoConn => users[g].isClose)'
    BY <1>5 DEF ClosedInv
  <2> QED
    BY <1>5, <2>2, <2>3 DEF ClosedInv, Flags, Open, Closing
<1>6. CASE TimerPops \/ Wait \/ NextTurn \/ AcceptNothing \/ AcceptRefused \/ AcceptAdd
  <2>1. /\ UNCHANGED <<sock, users, wpc, wfd>>
        /\ mpc \notin {"tickShut", "shut"}
        /\ mpc' \notin {"tickShut", "shut", "tickMark", "tickPop"}
    BY <1>6 DEF TimerPops, Wait, NextTurn, AcceptNothing, AcceptRefused, AcceptAdd
  <2> QED
    BY <1>5, <2>1
<1>7. ASSUME NEW e \in events, HandleClosing(e) \/ HandleData(e) \/ HandleListen(e)
      PROVE  ClosedInv'
  <2>1. /\ UNCHANGED <<sock, users, wpc, wfd>>
        /\ mpc \notin {"tickShut", "shut"}
        /\ mpc' \notin {"tickShut", "shut", "tickMark", "tickPop"}
    BY <1>7 DEF HandleClosing, HandleData, HandleListen
  <2> QED
    BY <1>5, <2>1
<1> QED
  BY <1>1, <1>2, <1>3, <1>4, <1>6, <1>7 DEF MainThread

\* The workers.
LEMMA ClosedWorker ==
    ASSUME ServerAssumption, TypeInv, HandsInv, UniqueInv, PlaceInv, ClosedInv,
           NEW w \in Workers, Worker(w)
    PROVE  ClosedInv'
<1> USE DEF clients, kernel, server, main
<1>0. Flags(users, Open, Closing)
  BY FlagsHold
<1>1. ASSUME UNCHANGED <<sock, mpc, mfd>>,
             \A g \in Fds : users'[g].isClose = users[g].isClose,
             \A v \in Workers : wpc'[v] = "shut" <=> wpc[v] = "shut",
             \A v \in Workers : wpc[v] = "shut" => wfd'[v] = wfd[v]
      PROVE  ClosedInv'
  <2>1. Open' = Open /\ Closing' = Closing
    BY <1>1 DEF Open, Closing
  <2>2. Flags(users, Open, Closing)'
    BY <1>0, <1>1, <2>1 DEF Flags, Open
  <2>3. (\A g \in Fds : sock[g] = NoConn => users[g].isClose)'
    BY <1>1 DEF ClosedInv
  <2>4. mpc = "tickMark" => mfd \in Fds
    BY DEF PlaceInv
  <2> QED
    BY <1>1, <2>2, <2>3, <2>4 DEF ClosedInv, Flags, Open, Closing
<1>2. CASE TakeTask(w)
  <2>1. Head(tasks) \in Task
    BY <1>2, QueueShrinks DEF TakeTask
  <2>2. Head(tasks).op # "shut"
    BY <2>1 DEF Task
  <2>3. /\ UNCHANGED <<sock, users, mpc, mfd>> /\ wpc[w] = "idle"
        /\ \A v \in Workers : /\ wpc'[v] = IF v = w THEN Head(tasks).op ELSE wpc[v]
                              /\ v # w => wfd'[v] = wfd[v]
    BY <1>2 DEF TakeTask, Goes, TypeInv
  <2> QED
    BY <1>1, <2>2, <2>3
<1>3. CASE OnRead(w) \/ Process(w)
  <2>1. /\ UNCHANGED <<sock, mpc, mfd, wfd>> /\ wpc[w] # "shut"
        /\ (Goes(w, "del") \/ Goes(w, "process") \/ Goes(w, "modOut") \/ Goes(w, "modIn"))
    BY <1>3 DEF OnRead, Process
  <2>2. \A v \in Workers : wpc'[v] = "shut" <=> wpc[v] = "shut"
    BY <2>1 DEF Goes, TypeInv
  <2>3. \A g \in Fds : users'[g].isClose = users[g].isClose
    BY <1>3, FieldsKept
  <2> QED
    BY <1>1, <2>1, <2>2, <2>3
<1>4. CASE ModFd(w) \/ WriteAll(w) \/ WritePart(w) \/ WriteFails(w) \/ WorkerDels(w)
  <2>1. /\ UNCHANGED <<sock, users, mpc, mfd, wfd>> /\ wpc[w] # "shut"
        /\ \/ Goes(w, "idle") \/ Goes(w, "process") \/ Goes(w, "del")
           \/ Goes(w, "modOut") \/ Goes(w, "mark")
    BY <1>4 DEF ModFd, WriteAll, WritePart, WriteFails, WorkerDels
  <2>2. \A v \in Workers : wpc'[v] = "shut" <=> wpc[v] = "shut"
    BY <2>1 DEF Goes, TypeInv
  <2> QED
    BY <1>1, <2>1, <2>2
<1>5. CASE WorkerMarks(w)
  <2> DEFINE f == wfd[w]
  <2>1. /\ UNCHANGED <<sock, mpc, mfd, wfd>> /\ wpc[w] = "mark" /\ MarkClosed(f)
        /\ Goes(w, IF users[f].isClose THEN "idle" ELSE "shut")
    BY <1>5 DEF WorkerMarks
  <2>2. ~users[f].isClose /\ f \in Fds /\ f \in Served
    BY <2>1, StillOpen DEF PlaceInv, Served
  <2>3. f \notin MainHas
    BY <2>2 DEF HandsInv, Partition
  <2>4. mpc = "tickMark" => mfd # f /\ mfd \in Fds
    BY <2>2, <2>3 DEF MainHas, PlaceInv
  <2>5. Goes(w, "shut")
    BY <2>1, <2>2
  <2>6. Open' = Open /\ Closing' = Closing \cup {f}
    <3>1. \A v \in Workers : wpc'[v] = "shut" <=> (wpc[v] = "shut" \/ v = w)
      BY <2>5 DEF Goes, TypeInv
    <3> QED
      BY <2>1, <2>2, <3>1 DEF Open, Closing
  <2>7. users'[f].isClose /\ \A g \in Fds : g # f => users'[g] = users[g]
    BY <2>1, <2>2, MarkChanges
  <2> HIDE DEF f
  <2>8. Flags(users, Open, Closing)'
    BY <1>0, <2>6, <2>7 DEF Flags, Open
  <2>9. (\A g \in Fds : sock[g] = NoConn => users[g].isClose)'
    BY <2>1, <2>7 DEF ClosedInv
  <2> QED
    BY <2>1, <2>4, <2>7, <2>8, <2>9 DEF ClosedInv, Flags, Open, Closing
<1>6. CASE WorkerShuts(w)
  <2> DEFINE f == wfd[w]
  <2>1. /\ UNCHANGED <<users, mpc, mfd, wfd>> /\ wpc[w] = "shut" /\ Goes(w, "idle")
        /\ sock' = [sock EXCEPT ![f] = NoConn]
    BY <1>6 DEF WorkerShuts
  <2>2. f \in Fds /\ f \in Closing
    BY <2>1 DEF PlaceInv, Closing
  <2>3. users[f].isClose
    BY <1>0, <2>2 DEF Flags, Open, ClosedInv
  <2>4. \A g \in Fds : g # f => (g \in Closing' <=> g \in Closing)
    <3>1. \A v \in Workers : wpc'[v] = "shut" <=> (wpc[v] = "shut" /\ v # w)
      BY <2>1 DEF Goes, TypeInv
    <3> QED
      BY <2>1, <3>1 DEF Closing
  <2> HIDE DEF f
  <2>5. /\ \A g \in Fds : sock'[g] = IF g = f THEN NoConn ELSE sock[g]
        /\ mpc \in {"tickMark", "tickPop"} => mfd \in Fds
    BY <2>1, <2>2 DEF TypeInv, PlaceInv
  <2>6. Flags(users, Open, Closing)'
    BY <1>0, <2>1, <2>4, <2>5 DEF Flags, Open
  <2>7. (\A g \in Fds : sock[g] = NoConn => users[g].isClose)'
    BY <2>1, <2>3, <2>5 DEF ClosedInv
  <2> QED
    BY <2>1, <2>5, <2>6, <2>7 DEF ClosedInv, Flags, Open, Closing
<1> QED
  BY <1>2, <1>3, <1>4, <1>5, <1>6 DEF Worker

LEMMA ClosedStep ==
    ASSUME ServerAssumption, TimerMode # "any", TypeInv, HandsInv, UniqueInv, PlaceInv,
           ClosedInv, [Next]_vars
    PROVE  ClosedInv'
<1>1. ASSUME UNCHANGED <<sock, users, wpc, wfd, mpc, mfd>> PROVE ClosedInv'
  BY <1>1 DEF ClosedInv, Open
<1>2. ASSUME NEW c \in Conns, Connect(c) \/ Send(c) \/ Receive(c) \/ HangUp(c)
      PROVE  UNCHANGED <<sock, users, wpc, wfd, mpc, mfd>>
  BY <1>2 DEF Connect, Send, Receive, HangUp, kernel, server, pool, main
<1>3. CASE UNCHANGED vars
  <2>1. UNCHANGED <<sock, users, wpc, wfd, mpc, mfd>>
    BY <1>3 DEF vars, kernel, server, pool, main
  <2> QED
    BY <1>1, <2>1
<1> QED
  BY <1>1, <1>2, <1>3, ClosedMain, ClosedWorker, Zenon DEF Next

\* The connection an object was initialised for.
LEMMA ServesStep ==
    ASSUME ServerAssumption, TypeInv, PlaceInv, ServesItsConnection, [Next]_vars
    PROVE  ServesItsConnection'
<1>1. CASE UNCHANGED sock /\ \A g \in Fds : users'[g].conn = users[g].conn
  BY <1>1 DEF ServesItsConnection
<1>2. ASSUME NEW f \in Fds, MarkClosed(f) PROVE \A g \in Fds : users'[g].conn = users[g].conn
  <2>1. CASE users[f].isClose
    BY <1>2, <2>1 DEF MarkClosed
  <2>2. CASE ~users[f].isClose
    BY <1>2, <2>2, MarkChanges
  <2> QED
    BY <2>1, <2>2
<1>3. ASSUME NEW f \in Fds, sock' = [sock EXCEPT ![f] = NoConn], users' = users
      PROVE  ServesItsConnection'
  BY <1>3 DEF ServesItsConnection, TypeInv
<1>4. CASE TimerPops
  BY <1>4 DEF TimerPops, kernel, ServesItsConnection
<1>5. CASE AcceptInit
  <2>1. /\ sock' = [sock EXCEPT ![NewFd] = Head(backlog)]
        /\ users' = [users EXCEPT ![NewFd] = NewUser(Head(backlog))]
    BY <1>5 DEF AcceptInit, InitUser, NewFd
  <2>2. NewUser(Head(backlog)).conn = Head(backlog)
    BY DEF NewUser
  <2> QED
    BY <2>1, <2>2 DEF ServesItsConnection, TypeInv
<1> QED
  BY <1>1, <1>2, <1>3, <1>4, <1>5, ObjectsStep

\* A node is popped only when its descriptor is closed.
LEMMA TimersStep ==
    ASSUME ServerAssumption, TypeInv, PlaceInv, ClosedInv, TimersInv, [Next]_vars
    PROVE  TimersInv'
<1>1. CASE UNCHANGED <<sock, timers>>
  BY <1>1 DEF TimersInv, Open
<1>2. ASSUME NEW f \in Fds, sock' = [sock EXCEPT ![f] = NoConn], timers' = timers
      PROVE  TimersInv'
  BY <1>2 DEF TimersInv, Open, TypeInv
<1>3. CASE TimerPops
  BY <1>3 DEF TimerPops, kernel, ClosedInv, TimersInv, Open
<1>4. CASE AcceptInit
  <2>1. /\ sock' = [sock EXCEPT ![NewFd] = Head(backlog)]
        /\ TimerMode # "off" => timers' = timers \cup {NewFd}
    BY <1>4 DEF AcceptInit, AddTimer, NewFd
  <2> QED
    BY <2>1 DEF TimersInv, Open, TypeInv
<1> QED
  BY <1>1, <1>2, <1>3, <1>4, ObjectsStep

\* The counter and its bounds.
Live == {f \in Fds : ~users[f].isClose}

LEMMA LiveFinite ==
    ASSUME ServerAssumption
    PROVE  IsFiniteSet(Live) /\ Cardinality(Live) \in Nat
BY FS_Subset, FS_CardinalityType DEF ServerAssumption, Live

LEMMA CountStep ==
    ASSUME ServerAssumption, TypeInv, PlaceInv, ClosedInv, CountInv,
           userCount \in 0 .. maxFd, [Next]_vars
    PROVE  CountInv' /\ userCount' \in 0 .. maxFd'
<1>0. userCount = Cardinality(Live) /\ IsFiniteSet(Live) /\ maxFd' = maxFd /\ maxFd \in Nat
  <2>1. maxFd' = maxFd
    BY DEF Next, vars, main, MainThread, Worker, Connect, Send, Receive, HangUp, TimerExpires,
       MainMarks, MainShuts, TimerPops, Wait, HandleClosing, HandleData, HandleListen, NextTurn,
       AcceptNothing, AcceptRefused, AcceptInit, AcceptAdd, TakeTask, OnRead, Process, ModFd,
       WriteAll, WritePart, WriteFails, WorkerDels, WorkerMarks, WorkerShuts
  <2> QED
    BY <2>1, LiveFinite DEF CountInv, Live, TypeInv, ServerAssumption
<1>1. ASSUME userCount' = userCount, \A g \in Fds : users'[g].isClose = users[g].isClose
      PROVE  CountInv' /\ userCount' \in 0 .. maxFd'
  <2>1. Live' = Live
    BY <1>1 DEF Live
  <2> QED
    BY <1>0, <1>1, <2>1 DEF CountInv, Live
<1>2. ASSUME NEW f \in Fds, MarkClosed(f) PROVE CountInv' /\ userCount' \in 0 .. maxFd'
  <2>1. CASE users[f].isClose
    BY <1>1, <1>2, <2>1 DEF MarkClosed
  <2>2. CASE ~users[f].isClose
    <3>1. /\ users'[f].isClose /\ \A g \in Fds : g # f => users'[g] = users[g]
          /\ userCount' = userCount - 1
      BY <1>2, <2>2, MarkChanges
    <3>2. Live' = Live \ {f} /\ f \in Live
      BY <2>2, <3>1 DEF Live
    <3>3. Cardinality(Live') = Cardinality(Live) - 1 /\ IsFiniteSet(Live')
      BY <1>0, <3>2, FS_RemoveElement
    <3>4. Cardinality(Live') \in Nat
      BY <3>3, FS_CardinalityType
    <3>5. CountInv'
      BY <1>0, <3>1, <3>3 DEF CountInv, Live
    <3> QED
      BY <1>0, <3>1, <3>3, <3>4, <3>5
  <2> QED
    BY <2>1, <2>2
<1>3. CASE UNCHANGED <<users, userCount>>
  BY <1>1, <1>3
<1>4. CASE TimerPops
  BY <1>3, <1>4 DEF TimerPops
<1>5. CASE AcceptInit
  <2>1. /\ users' = [users EXCEPT ![NewFd] = NewUser(Head(backlog))]
        /\ userCount' = userCount + 1 /\ userCount < maxFd
        /\ FreeFds # {}
    BY <1>5 DEF AcceptInit, InitUser, NewFd, HasPlace
  <2>2. NewFd \in Fds /\ sock[NewFd] = NoConn
    BY <2>1, NewFdFree
  <2>3. users[NewFd].isClose /\ ~NewUser(Head(backlog)).isClose
    BY <2>2 DEF ClosedInv, NewUser
  <2>4. Live' = Live \cup {NewFd} /\ NewFd \notin Live
    BY <2>1, <2>2, <2>3 DEF Live, TypeInv
  <2>5. Cardinality(Live') = Cardinality(Live) + 1
    BY <1>0, <2>4, FS_AddElement
  <2>6. CountInv'
    BY <1>0, <2>1, <2>5 DEF CountInv, Live
  <2>7. userCount' \in 0 .. maxFd
    BY <1>0, <2>1
  <2> QED
    BY <1>0, <2>6, <2>7
<1> QED
  BY <1>1, <1>2, <1>3, <1>4, <1>5, ObjectsStep
-----------------------------------------------------------------------------
(* The invariant, and what follows from it.                                *)

LEMMA InitInv ==
    ASSUME ServerAssumption, Init
    PROVE  IInv
<1> USE DEF Init
<1>1. TypeInv
  <2>1. << >> \in Seq(Conns) /\ << >> \in Seq([fd : Fds, op : {"read", "write"}])
    BY EmptySeq
  <2>2. NoUser \in User
    BY DEF NoUser, User
  <2>3. /\ users \in [Fds -> User] /\ sock \in [Fds -> Conns \cup {NoConn}]
        /\ wfd \in [Workers -> Fds \cup {Listen}]
    BY <2>2
  <2>4. /\ client \in [Conns -> {"none", "ready", "waiting"}]
        /\ sent \in [Conns -> 0 .. MaxRequests]
        /\ arrived \in [Conns -> BOOLEAN]
        /\ room \in [Conns -> {"empty", "full", "drained"}]
    BY DEF ServerAssumption
  <2>5. /\ interest \in [Fds -> {"none", "in", "out", "off"}]
        /\ wpc \in [Workers -> {"idle", "read", "process", "modIn", "modOut", "write",
                                "del", "mark", "shut"}]
    OBVIOUS
  <2>6. backlog \in Seq(Conns) /\ tasks \in Seq([fd : Fds, op : {"read", "write"}])
    BY <2>1, Zenon
  <2> QED
    BY <2>3, <2>4, <2>5, <2>6 DEF TypeInv
<1>2. \A f \in Fds : users[f].isClose
  BY DEF NoUser
<1>3. Live = {}
  BY <1>2 DEF Live
<1>4. CountInv /\ userCount \in 0 .. maxFd
  <2>1. Cardinality(Live) = 0
    BY <1>3, FS_EmptySet
  <2>2. maxFd \in Nat
    BY DEF ServerAssumption
  <2>3. userCount = 0
    OBVIOUS
  <2>4. userCount \in 0 .. maxFd
    BY <2>2, <2>3
  <2> QED
    BY <2>1, <2>3, <2>4 DEF CountInv, Live
<1>5. Len(tasks) = 0
  BY EmptySeq
<1>6. HandsInv
  <2>1. Open = {} /\ Armed = {} /\ Reported = {} /\ Served = {} /\ MainHas = {}
    BY DEF Open, Armed, Reported, Served, MainHas
  <2>2. Queued = {}
    BY <1>5 DEF Queued
  <2> QED
    BY <2>1, <2>2 DEF HandsInv, Partition
<1>7. UniqueInv
  BY <1>5 DEF UniqueInv
<1>8. PlaceInv
  BY DEF PlaceInv
<1>9. DisarmedInv
  <2>1. Reported = {} /\ Queued = {}
    BY <1>5 DEF Reported, Queued
  <2> QED
    BY <2>1 DEF DisarmedInv
<1>10. ClosedInv
  BY <1>2 DEF ClosedInv, Open
<1>11. TimersInv /\ ServesItsConnection
  BY DEF TimersInv, Open, ServesItsConnection
<1> QED
  BY <1>1, <1>4, <1>6, <1>7, <1>8, <1>9, <1>10, <1>11, TypeSplit DEF IInv

\* Whoever takes a step, every connection stays in one pair of hands and the
\* tables of the server agree.
THEOREM ReactorConsistent == TimerMode # "any" => (Spec => []IInv)
<1> SUFFICES ASSUME TimerMode # "any" PROVE Spec => []IInv
  OBVIOUS
<1>1. Init => IInv
  BY InitInv, ServerAssumption
<1>2. IInv /\ [Next]_vars => IInv'
  <2> SUFFICES ASSUME IInv, [Next]_vars PROVE IInv'
    OBVIOUS
  <2>1. TypeInv /\ userCount \in 0 .. maxFd
    BY TypeSplit DEF IInv
  <2>2. TypeInv'
    BY <2>1, TypeStep, ServerAssumption DEF IInv
  <2>3. HandsInv'
    BY <2>1, HandsStep, ServerAssumption DEF IInv
  <2>4. UniqueInv' /\ PlaceInv'
    BY <2>1, UniqueStep, PlaceStep, ServerAssumption DEF IInv
  <2>5. DisarmedInv'
    BY <2>1, DisarmedStep, ServerAssumption DEF IInv
  <2>6. ClosedInv'
    BY <2>1, ClosedStep, ServerAssumption DEF IInv
  <2>7. CountInv' /\ userCount' \in 0 .. maxFd'
    BY <2>1, CountStep, ServerAssumption DEF IInv
  <2>8. TimersInv' /\ ServesItsConnection'
    BY <2>1, TimersStep, ServesStep, ServerAssumption DEF IInv
  <2>9. TypeOK'
    BY <2>2, <2>7 DEF TypeOK, TypeInv, User
  <2> QED
    BY <2>3, <2>4, <2>5, <2>6, <2>7, <2>8, <2>9 DEF IInv
<1> QED
  BY <1>1, <1>2, PTL DEF Spec

\* The sets Holders is made of have at most one element each.
LEMMA Holder ==
    ASSUME HandsInv, UniqueInv, NEW f \in Fds
    PROVE  IF f \in Open THEN \E h : Holders(f) = {h} ELSE Holders(f) = {}
<1> DEFINE A == {<<"epoll", 0>> : x \in {f} \cap {g \in Fds : interest[g] \in {"in", "out"}}}
           E == {<<"event", e>> : e \in {d \in events : d.fd = f}}
           Q == {<<"task", i>> : i \in {j \in 1 .. Len(tasks) : tasks[j].fd = f}}
           W == {<<"worker", w>> : w \in {v \in Workers : wpc[v] # "idle" /\ wfd[v] = f}}
           M == {<<"main", 0>> : x \in {f} \cap MainHas}
<1>1. Holders(f) = A \cup E \cup Q \cup W \cup M
  BY DEF Holders, MainHas
<1>2. IF f \in Armed THEN \E h : A = {h} ELSE A = {}
  BY Zenon DEF Armed
<1>3. IF f \in Reported THEN \E h : E = {h} ELSE E = {}
  <2>1. CASE f \in Reported
    <3>1. PICK e \in events : e.fd = f
      BY <2>1 DEF Reported
    <3>2. E = {<<"event", e>>}
      BY <3>1 DEF UniqueInv
    <3> QED
      BY <2>1, <3>2
  <2> QED
    BY <2>1 DEF Reported
<1>4. IF f \in Queued THEN \E h : Q = {h} ELSE Q = {}
  <2>1. CASE f \in Queued
    <3>1. PICK i \in 1 .. Len(tasks) : tasks[i].fd = f
      BY <2>1 DEF Queued
    <3>2. Q = {<<"task", i>>}
      BY <3>1 DEF UniqueInv
    <3> QED
      BY <2>1, <3>2
  <2> QED
    BY <2>1 DEF Queued
<1>5. IF f \in Served THEN \E h : W = {h} ELSE W = {}
  <2>1. CASE f \in Served
    <3>1. PICK w \in Workers : wpc[w] # "idle" /\ wfd[w] = f
      BY <2>1 DEF Served
    <3>2. W = {<<"worker", w>>}
      BY <3>1 DEF UniqueInv
    <3> QED
      BY <2>1, <3>2
  <2> QED
    BY <2>1 DEF Served
<1>6. IF f \in MainHas THEN \E h : M = {h} ELSE M = {}
  BY Zenon
<1> HIDE DEF A, E, Q, W, M
<1>7. CASE f \in Open
  <2>1. /\ f \in Armed \cup Reported \cup Queued \cup Served \cup MainHas
        /\ f \in Armed => f \notin Reported \cup Queued \cup Served \cup MainHas
        /\ f \in Reported => f \notin Queued \cup Served \cup MainHas
        /\ f \in Queued => f \notin Served \cup MainHas
        /\ f \in Served => f \notin MainHas
    BY <1>7 DEF HandsInv, Partition
  <2>2. CASE f \in Armed
    <3>1. E = {} /\ Q = {} /\ W = {} /\ M = {} /\ \E h : A = {h}
      BY <1>2, <1>3, <1>4, <1>5, <1>6, <2>1, <2>2
    <3>2. Holders(f) = A
      BY <1>1, <3>1
    <3> QED
      BY <1>7, <3>1, <3>2
  <2>3. CASE f \in Reported
    <3>1. A = {} /\ Q = {} /\ W = {} /\ M = {} /\ \E h : E = {h}
      BY <1>2, <1>3, <1>4, <1>5, <1>6, <2>1, <2>3
    <3>2. Holders(f) = E
      BY <1>1, <3>1
    <3> QED
      BY <1>7, <3>1, <3>2
  <2>4. CASE f \in Queued
    <3>1. A = {} /\ E = {} /\ W = {} /\ M = {} /\ \E h : Q = {h}
      BY <1>2, <1>3, <1>4, <1>5, <1>6, <2>1, <2>4
    <3>2. Holders(f) = Q
      BY <1>1, <3>1
    <3> QED
      BY <1>7, <3>1, <3>2
  <2>5. CASE f \in Served
    <3>1. A = {} /\ E = {} /\ Q = {} /\ M = {} /\ \E h : W = {h}
      BY <1>2, <1>3, <1>4, <1>5, <1>6, <2>1, <2>5
    <3>2. Holders(f) = W
      BY <1>1, <3>1
    <3> QED
      BY <1>7, <3>1, <3>2
  <2>6. CASE f \in MainHas
    <3>1. A = {} /\ E = {} /\ Q = {} /\ W = {} /\ \E h : M = {h}
      BY <1>2, <1>3, <1>4, <1>5, <1>6, <2>1, <2>6
    <3>2. Holders(f) = M
      BY <1>1, <3>1
    <3> QED
      BY <1>7, <3>1, <3>2
  <2> QED
    BY <2>1, <2>2, <2>3, <2>4, <2>5, <2>6
<1>8. CASE f \notin Open
  <2>1. f \notin Armed \cup Reported \cup Queued \cup Served \cup MainHas
    BY <1>8 DEF HandsInv, Partition
  <2>2. A = {} /\ E = {} /\ Q = {} /\ W = {} /\ M = {}
    BY <1>2, <1>3, <1>4, <1>5, <1>6, <2>1
  <2> QED
    BY <1>1, <1>8, <2>2
<1> QED
  BY <1>7, <1>8

\* No two threads ever have the same connection, and none is left behind:
\* epoll, the events, the queue, the workers and the main thread share them out.
THEOREM OneHolderAlways == TimerMode # "any" => (Spec => []OneHolder)
<1>1. IInv => OneHolder
  <2> SUFFICES ASSUME IInv, NEW f \in Fds
               PROVE  Cardinality(Holders(f)) = IF sock[f] = NoConn THEN 0 ELSE 1
    BY DEF OneHolder
  <2>1. f \in Open <=> sock[f] # NoConn
    BY DEF Open
  <2>2. CASE f \in Open
    <3>1. PICK h : Holders(f) = {h}
      BY <2>2, Holder DEF IInv
    <3>2. Cardinality({h}) = 1
      BY FS_Singleton
    <3>3. Cardinality(Holders(f)) = 1
      BY <3>1, <3>2, Zenon
    <3> QED
      BY <2>1, <2>2, <3>3
  <2>3. CASE f \notin Open
    <3>1. Holders(f) = {}
      BY <2>3, Holder DEF IInv
    <3>2. Cardinality({}) = 0
      BY FS_EmptySet
    <3>3. Cardinality(Holders(f)) = 0
      BY <3>1, <3>2, Zenon
    <3> QED
      BY <2>1, <2>3, <3>3
  <2> QED
    BY <2>2, <2>3
<1> QED
  BY <1>1, ReactorConsistent, PTL

\* From the event that reports a descriptor until its thread is done, it stays
\* the same connection: nobody else closes it and accept does not reuse it.
THEOREM KeepsItsConnectionAlways == TimerMode # "any" => (Spec => KeepsItsConnection)
<1>1. ASSUME IInv, IInv', [Next]_vars, NEW f \in Fds, Pending(f), Pending(f)'
      PROVE  sock'[f] = sock[f] /\ users'[f].conn = sock[f]
  <2>1. f \in Reported \cup Queued \cup Served /\ f \in Reported' \cup Queued' \cup Served'
    BY <1>1 DEF Pending, Held, Reported, Queued, Served
  <2>2. f \in Open /\ f \in Open'
    BY <1>1, <2>1 DEF IInv, HandsInv, Partition
  <2>3. sock[f] # NoConn /\ sock'[f] # NoConn
    BY <2>2 DEF Open
  <2>4. TypeInv /\ PlaceInv
    BY <1>1, TypeSplit DEF IInv
  <2>5. sock \in [Fds -> Conns \cup {NoConn}]
    BY <2>4 DEF TypeInv
  <2>6. sock'[f] = sock[f]
    <3>1. CASE UNCHANGED sock
      BY <3>1
    <3>2. ASSUME NEW g \in Fds, sock' = [sock EXCEPT ![g] = NoConn] PROVE sock'[f] = sock[f]
      BY <2>3, <2>5, <3>2
    <3>3. CASE TimerPops
      BY <3>3 DEF TimerPops, kernel
    <3>4. CASE AcceptInit
      <4>1. sock' = [sock EXCEPT ![NewFd] = Head(backlog)] /\ FreeFds # {}
        BY <3>4 DEF AcceptInit, NewFd
      <4>2. sock[NewFd] = NoConn
        BY <4>1, NewFdFree, ServerAssumption DEF FreeFds
      <4> QED
        BY <2>3, <2>5, <4>1, <4>2
    <3> QED
      BY <1>1, <2>4, <3>1, <3>2, <3>3, <3>4, ObjectsStep
  <2>7. users'[f].conn = sock'[f]
    BY <1>1, <2>3 DEF IInv, ServesItsConnection
  <2> QED
    BY <2>6, <2>7
<1>2. IInv /\ IInv' /\ [Next]_vars =>
          [\A f \in Fds : Pending(f) /\ Pending(f)' =>
              sock'[f] = sock[f] /\ users'[f].conn = sock[f]]_vars
  BY <1>1
<1> QED
  BY <1>2, ReactorConsistent, PTL DEF Spec, KeepsItsConnection

\* The limit on connections is exact and the timer's assertion holds.
THEOREM ServerConsistent == TimerMode # "any" => (Spec => []ServerInv)
<1>1. IInv => UserCountExact
  <2> SUFFICES ASSUME IInv PROVE UserCountExact
    OBVIOUS
  <2> DEFINE closing == {f \in Fds : sock[f] # NoConn /\ users[f].isClose}
  <2>1. {f \in Fds : sock[f] # NoConn} \ closing = {f \in Fds : ~users[f].isClose}
    BY DEF IInv, ClosedInv
  <2>2. \A f \in closing : \/ mpc \in {"tickShut", "shut"} /\ mfd = f
                           \/ \E w \in Workers : wpc[w] = "shut" /\ wfd[w] = f
    BY DEF IInv, ClosedInv, Open
  <2> QED
    BY <2>1, <2>2, Zenon DEF IInv, CountInv, UserCountExact
<1>2. IInv => AdjustedTimerExists
  <2> SUFFICES ASSUME IInv, TimerMode # "off", NEW e \in events, e.fd # Listen
               PROVE  e.fd \in timers
    BY DEF AdjustedTimerExists
  <2>1. e.fd \in Reported
    BY DEF IInv, TypeOK, Reported
  <2>2. e.fd \in Open
    BY <2>1 DEF IInv, HandsInv, Partition
  <2> QED
    BY <2>2 DEF IInv, TimersInv
<1>3. IInv => ServerInv
  BY <1>1, <1>2 DEF IInv, ServerInv
<1> QED
  BY <1>3, ReactorConsistent, PTL
-----------------------------------------------------------------------------
(* The thread pool.                                                        *)

LEMMA PoolInitType == PoolInit => PoolTypeOK
<1>1. << >> \in Seq(Nat \ {0})
  BY EmptySeq
<1>2. PoolInit => /\ poolTasks = << >> /\ added = 0 /\ isClosed = FALSE /\ owner = "open"
                  /\ pc \in [Threads -> {"ready"}]
                  /\ task \in [Threads -> {0}]
                  /\ apc \in [Adders -> {"idle"}]
  BY DEF PoolInit
<1>3. PoolInit => poolTasks \in Seq(Nat \ {0})
  BY <1>1, <1>2, Zenon
<1>4. PoolInit => \A w \in Threads : pc[w] = "ready" /\ task[w] = 0
  BY <1>2
<1>5. PoolInit => /\ pc \in [Threads -> {"ready", "waiting", "running", "exited"}]
                  /\ apc \in [Adders -> {"idle", "notify"}]
                  /\ owner \in {"open", "closing", "closed"}
  BY <1>2
<1>6. PoolInit => task \in [Threads -> Nat]
  BY <1>2
<1>7. PoolInit => isClosed \in BOOLEAN
  BY <1>2, Zenon
<1>8. PoolInit => added \in Nat
  BY <1>2
<1> QED
  BY <1>3, <1>4, <1>5, <1>6, <1>7, <1>8 DEF PoolTypeOK

\* What taking the first task, adding one and waking a worker do.
LEMMA TakeFirst ==
    ASSUME PoolTypeOK, poolTasks # << >>
    PROVE  /\ Head(poolTasks) \in Nat \ {0} /\ Head(poolTasks) = poolTasks[1]
           /\ Tail(poolTasks) \in Seq(Nat \ {0})
           /\ Len(poolTasks) \in Nat \ {0} /\ Len(Tail(poolTasks)) = Len(poolTasks) - 1
           /\ \A i \in 1 .. Len(Tail(poolTasks)) : Tail(poolTasks)[i] = poolTasks[i + 1]
BY HeadTailProperties, LenProperties, EmptySeq DEF PoolTypeOK

LEMMA AddLast ==
    ASSUME PoolTypeOK
    PROVE  LET q == Append(poolTasks, added + 1)
           IN /\ q \in Seq(Nat \ {0}) /\ q # << >>
              /\ Len(poolTasks) \in Nat /\ Len(q) = Len(poolTasks) + 1
              /\ \A i \in 1 .. Len(poolTasks) : q[i] = poolTasks[i]
              /\ q[Len(poolTasks) + 1] = added + 1
<1>1. added + 1 \in Nat \ {0} /\ poolTasks \in Seq(Nat \ {0})
  BY DEF PoolTypeOK
<1> QED
  BY <1>1, AppendProperties, LenProperties

LEMMA PoolTypeStep == PoolTypeOK /\ [PoolNext]_poolVars => PoolTypeOK'
<1> SUFFICES ASSUME PoolTypeOK, [PoolNext]_poolVars PROVE PoolTypeOK'
  OBVIOUS
<1>1. CASE \E w \in Threads : Loop(w)
  <2> PICK w \in Threads : Loop(w)
    BY <1>1
  <2>1. CASE poolTasks # << >>
    <3>1. /\ task' = [task EXCEPT ![w] = Head(poolTasks)]
          /\ poolTasks' = Tail(poolTasks)
          /\ pc' = [pc EXCEPT ![w] = "running"]
          /\ UNCHANGED <<isClosed, added, apc, owner>>
      BY <2>1 DEF Loop
    <3>2. poolTasks' \in Seq(Nat \ {0}) /\ task' \in [Threads -> Nat]
      BY <2>1, <3>1, TakeFirst DEF PoolTypeOK
    <3>3. \A v \in Threads : pc'[v] = "running" <=> task'[v] # 0
      BY <2>1, <3>1, TakeFirst DEF PoolTypeOK
    <3> QED
      BY <3>1, <3>2, <3>3 DEF PoolTypeOK
  <2>2. CASE poolTasks = << >>
    BY <2>2 DEF Loop, PoolTypeOK
  <2> QED
    BY <2>1, <2>2
<1>2. CASE \E w \in Threads : FinishTask(w)
  BY <1>2 DEF FinishTask, PoolTypeOK
<1>3. CASE \E w \in Threads : SpuriousWakeUp(w)
  BY <1>3 DEF SpuriousWakeUp, PoolTypeOK
<1>4. CASE \E a \in Adders : AddTask(a)
  <2>1. poolTasks' \in Seq(Nat \ {0})
    BY <1>4, AddLast DEF AddTask
  <2> QED
    BY <1>4, <2>1 DEF AddTask, PoolTypeOK
<1>5. CASE \E a \in Adders : NotifyOne(a)
  BY <1>5 DEF NotifyOne, Waiting, PoolTypeOK
<1>6. CASE Close
  BY <1>6 DEF Close, PoolTypeOK
<1>7. CASE NotifyAll
  BY <1>7 DEF NotifyAll, PoolTypeOK
<1>8. CASE UNCHANGED poolVars
  BY <1>8 DEF poolVars, PoolTypeOK
<1> QED
  BY <1>1, <1>2, <1>3, <1>4, <1>5, <1>6, <1>7, <1>8 DEF PoolNext

\* Every variable of the pool keeps its type, and a worker holds a task exactly
\* while it runs it, for any number of threads.
THEOREM PoolTypeCorrect == PoolSpec => []PoolTypeOK
BY PoolInitType, PoolTypeStep, PTL DEF PoolSpec
-----------------------------------------------------------------------------
\* While tasks are queued, not all workers wait without a notification to come:
\* calling notify_one after the unlock loses no wake-up.
THEOREM WakeUpsAreNotLost == PoolSpec => []NoLostWakeUp
<1>1. PoolInit => NoLostWakeUp
  BY DEF PoolInit, NoLostWakeUp
<1>2. PoolTypeOK /\ NoLostWakeUp /\ [PoolNext]_poolVars => NoLostWakeUp'
  <2> SUFFICES ASSUME PoolTypeOK, NoLostWakeUp, [PoolNext]_poolVars PROVE NoLostWakeUp'
    OBVIOUS
  <2> USE PoolAssumption DEF NoLostWakeUp, Waiting
  <2>1. CASE \E w \in Threads : Loop(w)
    BY <2>1 DEF Loop, PoolTypeOK
  <2>2. CASE \E w \in Threads : FinishTask(w) \/ SpuriousWakeUp(w)
    BY <2>2 DEF FinishTask, SpuriousWakeUp, PoolTypeOK
  <2>3. CASE \E a \in Adders : AddTask(a)
    BY <2>3 DEF AddTask, PoolTypeOK
  <2>4. CASE \E a \in Adders : NotifyOne(a)
    BY <2>4 DEF NotifyOne, PoolTypeOK
  <2>5. CASE Close \/ NotifyAll
    BY <2>5 DEF Close, NotifyAll, PoolTypeOK
  <2>6. CASE UNCHANGED poolVars
    BY <2>6 DEF poolVars
  <2> QED
    BY <2>1, <2>2, <2>3, <2>4, <2>5, <2>6 DEF PoolNext
<1> QED
  BY <1>1, <1>2, PoolTypeCorrect, PTL DEF PoolSpec

\* The flag is set exactly when the destructor has started.
DrainedInv == ExitOnlyWhenDrained /\ (isClosed => owner # "open")

\* A worker leaves only a closed and empty pool, and no task is added later:
\* the destructor abandons no task.
THEOREM NoTaskAbandoned == PoolSpec => []ExitOnlyWhenDrained
<1>1. PoolInit => DrainedInv
  BY DEF PoolInit, DrainedInv, ExitOnlyWhenDrained
<1>2. PoolTypeOK /\ DrainedInv /\ [PoolNext]_poolVars => DrainedInv'
  <2> SUFFICES ASSUME PoolTypeOK, DrainedInv, [PoolNext]_poolVars PROVE DrainedInv'
    OBVIOUS
  <2> USE DEF DrainedInv, ExitOnlyWhenDrained
  <2>1. CASE \E w \in Threads : Loop(w)
    BY <2>1 DEF Loop, PoolTypeOK
  <2>2. CASE \E w \in Threads : FinishTask(w) \/ SpuriousWakeUp(w)
    BY <2>2 DEF FinishTask, SpuriousWakeUp, PoolTypeOK
  <2>3. CASE \E a \in Adders : AddTask(a)
    BY <2>3 DEF AddTask, PoolTypeOK
  <2>4. CASE \E a \in Adders : NotifyOne(a)
    BY <2>4 DEF NotifyOne, Waiting, PoolTypeOK
  <2>5. CASE Close \/ NotifyAll
    BY <2>5 DEF Close, NotifyAll, PoolTypeOK
  <2>6. CASE UNCHANGED poolVars
    BY <2>6 DEF poolVars
  <2> QED
    BY <2>1, <2>2, <2>3, <2>4, <2>5, <2>6 DEF PoolNext
<1>3. DrainedInv => ExitOnlyWhenDrained
  BY DEF DrainedInv
<1> QED
  BY <1>1, <1>2, <1>3, PoolTypeCorrect, PTL DEF PoolSpec
-----------------------------------------------------------------------------
(* The refinement.                                                         *)

LEMMA PoolInitOrder == PoolInit => OrderInv
BY DEF PoolInit, OrderInv, Started

\* Every step keeps the order of the tasks, and is a step of the abstract pool
\* or leaves its state alone.
LEMMA RefinementStep ==
    PoolTypeOK /\ OrderInv /\ [PoolNext]_poolVars => OrderInv' /\ [Abstract!Next]_Abstract!vars
<1> SUFFICES ASSUME PoolTypeOK, OrderInv, [PoolNext]_poolVars
             PROVE  OrderInv' /\ [Abstract!Next]_Abstract!vars
  OBVIOUS
<1> DEFINE Running == {task[w] : w \in {v \in Threads : pc[v] = "running"}}
<1>a. Running = {task[w] : w \in {v \in Threads : task[v] # 0}}
  BY DEF PoolTypeOK
<1>b. PoolTypeOK'
  BY PoolTypeStep
<1>c. Running' = {task'[w] : w \in {v \in Threads : task'[v] # 0}}
  BY <1>b DEF PoolTypeOK
<1> HIDE DEF Running
<1>d. added \in Nat /\ Len(poolTasks) \in Nat /\ Started \in Int
  BY LenProperties DEF PoolTypeOK, Started
<1>e. ASSUME UNCHANGED <<poolTasks, added, task>>
      PROVE  OrderInv' /\ [Abstract!Next]_Abstract!vars
  <2>1. Started' = Started /\ Running' = Running
    BY <1>e, <1>a, <1>c DEF Started
  <2> QED
    BY <1>e, <2>1 DEF OrderInv, Abstract!vars, Running
<1>1. CASE \E w \in Threads : Loop(w)
  <2> PICK w \in Threads : Loop(w)
    BY <1>1
  <2>1. CASE poolTasks # << >>
    <3>1. /\ task' = [task EXCEPT ![w] = Head(poolTasks)]
          /\ poolTasks' = Tail(poolTasks) /\ added' = added
          /\ pc[w] = "ready" /\ task[w] = 0
      BY <2>1 DEF Loop, PoolTypeOK
    <3>2. Started' = Started + 1
      BY <1>d, <2>1, <3>1, TakeFirst DEF Started
    <3>3. Head(poolTasks) = Started + 1
      BY <1>d, <2>1, TakeFirst DEF OrderInv
    <3>4. /\ \A v \in Threads : task'[v] = IF v = w THEN Started + 1 ELSE task[v]
          /\ Started + 1 # 0
      BY <2>1, <3>1, <3>3, TakeFirst DEF PoolTypeOK
    <3>5. \A v \in Threads : task[v] \in Nat /\ task[v] <= Started
      BY DEF PoolTypeOK, OrderInv
    <3>6. Running' = Running \cup {Started + 1}
      BY <1>a, <1>c, <3>1, <3>4
    <3>7. \A i \in 1 .. Len(poolTasks') : poolTasks'[i] = Started' + i
      BY <1>d, <2>1, <3>1, <3>2, TakeFirst DEF OrderInv
    <3>8. \A v \in Threads : task'[v] <= Started'
      BY <1>d, <3>2, <3>4, <3>5
    <3>9. \A u, v \in Threads : task'[u] = task'[v] => u = v \/ task'[u] = 0
      BY <1>d, <3>4, <3>5 DEF OrderInv
    <3>10. Started < added
      BY <1>d, <2>1, TakeFirst DEF Started
    <3> QED
      BY <3>1, <3>2, <3>6, <3>7, <3>8, <3>9, <3>10
         DEF OrderInv, Abstract!Next, Abstract!Start, Running
  <2>2. CASE poolTasks = << >>
    BY <1>e, <2>2 DEF Loop
  <2> QED
    BY <2>1, <2>2
<1>2. CASE \E w \in Threads : FinishTask(w)
  <2> PICK w \in Threads : FinishTask(w)
    BY <1>2
  <2>1. /\ task' = [task EXCEPT ![w] = 0] /\ UNCHANGED <<poolTasks, added>>
        /\ task[w] # 0 /\ task[w] \in Running
    BY <1>a DEF FinishTask, PoolTypeOK
  <2>2. \A v \in Threads : task'[v] = IF v = w THEN 0 ELSE task[v]
    BY <2>1 DEF PoolTypeOK
  <2>3. Started' = Started
    BY <2>1 DEF Started
  <2>4. Running' = Running \ {task[w]}
    BY <1>a, <1>c, <2>1, <2>2 DEF OrderInv
  <2>5. OrderInv'
    <3>1. 0 <= Started
      BY <1>d DEF OrderInv, PoolTypeOK
    <3> QED
      BY <2>1, <2>2, <2>3, <3>1 DEF OrderInv
  <2> QED
    BY <2>1, <2>3, <2>4, <2>5 DEF Abstract!Next, Abstract!Finish, Running
<1>3. CASE \E w \in Threads : SpuriousWakeUp(w)
  BY <1>e, <1>3 DEF SpuriousWakeUp
<1>4. CASE \E a \in Adders : AddTask(a)
  <2>1. /\ poolTasks' = Append(poolTasks, added + 1) /\ added' = added + 1
        /\ UNCHANGED <<task, pc>>
    BY <1>4 DEF AddTask
  <2>2. Started' = Started
    BY <1>d, <2>1, AddLast DEF Started
  <2>3. Running' = Running
    BY <1>a, <1>c, <2>1
  <2>4. \A i \in 1 .. Len(poolTasks') : poolTasks'[i] = Started' + i
    BY <1>d, <2>1, <2>2, AddLast DEF OrderInv, Started
  <2> QED
    BY <2>1, <2>2, <2>3, <2>4 DEF OrderInv, Abstract!Next, Abstract!Submit, Running
<1>5. CASE \E a \in Adders : NotifyOne(a)
  BY <1>e, <1>5 DEF NotifyOne
<1>6. CASE Close
  BY <1>e, <1>6 DEF Close
<1>7. CASE NotifyAll
  BY <1>e, <1>7 DEF NotifyAll
<1>8. CASE UNCHANGED poolVars
  BY <1>e, <1>8 DEF poolVars
<1> QED
  BY <1>1, <1>2, <1>3, <1>4, <1>5, <1>6, <1>7, <1>8 DEF PoolNext

\* The pool implements the abstract pool: tasks start in the order they were
\* added and each is started once, for any number of workers and adders.
THEOREM PoolImplementsTaskPool == PoolSpec => Abstract!Spec
<1>1. PoolInit => Abstract!Init
  <2> SUFFICES ASSUME PoolInit PROVE Abstract!Init
    OBVIOUS
  <2>1. Started = 0 /\ added = 0
    <3>1. Len(<< >>) = 0
      OBVIOUS
    <3>2. Len(poolTasks) = 0 /\ added = 0
      BY <3>1, Zenon DEF PoolInit
    <3> QED
      BY <3>2 DEF Started
  <2>2. {task[w] : w \in {v \in Threads : pc[v] = "running"}} = {}
    BY DEF PoolInit
  <2> QED
    BY <2>1, <2>2 DEF Abstract!Init
<1> QED
  BY <1>1, PoolInitOrder, RefinementStep, PoolTypeCorrect, PTL DEF PoolSpec, Abstract!Spec
=============================================================================
