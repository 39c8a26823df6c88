--------------------------- MODULE GatewayProofs ---------------------------
(***************************************************************************)
(* Theorems about two parts of the gateway: its shell server, for any      *)
(* clients, names and levels, and the daemon that supervises it, for any   *)
(* process numbers and any limit on restarts.                              *)
(***************************************************************************)
EXTENDS ShellServer, DaemonTask, SequenceTheorems, TLAPS

InService == {"accept", "read", "walk", "reply"}

\* The commands registered when the main thread has registered n of its own.
Registered(n) == IF n = 0 THEN <<"test1">>
                 ELSE IF n = 1 THEN <<"test1", "setDebugLevel">>
                 ELSE Commands

\* The handshake: the list is emptied before anybody can register a command.
ListInv ==
    /\ mpc = "create" => spc = "none"
    /\ spc \in {"none", "init", "listen"} => cmds = << >>
    /\ spc \notin {"none", "init", "listen"} => cmds = Registered(reg)
    /\ initialized <=> spc \in InService
    /\ mpc \in {"create", "wait", "asleep", "woken"} => reg = 0
    /\ mpc = "register" => reg \in 0 .. 1 /\ initialized
    /\ mpc = "ready" => reg = 2 /\ initialized

Waiting == {c \in Clients : \E i \in 1 .. Len(backlog) : backlog[i] = c}

\* A client is waiting in the backlog, once, or is served, or neither.
ClientInv ==
    /\ \A i, j \in 1 .. Len(backlog) : backlog[i] = backlog[j] => i = j
    /\ client \notin Waiting
    /\ client # None <=> spc \in {"read", "walk", "reply"}
    /\ \A c \in Clients : cpc[c] = "idle" => c \notin Waiting /\ c # client /\ request[c] = None
    /\ \A c \in Clients : cpc[c] = "connected" =>
           /\ request[c] = None
           /\ c \in Waiting \/ (c = client /\ spc = "read")
    /\ spc \in {"walk", "reply"} => request[client] # None
    /\ spc = "walk" => recvbuf = request[client]

IInv == TypeOK /\ ListInv /\ ClientInv

Cmds == {"test1", "setDebugLevel", "getDebugLevel"}
MainPlaces == {"create", "wait", "asleep", "woken", "register", "ready"}
ServerPlaces == {"none", "init", "listen", "notify", "accept", "read", "walk", "reply"}
ClientPlaces == {"idle", "connected", "waiting", "told", "gone"}
-----------------------------------------------------------------------------
(* The walk over the commands.                                             *)

LEMMA NewLevelType ==
    ASSUME NEW arg \in {NoArg, Word, TooBig} \cup Levels, NEW l \in {0} \cup Levels
    PROVE  NewLevel(arg, l) \in {0} \cup Levels
BY DEF NewLevel

LEMMA CallType ==
    ASSUME NEW cmd \in Cmds, NEW arg, NEW l \in {0} \cup Levels
    PROVE  Call(cmd, arg, l) \in Answers
BY DEF Call, Answers, Cmds

\* The commands are at most three: the last that matches exists.
LEMMA LastExists ==
    ASSUME NEW S, S \subseteq 1 .. 3, S # {}
    PROVE  (CHOOSE i \in S : \A j \in S : j <= i) \in S
<1>1. \E i \in S : \A j \in S : j <= i
  <2>1. CASE 3 \in S
    BY <2>1
  <2>2. CASE 3 \notin S /\ 2 \in S
    BY <2>2
  <2>3. CASE 3 \notin S /\ 2 \notin S
    <3>1. \A j \in S : j = 1
      <4>1. \A j \in 1 .. 3 : j = 1 \/ j = 2 \/ j = 3
        OBVIOUS
      <4> QED
        BY <2>3, <4>1
    <3>2. PICK k \in S : TRUE
      OBVIOUS
    <3>3. k = 1 /\ \A j \in S : j <= k
      BY <3>1
    <3> QED
      BY <3>3
  <2> QED
    BY <2>1, <2>2, <2>3
<1> QED
  BY <1>1

LEMMA AtMostThree ==
    ASSUME NEW n, n = 0 \/ n = 1 \/ n = 2 \/ n = 3
    PROVE  n <= 3
OBVIOUS

\* The list is one of four, whoever runs.
LEMMA ListType ==
    ASSUME TypeOK, ListInv
    PROVE  cmds \in Seq(Cmds) /\ DOMAIN cmds \subseteq 1 .. 3 /\ \A i \in DOMAIN cmds : cmds[i] \in Cmds
<1>1. cmds \in Seq(Cmds)
  BY DEF TypeOK, Cmds
<1>2. DOMAIN cmds = 1 .. Len(cmds) /\ Len(cmds) \in Nat
  BY <1>1, LenProperties
<1>3. cmds \in {<< >>, <<"test1">>, <<"test1", "setDebugLevel">>, Commands}
  BY DEF ListInv, Registered
<1>4. Len(cmds) <= 3
  <2>1. /\ Len(<< >>) = 0 /\ Len(<<"test1">>) = 1
        /\ Len(<<"test1", "setDebugLevel">>) = 2 /\ Len(Commands) = 3
    BY EmptySeq DEF Commands
  <2>2. Len(cmds) = 0 \/ Len(cmds) = 1 \/ Len(cmds) = 2 \/ Len(cmds) = 3
    <3>1. cmds = << >> => Len(cmds) = 0
      BY <2>1, Zenon
    <3>2. cmds = <<"test1">> => Len(cmds) = 1
      BY <2>1, Zenon
    <3>3. cmds = <<"test1", "setDebugLevel">> => Len(cmds) = 2
      BY <2>1, Zenon
    <3>4. cmds = Commands => Len(cmds) = 3
      BY <2>1, Zenon
    <3> QED
      BY <1>3, <3>1, <3>2, <3>3, <3>4, Zenon
  <2> QED
    BY <2>2, AtMostThree
<1>5. \A i \in 1 .. Len(cmds) : cmds[i] \in Cmds
  BY <1>1, ElementOfSeq
<1> QED
  BY <1>1, <1>2, <1>4, <1>5

LEMMA WalkType ==
    ASSUME ShellAssumption, TypeOK, ListInv, NEW r \in Requests \cup {Noise}
    PROVE  /\ Walk(cmds, r, sendbuf, level).level \in {0} \cup Levels
           /\ Walk(cmds, r, sendbuf, level).answer \in Answers \cup {None}
<1> DEFINE called == {i \in DOMAIN cmds : Begins(cmds[i], r.name)}
           last == CHOOSE i \in called : \A j \in called : j <= i
           new == IF \E i \in called : cmds[i] = "setDebugLevel" THEN NewLevel(r.arg, level) ELSE level
<1>1. r.arg \in {NoArg, Word, TooBig} \cup Levels
  BY DEF Requests, Noise
<1>2. level \in {0} \cup Levels /\ sendbuf \in Answers \cup {None}
  BY DEF TypeOK
<1>3. NewLevel(r.arg, level) \in {0} \cup Levels
  BY <1>1, <1>2, NewLevelType
<1>4. new \in {0} \cup Levels
  BY <1>2, <1>3
<1>5. ASSUME called # {} PROVE cmds[last] \in Cmds
  <2>1. called \subseteq 1 .. 3
    BY ListType
  <2>2. last \in called
    BY <1>5, <2>1, LastExists
  <2> QED
    BY <2>2, ListType
<1> HIDE DEF new, last
<1>6. called # {} => Call(cmds[last], r.arg, new) \in Answers
  BY <1>4, <1>5, CallType
<1>7. Walk(cmds, r, sendbuf, level) =
        [level |-> new, answer |-> IF called = {} THEN sendbuf ELSE Call(cmds[last], r.arg, new)]
  BY DEF Walk, new, last
<1> HIDE DEF called
<1> QED
  BY <1>2, <1>4, <1>6, <1>7

\* What was in the buffer matters only when no command has the name.
LEMMA WalkAgrees ==
    ASSUME NEW known, NEW r, NEW buf, NEW l
    PROVE  /\ Walk(known, r, buf, l).level = WalkEffect(known, r, l)
           /\ WalkResult(known, r, l) # None => Walk(known, r, buf, l).answer = WalkResult(known, r, l)
BY DEF Walk, WalkEffect, WalkResult
-----------------------------------------------------------------------------
(* The backlog.                                                            *)

LEMMA BacklogTypes ==
    ASSUME TypeOK
    PROVE  /\ backlog \in Seq(Clients) /\ Len(backlog) \in Nat
           /\ \A i \in 1 .. Len(backlog) : backlog[i] \in Clients /\ backlog[i] \in Waiting
<1>1. backlog \in Seq(Clients)
  BY DEF TypeOK
<1>2. Len(backlog) \in Nat /\ \A i \in 1 .. Len(backlog) : backlog[i] \in Clients
  BY <1>1, LenProperties, ElementOfSeq
<1> QED
  BY <1>1, <1>2 DEF Waiting

LEMMA LastIndex ==
    ASSUME NEW n \in Nat, NEW m, m = n + 1, NEW i \in 1 .. m
    PROVE  i \in 1 .. n \/ i = n + 1
OBVIOUS

LEMMA BacklogGrows ==
    ASSUME TypeOK, ClientInv, NEW c \in Clients, c \notin Waiting, backlog' = Append(backlog, c)
    PROVE  /\ backlog' \in Seq(Clients)
           /\ \A i, j \in 1 .. Len(backlog') : backlog'[i] = backlog'[j] => i = j
           /\ Waiting' = Waiting \cup {c}
<1>1. /\ backlog' \in Seq(Clients) /\ Len(backlog) \in Nat /\ Len(backlog') = Len(backlog) + 1
      /\ \A i \in 1 .. Len(backlog) : backlog'[i] = backlog[i]
      /\ backlog'[Len(backlog) + 1] = c
  BY BacklogTypes, AppendProperties
<1>2. \A i \in 1 .. Len(backlog') :
         \/ i \in 1 .. Len(backlog) /\ backlog'[i] = backlog[i] /\ backlog[i] # c
         \/ i = Len(backlog) + 1 /\ backlog'[i] = c
  BY <1>1, LastIndex DEF Waiting
<1>3. \A i, j \in 1 .. Len(backlog') : backlog'[i] = backlog'[j] => i = j
  BY <1>2 DEF ClientInv
<1>4. Waiting' = Waiting \cup {c}
  BY <1>1 DEF Waiting
<1> QED
  BY <1>1, <1>3, <1>4

LEMMA BacklogShrinks ==
    ASSUME TypeOK, ClientInv, backlog # << >>, backlog' = Tail(backlog)
    PROVE  /\ backlog' \in Seq(Clients)
           /\ \A i, j \in 1 .. Len(backlog') : backlog'[i] = backlog'[j] => i = j
           /\ Head(backlog) \in Waiting
           /\ Waiting' = Waiting \ {Head(backlog)}
<1>1. Len(backlog) \in Nat \ {0}
  BY BacklogTypes, EmptySeq
<1>2. /\ Head(backlog) = backlog[1] /\ backlog' \in Seq(Clients) /\ Len(backlog') = Len(backlog) - 1
      /\ \A i \in 1 .. Len(backlog') : backlog'[i] = backlog[i + 1]
  BY BacklogTypes, HeadTailProperties
<1>3. \A i \in 1 .. Len(backlog') : i + 1 \in 1 .. Len(backlog) /\ i + 1 # 1
  BY <1>1, <1>2
<1>4. 1 \in 1 .. Len(backlog)
  BY <1>1
<1>5. \A i, j \in 1 .. Len(backlog') : backlog'[i] = backlog'[j] => i = j
  <2> SUFFICES ASSUME NEW i \in 1 .. Len(backlog'), NEW j \in 1 .. Len(backlog'),
                      backlog'[i] = backlog'[j]
               PROVE  i = j
    OBVIOUS
  <2>1. backlog[i + 1] = backlog[j + 1]
    BY <1>2
  <2>2. i + 1 = j + 1
    BY <1>3, <2>1 DEF ClientInv
  <2> QED
    BY <2>2
<1>6. Head(backlog) \in Waiting
  BY <1>2, <1>4, BacklogTypes
<1>7. ASSUME NEW c \in Clients PROVE c \in Waiting' <=> c \in Waiting /\ c # Head(backlog)
  <2>1. ASSUME c \in Waiting' PROVE c \in Waiting /\ c # Head(backlog)
    <3>1. PICK i \in 1 .. Len(backlog') : backlog'[i] = c
      BY <2>1 DEF Waiting
    <3>2. backlog[i + 1] = c /\ i + 1 \in 1 .. Len(backlog) /\ i + 1 # 1
      BY <1>2, <1>3, <3>1
    <3> QED
      BY <1>2, <1>4, <3>2 DEF Waiting, ClientInv
  <2>2. ASSUME c \in Waiting, c # Head(backlog) PROVE c \in Waiting'
    <3>1. PICK i \in 1 .. Len(backlog) : backlog[i] = c
      BY <2>2 DEF Waiting
    <3>2. i # 1
      BY <1>2, <2>2, <3>1
    <3>3. i - 1 \in 1 .. Len(backlog') /\ (i - 1) + 1 = i
      BY <1>1, <1>2, <3>2
    <3>4. backlog'[i - 1] = c
      BY <1>2, <3>1, <3>3
    <3> QED
      BY <3>3, <3>4 DEF Waiting
  <2> QED
    BY <2>1, <2>2
<1> QED
  BY <1>2, <1>5, <1>6, <1>7 DEF Waiting
-----------------------------------------------------------------------------
(* The invariant.                                                          *)

LEMMA TypeStep ==
    ASSUME ShellAssumption, IInv, Next
    PROVE  TypeOK'
<1> USE DEF main, list, buffers, clients
<1>0. /\ TypeOK /\ ListInv /\ ClientInv
  BY DEF IInv
<1>1. /\ mpc \in MainPlaces /\ reg \in 0 .. 2 /\ spc \in ServerPlaces /\ initialized \in BOOLEAN
      /\ cmds \in Seq(Cmds) /\ backlog \in Seq(Clients) /\ client \in Clients \cup {None}
      /\ recvbuf \in Requests \cup {Noise} /\ sendbuf \in Answers \cup {None}
      /\ level \in {0} \cup Levels /\ cpc \in [Clients -> ClientPlaces]
      /\ request \in [Clients -> Requests \cup {None}] /\ told \in [Clients -> Answers \cup {None}]
      /\ dead \in BOOLEAN
  BY <1>0 DEF TypeOK, MainPlaces, ServerPlaces, ClientPlaces, Cmds
<1> DEFINE Good == /\ mpc' \in MainPlaces /\ reg' \in 0 .. 2 /\ spc' \in ServerPlaces
                   /\ initialized' \in BOOLEAN
                   /\ cmds' \in Seq(Cmds) /\ backlog' \in Seq(Clients)
                   /\ client' \in Clients \cup {None}
                   /\ recvbuf' \in Requests \cup {Noise} /\ sendbuf' \in Answers \cup {None}
                   /\ level' \in {0} \cup Levels /\ cpc' \in [Clients -> ClientPlaces]
                   /\ request' \in [Clients -> Requests \cup {None}]
                   /\ told' \in [Clients -> Answers \cup {None}]
                   /\ dead' \in BOOLEAN
<1>2. Good => TypeOK'
  BY DEF TypeOK, MainPlaces, ServerPlaces, ClientPlaces, Cmds
<1>3. CASE CreateThread \/ TestInitialized \/ SpuriousWakeUp
  BY <1>1, <1>2, <1>3 DEF CreateThread, TestInitialized, SpuriousWakeUp, MainPlaces, ServerPlaces
<1>4. CASE RegShellCmd
  <2>1. reg \in 0 .. 1
    BY <1>0, <1>4 DEF RegShellCmd, ListInv
  <2>2. Commands[reg + 2] \in Cmds
    <3>1. reg = 0 \/ reg = 1
      BY <2>1
    <3>2. Commands[2] \in Cmds /\ Commands[3] \in Cmds
      BY DEF Commands, Cmds
    <3> QED
      BY <3>1, <3>2
  <2>3. cmds' \in Seq(Cmds)
    BY <1>1, <1>4, <2>2, AppendProperties DEF RegShellCmd
  <2>4. reg' \in 0 .. 2 /\ mpc' \in MainPlaces
    BY <1>4, <2>1 DEF RegShellCmd, MainPlaces
  <2> QED
    BY <1>1, <1>2, <1>4, <2>3, <2>4 DEF RegShellCmd
<1>5. CASE InitList
  <2>1. cmds' \in Seq(Cmds)
    BY <1>5, EmptySeq, Zenon DEF InitList
  <2> QED
    BY <1>1, <1>2, <1>5, <2>1 DEF InitList, ServerPlaces
<1>6. CASE Startup
  <2>1. Commands[1] \in Cmds
    BY DEF Commands, Cmds
  <2>2. cmds' \in Seq(Cmds)
    BY <1>1, <1>6, <2>1, AppendProperties DEF Startup
  <2> QED
    BY <1>1, <1>2, <1>6, <2>2 DEF Startup, ServerPlaces
<1>7. CASE Notify
  BY <1>1, <1>2, <1>7 DEF Notify, ServerPlaces, MainPlaces
<1>8. CASE Accept
  <2>1. backlog' \in Seq(Clients) /\ Head(backlog) \in Clients
    BY <1>0, <1>8, BacklogShrinks DEF Accept, Waiting
  <2> QED
    BY <1>1, <1>2, <1>8, <2>1 DEF Accept, ServerPlaces
<1>9. CASE Read
  <2>1. client \in Clients
    BY <1>0, <1>1, <1>9 DEF Read, ClientInv
  <2>2. recvbuf' \in Requests \cup {Noise}
    BY <1>1, <1>9, <2>1 DEF Read
  <2> QED
    BY <1>1, <1>2, <1>9, <2>2 DEF Read, ServerPlaces
<1>10. CASE AnalysisCmd
  <2>1. level' \in {0} \cup Levels /\ sendbuf' \in Answers \cup {None}
    BY <1>0, <1>1, <1>10, WalkType DEF AnalysisCmd
  <2> QED
    BY <1>1, <1>2, <1>10, <2>1 DEF AnalysisCmd, ServerPlaces
<1>11. CASE Reply
  <2>1. told' \in [Clients -> Answers \cup {None}]
    BY <1>1, <1>11 DEF Reply
  <2>2. cpc' \in [Clients -> ClientPlaces]
    <3>1. cpc' = cpc \/ cpc' = [cpc EXCEPT ![client] = "told"]
      BY <1>11 DEF Reply
    <3> QED
      BY <1>1, <3>1 DEF ClientPlaces
  <2>3. dead' \in BOOLEAN
    BY <1>1, <1>11 DEF Reply
  <2>4. client' = None /\ spc' = "accept" /\ UNCHANGED <<main, list, backlog, buffers, request>>
    BY <1>11 DEF Reply
  <2> QED
    BY <1>1, <1>2, <2>1, <2>2, <2>3, <2>4 DEF ServerPlaces
<1>12. ASSUME NEW c \in Clients, Connect(c) PROVE TypeOK'
  <2>1. backlog' \in Seq(Clients)
    <3>1. backlog' = backlog \/ backlog' = Append(backlog, c)
      BY <1>12 DEF Connect
    <3>2. backlog \in Seq(Clients) /\ Append(backlog, c) \in Seq(Clients)
      BY <1>1, AppendProperties
    <3> QED
      BY <3>1, <3>2, Zenon
  <2> QED
    BY <1>1, <1>2, <1>12, <2>1 DEF Connect, ClientPlaces
<1>13. ASSUME NEW c \in Clients, Send(c) \/ Killed(c) PROVE TypeOK'
  BY <1>1, <1>2, <1>13 DEF Send, Killed, ClientPlaces
<1> QED
  BY <1>3, <1>4, <1>5, <1>6, <1>7, <1>8, <1>9, <1>10, <1>11, <1>12, <1>13 DEF Next, Main, Server

LEMMA AppendTwo ==
    ASSUME NEW S, NEW a \in S, NEW b \in S
    PROVE  Append(<<a>>, b) = <<a, b>>
<1> DEFINE c == Append(<<a>>, b)
<1>1. <<a>> \in Seq(S) /\ Len(<<a>>) = 1 /\ <<a>>[1] = a
  OBVIOUS
<1>2. <<a, b>> \in Seq(S) /\ Len(<<a, b>>) = 2 /\ <<a, b>>[1] = a /\ <<a, b>>[2] = b
  OBVIOUS
<1>3. c \in Seq(S) /\ Len(c) = 2 /\ c[1] = a /\ c[2] = b
  BY <1>1, AppendProperties
<1> HIDE DEF c
<1>4. \A i \in 1 .. 2 : c[i] = <<a, b>>[i]
  <2>1. \A i \in 1 .. 2 : i = 1 \/ i = 2
    OBVIOUS
  <2> QED
    BY <1>2, <1>3, <2>1
<1>5. c = <<a, b>>
  BY <1>2, <1>3, <1>4, SeqEqual
<1> QED
  BY <1>5 DEF c

LEMMA AppendThree ==
    ASSUME NEW S, NEW a \in S, NEW b \in S, NEW d \in S
    PROVE  Append(<<a, b>>, d) = <<a, b, d>>
<1> DEFINE c == Append(<<a, b>>, d)
<1>1. <<a, b>> \in Seq(S) /\ Len(<<a, b>>) = 2 /\ <<a, b>>[1] = a /\ <<a, b>>[2] = b
  OBVIOUS
<1>2. /\ <<a, b, d>> \in Seq(S) /\ Len(<<a, b, d>>) = 3
      /\ <<a, b, d>>[1] = a /\ <<a, b, d>>[2] = b /\ <<a, b, d>>[3] = d
  OBVIOUS
<1>3. c \in Seq(S) /\ Len(c) = 3 /\ c[1] = a /\ c[2] = b /\ c[3] = d
  BY <1>1, AppendProperties
<1> HIDE DEF c
<1>4. \A i \in 1 .. 3 : c[i] = <<a, b, d>>[i]
  <2>1. \A i \in 1 .. 3 : i = 1 \/ i = 2 \/ i = 3
    OBVIOUS
  <2> QED
    BY <1>2, <1>3, <2>1
<1>5. c = <<a, b, d>>
  BY <1>2, <1>3, <1>4, SeqEqual
<1> QED
  BY <1>5 DEF c

LEMMA ListStep ==
    ASSUME ShellAssumption, IInv, Next
    PROVE  ListInv'
<1> USE DEF main, list, buffers, clients
<1>0. /\ mpc \in MainPlaces /\ spc \in ServerPlaces /\ ListInv /\ ClientInv
  BY DEF IInv, TypeOK, MainPlaces, ServerPlaces
<1>1. CASE CreateThread
  BY <1>0, <1>1 DEF CreateThread, ListInv, InService
<1>2. CASE TestInitialized \/ SpuriousWakeUp
  BY <1>0, <1>2 DEF TestInitialized, SpuriousWakeUp, ListInv, InService
<1>3. CASE RegShellCmd
  <2>1. /\ mpc = "register" /\ (reg = 0 \/ reg = 1) /\ initialized /\ spc \in InService
        /\ cmds = Registered(reg)
    <3>1. mpc = "register" /\ reg \in 0 .. 1 /\ initialized /\ spc \in InService
      BY <1>0, <1>3 DEF RegShellCmd, ListInv
    <3>2. cmds = Registered(reg)
      BY <1>0, <3>1 DEF ListInv, InService
    <3> QED
      BY <3>1, <3>2
  <2>2. /\ Append(<<"test1">>, "setDebugLevel") = <<"test1", "setDebugLevel">>
        /\ Append(<<"test1", "setDebugLevel">>, "getDebugLevel") = Commands
        /\ Commands[2] = "setDebugLevel" /\ Commands[3] = "getDebugLevel"
    <3>0. "test1" \in Cmds /\ "setDebugLevel" \in Cmds /\ "getDebugLevel" \in Cmds
      BY DEF Cmds
    <3>1. Append(<<"test1">>, "setDebugLevel") = <<"test1", "setDebugLevel">>
      BY <3>0, AppendTwo, Zenon
    <3>2. Append(<<"test1", "setDebugLevel">>, "getDebugLevel") = Commands
      BY <3>0, AppendThree, Zenon DEF Commands
    <3>3. Commands[2] = "setDebugLevel" /\ Commands[3] = "getDebugLevel"
      BY DEF Commands
    <3> QED
      BY <3>1, <3>2, <3>3, Zenon
  <2>3. cmds' = Registered(reg + 1)
    <3>1. CASE reg = 0
      <4>1. cmds = <<"test1">> /\ cmds' = Append(cmds, Commands[2])
        BY <1>3, <2>1, <3>1 DEF RegShellCmd, Registered
      <4>2. cmds' = <<"test1", "setDebugLevel">>
        BY <2>2, <4>1, Zenon
      <4> QED
        BY <3>1, <4>2 DEF Registered
    <3>2. CASE reg = 1
      <4>1. cmds = <<"test1", "setDebugLevel">> /\ cmds' = Append(cmds, Commands[3])
        BY <1>3, <2>1, <3>2 DEF RegShellCmd, Registered
      <4>2. cmds' = Commands
        BY <2>2, <4>1, Zenon
      <4> QED
        BY <3>2, <4>2 DEF Registered
    <3> QED
      BY <2>1, <3>1, <3>2
  <2>4. reg' = reg + 1 /\ UNCHANGED <<spc, initialized>> /\ mpc' = IF reg' = 2 THEN "ready" ELSE "register"
    BY <1>3 DEF RegShellCmd
  <2>5. (mpc' = "ready" /\ reg' = 2) \/ (mpc' = "register" /\ reg' \in 0 .. 1)
    BY <2>1, <2>4
  <2> HIDE DEF main, list
  <2> QED
    BY <1>0, <2>1, <2>3, <2>4, <2>5 DEF ListInv, InService
<1>4. CASE InitList
  BY <1>0, <1>4 DEF InitList, ListInv, InService
<1>5. CASE Startup
  <2>1. cmds = << >> /\ cmds' = Append(cmds, Commands[1]) /\ ~initialized
    BY <1>0, <1>5 DEF Startup, ListInv, InService
  <2>2. Append(<< >>, Commands[1]) = <<"test1">>
    BY DEF Commands
  <2>3. cmds' = <<"test1">>
    BY <2>1, <2>2, Zenon
  <2>4. reg = 0
    BY <1>0, <2>1 DEF ListInv, MainPlaces
  <2>5. /\ spc = "listen" /\ spc' = "notify" /\ UNCHANGED <<mpc, reg, initialized>>
    BY <1>5 DEF Startup
  <2> QED
    BY <1>0, <2>1, <2>3, <2>4, <2>5 DEF ListInv, InService, Registered
<1>6. CASE Notify
  <2>1. ~initialized /\ cmds = Registered(reg)
    BY <1>0, <1>6 DEF Notify, ListInv, InService
  <2> QED
    BY <1>0, <1>6, <2>1 DEF Notify, ListInv, InService
<1>7. CASE Accept \/ Read \/ AnalysisCmd \/ Reply
  <2>1. spc \in InService /\ spc' \in InService /\ UNCHANGED <<mpc, reg, initialized, cmds>>
    BY <1>7 DEF Accept, Read, AnalysisCmd, Reply, InService
  <2> QED
    BY <1>0, <2>1 DEF ListInv, InService
<1>8. ASSUME NEW c \in Clients, Connect(c) \/ Send(c) \/ Killed(c) PROVE ListInv'
  <2>1. UNCHANGED <<mpc, reg, spc, initialized, cmds>>
    BY <1>8 DEF Connect, Send, Killed
  <2> QED
    BY <1>0, <2>1 DEF ListInv
<1> QED
  BY <1>1, <1>2, <1>3, <1>4, <1>5, <1>6, <1>7, <1>8 DEF Next, Main, Server

LEMMA ClientStep ==
    ASSUME ShellAssumption, IInv, Next
    PROVE  ClientInv'
<1> USE DEF main, list, buffers, clients
<1>0. /\ TypeOK /\ ClientInv
      /\ client \in Clients \cup {None} /\ None \notin Clients
      /\ cpc \in [Clients -> ClientPlaces] /\ request \in [Clients -> Requests \cup {None}]
  BY DEF IInv, TypeOK, ShellAssumption, ClientPlaces
<1>1. ASSUME UNCHANGED <<backlog, client, recvbuf, cpc, request>>,
             spc' = spc \/ (spc \notin {"read", "walk", "reply"} /\ spc' \notin {"read", "walk", "reply"})
      PROVE  ClientInv'
  <2>1. Waiting' = Waiting
    BY <1>1 DEF Waiting
  <2>2. CASE spc' = spc
    BY <1>0, <1>1, <2>1, <2>2 DEF ClientInv
  <2>3. CASE spc \notin {"read", "walk", "reply"} /\ spc' \notin {"read", "walk", "reply"}
    BY <1>0, <1>1, <2>1, <2>3 DEF ClientInv
  <2> QED
    BY <1>1, <2>2, <2>3
<1>2. CASE Main \/ SpuriousWakeUp \/ InitList \/ Startup \/ Notify
  <2>1. UNCHANGED <<backlog, client, recvbuf, cpc, request>>
    BY <1>2 DEF Main, CreateThread, TestInitialized, RegShellCmd, SpuriousWakeUp, InitList, Startup, Notify
  <2>2. spc' = spc \/ (spc \notin {"read", "walk", "reply"} /\ spc' \notin {"read", "walk", "reply"})
    <3>1. CASE CreateThread
      <4>1. spc = "none"
        BY <3>1 DEF CreateThread, IInv, ListInv
      <4> QED
        BY <3>1, <4>1 DEF CreateThread
    <3> QED
      BY <1>2, <3>1 DEF Main, TestInitialized, RegShellCmd, SpuriousWakeUp, InitList, Startup, Notify
  <2> QED
    BY <1>1, <2>1, <2>2
<1>3. CASE Accept
  <2>1. /\ spc = "accept" /\ spc' = "read" /\ backlog # << >> /\ backlog' = Tail(backlog)
        /\ client' = Head(backlog) /\ UNCHANGED <<recvbuf, cpc, request>>
    BY <1>3 DEF Accept
  <2>2. /\ \A i, j \in 1 .. Len(backlog') : backlog'[i] = backlog'[j] => i = j
        /\ client' \in Waiting
        /\ Waiting' = Waiting \ {client'}
    BY <1>0, <2>1, BacklogShrinks
  <2>3. client' \in Clients /\ client' # None
    BY <1>0, <2>2 DEF Waiting
  <2>4. client = None
    BY <1>0, <2>1 DEF ClientInv
  <2>5. \A c \in Clients : cpc[c] = "idle" => c \notin Waiting' /\ c # client' /\ request[c] = None
    BY <1>0, <2>2 DEF ClientInv
  <2>6. \A c \in Clients : cpc[c] = "connected" => request[c] = None /\ (c \in Waiting' \/ c = client')
    BY <1>0, <2>1, <2>2, <2>4 DEF ClientInv
  <2>7. client' \notin Waiting'
    BY <2>2
  <2> QED
    BY <2>1, <2>2, <2>3, <2>5, <2>6, <2>7 DEF ClientInv
<1>4. CASE Read
  <2>1. Waiting' = Waiting /\ UNCHANGED <<backlog, cpc, request>> /\ spc = "read"
    BY <1>4 DEF Read, Waiting
  <2>2. client # None /\ client \in Clients
    BY <1>0, <2>1 DEF ClientInv
  <2>3. CASE request[client] = None
    <3>1. spc' = "accept" /\ client' = None /\ Closed(client)
      BY <1>4, <2>3 DEF Read
    <3>2. cpc[client] = "gone"
      BY <3>1 DEF Closed
    <3>3. client' \notin Waiting
      BY <1>0, <3>1 DEF Waiting
    <3>4. \A c \in Clients : cpc[c] = "connected" => request[c] = None /\ c \in Waiting
      BY <1>0, <3>2 DEF ClientInv
    <3> QED
      BY <1>0, <2>1, <3>1, <3>3, <3>4 DEF ClientInv
  <2>4. CASE request[client] # None
    <3>1. spc' = "walk" /\ client' = client /\ recvbuf' = request[client]
      BY <1>4, <2>4 DEF Read
    <3>2. \A c \in Clients : cpc[c] = "connected" => request[c] = None /\ c \in Waiting
      BY <1>0, <2>4 DEF ClientInv
    <3> QED
      BY <1>0, <2>1, <2>2, <2>4, <3>1, <3>2 DEF ClientInv
  <2> QED
    BY <2>3, <2>4
<1>5. CASE AnalysisCmd
  <2>1. /\ spc = "walk" /\ spc' = "reply" /\ UNCHANGED <<backlog, client, recvbuf, cpc, request>>
    BY <1>5 DEF AnalysisCmd
  <2>2. Waiting' = Waiting
    BY <2>1 DEF Waiting
  <2> QED
    BY <1>0, <2>1, <2>2 DEF ClientInv
<1>6. CASE Reply
  <2>1. /\ spc = "reply" /\ spc' = "accept" /\ client' = None /\ UNCHANGED <<backlog, recvbuf, request>>
        /\ cpc' = cpc \/ cpc' = [cpc EXCEPT ![client] = "told"]
    BY <1>6 DEF Reply
  <2>2. Waiting' = Waiting /\ client' \notin Waiting
    BY <1>0, <2>1 DEF Waiting
  <2>3. \A c \in Clients : cpc'[c] = cpc[c] \/ cpc'[c] = "told"
    BY <1>0, <2>1
  <2>4. \A c \in Clients : cpc'[c] = "idle" => c \notin Waiting /\ c # client' /\ request[c] = None
    BY <1>0, <2>1, <2>3 DEF ClientInv
  <2>5. \A c \in Clients : cpc'[c] = "connected" => request[c] = None /\ c \in Waiting
    BY <1>0, <2>1, <2>3 DEF ClientInv
  <2> QED
    BY <1>0, <2>1, <2>2, <2>4, <2>5 DEF ClientInv
<1>7. ASSUME NEW c \in Clients, Connect(c) PROVE ClientInv'
  <2>1. /\ cpc[c] = "idle" /\ UNCHANGED <<spc, client, recvbuf, request>>
    BY <1>7 DEF Connect
  <2>2. c \notin Waiting /\ c # client /\ request[c] = None
    BY <1>0, <2>1 DEF ClientInv
  <2>3. CASE cpc' = [cpc EXCEPT ![c] = "gone"] /\ backlog' = backlog
    <3>1. Waiting' = Waiting
      BY <2>3 DEF Waiting
    <3>2. \A d \in Clients : cpc'[d] = cpc[d] \/ cpc'[d] = "gone"
      BY <1>0, <2>3
    <3> QED
      BY <1>0, <2>1, <2>3, <3>1, <3>2 DEF ClientInv
  <2>4. CASE cpc' = [cpc EXCEPT ![c] = "connected"] /\ backlog' = Append(backlog, c)
    <3>1. /\ \A i, j \in 1 .. Len(backlog') : backlog'[i] = backlog'[j] => i = j
          /\ Waiting' = Waiting \cup {c}
      BY <1>0, <2>2, <2>4, BacklogGrows
    <3>2. \A d \in Clients : d # c => cpc'[d] = cpc[d]
      BY <1>0, <2>4
    <3>3. cpc'[c] = "connected"
      BY <1>0, <2>4
    <3>4. \A d \in Clients : cpc'[d] = "idle" => d \notin Waiting' /\ d # client /\ request[d] = None
      BY <1>0, <3>1, <3>2, <3>3 DEF ClientInv
    <3>5. \A d \in Clients : cpc'[d] = "connected" =>
              request[d] = None /\ (d \in Waiting' \/ (d = client /\ spc = "read"))
      BY <1>0, <2>2, <3>1, <3>2 DEF ClientInv
    <3>6. client \notin Waiting'
      BY <1>0, <2>2, <3>1 DEF ClientInv
    <3> QED
      BY <1>0, <2>1, <3>1, <3>4, <3>5, <3>6 DEF ClientInv
  <2> QED
    BY <1>7, <2>3, <2>4 DEF Connect
<1>8. ASSUME NEW c \in Clients, Send(c) PROVE ClientInv'
  <2>1. /\ cpc[c] = "connected" /\ UNCHANGED <<spc, client, recvbuf, backlog>>
        /\ cpc' = [cpc EXCEPT ![c] = "waiting"]
        /\ \E r \in Requests : request' = [request EXCEPT ![c] = r]
    BY <1>8 DEF Send
  <2>2. Waiting' = Waiting
    BY <2>1 DEF Waiting
  <2>3. cpc'[c] = "waiting" /\ \A d \in Clients : d # c => cpc'[d] = cpc[d] /\ request'[d] = request[d]
    BY <1>0, <2>1
  <2>4. spc \in {"walk", "reply"} => client # c
    BY <1>0, <2>1 DEF ClientInv
  <2>5. spc \in {"walk", "reply"} => client \in Clients /\ request'[client] = request[client]
    BY <1>0, <2>3, <2>4 DEF ClientInv
  <2> QED
    BY <1>0, <2>1, <2>2, <2>3, <2>5 DEF ClientInv
<1>9. ASSUME NEW c \in Clients, Killed(c) PROVE ClientInv'
  <2>1. /\ UNCHANGED <<spc, client, recvbuf, backlog, request>>
        /\ cpc' = [cpc EXCEPT ![c] = "gone"]
    BY <1>9 DEF Killed
  <2>2. Waiting' = Waiting
    BY <2>1 DEF Waiting
  <2>3. \A d \in Clients : cpc'[d] = cpc[d] \/ cpc'[d] = "gone"
    BY <1>0, <2>1
  <2> QED
    BY <1>0, <2>1, <2>2, <2>3 DEF ClientInv
<1> QED
  BY <1>2, <1>3, <1>4, <1>5, <1>6, <1>7, <1>8, <1>9 DEF Next, Server

LEMMA InitInv == ASSUME ShellAssumption, Init PROVE IInv
<1>1. backlog \in Seq(Clients) /\ Len(backlog) = 0 /\ cmds \in Seq(Cmds)
  BY EmptySeq, Zenon DEF Init
<1>2. Waiting = {}
  BY <1>1 DEF Waiting
<1>3. TypeOK
  <2>1. /\ cpc \in [Clients -> ClientPlaces] /\ request \in [Clients -> Requests \cup {None}]
        /\ told \in [Clients -> Answers \cup {None}]
    BY DEF Init, ClientPlaces
  <2>2. mpc = "create" /\ spc = "none" /\ initialized \in BOOLEAN /\ dead \in BOOLEAN
    BY Zenon DEF Init
  <2>4. reg \in 0 .. 2
    BY DEF Init
  <2>3. /\ client \in Clients \cup {None} /\ recvbuf \in Requests \cup {Noise}
        /\ sendbuf \in Answers \cup {None} /\ level \in {0} \cup Levels
    BY DEF Init
  <2> QED
    BY <1>1, <2>1, <2>2, <2>3, <2>4 DEF TypeOK, Cmds, ClientPlaces
<1>4. ListInv
  BY DEF Init, ListInv, InService
<1>5. ClientInv
  BY <1>1, <1>2 DEF Init, ClientInv, ShellAssumption
<1> QED
  BY <1>3, <1>4, <1>5 DEF IInv

LEMMA NextInv ==
    ASSUME ShellAssumption, IInv, [Next]_vars
    PROVE  IInv'
<1>1. CASE Next
  BY <1>1, TypeStep, ListStep, ClientStep DEF IInv
<1>2. CASE UNCHANGED vars
  BY <1>2 DEF vars, main, list, buffers, clients, IInv, TypeOK, ListInv, ClientInv, Waiting
<1> QED
  BY <1>1, <1>2

\* IInv holds in every state.
THEOREM AlwaysInv == Spec => []IInv
<1>1. Init => IInv
  BY InitInv, ShellAssumption
<1>2. IInv /\ [Next]_vars => IInv'
  BY NextInv, ShellAssumption
<1> QED
  BY <1>1, <1>2, PTL DEF Spec

\* The list holds every command once the main thread has registered its own: the
\* server thread does not empty it afterwards, however the two threads interleave
\* and whatever wakes the main thread up.
THEOREM ShellConsistent == Spec => []ShellInv
<1>1. IInv => ShellInv
  <2> SUFFICES ASSUME TypeOK, ListInv PROVE ShellInv
    BY DEF IInv
  <2>1. ASSUME mpc = "ready" PROVE cmds = Commands
    <3>1. reg = 2 /\ spc \in InService
      BY <2>1 DEF ListInv
    <3>2. cmds = Registered(2)
      BY <3>1 DEF ListInv, InService
    <3> QED
      BY <3>2 DEF Registered
  <2> QED
    BY <2>1 DEF ShellInv, NoneLost
<1> QED
  BY <1>1, AlwaysInv, PTL
-----------------------------------------------------------------------------
(* The refinement.                                                         *)

\* Who has been executed, in terms of the places a client can be in.
LEMMA ExecutedIs ==
    ASSUME TypeOK
    PROVE  Executed = {c \in Clients : /\ request[c] # None /\ c \notin Waiting
                                       /\ ~(c = client /\ spc \in {"read", "walk"})}
BY DEF Executed, Waiting

ServiceVars == <<request, Executed, told, Serving, cmds, level>>

\* A step that changes neither the requests, the places nor the level.
LEMMA Unseen ==
    ASSUME TypeOK, TypeOK', UNCHANGED <<request, told, cmds, level, sendbuf>>,
           Waiting' = Waiting,
           \/ UNCHANGED <<client, spc>>
           \/ UNCHANGED client /\ {spc, spc'} \cap {"read", "walk", "reply"} = {}
           \/ spc = "read" /\ spc' = "walk" /\ UNCHANGED client
           \/ spc = "read" /\ spc' = "accept" /\ client \in Clients /\ request[client] = None
    PROVE  UNCHANGED ServiceVars
<1>1. Executed' = {c \in Clients : /\ request'[c] # None /\ c \notin Waiting'
                                   /\ ~(c = client' /\ spc' \in {"read", "walk"})}
  BY DEF Executed, Waiting
<1>2. Executed' = Executed
  BY <1>1, ExecutedIs
<1>3. Serving' = Serving
  BY DEF Serving
<1> QED
  BY <1>2, <1>3 DEF ServiceVars

\* Every step of the code is a step of the service, or changes nothing a client
\* of the service could know.
LEMMA StepRefines ==
    ASSUME ShellAssumption, IInv, IInv', [Next]_vars
    PROVE  [Service!Next]_(Service!vars)
<1> USE DEF main, list, buffers, clients
<1>0. /\ TypeOK /\ TypeOK' /\ ListInv /\ ClientInv /\ ClientInv'
      /\ client \in Clients \cup {None} /\ None \notin Clients
  BY DEF IInv, TypeOK, ShellAssumption
<1>1. UNCHANGED ServiceVars => UNCHANGED Service!vars
  BY DEF ServiceVars, Service!vars
<1>2. CASE \/ UNCHANGED vars \/ CreateThread \/ TestInitialized \/ SpuriousWakeUp \/ Notify
           \/ InitList
  <2>1. UNCHANGED <<request, told, cmds, level, sendbuf, backlog, client>>
    <3>1. InitList => UNCHANGED cmds
      BY <1>0 DEF InitList, ListInv
    <3> QED
      BY <1>2, <3>1 DEF vars, CreateThread, TestInitialized, SpuriousWakeUp, Notify, InitList
  <2>2. Waiting' = Waiting
    BY <2>1 DEF Waiting
  <2>3. spc' = spc \/ {spc, spc'} \cap {"read", "walk", "reply"} = {}
    <3>1. CreateThread => spc = "none"
      BY <1>0 DEF CreateThread, ListInv
    <3> QED
      BY <1>2, <3>1 DEF vars, CreateThread, TestInitialized, SpuriousWakeUp, Notify, InitList
  <2>4. UNCHANGED ServiceVars
    BY <1>0, <2>1, <2>2, <2>3, Unseen
  <2> QED
    BY <1>1, <2>4
<1>3. CASE RegShellCmd \/ Startup
  <2>1. UNCHANGED <<request, told, level, sendbuf, backlog, client>>
    BY <1>3 DEF RegShellCmd, Startup
  <2>2. spc' = spc \/ {spc, spc'} \cap {"read", "walk", "reply"} = {}
    BY <1>3 DEF RegShellCmd, Startup
  <2>3. Executed' = Executed /\ Serving' = Serving
    BY <2>1, <2>2 DEF Executed, Serving
  <2>4. \E cmd \in {"test1", "setDebugLevel", "getDebugLevel"} : cmds' = Append(cmds, cmd)
    <3>1. CASE RegShellCmd
      <4>1. reg = 0 \/ reg = 1
        BY <1>0, <3>1 DEF RegShellCmd, ListInv
      <4>2. Commands[2] = "setDebugLevel" /\ Commands[3] = "getDebugLevel"
        BY DEF Commands
      <4> QED
        BY <3>1, <4>1, <4>2 DEF RegShellCmd
    <3>2. CASE Startup
      <4>1. Commands[1] = "test1"
        BY DEF Commands
      <4> QED
        BY <3>2, <4>1 DEF Startup
    <3> QED
      BY <1>3, <3>1, <3>2
  <2>5. Service!Register
    BY <2>1, <2>3, <2>4 DEF Service!Register
  <2> QED
    BY <2>5 DEF Service!Next
<1>4. CASE Accept
  <2>1. /\ spc = "accept" /\ spc' = "read" /\ backlog # << >> /\ backlog' = Tail(backlog)
        /\ client' = Head(backlog) /\ UNCHANGED <<request, told, cmds, level, sendbuf>>
    BY <1>4 DEF Accept
  <2>2. client' \in Waiting /\ Waiting' = Waiting \ {client'}
    BY <1>0, <2>1, BacklogShrinks
  <2>3. Executed' = {c \in Clients : /\ request[c] # None /\ c \notin Waiting' /\ c # client'}
    BY <2>1 DEF Executed, Waiting
  <2>4. Executed = {c \in Clients : request[c] # None /\ c \notin Waiting}
    BY <1>0, <2>1, ExecutedIs
  <2>5. Executed' = Executed
    BY <2>2, <2>3, <2>4
  <2>6. Serving' = Serving
    BY <2>1 DEF Serving
  <2> QED
    BY <1>1, <2>1, <2>5, <2>6 DEF ServiceVars
<1>5. CASE Read
  <2>1. UNCHANGED <<request, told, cmds, level, sendbuf, backlog>> /\ spc = "read"
    BY <1>5 DEF Read
  <2>2. Waiting' = Waiting
    BY <2>1 DEF Waiting
  <2>3. client \in Clients
    BY <1>0, <2>1 DEF ClientInv
  <2>4. \/ spc' = "walk" /\ UNCHANGED client
        \/ spc' = "accept" /\ request[client] = None
    BY <1>5 DEF Read
  <2>5. UNCHANGED ServiceVars
    BY <1>0, <2>1, <2>2, <2>3, <2>4, Unseen
  <2> QED
    BY <1>1, <2>5
<1>6. CASE AnalysisCmd
  <2>1. /\ spc = "walk" /\ spc' = "reply" /\ UNCHANGED <<request, told, cmds, backlog, client>>
        /\ level' = Walk(cmds, recvbuf, sendbuf, level).level
        /\ sendbuf' = Walk(cmds, recvbuf, sendbuf, level).answer
    BY <1>6 DEF AnalysisCmd
  <2>2. client \in Clients /\ recvbuf = request[client] /\ request[client] # None /\ client \notin Waiting
    BY <1>0, <2>1 DEF ClientInv
  <2>3. Waiting' = Waiting
    BY <2>1 DEF Waiting
  <2>4. client \notin Executed /\ Executed' = Executed \cup {client}
    <3>1. Executed' = {c \in Clients : request[c] # None /\ c \notin Waiting}
      BY <2>1 DEF Executed, Waiting
    <3> QED
      BY <1>0, <2>1, <2>2, <3>1, ExecutedIs
  <2>5. Serving = Service!Idle /\ Serving' = [client |-> client, answer |-> sendbuf']
    BY <2>1 DEF Serving, Service!Idle
  <2>6. level' = WalkEffect(cmds, request[client], level)
    BY <2>1, <2>2, WalkAgrees
  <2>7. sendbuf' \in IF WalkResult(cmds, request[client], level) = None THEN Answers \cup {None}
                     ELSE {WalkResult(cmds, request[client], level)}
    <3>1. sendbuf' \in Answers \cup {None}
      BY <1>0 DEF TypeOK
    <3>2. WalkResult(cmds, request[client], level) # None
             => sendbuf' = WalkResult(cmds, request[client], level)
      BY <2>1, <2>2, WalkAgrees
    <3> QED
      BY <3>1, <3>2
  <2>8. Service!Execute(client)
    BY <2>1, <2>2, <2>4, <2>5, <2>6, <2>7 DEF Service!Execute
  <2> QED
    BY <2>2, <2>8 DEF Service!Next
<1>7. CASE Reply
  <2>1. /\ spc = "reply" /\ spc' = "accept" /\ client' = None
        /\ UNCHANGED <<request, cmds, level, sendbuf, backlog>>
        /\ told' = told \/ told' = [told EXCEPT ![client] = sendbuf]
    BY <1>7 DEF Reply
  <2>2. client # None
    BY <1>0, <2>1 DEF ClientInv
  <2>3. Serving = [client |-> client, answer |-> sendbuf] /\ Serving' = Service!Idle
    BY <2>1 DEF Serving, Service!Idle
  <2>4. Serving # Service!Idle
    <3>1. Serving.client # Service!Idle.client
      BY <2>2, <2>3 DEF Service!Idle
    <3> QED
      BY <3>1
  <2>5. Executed' = Executed
    BY <2>1 DEF Executed
  <2>6. told' = [told EXCEPT ![Serving.client] = Serving.answer] \/ told' = told
    BY <2>1, <2>3
  <2>7. Service!Tell
    BY <2>1, <2>3, <2>4, <2>5, <2>6 DEF Service!Tell
  <2> QED
    BY <2>7 DEF Service!Next
<1>8. ASSUME NEW c \in Clients, Connect(c) PROVE UNCHANGED ServiceVars
  <2>1. /\ cpc[c] = "idle" /\ UNCHANGED <<request, told, cmds, level, sendbuf, client, spc>>
        /\ backlog' = backlog \/ backlog' = Append(backlog, c)
    BY <1>8 DEF Connect
  <2>2. request[c] = None /\ c \notin Waiting
    BY <1>0, <2>1 DEF ClientInv
  <2>3. Waiting' = Waiting \/ Waiting' = Waiting \cup {c}
    <3>1. backlog' = backlog => Waiting' = Waiting
      BY DEF Waiting
    <3>2. backlog' = Append(backlog, c) => Waiting' = Waiting \cup {c}
      BY <1>0, <2>2, BacklogGrows
    <3> QED
      BY <2>1, <3>1, <3>2
  <2>4. Executed' = {d \in Clients : /\ request[d] # None /\ d \notin Waiting'
                                     /\ ~(d = client /\ spc \in {"read", "walk"})}
    BY <2>1 DEF Executed, Waiting
  <2>5. Executed' = Executed
    BY <1>0, <2>2, <2>3, <2>4, ExecutedIs
  <2>6. Serving' = Serving
    BY <2>1 DEF Serving
  <2> QED
    BY <2>1, <2>5, <2>6 DEF ServiceVars
<1>9. ASSUME NEW c \in Clients, Send(c) PROVE Service!Ask(c)
  <2>1. /\ cpc[c] = "connected" /\ UNCHANGED <<told, cmds, level, sendbuf, client, spc, backlog>>
        /\ \E r \in Requests : request' = [request EXCEPT ![c] = r]
    BY <1>9 DEF Send
  <2>2. request[c] = None /\ (c \in Waiting \/ (c = client /\ spc = "read"))
    BY <1>0, <2>1 DEF ClientInv
  <2>3. \A d \in Clients : d # c => request'[d] = request[d]
    BY <2>1
  <2>4. Executed' = {d \in Clients : /\ request'[d] # None /\ d \notin Waiting
                                     /\ ~(d = client /\ spc \in {"read", "walk"})}
    BY <2>1 DEF Executed, Waiting
  <2>5. Executed' = Executed
    BY <1>0, <2>2, <2>3, <2>4, ExecutedIs
  <2>6. Serving' = Serving
    BY <2>1 DEF Serving
  <2> QED
    BY <2>1, <2>2, <2>5, <2>6 DEF Service!Ask
<1>10. ASSUME NEW c \in Clients, Killed(c) PROVE UNCHANGED ServiceVars
  <2>1. UNCHANGED <<request, told, cmds, level, sendbuf, client, spc, backlog>>
    BY <1>10 DEF Killed
  <2>2. Waiting' = Waiting
    BY <2>1 DEF Waiting
  <2> QED
    BY <1>0, <2>1, <2>2, Unseen
<1> QED
  BY <1>1, <1>2, <1>3, <1>4, <1>5, <1>6, <1>7, <1>8, <1>9, <1>10
     DEF Next, Main, Server, Service!Next

\* The shell server keeps its promise to any number of clients: the requests are
\* executed one after the other, each once and against the commands registered
\* then, and the answer goes to the client that asked.
THEOREM ShellImplementsService == Spec => ImplementsCommandService
<1>1. Init => Service!Init
  <2> SUFFICES ASSUME Init PROVE Service!Init
    OBVIOUS
  <2>1. Executed = {}
    BY DEF Init, Executed
  <2>2. Serving = Service!Idle
    BY DEF Init, Serving, Service!Idle
  <2> QED
    BY <2>1, <2>2 DEF Init, Service!Init
<1>2. IInv /\ IInv' /\ [Next]_vars => [Service!Next]_(Service!vars)
  BY StepRefines, ShellAssumption
<1> QED
  BY <1>1, <1>2, AlwaysInv, PTL DEF Spec, ImplementsCommandService, Service!Spec
-----------------------------------------------------------------------------
(* The daemon.                                                             *)

\* The types of DaemonTask's variables, with what the counter is where.
CountInv == dpc # "pause" => restartCount <= RestartLimit

DaemonTypeInv == DaemonTypeOK /\ CountInv

LEMMA InitType == DaemonInit => DaemonTypeInv
  BY DaemonAssumption DEF DaemonInit, DaemonTypeInv, DaemonTypeOK, CountInv, Long

\* Every step keeps the types.
LEMMA NextType == DaemonTypeInv /\ [DaemonNext]_daemonVars => DaemonTypeInv'
<1> SUFFICES ASSUME DaemonTypeInv, [DaemonNext]_daemonVars PROVE DaemonTypeInv'
  OBVIOUS
<1> USE DaemonAssumption DEF DaemonTypeInv, DaemonTypeOK, CountInv
<1>1. CASE ReadPidFile
  BY <1>1 DEF ReadPidFile, files, time
<1>2. CASE TestProcess
  BY <1>2 DEF TestProcess, files, time
<1>3. CASE LimitRate
  BY <1>3 DEF LimitRate, files, Long
<1>4. CASE Pause
  BY <1>4 DEF Pause, files, Long
<1>5. CASE SpawnFails
  BY <1>5 DEF SpawnFails, files, time
<1>6. CASE Sleep
  BY <1>6 DEF Sleep, files, Elapsed, Long
<1>7. ASSUME NEW p \in Pids, Spawn(p) PROVE DaemonTypeInv'
  BY <1>7 DEF Spawn, Long
<1>8. ASSUME NEW p \in Pids,
             GatewayStep(p) \/ Die(p) \/ StrangerStarts(p) \/ StrangerEnds(p)
      PROVE  DaemonTypeInv'
  BY <1>8 DEF GatewayStep, OpenPidFile, WritePid, Die, StrangerStarts, StrangerEnds,
              daemon, time
<1>9. CASE UNCHANGED daemonVars
  BY <1>9 DEF daemonVars, files, daemon, time
<1> QED
  BY <1>1, <1>2, <1>3, <1>4, <1>5, <1>6, <1>7, <1>8, <1>9 DEF DaemonNext, DaemonStep

\* Every variable keeps its type, for any numbers and any limit on restarts.
THEOREM DaemonTypeCorrect == DaemonSpec => []DaemonTypeOK
<1>1. DaemonTypeInv => DaemonTypeOK
  BY DEF DaemonTypeInv
<1> QED
  BY InitType, NextType, <1>1, PTL DEF DaemonSpec
-----------------------------------------------------------------------------
(* The limit on restarts.                                                  *)

\* While a start would still count as fast, the counter lags the starts in a row
\* by two at most: by one, and by one more for the start after a pause, which
\* is the only time at which last_time is older than the last start.
BurstInv ==
    /\ BurstBound
    /\ dpc \in {"read", "kill", "limit", "sleep"} /\ quiet < Long =>
          burst <= restartCount + 2 /\ (since <= quiet \/ burst <= 1)
    /\ dpc = "spawn" /\ quiet < Long => burst <= restartCount + 1 /\ since = 0

LEMMA InitBurst == DaemonInit => BurstInv
  BY DaemonAssumption DEF DaemonInit, BurstInv, BurstBound, Long

LEMMA NextBurst == DaemonTypeInv /\ BurstInv /\ [DaemonNext]_daemonVars => BurstInv'
<1> SUFFICES ASSUME DaemonTypeInv, BurstInv, [DaemonNext]_daemonVars PROVE BurstInv'
  OBVIOUS
<1> USE DaemonAssumption DEF DaemonTypeInv, DaemonTypeOK, CountInv, BurstInv, BurstBound, Long
<1>1. CASE ReadPidFile
  BY <1>1 DEF ReadPidFile, time
<1>2. CASE TestProcess
  BY <1>2 DEF TestProcess, time
<1>3. CASE LimitRate
  BY <1>3 DEF LimitRate
<1>4. CASE Pause
  BY <1>4 DEF Pause
<1>5. CASE SpawnFails
  BY <1>5 DEF SpawnFails, time
<1>6. CASE Sleep
  BY <1>6 DEF Sleep, Elapsed
<1>7. ASSUME NEW p \in Pids, Spawn(p) PROVE BurstInv'
  BY <1>7 DEF Spawn
<1>8. ASSUME NEW p \in Pids,
             GatewayStep(p) \/ Die(p) \/ StrangerStarts(p) \/ StrangerEnds(p)
      PROVE  BurstInv'
  BY <1>8 DEF GatewayStep, OpenPidFile, WritePid, Die, StrangerStarts, StrangerEnds,
              daemon, time
<1>9. CASE UNCHANGED daemonVars
  BY <1>9 DEF daemonVars, files, daemon, time
<1> QED
  BY <1>1, <1>2, <1>3, <1>4, <1>5, <1>6, <1>7, <1>8, <1>9 DEF DaemonNext, DaemonStep

\* A gateway that keeps dying is started at most RestartLimit + 2 times in a row
\* less than five seconds apart, whatever the processes do and posix_spawn returns.
THEOREM RestartsAreLimited == DaemonSpec => []BurstBound
<1>1. BurstInv => BurstBound
  BY DEF BurstInv
<1> QED
  BY InitType, NextType, InitBurst, NextBurst, <1>1, PTL DEF DaemonSpec
-----------------------------------------------------------------------------
(* One gateway.                                                            *)

\* The file names the gateway that is up, so that the daemon finds it; between
\* its sleep and the next start none is starting.
FileInv ==
    /\ OneGateway
    /\ dpc # "sleep" => Starting = {}
    /\ \A p \in Pids : procs[p] = "up" =>
          /\ pidFile = p
          /\ dpc = "kill" => pid = p
          /\ dpc \notin {"limit", "pause", "spawn"}

LEMMA InitFile == DaemonInit => FileInv
  BY DEF DaemonInit, FileInv, OneGateway, Gateways, Starting

LEMMA NextFile ==
    ASSUME StartsInTime
    PROVE  DaemonTypeInv /\ FileInv /\ [DaemonNext]_daemonVars => FileInv'
<1> SUFFICES ASSUME DaemonTypeInv, FileInv, [DaemonNext]_daemonVars PROVE FileInv'
  OBVIOUS
<1> USE DaemonAssumption DEF DaemonTypeInv, DaemonTypeOK, FileInv, OneGateway, Gateways, Starting
<1>1. CASE ReadPidFile
  BY <1>1 DEF ReadPidFile, files
<1>2. CASE TestProcess
  BY <1>2 DEF TestProcess, files, Free
<1>3. CASE LimitRate
  BY <1>3 DEF LimitRate, files
<1>4. CASE Pause
  BY <1>4 DEF Pause, files
<1>5. CASE SpawnFails
  BY <1>5 DEF SpawnFails, files
<1>6. CASE Sleep
  BY <1>6, StartsInTime DEF Sleep, files
<1>7. ASSUME NEW p \in Pids, Spawn(p) PROVE FileInv'
  BY <1>7 DEF Spawn, Free
<1>8. ASSUME NEW p \in Pids, OpenPidFile(p) PROVE FileInv'
  BY <1>8 DEF OpenPidFile, daemon
<1>9. ASSUME NEW p \in Pids, WritePid(p) PROVE FileInv'
  BY <1>9 DEF WritePid, daemon
<1>10. ASSUME NEW p \in Pids, Die(p) \/ StrangerStarts(p) \/ StrangerEnds(p)
       PROVE  FileInv'
  BY <1>10 DEF Die, StrangerStarts, StrangerEnds, Free, daemon
<1>11. CASE UNCHANGED daemonVars
  BY <1>11 DEF daemonVars, files, daemon
<1> QED
  BY <1>1, <1>2, <1>3, <1>4, <1>5, <1>6, <1>7, <1>8, <1>9, <1>10, <1>11
     DEF DaemonNext, DaemonStep, GatewayStep

\* If every gateway has written its number, or is dead, when the daemon looks
\* again, then there is never more than one gateway, whatever numbers the kernel
\* gives out, whenever processes die, and with an arbitrary answer of kill for
\* an uninitialised number.
THEOREM AtMostOneGateway ==
    ASSUME StartsInTime
    PROVE  DaemonSpec => []OneGateway
<1>1. FileInv => OneGateway
  BY DEF FileInv
<1>2. DaemonTypeInv /\ FileInv /\ [DaemonNext]_daemonVars => FileInv'
  BY NextFile, StartsInTime
<1> QED
  BY InitType, NextType, InitFile, <1>2, <1>1, PTL DEF DaemonSpec
=============================================================================
