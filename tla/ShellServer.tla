---------------------------- MODULE ShellServer ----------------------------
(***************************************************************************)
(* The command shell of the gateway: shell/shellserver.c, the commands of  *)
(* demo/demo.c and their clients, shell/shelltools.c.                      *)
(*                                                                         *)
(* The main thread starts the server thread, waits until it is initialised *)
(* and registers two commands.  The server thread serves one client after  *)
(* the other: it reads a request, calls every command whose name begins    *)
(* with the name in it, and writes the send buffer to the client.  The     *)
(* list of commands is changed and walked under its mutex, so that each is *)
(* one step here.                                                          *)
(***************************************************************************)
EXTENDS Integers, Sequences

CONSTANTS
    Clients,    \* runs of shelltools
    Names,      \* the names clients give, a subset of Typed
    Levels,     \* the valid levels clients give, a subset of 0 .. 5
    None        \* no client, no request, no answer

Commands == <<"test1", "setDebugLevel", "getDebugLevel">>

\* strncmp over the length of the given name: the commands that begin with it.
Typed == {"setDebugLevel", "getDebugLevel", "test1", "", "other"}
Begins(cmd, name) == name = "" \/ name = cmd

ASSUME ShellAssumption ==
    /\ None \notin Clients
    /\ Names \subseteq Typed
    /\ Levels \subseteq 0 .. 5

\* The argument of a request: none, no number, a level, or a number beyond.
NoArg == -1
Word == -2
TooBig == 6
Requests == [name : Names, arg : {NoArg, Word, TooBig} \cup Levels]
Noise == [name |-> "other", arg |-> NoArg]

VARIABLES
    mpc, reg,       \* the main thread, and the commands it has registered
    spc,            \* the server thread
    initialized,    \* thread_initialized
    cmds,           \* gs_cmd_list.list
    backlog,        \* connections to be accepted
    client,         \* the client of client_sock
    recvbuf,        \* the request read last
    sendbuf,        \* what the command called last has written
    level,          \* the level of the log
    cpc,            \* the clients
    request,        \* what a client has sent
    told,           \* what a client has received
    dead            \* the process has died of SIGPIPE

main    == <<mpc, reg>>
list    == <<initialized, cmds>>
buffers == <<recvbuf, sendbuf, level>>
clients == <<cpc, request, told>>
vars    == <<main, spc, list, backlog, client, buffers, clients, dead>>

Answers == [cmd : {"test1", "setDebugLevel", "getDebugLevel"},
            level : {0} \cup Levels, ok : BOOLEAN]

Init ==
    /\ mpc = "create" /\ reg = 0
    /\ spc = "none"
    /\ initialized = FALSE /\ cmds = << >>
    /\ backlog = << >> /\ client = None
    /\ recvbuf = Noise /\ sendbuf = None /\ level = 0
    /\ cpc = [c \in Clients |-> "idle"]
    /\ request = [c \in Clients |-> None]
    /\ told = [c \in Clients |-> None]
    /\ dead = FALSE
-----------------------------------------------------------------------------
(* The main thread: startShellServerTask and reg_shellcmd_init.            *)

\* pthread_create; its failure is printed only.
CreateThread ==
    /\ mpc = "create"
    /\ mpc' = "wait"
    /\ spc' \in {"init", "none"}
    /\ UNCHANGED <<reg, list, backlog, client, buffers, clients, dead>>

\* Mutant: the condition is tested once, before the wait (if for while).
MutTestInitialized ==
    /\ mpc \in {"wait", "woken"}
    /\ mpc' = IF initialized \/ mpc = "woken" THEN "register" ELSE "asleep"
    /\ UNCHANGED <<reg, spc, list, backlog, client, buffers, clients, dead>>

\* The loop around pthread_cond_wait.
TestInitialized ==
    /\ mpc \in {"wait", "woken"}
    /\ mpc' = IF initialized THEN "register" ELSE "asleep"
    /\ UNCHANGED <<reg, spc, list, backlog, client, buffers, clients, dead>>

SpuriousWakeUp ==
    /\ mpc = "asleep"
    /\ mpc' = "woken"
    /\ UNCHANGED <<reg, spc, list, backlog, client, buffers, clients, dead>>

\* regShellCmd of the next command.
RegShellCmd ==
    /\ mpc = "register"
    /\ cmds' = Append(cmds, Commands[reg + 2])
    /\ reg' = reg + 1
    /\ mpc' = IF reg' = 2 THEN "ready" ELSE "register"
    /\ UNCHANGED <<spc, initialized, backlog, client, buffers, clients, dead>>

Main == CreateThread \/ TestInitialized \/ RegShellCmd
-----------------------------------------------------------------------------
(* The server thread, shellServerTask.                                     *)

InitList ==
    /\ spc = "init"
    /\ cmds' = << >>
    /\ spc' = "listen"
    /\ UNCHANGED <<main, initialized, backlog, client, buffers, clients, dead>>

\* startup(), and the command for tests.
Startup ==
    /\ spc = "listen"
    /\ cmds' = Append(cmds, Commands[1])
    /\ spc' = "notify"
    /\ UNCHANGED <<main, initialized, backlog, client, buffers, clients, dead>>

\* Mutant: the flag is not set.
MutNotify ==
    /\ spc = "notify"
    /\ mpc' = IF mpc = "asleep" THEN "woken" ELSE mpc
    /\ spc' = "accept"
    /\ UNCHANGED <<reg, list, backlog, client, buffers, clients, dead>>

Notify ==
    /\ spc = "notify"
    /\ initialized' = TRUE
    /\ mpc' = IF mpc = "asleep" THEN "woken" ELSE mpc
    /\ spc' = "accept"
    /\ UNCHANGED <<reg, cmds, backlog, client, buffers, clients, dead>>

Accept ==
    /\ spc = "accept"
    /\ backlog # << >>
    /\ client' = Head(backlog)
    /\ backlog' = Tail(backlog)
    /\ spc' = "read"
    /\ UNCHANGED <<main, list, buffers, clients, dead>>

Closed(c) == cpc[c] = "gone" /\ request[c] = None

\* Mutant: the thread ends when a client has sent nothing.
MutRead ==
    /\ spc = "read"
    /\ request[client] # None \/ Closed(client)
    /\ IF request[client] = None
       THEN spc' = "none" /\ client' = None /\ UNCHANGED recvbuf
       ELSE spc' = "walk" /\ recvbuf' = request[client] /\ UNCHANGED client
    /\ UNCHANGED <<main, list, backlog, sendbuf, level, clients, dead>>

\* read: it waits for the client, and returns 0 if that closes first.
Read ==
    /\ spc = "read"
    /\ request[client] # None \/ Closed(client)
    /\ IF request[client] = None
       THEN spc' = "accept" /\ client' = None /\ UNCHANGED recvbuf
       ELSE spc' = "walk" /\ recvbuf' = request[client] /\ UNCHANGED client
    /\ UNCHANGED <<main, list, backlog, sendbuf, level, clients, dead>>

\* setDebugLevel; sscanf leaves the 0 it was given when there is no number.
NewLevel(arg, l) ==
    IF arg \in {NoArg, TooBig} THEN l ELSE IF arg = Word THEN 0 ELSE arg

\* What a command leaves in the send buffer; l is the level after it.
Call(cmd, arg, l) == [cmd |-> cmd,
                      level |-> IF cmd = "test1" THEN 0 ELSE l,
                      ok |-> ~(cmd = "setDebugLevel" /\ arg = TooBig)]

\* analysis_cmd calls every command that begins with the name.  Each writes from
\* the start of the send buffer, which nobody clears, so that the answer of the
\* last remains; to set the level again sets nothing else.
Walk(known, r, buf, l) ==
    LET called == {i \in DOMAIN known : Begins(known[i], r.name)}
        last == CHOOSE i \in called : \A j \in called : j <= i
        new == IF \E i \in called : known[i] = "setDebugLevel" THEN NewLevel(r.arg, l) ELSE l
    IN [level |-> new, answer |-> IF called = {} THEN buf ELSE Call(known[last], r.arg, new)]

\* Mutant: only the first match is called.
MutAnalysisCmd ==
    /\ spc = "walk"
    /\ LET matching == SelectSeq(cmds, LAMBDA cmd : Begins(cmd, recvbuf.name))
           w == Walk(IF matching = << >> THEN << >> ELSE <<Head(matching)>>,
                     recvbuf, sendbuf, level)
       IN level' = w.level /\ sendbuf' = w.answer
    /\ spc' = "reply"
    /\ UNCHANGED <<main, list, backlog, client, recvbuf, clients, dead>>

AnalysisCmd ==
    /\ spc = "walk"
    /\ LET w == Walk(cmds, recvbuf, sendbuf, level)
       IN level' = w.level /\ sendbuf' = w.answer
    /\ spc' = "reply"
    /\ UNCHANGED <<main, list, backlog, client, recvbuf, clients, dead>>

\* write and close: SIGPIPE if the client has closed and there is something to
\* write.
Reply ==
    /\ spc = "reply"
    /\ IF cpc[client] = "gone"
       THEN /\ dead' = (sendbuf # None)
            /\ UNCHANGED <<cpc, told>>
       ELSE /\ told' = [told EXCEPT ![client] = sendbuf]
            /\ cpc' = [cpc EXCEPT ![client] = "told"]
            /\ UNCHANGED dead
    /\ client' = None
    /\ spc' = "accept"
    /\ UNCHANGED <<main, list, backlog, buffers, request>>

Server == InitList \/ Startup \/ Notify \/ Accept \/ Read \/ AnalysisCmd \/ Reply
-----------------------------------------------------------------------------
(* The clients.                                                            *)

\* connect() fails before the server listens, and the client exits.
Connect(c) ==
    /\ cpc[c] = "idle"
    /\ IF spc \in {"none", "init", "listen"}
       THEN cpc' = [cpc EXCEPT ![c] = "gone"] /\ UNCHANGED backlog
       ELSE cpc' = [cpc EXCEPT ![c] = "connected"] /\ backlog' = Append(backlog, c)
    /\ UNCHANGED <<main, spc, list, client, buffers, request, told, dead>>

Send(c) ==
    /\ cpc[c] = "connected"
    /\ \E r \in Requests : request' = [request EXCEPT ![c] = r]
    /\ cpc' = [cpc EXCEPT ![c] = "waiting"]
    /\ UNCHANGED <<main, spc, list, backlog, client, buffers, told, dead>>

\* The client is killed.
Killed(c) ==
    /\ cpc[c] \in {"connected", "waiting"}
    /\ cpc' = [cpc EXCEPT ![c] = "gone"]
    /\ UNCHANGED <<main, spc, list, backlog, client, buffers, request, told, dead>>

Next ==
    /\ ~dead
    /\ \/ Main \/ SpuriousWakeUp \/ Server
       \/ \E c \in Clients : Connect(c) \/ Send(c) \/ Killed(c)

Spec == Init /\ [][Next]_vars

\* The threads run, and a client that has connected sends its request.
Fairness ==
    /\ WF_vars(~dead /\ Main)
    /\ WF_vars(~dead /\ Server)
    /\ \A c \in Clients : WF_vars(~dead /\ Send(c))

FairSpec == Spec /\ Fairness
-----------------------------------------------------------------------------
(* Properties.                                                             *)

\* Type correctness.
TypeOK ==
    /\ mpc \in {"create", "wait", "asleep", "woken", "register", "ready"}
    /\ reg \in 0 .. 2
    /\ spc \in {"none", "init", "listen", "notify", "accept", "read", "walk", "reply"}
    /\ initialized \in BOOLEAN
    /\ cmds \in Seq({"test1", "setDebugLevel", "getDebugLevel"})
    /\ backlog \in Seq(Clients)
    /\ client \in Clients \cup {None}
    /\ recvbuf \in Requests \cup {Noise}
    /\ sendbuf \in Answers \cup {None}
    /\ level \in {0} \cup Levels
    /\ cpc \in [Clients -> {"idle", "connected", "waiting", "told", "gone"}]
    /\ request \in [Clients -> Requests \cup {None}]
    /\ told \in [Clients -> Answers \cup {None}]
    /\ dead \in BOOLEAN

\* Once the main thread has registered its commands the list has all three: the
\* initialisation of the list, in the other thread, has not dropped one
\* (comment, shellserver.c:218).
NoneLost == mpc = "ready" => cmds = Commands

\* What the handshake and the list keep: the types, and every command.
ShellInv == TypeOK /\ NoneLost

\* If the thread was created the main thread goes on: it is not left in
\* pthread_cond_wait (shellserver.c:222).
MainGetsReady == spc # "none" ~> (mpc = "ready" \/ dead)

\* A client that is connected is answered, whatever the clients before it do,
\* unless it or the gateway is killed.
ClientServed ==
    \A c \in Clients : cpc[c] = "connected" ~> (cpc[c] \in {"told", "gone"} \/ dead)

WalkEffect(known, r, l) == Walk(known, r, None, l).level
WalkResult(known, r, l) == Walk(known, r, None, l).answer

\* The clients whose request has been executed, and the answer under way.
Executed == {c \in Clients : /\ request[c] # None
                             /\ \A i \in 1 .. Len(backlog) : backlog[i] # c
                             /\ ~(client = c /\ spc \in {"read", "walk"})}
Serving == IF spc = "reply" THEN [client |-> client, answer |-> sendbuf]
                            ELSE [client |-> None, answer |-> None]

Service == INSTANCE CommandService WITH
    asked <- request, executed <- Executed, serving <- Serving, known <- cmds,
    Effect <- WalkEffect, Result <- WalkResult, FirstLevel <- 0

\* Commands are executed one after the other, each once and against the
\* commands registered then, and the result goes to the client that asked.
ImplementsCommandService == Service!Spec
=============================================================================
