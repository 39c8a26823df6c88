--------------------------- MODULE CommandService ---------------------------
(***************************************************************************)
(* What the shell server promises its clients: the commands of the clients *)
(* are executed one after the other, each once and as a whole, against the *)
(* commands registered so far, and the result goes to the client that      *)
(* asked.  Nothing is promised about the answer to a name no command has.  *)
(***************************************************************************)
EXTENDS Sequences

CONSTANTS
    Clients, Requests, Answers,
    None,                   \* no request, or no answer
    Effect(_, _, _),        \* commands, request, level -> the level after it
    Result(_, _, _),        \* ... and the answer, None if no command has the name
    FirstLevel

VARIABLES asked, executed, told, serving, known, level

vars == <<asked, executed, told, serving, known, level>>

Idle == [client |-> None, answer |-> None]

Init ==
    /\ asked = [c \in Clients |-> None]
    /\ executed = {}
    /\ told = [c \in Clients |-> None]
    /\ serving = Idle
    /\ known = << >>
    /\ level = FirstLevel

Register ==
    /\ \E cmd \in {"test1", "setDebugLevel", "getDebugLevel"} : known' = Append(known, cmd)
    /\ UNCHANGED <<asked, executed, told, serving, level>>

Ask(c) ==
    /\ asked[c] = None
    /\ \E r \in Requests : asked' = [asked EXCEPT ![c] = r]
    /\ UNCHANGED <<executed, told, serving, known, level>>

Execute(c) ==
    /\ serving = Idle
    /\ asked[c] # None /\ c \notin executed
    /\ level' = Effect(known, asked[c], level)
    /\ LET r == Result(known, asked[c], level)
       IN \E a \in IF r = None THEN Answers \cup {None} ELSE {r} :
             serving' = [client |-> c, answer |-> a]
    /\ executed' = executed \cup {c}
    /\ UNCHANGED <<asked, told, known>>

\* The answer reaches its client, or the client is gone.
Tell ==
    /\ serving # Idle
    /\ \/ told' = [told EXCEPT ![serving.client] = serving.answer]
       \/ UNCHANGED told
    /\ serving' = Idle
    /\ UNCHANGED <<asked, executed, known, level>>

Next == Register \/ Tell \/ \E c \in Clients : Ask(c) \/ Execute(c)

Spec == Init /\ [][Next]_vars
=============================================================================
