------------------------------ MODULE TaskPool ------------------------------
(***************************************************************************)
(* What a thread pool promises.  Tasks are numbered in the order they are  *)
(* submitted.  They start in that order, each once, possibly several at a  *)
(* time.  Stopping the pool discards the tasks that have not started.      *)
(***************************************************************************)
EXTENDS Integers

VARIABLES submitted, started, running, stopped

vars == <<submitted, started, running, stopped>>

Init ==
    /\ submitted = 0
    /\ started = 0
    /\ running = {}
    /\ stopped = FALSE

Submit ==
    /\ ~stopped
    /\ submitted' = submitted + 1
    /\ UNCHANGED <<started, running, stopped>>

Start ==
    /\ ~stopped
    /\ started < submitted
    /\ started' = started + 1
    /\ running' = running \cup {started + 1}
    /\ UNCHANGED <<submitted, stopped>>

Finish ==
    /\ \E t \in running : running' = running \ {t}
    /\ UNCHANGED <<submitted, started, stopped>>

Stop ==
    /\ stopped' = TRUE
    /\ UNCHANGED <<submitted, started, running>>

Next == Submit \/ Start \/ Finish \/ Stop

Spec == Init /\ [][Next]_vars

\* A pool that is not stopped starts every task and lets every task finish.
FairSpec == Spec /\ WF_vars(Start) /\ WF_vars(Finish)
=============================================================================
