------------------------------- MODULE Timer -------------------------------
(***************************************************************************)
(* What a timer promises.  Every id has at most one expiry; a tick fires,  *)
(* one after the other, what has expired, the earliest first, and ends     *)
(* when nothing that has expired is left.                                  *)
(***************************************************************************)
EXTENDS Integers

CONSTANTS Ids, Timeouts, Never

VARIABLES expiry, now, ticking

vars == <<expiry, now, ticking>>

Armed == {id \in Ids : expiry[id] # Never}

Init ==
    /\ expiry = [id \in Ids |-> Never]
    /\ now = 0
    /\ ticking = FALSE

Set(id) ==
    /\ ~ticking
    /\ \E t \in Timeouts : expiry' = [expiry EXCEPT ![id] = now + t]
    /\ UNCHANGED <<now, ticking>>

\* The timer of id is run before its time, and removed.
Run(id) ==
    /\ ~ticking
    /\ id \in Armed
    /\ expiry' = [expiry EXCEPT ![id] = Never]
    /\ UNCHANGED <<now, ticking>>

Clear ==
    /\ ~ticking
    /\ expiry' = [id \in Ids |-> Never]
    /\ UNCHANGED <<now, ticking>>

Tick ==
    /\ ~ticking
    /\ ticking' = TRUE
    /\ UNCHANGED <<expiry, now>>

Fire(id) ==
    /\ ticking
    /\ id \in Armed /\ expiry[id] <= now
    /\ \A other \in Armed : expiry[id] <= expiry[other]
    /\ expiry' = [expiry EXCEPT ![id] = Never]
    /\ UNCHANGED <<now, ticking>>

TickEnds ==
    /\ ticking
    /\ \A id \in Armed : expiry[id] > now
    /\ ticking' = FALSE
    /\ UNCHANGED <<expiry, now>>

Advance ==
    /\ now' = now + 1
    /\ UNCHANGED <<expiry, ticking>>

Next ==
    \/ \E id \in Ids : Set(id) \/ Run(id) \/ Fire(id)
    \/ Clear \/ Tick \/ TickEnds \/ Advance

Spec == Init /\ [][Next]_vars
=============================================================================
