----------------------------- MODULE OrderedSet -----------------------------
(***************************************************************************)
(* What the red-black tree promises: a set of keys without duplicates.     *)
(***************************************************************************)
CONSTANT Keys

VARIABLE set

Init == set = {}

Insert(key) == key \notin set /\ set' = set \cup {key}

Delete(key) == key \in set /\ set' = set \ {key}

Clear == set' = {}

Next == Clear \/ \E key \in Keys : Insert(key) \/ Delete(key)

Spec == Init /\ [][Next]_set
=============================================================================
