----------------------------- MODULE Dictionary -----------------------------
(***************************************************************************)
(* What the hash table promises: a map from keys to values.                *)
(***************************************************************************)
CONSTANTS Keys, Values, NoValue

VARIABLE map

Init == map = [k \in Keys |-> NoValue]

Put(k, v) == map' = [map EXCEPT ![k] = v]

Clear == map' = [k \in Keys |-> NoValue]

Next == \/ \E k \in Keys, v \in Values : Put(k, v)
        \/ Clear

Spec == Init /\ [][Next]_map
=============================================================================
