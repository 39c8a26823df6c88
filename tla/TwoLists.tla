------------------------------ MODULE TwoLists ------------------------------
(***************************************************************************)
(* What list.c promises of its lists: each is a sequence of nodes, no node *)
(* is in two places, and only the nodes a call is to free are freed.       *)
(***************************************************************************)
EXTENDS Integers, Sequences, SequencesExt

CONSTANTS Nodes, Lists

VARIABLES lists, allocated

vars == <<lists, allocated>>

Init ==
    /\ lists = [l \in Lists |-> << >>]
    /\ allocated = {}

New(x) == x \in Nodes \ allocated /\ allocated' = allocated \cup {x}

AddTail(l, x) == New(x) /\ lists' = [lists EXCEPT ![l] = Append(@, x)]

AddHead(l, x) == New(x) /\ lists' = [lists EXCEPT ![l] = <<x>> \o @]

Del(l, k) ==
    /\ k \in DOMAIN lists[l]
    /\ lists' = [lists EXCEPT ![l] = RemoveAt(@, k)]
    /\ allocated' = allocated \ {lists[l][k]}

Free(l) ==
    /\ lists' = [lists EXCEPT ![l] = << >>]
    /\ allocated' = allocated \ ToSet(lists[l])

\* A stretch of the second list is appended to the first; the rest is freed.
Merge(l, m, from, to) ==
    /\ l # m
    /\ LET part == SubSeq(lists[m], from, to)
       IN /\ lists' = [lists EXCEPT ![l] = @ \o part, ![m] = << >>]
          /\ allocated' = allocated \ (ToSet(lists[m]) \ ToSet(part))

Next ==
    \E l \in Lists :
        \/ \E x \in Nodes : AddTail(l, x) \/ AddHead(l, x)
        \/ \E k \in 1 .. Len(lists[l]) : Del(l, k)
        \/ Free(l)
        \/ \E m \in Lists : \E from, to \in 1 .. Len(lists[m]) : Merge(l, m, from, to)

Spec == Init /\ [][Next]_vars
=============================================================================
