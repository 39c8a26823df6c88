----------------------------- MODULE LinkedList -----------------------------
(***************************************************************************)
(* The doubly linked list of the C library, frameWork/list/list.c, which   *)
(* the shell server and the log manager keep their nodes in.  A node is    *)
(* its address; malloc gives any free one; a freed node keeps its links.   *)
(***************************************************************************)
EXTENDS Integers, Sequences, FiniteSets

CONSTANTS
    Nodes,          \* addresses, numbers other than 0
    Lists

VARIABLES
    head, tail, count,      \* of each list
    next, prev,             \* of each node
    allocated

ends  == <<head, tail, count>>
links == <<next, prev>>
vars  == <<ends, links, allocated>>

NULL == 0

Init ==
    /\ head = [l \in Lists |-> NULL]
    /\ tail = [l \in Lists |-> NULL]
    /\ count = [l \in Lists |-> 0]
    /\ next = [x \in Nodes |-> NULL]
    /\ prev = [x \in Nodes |-> NULL]
    /\ allocated = {}

\* lstNext and lstPrev, k times from x.
After(x, k)  == LET f[m \in 0 .. k] == IF m = 0 THEN x ELSE next[f[m - 1]] IN f[k]
Before(x, k) == LET f[m \in 0 .. k] == IF m = 0 THEN x ELSE prev[f[m - 1]] IN f[k]

\* lstDth: from the nearer end.
Nth(l, k) == IF k <= count[l] \div 2 THEN After(head[l], k - 1)
                                     ELSE Before(tail[l], count[l] - k)

Malloc(x) == x \in Nodes \ allocated /\ allocated' = allocated \cup {x}

AddTail(l, x) ==
    /\ Malloc(x)
    /\ head' = [head EXCEPT ![l] = IF tail[l] = NULL THEN x ELSE @]
    /\ tail' = [tail EXCEPT ![l] = x]
    /\ count' = [count EXCEPT ![l] = @ + 1]
    /\ next' = [y \in Nodes |-> IF y = x THEN NULL
                                ELSE IF y = tail[l] THEN x ELSE next[y]]
    /\ prev' = [prev EXCEPT ![x] = tail[l]]

AddHead(l, x) ==
    /\ Malloc(x)
    /\ head' = [head EXCEPT ![l] = x]
    /\ tail' = [tail EXCEPT ![l] = IF head[l] = NULL THEN x ELSE @]
    /\ count' = [count EXCEPT ![l] = @ + 1]
    /\ next' = [next EXCEPT ![x] = head[l]]
    /\ prev' = [y \in Nodes |-> IF y = x THEN NULL
                                ELSE IF y = head[l] THEN x ELSE prev[y]]

\* lstDel of a node of the list.  The first and the last keep their links.
Del(l, x) ==
    /\ count[l] > 0
    /\ LET only  == count[l] = 1
           first == ~only /\ head[l] = x
           last  == ~only /\ ~first /\ tail[l] = x
           inner == ~only /\ ~first /\ ~last
       IN /\ head' = [head EXCEPT ![l] = IF only THEN NULL ELSE IF first THEN next[x] ELSE @]
          /\ tail' = [tail EXCEPT ![l] = IF only THEN NULL ELSE IF last THEN prev[x] ELSE @]
          /\ next' = [y \in Nodes |->
                         IF y = prev[x] /\ (last \/ inner)
                         THEN IF last THEN NULL ELSE next[x]
                         ELSE IF y = x /\ inner THEN NULL ELSE next[y]]
          /\ prev' = [y \in Nodes |->
                         IF y = next[x] /\ (first \/ inner)
                         THEN IF first THEN NULL ELSE prev[x]
                         ELSE IF y = x /\ inner THEN NULL ELSE prev[y]]
    /\ count' = [count EXCEPT ![l] = @ - 1]
    /\ allocated' = allocated \ {x}

\* lstFree: along next from the head.
Free(l) ==
    /\ allocated' = allocated \ {After(head[l], k) : k \in 0 .. count[l] - 1}
    /\ head' = [head EXCEPT ![l] = NULL]
    /\ tail' = [tail EXCEPT ![l] = NULL]
    /\ count' = [count EXCEPT ![l] = 0]
    /\ UNCHANGED links

\* The links and ends of lstMerge, for a second list from first to last with
\* m nodes.  Both lists have nodes: the code does not test it.
Join(l, l2, first, last, m) ==
    /\ next' = [next EXCEPT ![last] = NULL, ![tail[l]] = first]
    /\ prev' = [prev EXCEPT ![first] = tail[l]]
    /\ head' = [head EXCEPT ![l2] = NULL]
    /\ tail' = [tail EXCEPT ![l] = last, ![l2] = NULL]
    /\ count' = [count EXCEPT ![l] = @ + m, ![l2] = 0]

Merge(l, l2) ==
    /\ l # l2 /\ count[l] > 0 /\ count[l2] > 0
    /\ Join(l, l2, head[l2], tail[l2], count[l2])
    /\ UNCHANGED allocated

\* lstMergeN: the nodes before the start and after the end are freed, then the
\* lists are merged.  A start at a lower address than the end is refused.
MergeN(l, l2, start, end) ==
    /\ l # l2 /\ count[l] > 0 /\ count[l2] > 0
    /\ start >= end
    /\ \E j \in 0 .. count[l2] - 1 : \E k \in 0 .. count[l2] - 1 - j :
          /\ After(head[l2], j) = start /\ Before(tail[l2], k) = end
          /\ allocated' = allocated \ ({After(head[l2], a) : a \in 0 .. j - 1}
                                       \cup {Before(tail[l2], b) : b \in 0 .. k - 1})
          /\ Join(l, l2, start, end, count[l2] - j - k)

Members(l) == {After(head[l], k) : k \in 0 .. count[l] - 1}

Next ==
    \E l \in Lists :
        \/ \E x \in Nodes : AddTail(l, x) \/ AddHead(l, x)
        \/ \E x \in Members(l) : Del(l, x)
        \/ Free(l)
        \/ \E l2 \in Lists :
              \/ Merge(l, l2)
              \/ \E start, end \in Members(l2) : MergeN(l, l2, start, end)

Spec == Init /\ [][Next]_vars
-----------------------------------------------------------------------------
(* Properties.                                                             *)

\* Type correctness; list.c frees nothing that is in a list.
TypeOK ==
    /\ head \in [Lists -> Nodes \cup {NULL}] /\ tail \in [Lists -> Nodes \cup {NULL}]
    /\ count \in [Lists -> 0 .. Cardinality(Nodes)]
    /\ next \in [Nodes -> Nodes \cup {NULL}] /\ prev \in [Nodes -> Nodes \cup {NULL}]
    /\ allocated \subseteq Nodes

\* Read backwards a list is what it is forwards, from either end to NULL, and as
\* long as its count says, for lstDth starts from the nearer end (list.c:180).
BothWays ==
    \A l \in Lists :
        /\ (head[l] = NULL) = (count[l] = 0) /\ (tail[l] = NULL) = (count[l] = 0)
        /\ count[l] > 0 =>
              /\ next[tail[l]] = NULL /\ prev[head[l]] = NULL
              /\ \A k \in 1 .. count[l] :
                    /\ After(head[l], k - 1) = Before(tail[l], count[l] - k)
                    /\ Nth(l, k) \in allocated

Abstract ==
    INSTANCE TwoLists WITH
        lists <- [l \in Lists |-> [k \in 1 .. count[l] |-> Nth(l, k)]]

\* The links implement sequences: every operation does to the nodes, as lstDth
\* finds them, what it says.
ImplementsLists == Abstract!Spec
=============================================================================
