----------------------------- MODULE HeapTimer -----------------------------
(***************************************************************************)
(* The timer of the web server, webServer/code/timer/heaptimer.cpp: a heap *)
(* in an array, and the map ref_ from ids to positions in it.              *)
(*                                                                         *)
(* Every pass of the loops of siftup_ and siftdown_ is a step.  Positions  *)
(* count from 1 here: heap_[k] is heap[k + 1], and the parent of k is      *)
(* k \div 2.  At the root the code computes the parent (0 - 1) / 2 of an   *)
(* unsigned number and compares with what lies before the array: the loop  *)
(* ends, or the assertion of SwapNode_ ends the process.                   *)
(***************************************************************************)
EXTENDS Integers, Sequences

CONSTANTS
    Ids,            \* descriptors
    Timeouts,       \* timeouts that are asked for
    MaxTime         \* bound: the clock stops

ASSUME HeapTimerAssumption ==
    /\ Timeouts \subseteq Nat
    /\ MaxTime \in Nat

VARIABLES
    heap,           \* heap_
    ref,            \* ref_
    now,            \* Clock::now()
    pc,             \* the loop that runs
    i, n, index,    \* locals of the loops
    ticking,        \* tick() runs
    doomed,         \* the last node is being deleted
    aborted         \* an assertion has failed

locals == <<i, n, index>>
vars   == <<heap, ref, now, pc, locals, ticking, doomed, aborted>>

Node == [id : Ids, expires : Nat]

Less(j, k) == heap[j].expires < heap[k].expires

Init ==
    /\ heap = << >> /\ ref = << >>
    /\ now = 0
    /\ pc = "idle"
    /\ i = 1 /\ n = 0 /\ index = 1
    /\ ticking = FALSE /\ doomed = FALSE
    /\ aborted = FALSE

SwapNode(j, k) ==
    /\ heap' = [heap EXCEPT ![j] = heap[k], ![k] = heap[j]]
    /\ ref' = [ref EXCEPT ![heap[k].id] = j, ![heap[j].id] = k]

\* The loop to run next, on position k of the first m nodes.
Sift(loop, k, m) == pc' = loop /\ i' = k /\ n' = m /\ index' = k

\* Where siftup_ returns to.
Return == /\ pc' = IF doomed THEN "erase" ELSE "idle"
          /\ i' = 1 /\ n' = 0 /\ index' = 1
-----------------------------------------------------------------------------
AddNew(id, t) ==
    /\ pc = "idle" /\ ~ticking
    /\ id \notin DOMAIN ref
    /\ heap' = Append(heap, [id |-> id, expires |-> now + t])
    /\ ref' = [d \in DOMAIN ref \cup {id} |-> IF d = id THEN Len(heap) + 1 ELSE ref[d]]
    /\ Sift("up", Len(heap) + 1, Len(heap) + 1)
    /\ UNCHANGED <<now, ticking, doomed, aborted>>

AddAgain(id, t) ==
    /\ pc = "idle" /\ ~ticking
    /\ id \in DOMAIN ref
    /\ heap' = [heap EXCEPT ![ref[id]].expires = now + t]
    /\ Sift("down", ref[id], Len(heap))
    /\ UNCHANGED <<ref, now, ticking, doomed, aborted>>

\* adjust: siftdown_ only.  The server extends: it always gives the same
\* timeout, and time does not run backwards.
Adjust(id, t) ==
    /\ pc = "idle" /\ ~ticking
    /\ id \in DOMAIN ref
    /\ now + t >= heap[ref[id]].expires
    /\ heap' = [heap EXCEPT ![ref[id]].expires = now + t]
    /\ Sift("downOnly", ref[id], Len(heap))
    /\ UNCHANGED <<ref, now, ticking, doomed, aborted>>

\* Mutant: the node that comes from the end is only sifted up.
MutDel(k) ==
    /\ doomed' = TRUE
    /\ IF k < Len(heap)
       THEN SwapNode(k, Len(heap)) /\ Sift("up", k, Len(heap) - 1)
       ELSE pc' = "erase" /\ UNCHANGED <<heap, ref, locals>>

\* del_, up to the loops.
Del(k) ==
    /\ doomed' = TRUE
    /\ IF k < Len(heap)
       THEN SwapNode(k, Len(heap)) /\ Sift("down", k, Len(heap) - 1)
       ELSE pc' = "erase" /\ UNCHANGED <<heap, ref, locals>>

\* doWork: the callback, then del_.
DoWork(id) ==
    /\ pc = "idle" /\ ~ticking
    /\ id \in DOMAIN ref
    /\ Del(ref[id])
    /\ UNCHANGED <<now, ticking, aborted>>

Clear ==
    /\ pc = "idle" /\ ~ticking
    /\ heap' = << >> /\ ref' = << >>
    /\ UNCHANGED <<now, pc, locals, ticking, doomed, aborted>>

\* GetNextTick, which begins with tick.
Tick ==
    /\ pc = "idle" /\ ~ticking
    /\ ticking' = TRUE
    /\ UNCHANGED <<heap, ref, now, pc, locals, doomed, aborted>>

\* The callback of the first node, and pop.
Fire ==
    /\ pc = "idle" /\ ticking
    /\ heap # << >> /\ heap[1].expires <= now
    /\ Del(1)
    /\ UNCHANGED <<now, ticking, aborted>>

TickEnds ==
    /\ pc = "idle" /\ ticking
    /\ heap # << >> => heap[1].expires > now
    /\ ticking' = FALSE
    /\ UNCHANGED <<heap, ref, now, pc, locals, doomed, aborted>>
-----------------------------------------------------------------------------
(* The loops.                                                              *)

Smaller(k) == IF 2 * k + 1 <= n /\ Less(2 * k + 1, 2 * k) THEN 2 * k + 1 ELSE 2 * k

SiftDown ==
    /\ pc \in {"down", "downOnly"}
    /\ 2 * i <= n /\ ~Less(i, Smaller(i))
    /\ SwapNode(i, Smaller(i))
    /\ i' = Smaller(i)
    /\ UNCHANGED <<now, pc, n, index, ticking, doomed, aborted>>

\* siftdown_ returns whether it has moved the node; if not siftup_ follows,
\* but not in adjust.
SiftDownEnds ==
    /\ pc \in {"down", "downOnly"}
    /\ 2 * i <= n => Less(i, Smaller(i))
    /\ IF pc = "downOnly" \/ i > index
       THEN Return
       ELSE pc' = "up" /\ UNCHANGED locals
    /\ UNCHANGED <<heap, ref, now, ticking, doomed, aborted>>

SiftUp ==
    /\ pc = "up"
    /\ i > 1 /\ ~Less(i \div 2, i)
    /\ SwapNode(i, i \div 2)
    /\ i' = i \div 2
    /\ UNCHANGED <<now, pc, n, index, ticking, doomed, aborted>>

SiftUpEnds ==
    /\ pc = "up"
    /\ i > 1 /\ Less(i \div 2, i)
    /\ Return
    /\ UNCHANGED <<heap, ref, now, ticking, doomed, aborted>>

\* At the root: the node is compared with memory that is not the heap's.
SiftUpRoot ==
    /\ pc = "up"
    /\ i = 1
    /\ \/ aborted' = TRUE /\ UNCHANGED <<pc, locals>>
       \/ Return /\ UNCHANGED aborted
    /\ UNCHANGED <<heap, ref, now, ticking, doomed>>

\* The end of del_: erase and pop_back.
Erase ==
    /\ pc = "erase"
    /\ ref' = [d \in DOMAIN ref \ {heap[Len(heap)].id} |-> ref[d]]
    /\ heap' = SubSeq(heap, 1, Len(heap) - 1)
    /\ pc' = "idle" /\ doomed' = FALSE
    /\ UNCHANGED <<now, locals, ticking, aborted>>

Advance ==
    /\ pc = "idle"
    /\ now < MaxTime
    /\ now' = now + 1
    /\ UNCHANGED <<heap, ref, pc, locals, ticking, doomed, aborted>>

Next ==
    /\ ~aborted
    /\ \/ \E id \in Ids, t \in Timeouts : AddNew(id, t) \/ AddAgain(id, t) \/ Adjust(id, t)
       \/ \E id \in Ids : DoWork(id)
       \/ Clear \/ Tick \/ Fire \/ TickEnds
       \/ SiftDown \/ SiftDownEnds \/ SiftUp \/ SiftUpEnds \/ SiftUpRoot \/ Erase
       \/ Advance

Spec == Init /\ [][Next]_vars
-----------------------------------------------------------------------------
(* Properties.                                                             *)

\* Type correctness.
TypeOK ==
    /\ heap \in Seq(Node)
    /\ DOMAIN ref \subseteq Ids
    /\ \A id \in DOMAIN ref : ref[id] \in 1 .. Len(heap)
    /\ now \in Nat
    /\ pc \in {"idle", "down", "downOnly", "up", "erase"}
    /\ n \in 0 .. Len(heap)
    /\ pc \in {"down", "downOnly", "up"} => i \in 1 .. n /\ index \in 1 .. n
    /\ i \in Nat /\ index \in Nat
    /\ ticking \in BOOLEAN /\ doomed \in BOOLEAN /\ aborted \in BOOLEAN

\* ref_ gives the position of every node, and of nothing else, in the middle of
\* a sift too (heaptimer.cpp:47): add and adjust find the node they are to move.
RefExact ==
    /\ \A id \in DOMAIN ref : heap[ref[id]].id = id
    /\ \A k \in 1 .. Len(heap) : heap[k].id \in DOMAIN ref /\ ref[heap[k].id] = k

\* Between two operations no node is earlier than its parent (heaptimer.cpp:20),
\* so that front() is the earliest.
HeapOrder ==
    pc = "idle" => \A k \in 2 .. Len(heap) : heap[k \div 2].expires <= heap[k].expires

\* The nodes that stay.
Live == IF doomed THEN Len(heap) - 1 ELSE Len(heap)

Never == -1

Abstract ==
    INSTANCE Timer WITH
        expiry <- [id \in Ids |->
                      IF id \in DOMAIN ref /\ ref[id] <= Live THEN heap[ref[id]].expires
                      ELSE Never]

\* The heap implements a timer: it fires what has expired, the earliest first,
\* exactly once, and leaves nothing that has expired.
ImplementsTimer == Abstract!Spec
-----------------------------------------------------------------------------
(* Inductive strengthening of the order.                                   *)

Loops == {"down", "downOnly", "up"}

\* The loops work on the nodes that stay, and only del_ leaves one behind them.
LoopInv ==
    /\ IF pc \in Loops THEN n = Live ELSE n = 0
    /\ pc = "erase" => doomed
    /\ doomed => pc \in {"down", "up", "erase"} /\ heap # << >>

\* Node k is not earlier than its parent, or than its parent's parent.
Later(k) == heap[k \div 2].expires <= heap[k].expires
Past(k)  == heap[(k \div 2) \div 2].expires <= heap[k].expires

\* The order, but for the node a loop moves: on its way down it may be later than its
\* children, and before its first step earlier than its parent; on its way up it may
\* be earlier than its parent.  Its children and its parent are in order.
SiftInv ==
    /\ pc \in {"idle", "erase"} => \A k \in 2 .. Live : Later(k)
    /\ pc \in {"down", "downOnly"} =>
          \A k \in 2 .. n :
             k \div 2 # i /\ (k = i => i > index \/ pc = "downOnly") => Later(k)
    /\ pc = "up" => \A k \in 2 .. n : k # i => Later(k)
    /\ pc \in Loops /\ i > 1 => \A k \in 2 .. n : k \div 2 = i => Past(k)

HeapInv == TypeOK /\ RefExact /\ LoopInv /\ SiftInv
=============================================================================
