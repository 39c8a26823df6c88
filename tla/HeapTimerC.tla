----------------------------- MODULE HeapTimerC -----------------------------
(***************************************************************************)
(* The timer of the C library, frameWork/timer/heapTimer.c, a translation  *)
(* of the web server's.  gs_ref is an array, in which 0 stands both for an *)
(* id that is absent and for the one at index 0, and no deletion clears    *)
(* the entry of the id it deletes.  So it may tell an operation something  *)
(* untrue; sound is FALSE from the first operation that was told so, or    *)
(* touched memory that is not the heap's, and there the model ends.        *)
(*                                                                         *)
(* An operation is a step; but a tick is a step for every node it fires.   *)
(* size_t has 64 bits: the parent of index 0 is then -1, and the loop of   *)
(* heapSiftUp ends there.                                                  *)
(***************************************************************************)
EXTENDS Integers

CONSTANTS
    Ids, Timeouts,
    capacity,
    MaxTime         \* bound: the clock stops

VARIABLES array, size, gs_ref, now, ticking, sound

vars == <<array, size, gs_ref, now, ticking, sound>>

NoId    == -1
Junk    == [id |-> NoId, expires |-> 0]     \* what malloc returns
Indices == 0 .. capacity - 1

Init ==
    /\ array = [k \in Indices |-> Junk] /\ size = 0
    /\ gs_ref = [id \in Ids |-> 0]
    /\ now = 0
    /\ ticking = FALSE
    /\ sound = TRUE
-----------------------------------------------------------------------------
(* The heap.  A sift works on an array and the map from ids to indices; k  *)
(* is where the node it moves has come to, and n the nodes it looks at.    *)

Node == [id : Ids \cup {NoId}, expires : Nat]
Sifting ==
    [array : [Indices -> Node], ref : [Ids -> Int], k : Indices, n : 0 .. capacity]

Less(a, j, k) == a[j].expires < a[k].expires
Parent(k) == (k - 1) \div 2

At(a, ref, k, n) == [array |-> a, ref |-> ref, k |-> k, n |-> n]

\* SwapNode, with which a pass of a loop ends: i = j.
Swapped(s, j) ==
    LET a == [s.array EXCEPT ![s.k] = s.array[j], ![j] = s.array[s.k]]
    IN At(a, [s.ref EXCEPT ![a[s.k].id] = s.k, ![a[j].id] = j], j, s.n)

heapSiftUp[s \in Sifting] ==
    IF s.k = 0 \/ Less(s.array, Parent(s.k), s.k) THEN s
    ELSE heapSiftUp[Swapped(s, Parent(s.k))]

SmallerChild(s) ==
    IF 2 * s.k + 2 < s.n /\ Less(s.array, 2 * s.k + 2, 2 * s.k + 1)
    THEN 2 * s.k + 2 ELSE 2 * s.k + 1

heapSiftDown[s \in Sifting] ==
    IF 2 * s.k + 1 >= s.n \/ Less(s.array, s.k, SmallerChild(s)) THEN s
    ELSE heapSiftDown[Swapped(s, SmallerChild(s))]

\* Down, or up if the node has not moved.
Sift(s) == IF heapSiftDown[s].k = s.k THEN heapSiftUp[s] ELSE heapSiftDown[s]

Becomes(s) == array' = s.array /\ gs_ref' = s.ref

Touch(k, t) == [array EXCEPT ![k].expires = now + t]
-----------------------------------------------------------------------------
IsAt(id, k) == k \in 0 .. size - 1 /\ array[k].id = id

Known(id)  == gs_ref[id] # 0 /\ IsAt(id, gs_ref[id])
Absent(id) == gs_ref[id] = 0 /\ \A k \in Indices : ~IsAt(id, k)

\* There is memory at the index gs_ref gives, and it has been written.
Readable(k) == k \in Indices /\ array[k] # Junk

Undefined == sound' = FALSE /\ UNCHANGED <<array, size, gs_ref, now, ticking>>

InsertNew(id, t) ==
    /\ ~ticking /\ gs_ref[id] = 0 /\ size < capacity
    /\ Becomes(heapSiftUp[At([array EXCEPT ![size] = [id |-> id, expires |-> now + t]],
                             [gs_ref EXCEPT ![id] = size], size, size + 1)])
    /\ size' = size + 1
    /\ sound' = Absent(id)
    /\ UNCHANGED <<now, ticking>>

\* heapInsert writes one behind the array.
InsertFull(id) == ~ticking /\ gs_ref[id] = 0 /\ size = capacity /\ Undefined

InsertAgain(id, t) ==
    /\ ~ticking /\ gs_ref[id] # 0
    /\ \/ ~Readable(gs_ref[id]) /\ Undefined
       \/ /\ Readable(gs_ref[id])
          /\ Becomes(Sift(At(Touch(gs_ref[id], t), gs_ref, gs_ref[id], size)))
          /\ sound' = Known(id)
          /\ UNCHANGED <<size, now, ticking>>

\* The caller extends, as with the web server's timer.
HeapAdjust(id, t) ==
    /\ ~ticking
    /\ \/ ~Known(id) /\ Undefined
       \/ /\ Known(id) /\ now + t >= array[gs_ref[id]].expires
          /\ Becomes(heapSiftDown[At(Touch(gs_ref[id], t), gs_ref, gs_ref[id], size)])
          /\ UNCHANGED <<size, now, ticking, sound>>

\* The entry of gs_ref that heapDel writes: that of the id one behind the heap,
\* of whatever memory there is behind the array, or none of these.
Forgotten ==
    IF Readable(size) THEN {array[size].id} ELSE Ids \cup {NoId}

heapDel(k) ==
    LET n == size - 1
        h == At(array, gs_ref, k, n)
        swapped == Swapped(h, n)
        sifted == IF k < n THEN Sift(At(swapped.array, swapped.ref, k, n)) ELSE h
    IN /\ array' = sifted.array
       /\ \E lost \in Forgotten :
             gs_ref' = [id \in Ids |-> IF id = lost THEN -1 ELSE sifted.ref[id]]
       /\ size' = n

\* The callback of the node at index id, and not of that of the id, is called.
heapDoWork(id) ==
    /\ ~ticking
    /\ size # 0 /\ gs_ref[id] # 0
    /\ \/ gs_ref[id] \notin 0 .. size - 1 /\ Undefined
       \/ /\ gs_ref[id] \in 0 .. size - 1
          /\ heapDel(gs_ref[id])
          /\ sound' = (Known(id) /\ IsAt(id, id))
          /\ UNCHANGED <<now, ticking>>

heapTick ==
    /\ ~ticking
    /\ ticking' = TRUE
    /\ UNCHANGED <<array, size, gs_ref, now, sound>>

Fire ==
    /\ ticking /\ size > 0 /\ array[0].expires <= now
    /\ heapDel(0)
    /\ UNCHANGED <<now, ticking, sound>>

TickEnds ==
    /\ ticking /\ (size > 0 => array[0].expires > now)
    /\ ticking' = FALSE
    /\ UNCHANGED <<array, size, gs_ref, now, sound>>

\* heapClear, and initMaxHeap of the next heap: gs_ref stays.
heapClear ==
    /\ ~ticking
    /\ array' = [k \in Indices |-> Junk] /\ size' = 0
    /\ UNCHANGED <<gs_ref, now, ticking, sound>>

Advance ==
    /\ now < MaxTime
    /\ now' = now + 1
    /\ UNCHANGED <<array, size, gs_ref, ticking, sound>>

Next ==
    /\ sound
    /\ \/ \E id \in Ids : InsertFull(id) \/ heapDoWork(id)
       \/ \E id \in Ids, t \in Timeouts :
             InsertNew(id, t) \/ InsertAgain(id, t) \/ HeapAdjust(id, t)
       \/ heapTick \/ Fire \/ TickEnds \/ heapClear \/ Advance

Spec == Init /\ [][Next]_vars
-----------------------------------------------------------------------------
(* Properties.                                                             *)

Never == -1

\* When the timer of an id expires.
Expiry ==
    [id \in Ids |->
        LET at == {k \in Indices : IsAt(id, k)}
        IN IF at = {} THEN Never ELSE array[CHOOSE k \in at : TRUE].expires]

Abstract == INSTANCE Timer WITH expiry <- Expiry

\* No node is earlier than its parent, and none is there twice.
HeapOrder ==
    sound =>
        /\ \A k \in 1 .. size - 1 : ~Less(array, k, Parent(k))
        /\ \A k \in 0 .. size - 1 : \A j \in 0 .. k - 1 : array[j].id # array[k].id

\* Until gs_ref misleads an operation the heap does what a timer promises.
ImplementsTimer == Abstract!Init /\ [][sound' => Abstract!Next]_<<Abstract!vars, sound>>
=============================================================================
