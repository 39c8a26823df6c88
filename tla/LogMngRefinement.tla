-------------------------- MODULE LogMngRefinement --------------------------
(***************************************************************************)
(* The log manager implements RotatingLog: the messages that are pending   *)
(* are the one being stored and those in the queue; the messages that are  *)
(* kept are those a reader finds by going through the files in order.      *)
(***************************************************************************)
EXTENDS LogMng

\* A place in the log d is a file and a slot of it that its header counts.
Places(d) == UNION {{<<n, k>> : k \in ReadableSlots(d[n])} : n \in DOMAIN d}

Before(p, q) == p[1] < q[1] \/ (p[1] = q[1] /\ p[2] < q[2])

\* The place with i places before it.
Ranked(S, i) == {p \in S : Cardinality({q \in S : Before(q, p)}) = i}
Nth(S, i)    == CHOOSE p \in Ranked(S, i) : TRUE

ItemAt(d, p) == d[p[1]].items[SlotOffset(p[2])]

Contents(d) ==
    [i \in 1 .. Cardinality(Places(d)) |-> ItemAt(d, Nth(Places(d), i - 1))]

Pending == IF cpc \in Storing THEN <<cur>> \o queue ELSE queue

Abstract ==
    INSTANCE RotatingLog WITH
        FileItems <- MAX_LOG_ITEMS_PER_FILE,
        KeepItems <- LOG_FILE_MAX_NUM * MAX_LOG_ITEMS_PER_FILE,
        accepted  <- accepted,
        pending   <- Pending,
        kept      <- Contents(disk)

\* Every behaviour of the queue, the consumer and the rotation, with crashes
\* at any step, is one of the abstract log: messages are stored in order and
\* at most once, and a rotation deletes the oldest file of a full log only.
ImplementsRotatingLog == Abstract!Spec
-----------------------------------------------------------------------------
(* Inductive strengthening.                                                *)

FullFile(f) == f.head.num = MAX_LOG_ITEMS_PER_FILE

\* A file is only begun when all the others are full, so that the oldest is deleted
\* from a full log; and the list names the files from the oldest on.
FullInv ==
    /\ \A m, n \in DOMAIN disk : m < n => FullFile(disk[m])
    /\ Scanned /\ cpc \notin {"item", "update"} /\ MustRotate =>
          \A n \in DOMAIN disk : n = seq \/ FullFile(disk[n])
    /\ Scanned => \A i, j \in 1 .. Len(list) : i < j => list[i] < list[j]
    /\ cpc = "update" => disk[fd].items[headInfo.wpos] = cur
=============================================================================
