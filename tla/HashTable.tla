----------------------------- MODULE HashTable -----------------------------
(***************************************************************************)
(* The hash table of the C library, frameWork/hash/hashTable.c.  A bucket  *)
(* is the sequence of its own node and of those linked behind it; it is    *)
(* empty while the key of its own node is NULL.                            *)
(*                                                                         *)
(* Three mistakes end the process, or leave memory undefined, and then the *)
(* model stops: a key is looked up in an empty bucket (strcmp with NULL),  *)
(* a value is copied over the end of its memory, and a key with bytes over *)
(* 127, which are negative chars, has a bucket before the first.           *)
(***************************************************************************)
EXTENDS Integers, Sequences, FiniteSetsExt

CONSTANTS
    Keys,           \* a key is told by the number that its chars make in base 33
    Values,         \* lengths of values: a value is told by its length
    BUCKETCOUNT,
    MaxNodes        \* bound: nodes of a bucket

VARIABLES
    bucket,         \* t->bucket
    broken          \* an undefined access was made

vars == <<bucket, broken>>

NULL    == -1
NoKey   == 0        \* what hashClear makes of a key: the empty string
SIZEOF_INT == 4
Buckets == 0 .. BUCKETCOUNT - 1

\* hash, of keys so short that it does not overflow: % of C rounds towards zero.
BucketOf == [key \in Keys |->
    IF key >= 0 THEN key % BUCKETCOUNT ELSE -((-key) % BUCKETCOUNT)]

\* room is the memory value points to, in bytes.
Entry(key, value, room) == [key |-> key, value |-> value, room |-> room]

New(key, value) == Entry(key, value, value + 1)     \* strdup

Positions(s, key) == {i \in 1 .. Len(s) : s[i].key = key}

Init ==
    /\ bucket = [b \in Buckets |-> << >>]
    /\ broken = FALSE
-----------------------------------------------------------------------------
\* Mutant: only the bucket's own node is compared.
MutReplaced(s, key) == Positions(s, key) \cap {1}

\* The node that hashInsertNode finds.
Replaced(s, key) == Positions(s, key)

\* The room of a value that is replaced: sizeof(vlen1 + 1) if it has to grow.
RoomFor(e, value) == IF value > e.value THEN SIZEOF_INT ELSE e.room

hashInsertNode(key, value) ==
    LET b == BucketOf[key]
        s == bucket[b]
        i == Min(Replaced(s, key))
        room == RoomFor(s[i], value)
    IN \/ /\ b \notin Buckets
          /\ broken' = TRUE /\ UNCHANGED bucket
       \/ /\ b \in Buckets /\ Replaced(s, key) = {}
          /\ Len(s) < MaxNodes
          /\ bucket' = [bucket EXCEPT ![b] = Append(s, New(key, value))]
          /\ UNCHANGED broken
       \/ /\ b \in Buckets /\ Replaced(s, key) # {}
          /\ bucket' = [bucket EXCEPT ![b] = [s EXCEPT ![i] = Entry(key, value, room)]]
          /\ broken' = (value + 1 > room)

\* The value that hashFind walks to, if hashCount finds the key.
Value(key) ==
    IF BucketOf[key] \notin Buckets \/ Positions(bucket[BucketOf[key]], key) = {} THEN NULL
    ELSE bucket[BucketOf[key]][Min(Positions(bucket[BucketOf[key]], key))].value

\* hashFind and hashCount change nothing.
hashFind(key) ==
    /\ broken' = (BucketOf[key] \notin Buckets \/ bucket[BucketOf[key]] = << >>)
    /\ UNCHANGED bucket

\* The keys of all buckets but the first become the empty string, and the values
\* of the buckets' own nodes.  An empty bucket has no key to overwrite.
hashClear ==
    IF \E b \in Buckets \ {0} : bucket[b] = << >>
    THEN broken' = TRUE /\ UNCHANGED bucket
    ELSE /\ bucket' = [b \in Buckets |->
                IF b = 0 THEN bucket[b]
                ELSE [i \in DOMAIN bucket[b] |->
                         Entry(NoKey, IF i = 1 THEN 0 ELSE bucket[b][i].value, bucket[b][i].room)]]
         /\ UNCHANGED broken

\* hashFree, and initHashTable of the next table.
hashFree ==
    /\ bucket' = [b \in Buckets |-> << >>]
    /\ UNCHANGED broken

Next ==
    /\ ~broken
    /\ \/ \E key \in Keys : hashFind(key) \/ \E value \in Values : hashInsertNode(key, value)
       \/ hashClear \/ hashFree

Spec == Init /\ [][Next]_vars
-----------------------------------------------------------------------------
(* Properties.                                                             *)

\* Type correctness, and the memory of every value holds it.
TypeOK ==
    /\ \A b \in Buckets : \A i \in 1 .. Len(bucket[b]) :
          /\ bucket[b][i].key \in Keys \cup {NoKey}
          /\ bucket[b][i].value \in Values \cup {0}
          /\ ~broken => bucket[b][i].value < bucket[b][i].room
    /\ broken \in BOOLEAN

\* A key is in its own bucket, and in one node: the chain never shows an old
\* value before or behind the new one (hashTable.c:56).
OneNodePerKey ==
    \A b \in Buckets : \A i, j \in 1 .. Len(bucket[b]) :
        LET k == bucket[b][i].key
        IN k # NoKey => BucketOf[k] = b /\ (bucket[b][j].key = k => i = j)

Map == [k \in Keys |-> Value(k)]

Abstract == INSTANCE Dictionary WITH NoValue <- NULL, map <- Map

\* What is put is what is found.
Finds ==
    \A key \in Keys, value \in Values :
        hashInsertNode(key, value) /\ ~broken' => Value(key)' = value

\* hashClear begins at bucket 1: what bucket 0 holds is found as before, the rest is not.
ClearsInPart ==
    /\ hashClear
    /\ bucket[0] # << >>
    /\ \A key \in Keys : Value(key)' = IF BucketOf[key] = 0 THEN Value(key) ELSE NULL

\* The table is a map up to the first undefined access, but for hashClear, which only
\* clears a table with nothing in bucket 0.
ImplementsDictionary ==
    Abstract!Init /\ [][Abstract!Next \/ ClearsInPart]_Map /\ [][Finds]_vars

\* What the theorems take for granted: a key is not the empty string.
HashKeysAndValues ==
    Keys \subseteq Int \ {NoKey} /\ Values \subseteq Nat /\ BUCKETCOUNT \in Nat \ {0}
=============================================================================
