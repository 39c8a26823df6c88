---------------------------- MODULE LibraryTables ----------------------------
(***************************************************************************)
(* The structures of the C library that are tables and lists, side by      *)
(* side, each with variables and constants of its own: the hash table, the *)
(* tree of services, which is kept in tables, and the linked list.         *)
(***************************************************************************)
EXTENDS Integers, FiniteSets

CONSTANTS
    HashKeys, HashValues, HashBuckets, HashNodes,
    NodeUnknown, NodeMaxPath,
    ListNodes, TheLists

VARIABLES
    hashBucket, hashBroken,
    nodePath, nodeToken, nodeTable, nodeEntry, nodeStrayed, nodeResult,
    listHead, listTail, listCount, listNext, listPrev, listAllocated

H == INSTANCE HashTable WITH
        Keys <- HashKeys, Values <- HashValues, BUCKETCOUNT <- HashBuckets,
        MaxNodes <- HashNodes, bucket <- hashBucket, broken <- hashBroken

N == INSTANCE NodeTree WITH
        Unknown <- NodeUnknown, MaxPath <- NodeMaxPath,
        path <- nodePath, token <- nodeToken, table <- nodeTable, entry <- nodeEntry,
        strayed <- nodeStrayed, result <- nodeResult

L == INSTANCE LinkedList WITH
        Nodes <- ListNodes, Lists <- TheLists, head <- listHead, tail <- listTail,
        count <- listCount, next <- listNext, prev <- listPrev, allocated <- listAllocated

\* Addresses are finitely many, and none is that of NULL.
ListAddresses == IsFiniteSet(ListNodes) /\ 0 \notin ListNodes

ASSUME LibraryTablesAssumption ==
    /\ H!HashKeysAndValues
    /\ NodeMaxPath \in Nat
    /\ ListAddresses
=============================================================================
