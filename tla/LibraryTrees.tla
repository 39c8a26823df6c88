---------------------------- MODULE LibraryTrees ----------------------------
(***************************************************************************)
(* The structures of the C library that are trees, side by side: the       *)
(* red-black tree and the heap of the timer.                               *)
(***************************************************************************)
EXTENDS Integers

CONSTANTS RbKeys, ClockIds, ClockTimeouts, ClockCapacity, ClockMaxTime

VARIABLES
    rbTree, rbPc, rbNode, rbParent,
    array, arraySize, gs_ref, clock, clockTicks, sound

RB == INSTANCE RBTree WITH
        Keys <- RbKeys, t <- rbTree, pc <- rbPc, node <- rbNode, parent <- rbParent

CT == INSTANCE HeapTimerC WITH
        Ids <- ClockIds, Timeouts <- ClockTimeouts, capacity <- ClockCapacity,
        MaxTime <- ClockMaxTime, size <- arraySize, now <- clock, ticking <- clockTicks

\* The keys are numbers, and none is that of no node.
TreeKeys == RbKeys \subseteq Int \ {0}

ClockConstants == ClockCapacity \in Nat /\ ClockTimeouts \subseteq Nat

ASSUME LibraryTreesAssumption == TreeKeys /\ ClockConstants
=============================================================================
