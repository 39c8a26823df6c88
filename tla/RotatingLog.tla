---------------------------- MODULE RotatingLog ----------------------------
(***************************************************************************)
(* What a rotating log promises.  Messages are accepted in order, and are  *)
(* known by their numbers; each is then either stored after all those      *)
(* stored before it, or lost.  Only the oldest messages are deleted, at    *)
(* most FileItems of them at a time, and only while at least KeepItems are *)
(* stored.                                                                 *)
(***************************************************************************)
EXTENDS Integers, Sequences

CONSTANTS FileItems, KeepItems

VARIABLES accepted, pending, kept

vars == <<accepted, pending, kept>>

Init ==
    /\ accepted \in Nat
    /\ pending = << >>
    /\ kept \in Seq(1 .. accepted)

Accept ==
    /\ accepted' = accepted + 1
    /\ pending' = Append(pending, accepted')
    /\ UNCHANGED kept

Store ==
    /\ pending # << >>
    /\ kept' = Append(kept, Head(pending))
    /\ pending' = Tail(pending)
    /\ UNCHANGED accepted

Lose ==
    /\ pending # << >>
    /\ pending' = Tail(pending)
    /\ UNCHANGED <<accepted, kept>>

Prune ==
    /\ Len(kept) >= KeepItems
    /\ \E k \in 1 .. FileItems : kept' = SubSeq(kept, k + 1, Len(kept))
    /\ UNCHANGED <<accepted, pending>>

Next == Accept \/ Store \/ Lose \/ Prune

Spec == Init /\ [][Next]_vars
=============================================================================
