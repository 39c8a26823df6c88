----------------------------- MODULE ByteStream -----------------------------
(***************************************************************************)
(* What a buffer promises: bytes come out in the order they went in, each  *)
(* once.  A buffer of fixed size has room for some more; of what goes      *)
(* beyond, as many of the oldest are lost.  The bytes that go in are       *)
(* numbered, modulo Labels.                                                *)
(***************************************************************************)
EXTENDS Integers, Sequences

CONSTANTS Labels, MaxPiece

VARIABLES stream, fed, room

vars == <<stream, fed>>

Init == stream = << >> /\ fed = 0

From(s, k) == SubSeq(s, k + 1, Len(s))

Feed(k) ==
    LET whole == stream \o [j \in 1 .. k |-> (fed + j) % Labels]
    IN /\ stream' = From(whole, IF k > room THEN k - room ELSE 0)
       /\ fed' = (fed + k) % Labels

Take(k) ==
    /\ stream' = From(stream, k)
    /\ UNCHANGED fed

Next ==
    \/ \E k \in 0 .. MaxPiece : Feed(k)
    \/ \E k \in 0 .. Len(stream) : Take(k)

Spec == Init /\ [][Next]_vars
=============================================================================
