----------------------------- MODULE RingBuffer -----------------------------
(***************************************************************************)
(* The buffer of fixed size of the C library, frameWork/buffer/            *)
(* ring_buffer.c.  It does not wrap around: when the room at the end is    *)
(* too small, all bytes move towards the front and the oldest are lost;    *)
(* the reading position stays.                                             *)
(*                                                                         *)
(* More bytes than the whole buffer holds are appended like fewer: then    *)
(* memory outside the buffer is written, and the model stops.              *)
(***************************************************************************)
EXTENDS Integers, Sequences

CONSTANTS
    RING_QUEUE_SIZE,
    MaxPiece,       \* bound: bytes that are added at a time
    Labels          \* more than RING_QUEUE_SIZE

VARIABLES
    data, readPos, writePos,
    fed,            \* input so far, modulo Labels
    broken          \* memory outside the buffer was written

vars == <<data, readPos, writePos, fed, broken>>

Fresh == [p \in 0 .. RING_QUEUE_SIZE - 1 |-> 0]

\* ring_queue_init of a buffer in zeroed memory.
Init ==
    /\ data = Fresh
    /\ readPos = 0 /\ writePos = 0
    /\ fed = 0
    /\ broken = FALSE

readableBytes == writePos - readPos
writableBytes == RING_QUEUE_SIZE - writePos

Input(k) == (fed + k) % Labels

\* d with the input from the j-th byte to the k-th copied in at position at.
Filled(d, at, j, k) ==
    [p \in DOMAIN d |-> IF p \in at .. at + k - j THEN Input(j + p - at) ELSE d[p]]

\* memmove by extra bytes.
Moved(d, extra) ==
    [p \in DOMAIN d |-> IF p + extra < RING_QUEUE_SIZE THEN d[p + extra] ELSE d[p]]

\* append of the input from the j-th byte to the k-th, when writePos is w and
\* the piece is no longer than the buffer.
AppendInput(d, w, j, k) ==
    LET len == k - j + 1
        extra == IF RING_QUEUE_SIZE - w < len THEN len - (RING_QUEUE_SIZE - w) ELSE 0
    IN /\ data' = Filled(Moved(d, extra), w - extra, j, k)
       /\ writePos' = w - extra + len

\* append of a longer piece: the length of memmove wraps around when extraLen is more
\* than the size, and writePos does, so that memcpy writes before the array.
AppendOverruns(len) ==
    /\ len > RING_QUEUE_SIZE
    /\ broken' = TRUE
    /\ UNCHANGED <<data, readPos, writePos, fed>>

Append_(k) ==
    \/ AppendOverruns(k)
    \/ /\ k <= RING_QUEUE_SIZE
       /\ AppendInput(data, writePos, 1, k)
       /\ fed' = (fed + k) % Labels
       /\ UNCHANGED <<readPos, broken>>

\* readv; what does not fit behind writePos comes in a second array of 65535 bytes
\* (MaxPiece is less) and is appended to the full buffer.
BufferReadFd(k) ==
    \/ AppendOverruns(k - writableBytes)
    \/ /\ k - writableBytes <= RING_QUEUE_SIZE
       /\ IF k <= writableBytes
          THEN data' = Filled(data, writePos, 1, k) /\ writePos' = writePos + k
          ELSE AppendInput(Filled(data, writePos, 1, writableBytes), RING_QUEUE_SIZE,
                           writableBytes + 1, k)
       /\ fed' = (fed + k) % Labels
       /\ UNCHANGED <<readPos, broken>>

\* retrieve, retrieveUntil, and BufferWriteFd of as many bytes as are taken.
retrieve(k) ==
    /\ k <= readableBytes
    /\ readPos' = readPos + k
    /\ UNCHANGED <<data, writePos, fed, broken>>

\* retrieveAll, retrieveAllToStr and freeBuffer.
retrieveAll ==
    /\ data' = Fresh
    /\ readPos' = 0 /\ writePos' = 0
    /\ UNCHANGED <<fed, broken>>

Next ==
    /\ ~broken
    /\ \/ \E k \in 0 .. MaxPiece : Append_(k) \/ BufferReadFd(k)
       \/ \E k \in 1 .. RING_QUEUE_SIZE : retrieve(k)
       \/ retrieveAll

Spec == Init /\ [][Next]_vars
-----------------------------------------------------------------------------
(* Properties.                                                             *)

\* Type correctness: the positions stay in order, so that writePos - readPos,
\* which is unsigned in the code, is a length.
TypeOK ==
    /\ readPos \in 0 .. writePos
    /\ writePos \in 0 .. RING_QUEUE_SIZE
    /\ data \in [0 .. RING_QUEUE_SIZE - 1 -> 0 .. Labels - 1]
    /\ fed \in 0 .. Labels - 1
    /\ broken \in BOOLEAN

Abstract ==
    INSTANCE ByteStream WITH
        stream <- [k \in 1 .. readableBytes |-> data[readPos + k - 1]],
        room <- writableBytes

\* What is read is what went in, in order, without the oldest, of which
\* as many are lost as there was no room for at the end, up to the first piece
\* longer than the buffer; the comment at ring_buffer.c:92, that the buffer can
\* always be written, is not true of that one.
ImplementsLossyStream == Abstract!Spec

\* What the theorems take for granted of the sizes.
RingSizes == RING_QUEUE_SIZE \in Nat /\ MaxPiece \in Nat /\ Labels \in Nat \ {0}
=============================================================================
