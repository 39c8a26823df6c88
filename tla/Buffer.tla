------------------------------- MODULE Buffer -------------------------------
(***************************************************************************)
(* The growing buffer of the web server, webServer/code/buffer/buffer.cpp. *)
(* A byte is the number of its place in what goes in, modulo Labels.       *)
(***************************************************************************)
EXTENDS Integers, Sequences

CONSTANTS
    FirstSize,      \* initBuffSize
    MaxSize,        \* bound: bytes buffer_ may grow to
    MaxPiece,       \* bound: bytes that are added at a time
    Labels          \* more than MaxSize

VARIABLES
    buffer,                 \* buffer_, positions from 0
    size,                   \* buffer_.size()
    readPos, writePos,
    fed                     \* bytes given so far

vars == <<buffer, size, readPos, writePos, fed>>

Fresh(k) == [p \in 0 .. k - 1 |-> 0]

Init ==
    /\ size = FirstSize
    /\ buffer = Fresh(FirstSize)
    /\ readPos = 0 /\ writePos = 0
    /\ fed = 0

ReadableBytes == writePos - readPos
WritableBytes == size - writePos
PrependableBytes == readPos

Input(k) == (fed + k) % Labels

\* b with the input from the j-th byte on copied in at position at.
Filled(b, at, j, k) ==
    [p \in DOMAIN b |-> IF p \in at .. at + k - j THEN Input(j + p - at) ELSE b[p]]

\* MakeSpace_ when writePos is w and the contents are b: grow, or move what is
\* readable to the front.
MakeSpace(b, w, len) ==
    IF size - w + PrependableBytes < len
    THEN [buffer |-> [p \in 0 .. w + len |-> IF p < size THEN b[p] ELSE 0],
          size |-> w + len + 1, readPos |-> readPos, writePos |-> w]
    ELSE [buffer |-> [p \in DOMAIN b |-> IF p < w - readPos THEN b[p + readPos] ELSE b[p]],
          size |-> size, readPos |-> 0, writePos |-> w - readPos]

\* EnsureWriteable, for the bytes of the input from the j-th to the k-th, then
\* the copy and HasWritten.
AppendInput(b, w, j, k) ==
    LET len == k - j + 1
        s == IF size - w < len THEN MakeSpace(b, w, len)
             ELSE [buffer |-> b, size |-> size, readPos |-> readPos, writePos |-> w]
    IN /\ s.size <= MaxSize
       /\ buffer' = Filled(s.buffer, s.writePos, j, k)
       /\ size' = s.size
       /\ readPos' = s.readPos
       /\ writePos' = s.writePos + len

Append_(k) ==
    /\ AppendInput(buffer, writePos, 1, k)
    /\ fed' = (fed + k) % Labels

\* readv fills the buffer and leaves the rest in an array on the stack, which is
\* appended.
ReadFd(k) ==
    /\ IF k <= WritableBytes
       THEN /\ buffer' = Filled(buffer, writePos, 1, k)
            /\ writePos' = writePos + k
            /\ UNCHANGED <<size, readPos>>
       ELSE AppendInput(Filled(buffer, writePos, 1, WritableBytes), size,
                        WritableBytes + 1, k)
    /\ fed' = (fed + k) % Labels

\* Retrieve, RetrieveUntil, and WriteFd of as many bytes as the socket takes.
Retrieve(k) ==
    /\ k <= ReadableBytes
    /\ readPos' = readPos + k
    /\ UNCHANGED <<buffer, size, writePos, fed>>

\* RetrieveAll and RetrieveAllToStr.
RetrieveAll ==
    /\ buffer' = Fresh(size)
    /\ readPos' = 0 /\ writePos' = 0
    /\ UNCHANGED <<size, fed>>

Next ==
    \/ \E k \in 0 .. MaxPiece : Append_(k) \/ ReadFd(k)
    \/ \E k \in 1 .. MaxSize : Retrieve(k)
    \/ RetrieveAll

Spec == Init /\ [][Next]_vars
-----------------------------------------------------------------------------
(* Properties.                                                             *)

\* Type correctness: the positions are in order (the assertions of lines 26, 83
\* and 139).
TypeOK ==
    /\ readPos \in 0 .. writePos
    /\ writePos \in 0 .. size
    /\ size \in 0 .. MaxSize
    /\ buffer \in [0 .. size - 1 -> 0 .. Labels - 1]
    /\ fed \in 0 .. Labels - 1

Abstract ==
    INSTANCE ByteStream WITH
        stream <- [k \in 1 .. ReadableBytes |-> buffer[readPos + k - 1]],
        room <- MaxPiece

\* Bytes come out in the order they went in, each once, through every growth,
\* move to the front and scattered read.
ImplementsStream == Abstract!Spec

\* What the theorems take for granted of the sizes.
BufferSizes ==
    /\ FirstSize \in Nat /\ MaxSize \in Nat /\ FirstSize <= MaxSize
    /\ MaxPiece \in Nat /\ Labels \in Nat \ {0}
=============================================================================
