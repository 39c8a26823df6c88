---------------------------- MODULE LibraryBytes ----------------------------
(***************************************************************************)
(* The parts that work on bytes, side by side, each with variables and     *)
(* constants of its own: the string search and both buffers.               *)
(***************************************************************************)
EXTENDS Integers

CONSTANTS
    KmpLetters, KmpMaxText, KmpMaxPattern,
    FirstSize, MaxSize, RingSize, MaxPiece, Labels

VARIABLES
    kmpText, kmpPattern, kmpPc, kmpI, kmpJ, kmpK, kmpNext, kmpResult,
    bytes, bytesSize, bytesRead, bytesWritten, bytesFed,
    ring, ringRead, ringWritten, ringFed, ringBroken

K == INSTANCE Kmp WITH
        Letters <- KmpLetters, MaxText <- KmpMaxText, MaxPattern <- KmpMaxPattern,
        text <- kmpText, pattern <- kmpPattern, pc <- kmpPc, i <- kmpI, j <- kmpJ,
        k <- kmpK, next <- kmpNext, result <- kmpResult

B == INSTANCE Buffer WITH
        buffer <- bytes, size <- bytesSize, readPos <- bytesRead,
        writePos <- bytesWritten, fed <- bytesFed

R == INSTANCE RingBuffer WITH
        RING_QUEUE_SIZE <- RingSize, data <- ring, readPos <- ringRead,
        writePos <- ringWritten, fed <- ringFed, broken <- ringBroken

ASSUME LibraryBytesAssumption == B!BufferSizes /\ R!RingSizes
=============================================================================
