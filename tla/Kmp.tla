-------------------------------- MODULE Kmp --------------------------------
(***************************************************************************)
(* The string search of the C library, kmp in frameWork/stringAlgorithm/   *)
(* string.c.  Every pass of its two loops is a step.  Indices count from 0 *)
(* as in the code.                                                         *)
(***************************************************************************)
EXTENDS Integers, Sequences

CONSTANTS Letters, MaxText, MaxPattern

VARIABLES
    text, pattern,
    pc,             \* the loop that runs
    i, j, k,
    next,           \* the prefix table
    result

vars == <<text, pattern, pc, i, j, k, next, result>>

lenT == Len(text)
lenP == Len(pattern)
At(s, index) == s[index + 1]

TextsUpTo(max) == UNION {[1 .. m -> Letters] : m \in 0 .. max}

Init ==
    /\ text \in TextsUpTo(MaxText) /\ pattern \in TextsUpTo(MaxPattern)
    /\ pc = IF lenP = 0 THEN "done" ELSE "prefix"
    /\ i = 1 /\ j = 0 /\ k = 0
    /\ next = [index \in 0 .. lenP - 1 |-> 0]
    /\ result = 0

\* The loop that makes the prefix table.
Prefix ==
    /\ pc = "prefix" /\ i < lenP
    /\ \/ /\ At(pattern, i) = At(pattern, j)
          /\ next' = [next EXCEPT ![i] = j + 1]
          /\ i' = i + 1 /\ j' = j + 1
       \/ /\ At(pattern, i) # At(pattern, j) /\ j = 0
          /\ i' = i + 1 /\ UNCHANGED <<next, j>>
       \/ /\ At(pattern, i) # At(pattern, j) /\ j > 0
          /\ j' = next[j - 1] /\ UNCHANGED <<next, i>>
    /\ UNCHANGED <<text, pattern, pc, k, result>>

PrefixEnds ==
    /\ pc = "prefix" /\ i >= lenP
    /\ pc' = "match" /\ i' = 0
    /\ UNCHANGED <<text, pattern, j, k, next, result>>

\* Mutant: the pattern starts again after a mismatch.
MutFallBack == 0

\* Where the pattern goes on after a mismatch.
FallBack == next[i - 1]

\* The loop that compares.
Match ==
    /\ pc = "match" /\ k < lenT /\ i < lenP
    /\ \/ At(pattern, i) = At(text, k) /\ i' = i + 1 /\ k' = k + 1
       \/ At(pattern, i) # At(text, k) /\ i > 0 /\ i' = FallBack /\ UNCHANGED k
       \/ At(pattern, i) # At(text, k) /\ i = 0 /\ k' = k + 1 /\ UNCHANGED i
    /\ UNCHANGED <<text, pattern, pc, j, next, result>>

MatchEnds ==
    /\ pc = "match" /\ (k >= lenT \/ i >= lenP)
    /\ pc' = "done"
    /\ result' = IF i = lenP THEN k - i ELSE -1
    /\ UNCHANGED <<text, pattern, i, j, k, next>>

Next == Prefix \/ PrefixEnds \/ Match \/ MatchEnds

Spec == Init /\ [][Next]_vars
-----------------------------------------------------------------------------
(* Properties.                                                             *)

IsAt(s, t, index) == index + Len(s) <= Len(t) /\ \A m \in 1 .. Len(s) : t[index + m] = s[m]

\* next[m] is the length of the longest proper prefix that ends at m.
PrefixTable ==
    pc \in {"match", "done"} =>
        \A m \in 0 .. lenP - 1 :
            /\ IsAt(SubSeq(pattern, 1, next[m]), pattern, m + 1 - next[m])
            /\ \A length \in next[m] + 1 .. m :
                  ~IsAt(SubSeq(pattern, 1, length), pattern, m + 1 - length)

\* The answer is where the pattern first is in the text, -1 if it is not in it,
\* though neither loop ever goes back in the text (string.c:44, 79).
FirstOccurrence ==
    pc = "done" =>
        /\ result # -1 => IsAt(pattern, text, result)
        /\ \A index \in 0 .. lenT : IsAt(pattern, text, index) => result \in 0 .. index
-----------------------------------------------------------------------------
(* Inductive strengthening.                                                *)

\* The first length letters of the pattern end with its first b letters.
Border(length, b) == \A x \in 1 .. b : pattern[length - b + x] = pattern[x]

\* The entry for the first length letters is their longest border.
RightEntry(length) ==
    /\ next[length - 1] \in 0 .. length - 1
    /\ Border(length, next[length - 1])
    /\ \A b \in next[length - 1] + 1 .. length - 1 : ~Border(length, b)

\* The entries up to i are made and the others are 0; j letters are a border of
\* the first i, and no border of one letter more is longer than j + 1.
PrefixInv ==
    pc = "prefix" =>
        /\ i \in 1 .. lenP /\ j \in 0 .. i - 1 /\ k = 0
        /\ \A length \in 1 .. i : RightEntry(length)
        /\ \A m \in i .. lenP - 1 : next[m] = 0
        /\ Border(i, j)
        /\ i < lenP => \A b \in j + 2 .. i : ~Border(i + 1, b)

\* The table is made; the text before k ends with the first i letters of the pattern,
\* and the pattern is nowhere before them.
MatchInv ==
    pc = "match" =>
        /\ lenP > 0 /\ \A length \in 1 .. lenP : RightEntry(length)
        /\ k \in 0 .. lenT /\ i \in 0 .. lenP /\ i <= k
        /\ \A x \in 1 .. i : text[k - i + x] = pattern[x]
        /\ \A index \in 0 .. k - i - 1 : ~IsAt(pattern, text, index)

KmpTypeOK ==
    /\ text \in Seq(Letters) /\ pattern \in Seq(Letters)
    /\ pc \in {"prefix", "match", "done"}
    /\ next \in [0 .. lenP - 1 -> Nat]

KmpInv == KmpTypeOK /\ PrefixInv /\ MatchInv /\ PrefixTable /\ FirstOccurrence
===========================================================================
