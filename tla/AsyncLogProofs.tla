-------------------------- MODULE AsyncLogProofs --------------------------
(***************************************************************************)
(* Theorems about the asynchronous log for every number of threads, of     *)
(* lines and of days, every capacity of the queue and length of a file.    *)
(***************************************************************************)
EXTENDS AsyncLog, FiniteSetTheorems, SequenceTheorems, TLAPS

(* The lines, by where they are.                                           *)

InFile == {n \in 1 .. MaxLines : \E i \in 1 .. Len(written) : written[i].line = n}
Queued == {n \in 1 .. MaxLines : \E k \in 1 .. Len(deq) : deq[k] = n}
Popped == IF held = 0 THEN {} ELSE {held}
With   == {n \in 1 .. MaxLines : \E w \in Writers : line[w] = n}

Partition(S, F, Q, H, P) ==
    /\ S = F \cup Q \cup H \cup P
    /\ F \cap (Q \cup H \cup P) = {}
    /\ Q \cap (H \cup P) = {}
    /\ H \cap P = {}

\* The mutex is held exactly where the code holds it, and a thread that has it
\* for a line has the last line.
MutexInv ==
    /\ \A w \in Writers : pc[w] \in {"reopen", "push", "direct"} <=> mtx = w
    /\ \A w \in Writers : line[w] = IF pc[w] \in {"push", "direct"} THEN lines ELSE 0
    /\ \A w \in Writers : pc[w] \in {"push", "direct"} => lines # 0
    /\ \A w \in Writers : pc[w] = "push" => Len(deq) < Capacity

\* The destructor runs when nobody logs, and closes the queue when it is empty.
EndInv ==
    /\ opc # "open" => \A w \in Writers : pc[w] = "idle"
    /\ opc \notin {"open", "drain"} => deq = << >>
    /\ opc = "done" => cpc = "exited"

\* The write thread.
ThreadInv == held # 0 <=> cpc = "write"

\* Who changes the file knows the day and the new name.
FileInv ==
    /\ \A w \in Writers : pc[w] # "idle" => day[w] \in 1 .. Days
    /\ \A w \in Writers : pc[w] \in {"reset", "close", "reopen"} => newFile[w] # Closed

\* The threads that have not formatted their line yet.
Before == {w \in Writers : pc[w] \in {"check", "name", "reset", "close", "reopen", "format"}}

CountInv ==
    /\ lineCount <= lines
    /\ lines + Cardinality(Before) <= MaxLines

\* Every line is in one place, once.
PlaceInv ==
    /\ Partition(1 .. lines, InFile, Queued, Popped, With)
    /\ \A i, j \in 1 .. Len(written) : written[i].line = written[j].line => i = j

\* The queue is in order, and what was not written directly is before what is
\* still on its way.
OrderInv ==
    /\ \A k, l \in 1 .. Len(deq) : k < l => deq[k] < deq[l]
    /\ \A n \in Popped, m \in Queued : n < m
    /\ \A i \in 1 .. Len(written) : written[i].line \notin direct =>
          /\ \A j \in 1 .. Len(written) : i < j => written[i].line < written[j].line
          /\ \A m \in Queued \cup Popped : written[i].line < m

\* A file is changed only after a midnight or MAX_LINES lines.
Rotated == today > 1 \/ lines >= MAX_LINES

RotationInv ==
    /\ toDay <= today
    /\ \A w \in Writers : day[w] <= today
    /\ \A w \in Writers : pc[w] \in {"name", "reset", "close", "reopen"} => Rotated

IInv == /\ LogInv /\ MutexInv /\ EndInv /\ ThreadInv /\ FileInv /\ CountInv /\ RotationInv
        /\ PlaceInv /\ OrderInv

-----------------------------------------------------------------------------
(* Sequences and names.                                                    *)

Entry == [line : 1 .. MaxLines, file : Files \ {Closed}]

LEMMA NamesOfFiles ==
    /\ Closed \in Files
    /\ \A d \in 1 .. Days : DailyName(d) \in Files /\ DailyName(d) # Closed
    /\ \A d \in 1 .. Days, k \in 0 .. MaxLines : PartName(d, k) \in Files /\ PartName(d, k) # Closed
<1>1. Closed \in Files
  BY DEF Files
<1>2. ASSUME NEW d \in 1 .. Days PROVE DailyName(d) \in Files /\ DailyName(d) # Closed
  <2>1. DailyName(d) \in Files
    BY DEF Files
  <2>2. DailyName(d).day # Closed.day
    BY DEF DailyName, Closed
  <2> QED
    BY <2>1, <2>2
<1>3. ASSUME NEW d \in 1 .. Days, NEW k \in 0 .. MaxLines
      PROVE  PartName(d, k) \in Files /\ PartName(d, k) # Closed
  <2>1. PartName(d, k) \in Files
    BY DEF Files
  <2>2. PartName(d, k).day # Closed.day
    BY DEF PartName, Closed
  <2> QED
    BY <2>1, <2>2
<1> QED
  BY <1>1, <1>2, <1>3

LEMMA Quotient ==
    ASSUME NEW a \in Nat, NEW b \in Nat \ {0}
    PROVE  a \div b \in 0 .. a
OBVIOUS

LEMMA LastIndex ==
    ASSUME NEW n \in Nat, NEW m, m = n + 1, NEW i \in 1 .. m
    PROVE  i \in 1 .. n \/ i = n + 1
OBVIOUS

LEMMA WrittenGrows ==
    ASSUME TypeOK, NEW e \in Entry, written' = Append(written, e)
    PROVE  /\ written' \in Seq(Entry)
           /\ Len(written) \in Nat /\ Len(written') = Len(written) + 1
           /\ \A i \in 1 .. Len(written) : written'[i] = written[i]
           /\ written'[Len(written) + 1] = e
           /\ InFile' = InFile \cup {e.line}
<1>1. written \in Seq(Entry)
  BY DEF TypeOK, Entry
<1>2. /\ written' \in Seq(Entry)
      /\ Len(written) \in Nat /\ Len(written') = Len(written) + 1
      /\ \A i \in 1 .. Len(written) : written'[i] = written[i]
      /\ written'[Len(written) + 1] = e
  BY <1>1, AppendProperties, LenProperties
<1>3. e.line \in 1 .. MaxLines
  BY DEF Entry
<1>4. InFile' = InFile \cup {e.line}
  BY <1>2, <1>3 DEF InFile
<1> QED
  BY <1>2, <1>4

LEMMA QueueGrows ==
    ASSUME TypeOK, NEW n \in 1 .. MaxLines, deq' = Append(deq, n)
    PROVE  /\ deq' \in Seq(1 .. MaxLines)
           /\ Len(deq) \in Nat /\ Len(deq') = Len(deq) + 1
           /\ \A i \in 1 .. Len(deq) : deq'[i] = deq[i]
           /\ deq'[Len(deq) + 1] = n
           /\ Queued' = Queued \cup {n}
<1>1. deq \in Seq(1 .. MaxLines)
  BY DEF TypeOK
<1>2. /\ deq' \in Seq(1 .. MaxLines)
      /\ Len(deq) \in Nat /\ Len(deq') = Len(deq) + 1
      /\ \A i \in 1 .. Len(deq) : deq'[i] = deq[i]
      /\ deq'[Len(deq) + 1] = n
  BY <1>1, AppendProperties, LenProperties
<1>3. Queued' = Queued \cup {n}
  BY <1>2 DEF Queued
<1> QED
  BY <1>2, <1>3

LEMMA QueueShrinks ==
    ASSUME TypeOK, OrderInv, deq # << >>, deq' = Tail(deq)
    PROVE  /\ deq' \in Seq(1 .. MaxLines)
           /\ Head(deq) \in 1 .. MaxLines /\ Head(deq) = deq[1]
           /\ Len(deq) \in Nat \ {0} /\ Len(deq') = Len(deq) - 1
           /\ \A i \in 1 .. Len(deq') : deq'[i] = deq[i + 1]
           /\ Queued' = Queued \ {Head(deq)} /\ Head(deq) \in Queued
           /\ \A m \in Queued' : Head(deq) < m
<1>1. deq \in Seq(1 .. MaxLines)
  BY DEF TypeOK
<1>2. Len(deq) \in Nat \ {0}
  BY <1>1, LenProperties, EmptySeq
<1>3. Head(deq) \in 1 .. MaxLines
  BY <1>1, HeadTailProperties
<1>4. Head(deq) = deq[1]
  BY <1>1
<1>5. /\ deq' \in Seq(1 .. MaxLines) /\ Len(deq') = Len(deq) - 1
      /\ \A i \in 1 .. Len(deq') : deq'[i] = deq[i + 1]
  BY <1>1, HeadTailProperties
<1>6. Head(deq) \in Queued
  BY <1>2, <1>3, <1>4 DEF Queued
<1>7. \A i \in 1 .. Len(deq) : deq[i] \in 1 .. MaxLines
  BY <1>1, ElementOfSeq
<1>8. \A m \in Queued' : m \in Queued /\ Head(deq) < m
  <2> SUFFICES ASSUME NEW m \in 1 .. MaxLines, NEW i \in 1 .. Len(deq'), deq'[i] = m
               PROVE  m \in Queued /\ Head(deq) < m
    BY DEF Queued
  <2>1. deq[i + 1] = m /\ i + 1 \in 1 .. Len(deq) /\ 1 \in 1 .. Len(deq) /\ 1 < i + 1
    BY <1>2, <1>5
  <2>2. deq[1] < deq[i + 1]
    BY <2>1 DEF OrderInv
  <2> QED
    BY <1>4, <2>1, <2>2 DEF Queued
<1>9. \A m \in Queued : m # Head(deq) => m \in Queued'
  <2> SUFFICES ASSUME NEW m \in 1 .. MaxLines, NEW i \in 1 .. Len(deq), deq[i] = m, m # Head(deq)
               PROVE  m \in Queued'
    BY DEF Queued
  <2>1. i # 1
    BY <1>4
  <2>2. i - 1 \in 1 .. Len(deq') /\ (i - 1) + 1 = i
    BY <1>2, <1>5, <2>1
  <2>3. deq'[i - 1] = m
    BY <1>5, <2>2
  <2> QED
    BY <2>2, <2>3 DEF Queued
<1>10. Queued' = Queued \ {Head(deq)}
  <2>1. \A m \in 1 .. MaxLines : Head(deq) < m => m # Head(deq)
    BY <1>3
  <2>2. Queued' \subseteq 1 .. MaxLines
    BY DEF Queued
  <2> QED
    BY <1>8, <1>9, <2>1, <2>2
<1> QED
  BY <1>2, <1>3, <1>4, <1>5, <1>6, <1>8, <1>10
-----------------------------------------------------------------------------
(* Types.                                                                  *)

Places == {"idle", "check", "name", "reset", "close", "reopen", "format",
           "push", "blocked", "direct", "flush", "fflush"}

LEMMA LineTypes ==
    ASSUME TypeOK
    PROVE  /\ deq \in Seq(1 .. MaxLines) /\ Len(deq) \in Nat
           /\ \A k \in 1 .. Len(deq) : deq[k] \in 1 .. MaxLines
           /\ written \in Seq(Entry) /\ Len(written) \in Nat
           /\ \A i \in 1 .. Len(written) : /\ written[i] \in Entry
                                          /\ written[i].line \in 1 .. MaxLines
           /\ held \in 0 .. MaxLines /\ lines \in 0 .. MaxLines
           /\ line \in [Writers -> 0 .. MaxLines]
<1>1. deq \in Seq(1 .. MaxLines) /\ written \in Seq(Entry)
  BY DEF TypeOK, Entry
<1>2. /\ Len(deq) \in Nat /\ Len(written) \in Nat
      /\ \A k \in 1 .. Len(deq) : deq[k] \in 1 .. MaxLines
      /\ \A i \in 1 .. Len(written) : written[i] \in Entry
  BY <1>1, LenProperties, ElementOfSeq
<1>3. \A e \in Entry : e.line \in 1 .. MaxLines
  BY DEF Entry
<1>4. /\ held \in 0 .. MaxLines /\ lines \in 0 .. MaxLines
      /\ line \in [Writers -> 0 .. MaxLines]
  BY DEF TypeOK
<1> QED
  BY <1>1, <1>2, <1>3, <1>4

\* A thread that has the mutex and does not change the file finds it open.
LEMMA FileIsOpen ==
    ASSUME LogAssumption, TypeOK, ClosedUnderLock, MutexInv, EndInv
    PROVE  /\ \A w \in Writers : pc[w] = "direct" => fp \in Files \ {Closed}
           /\ mtx = NoOne /\ cpc = "write" => fp \in Files \ {Closed}
<1>1. ASSUME NEW w \in Writers, pc[w] = "direct" PROVE fp # Closed
  <2>1. mtx = w /\ opc # "done"
    BY <1>1 DEF MutexInv, EndInv
  <2> QED
    BY <1>1, <2>1 DEF ClosedUnderLock
<1>2. mtx = NoOne /\ cpc = "write" => fp # Closed
  BY DEF ClosedUnderLock, EndInv
<1> QED
  BY <1>1, <1>2 DEF TypeOK

\* There is room for the line of a thread that logs.
LEMMA RoomForLine ==
    ASSUME LogAssumption, TypeOK, CountInv, NEW w \in Writers, pc[w] = "format"
    PROVE  lines + 1 \in 1 .. MaxLines /\ lineCount + 1 \in 0 .. MaxLines
<1>1. IsFiniteSet(Before)
  BY FS_Subset DEF LogAssumption, Before
<1>2. w \in Before
  BY DEF Before
<1>3. Cardinality(Before) \in Nat /\ Cardinality(Before) # 0
  BY <1>1, <1>2, FS_CardinalityType, FS_EmptySet
<1>4. lines \in Nat /\ lineCount \in Nat /\ MaxLines \in Nat
  BY DEF TypeOK, LogAssumption
<1>5. lines + Cardinality(Before) <= MaxLines /\ lineCount <= lines
  BY DEF CountInv
<1> QED
  BY <1>3, <1>4, <1>5

LEMMA PcType ==
    ASSUME TypeOK, NEW w, NEW s \in Places, pc' = [pc EXCEPT ![w] = s]
    PROVE  pc' \in [Writers -> Places]
BY DEF TypeOK, Places

LEMMA TypeWriter ==
    ASSUME LogAssumption, TypeOK, ClosedUnderLock, MutexInv, EndInv, FileInv, CountInv,
           NEW w \in Writers, Write(w) \/ Writer(w)
    PROVE  TypeOK'
<1> USE DEF TypeOK, queue, log, output, locals, flushes
<1>0. LogAssumption
  OBVIOUS
<1>1. CASE Write(w)
  <2>1. pc' \in [Writers -> Places]
    BY <1>1, PcType DEF Write, Places
  <2>2. day' \in [Writers -> 0 .. Days]
    BY <1>1 DEF Write, LogAssumption
  <2> QED
    BY <1>1, <2>1, <2>2 DEF Write, Places
<1>2. CASE CheckFile(w)
  <2>1. pc' \in [Writers -> Places]
    BY <1>2, PcType DEF CheckFile, Places
  <2> QED
    BY <1>2, <2>1 DEF CheckFile, Places
<1>3. CASE ChooseName(w)
  <2>1. pc' \in [Writers -> Places]
    BY <1>3, PcType DEF ChooseName, Places
  <2>2. day[w] \in 1 .. Days
    BY <1>3 DEF ChooseName, FileInv
  <2>3. lineCount \div MAX_LINES \in 0 .. MaxLines
    <3>1. lineCount \in Nat /\ lineCount <= MaxLines /\ MaxLines \in Nat /\ MAX_LINES \in Nat \ {0}
      BY DEF LogAssumption
    <3> DEFINE q == lineCount \div MAX_LINES
    <3>2. q \in 0 .. lineCount
      BY <3>1, Quotient
    <3> HIDE DEF q
    <3>3. q \in 0 .. MaxLines
      BY <3>1, <3>2
    <3> QED
      BY <3>3 DEF q
  <2>4. DailyName(day[w]) \in Files /\ PartName(day[w], lineCount \div MAX_LINES) \in Files
    BY <2>2, <2>3, NamesOfFiles
  <2>5. newFile' \in [Writers -> Files] /\ toDay' \in 1 .. Days
    <3>1. toDay' = toDay \/ toDay' = day[w]
      BY <1>3 DEF ChooseName
    <3>2. \/ newFile' = [newFile EXCEPT ![w] = DailyName(day[w])]
          \/ newFile' = [newFile EXCEPT ![w] = PartName(day[w], lineCount \div MAX_LINES)]
      BY <1>3 DEF ChooseName
    <3>3. newFile' \in [Writers -> Files]
      BY <2>4, <3>2
    <3> QED
      BY <2>2, <3>1, <3>3
  <2> QED
    BY <1>3, <2>1, <2>5 DEF ChooseName, Places
<1>4. CASE ResetCount(w)
  <2>1. pc' \in [Writers -> Places]
    BY <1>4, PcType DEF ResetCount, Places
  <2>2. 0 \in 0 .. MaxLines
    BY DEF LogAssumption
  <2> QED
    BY <1>4, <2>1, <2>2 DEF ResetCount, Places
<1>5. CASE CloseFile(w)
  <2>1. pc' \in [Writers -> Places]
    BY <1>5, PcType DEF CloseFile, Places
  <2>2. cpc' \in {"pop", "waiting", "woken", "write", "exited"}
    BY <1>5 DEF CloseFile, Notified
  <2> QED
    BY <1>5, <2>1, <2>2, NamesOfFiles DEF CloseFile, Places
<1>6. CASE ReopenFile(w)
  <2>1. pc' \in [Writers -> Places]
    BY <1>6, PcType DEF ReopenFile, Places
  <2>2. fp' \in Files
    BY <1>6 DEF ReopenFile
  <2> QED
    BY <1>6, <2>1, <2>2 DEF ReopenFile, Places
<1>7. CASE FormatLine(w)
  <2>1. pc' \in [Writers -> Places]
    BY <1>7, PcType DEF FormatLine, Places
  <2>2. lines + 1 \in 1 .. MaxLines /\ lineCount + 1 \in 0 .. MaxLines
    BY <1>7, RoomForLine DEF FormatLine
  <2>3. lines' \in 0 .. MaxLines /\ lineCount' \in 0 .. MaxLines
    BY <1>7, <2>2 DEF FormatLine
  <2>4. line' \in [Writers -> 0 .. MaxLines]
    BY <1>7, <2>2 DEF FormatLine
  <2> QED
    BY <1>7, <2>1, <2>3, <2>4 DEF FormatLine, Places
<1>8. CASE PushBack(w)
  <2>1. pc' \in [Writers -> Places]
    BY <1>8, PcType DEF PushBack, Places
  <2>2. Len(deq) < Capacity /\ line[w] = lines /\ lines # 0
    BY <1>8 DEF PushBack, MutexInv
  <2>3. line[w] \in 1 .. MaxLines
    BY <2>2 DEF LogAssumption
  <2>4. /\ deq' = Append(deq, line[w]) /\ cpc' = Notified(cpc)
        /\ line' = [line EXCEPT ![w] = 0] /\ mtx' = NoOne
    <3>1. Len(deq) \in Nat /\ Capacity \in Nat
      BY LenProperties DEF LogAssumption
    <3>2. ~(Len(deq) >= Capacity)
      BY <2>2, <3>1
    <3> QED
      BY <1>8, <3>2 DEF PushBack
  <2>5. deq' \in Seq(1 .. MaxLines) /\ Len(deq') = Len(deq) + 1 /\ Len(deq) \in Nat
    BY <2>3, <2>4, QueueGrows
  <2>6. Len(deq') <= Capacity
    BY <2>2, <2>5 DEF LogAssumption
  <2>7. line' \in [Writers -> 0 .. MaxLines]
    BY <2>4 DEF LogAssumption
  <2>8. cpc' \in {"pop", "waiting", "woken", "write", "exited"}
    BY <2>4 DEF Notified
  <2> QED
    BY <1>8, <2>1, <2>4, <2>5, <2>6, <2>7, <2>8 DEF PushBack, Places
<1>9. CASE WriteDirectly(w)
  <2>1. pc' \in [Writers -> Places]
    BY <1>9, PcType DEF WriteDirectly, Places
  <2>2. line[w] = lines /\ lines # 0 /\ fp \in Files \ {Closed}
    BY <1>9, FileIsOpen DEF WriteDirectly, MutexInv
  <2>3. line[w] \in 1 .. MaxLines
    BY <2>2 DEF LogAssumption
  <2>4. [line |-> line[w], file |-> fp] \in Entry
    BY <2>2, <2>3 DEF Entry
  <2>5. written' \in Seq(Entry)
    BY <1>9, <2>4, WrittenGrows DEF WriteDirectly
  <2>6. line' \in [Writers -> 0 .. MaxLines] /\ direct' \subseteq 1 .. MaxLines
    <3>1. line' = [line EXCEPT ![w] = 0] /\ direct' = direct \cup {line[w]}
      BY <1>9 DEF WriteDirectly
    <3>2. 0 \in 0 .. MaxLines
      BY DEF LogAssumption
    <3>3. line' \in [Writers -> 0 .. MaxLines]
      BY <3>1, <3>2
    <3>4. direct' \subseteq 1 .. MaxLines
      BY <2>3, <3>1
    <3> QED
      BY <3>3, <3>4
  <2> QED
    BY <1>9, <2>1, <2>5, <2>6 DEF WriteDirectly, Places, Entry
<1>10. CASE Flush(w)
  <2>1. pc' \in [Writers -> Places]
    BY <1>10, PcType DEF Flush, FileFlush, Places
  <2>2. cpc' \in {"pop", "waiting", "woken", "write", "exited"}
    BY <1>10 DEF Flush, FileFlush, Notified
  <2> QED
    BY <1>10, <2>1, <2>2 DEF Flush, FileFlush, Places
<1>11. CASE FileFlush(w)
  <2>1. pc' \in [Writers -> Places]
    BY <1>11, PcType DEF FileFlush, Places
  <2>2. broken' \in BOOLEAN /\ stale' \subseteq Writers
    BY <1>11 DEF FileFlush
  <2> QED
    BY <1>11, <2>1, <2>2 DEF FileFlush, Places
<1> QED
  BY <1>1, <1>2, <1>3, <1>4, <1>5, <1>6, <1>7, <1>8, <1>9, <1>10, <1>11 DEF Writer

LEMMA TypeOthers ==
    ASSUME LogAssumption, TypeOK, ClosedUnderLock, MutexInv, EndInv, OrderInv, ThreadInv,
           Midnight \/ WriteThread \/ SpuriousWakeUp \/ BeginDestructor \/ Destructor
    PROVE  TypeOK'
<1> USE DEF TypeOK, queue, log, output, locals, flushes
<1>1. CASE Midnight
  BY <1>1 DEF Midnight, LogAssumption
<1>2. CASE TakeFront /\ deq # << >>
           /\ UNCHANGED <<flushes, today, isClose, mtx, log, output, pc, locals, opc>>
  <2>1. /\ deq' \in Seq(1 .. MaxLines) /\ Head(deq) \in 1 .. MaxLines
        /\ Len(deq) \in Nat \ {0} /\ Len(deq') = Len(deq) - 1
    BY <1>2, QueueShrinks DEF TakeFront
  <2>2. Len(deq') <= Capacity
    BY <2>1 DEF LogAssumption
  <2>3. held' \in 0 .. MaxLines /\ cpc' = "write"
    BY <1>2, <2>1 DEF TakeFront
  <2> QED
    BY <1>2, <2>1, <2>2, <2>3
<1>3. CASE Pop
  BY <1>2, <1>3 DEF Pop
<1>4. CASE PopAfterWait
  BY <1>2, <1>4 DEF PopAfterWait
<1>5. CASE AsyncWrite
  <2>1. held # 0 /\ fp \in Files \ {Closed}
    BY <1>5, FileIsOpen DEF AsyncWrite, ThreadInv
  <2>2. held \in 1 .. MaxLines /\ 0 \in 0 .. MaxLines
    BY <2>1 DEF LogAssumption
  <2>3. [line |-> held, file |-> fp] \in Entry
    BY <2>1, <2>2 DEF Entry
  <2>4. written' \in Seq(Entry)
    BY <1>5, <2>3, WrittenGrows DEF AsyncWrite
  <2> QED
    BY <1>5, <2>2, <2>4 DEF AsyncWrite, Entry
<1>6. CASE SpuriousWakeUp
  BY <1>6 DEF SpuriousWakeUp
<1>7. CASE BeginDestructor
  BY <1>7 DEF BeginDestructor
<1>8. CASE Drain
  <2>1. cpc' \in {"pop", "waiting", "woken", "write", "exited"}
    BY <1>8 DEF Drain, Notified
  <2> QED
    BY <1>8, <2>1 DEF Drain
<1>9. CASE CloseQueue
  <2>1. << >> \in Seq(1 .. MaxLines) /\ Len(<< >>) = 0
    BY EmptySeq
  <2>2. deq' \in Seq(1 .. MaxLines) /\ Len(deq') = 0
    BY <1>9, <2>1, Zenon DEF CloseQueue
  <2>3. Len(deq') <= Capacity
    BY <2>2 DEF LogAssumption
  <2> QED
    BY <1>9, <2>2, <2>3 DEF CloseQueue
<1>10. CASE NotifyAll
  BY <1>10 DEF NotifyAll, Notified
<1>11. CASE Join
  BY <1>11, NamesOfFiles DEF Join
<1> QED
  BY <1>1, <1>3, <1>4, <1>5, <1>6, <1>7, <1>8, <1>9, <1>10, <1>11 DEF WriteThread, Destructor
-----------------------------------------------------------------------------
(* The mutex, the files and the threads.                                   *)

\* The write thread and the destructor leave the writers and the mutex alone.
LEMMA WritersKept ==
    ASSUME Midnight \/ WriteThread \/ SpuriousWakeUp \/ BeginDestructor \/ Destructor
    PROVE  UNCHANGED <<mtx, pc, day, newFile, line, lines, lineCount>>
BY DEF Midnight, WriteThread, Pop, PopAfterWait, TakeFront, AsyncWrite, SpuriousWakeUp,
   BeginDestructor, Destructor, Drain, CloseQueue, NotifyAll, Join, log, locals

LEMMA MutexWriter ==
    ASSUME LogAssumption, TypeOK, MutexInv, PushNeverWaits, NEW w \in Writers,
           Write(w) \/ Writer(w)
    PROVE  MutexInv'
<1> USE DEF TypeOK, queue, log, output, locals, flushes
<1>0. NoOne \notin Writers
  BY DEF LogAssumption
<1>1. ASSUME pc[w] \notin {"reopen", "push", "direct"}, UNCHANGED <<mtx, line, lines, deq>>,
             NEW s \in {"check", "name", "format", "reset", "close", "flush", "fflush", "idle"},
             pc' = [pc EXCEPT ![w] = s]
      PROVE  MutexInv'
  BY <1>1 DEF MutexInv
<1>2. CASE Write(w) \/ ChooseName(w) \/ ResetCount(w) \/ Flush(w) \/ FileFlush(w)
  <2>1. pc[w] \notin {"reopen", "push", "direct"} /\ UNCHANGED <<mtx, line, lines, deq>>
    BY <1>2 DEF Write, ChooseName, ResetCount, Flush, FileFlush
  <2>2. \E s \in {"check", "name", "format", "reset", "close", "flush", "fflush", "idle"} :
            pc' = [pc EXCEPT ![w] = s]
    BY <1>2 DEF Write, ChooseName, ResetCount, Flush, FileFlush
  <2> QED
    BY <1>1, <2>1, <2>2
<1>3. CASE CheckFile(w)
  <2>1. pc[w] \notin {"reopen", "push", "direct"} /\ UNCHANGED <<mtx, line, lines, deq>>
    BY <1>3 DEF CheckFile
  <2>2. \E s \in {"name", "format"} : pc' = [pc EXCEPT ![w] = s]
    BY <1>3 DEF CheckFile
  <2> QED
    BY <1>1, <2>1, <2>2
<1>4. CASE CloseFile(w)
  <2>1. /\ mtx = NoOne /\ mtx' = w /\ UNCHANGED <<line, lines, deq>>
        /\ pc[w] = "close" /\ pc' = [pc EXCEPT ![w] = "reopen"]
    BY <1>4 DEF CloseFile
  <2> QED
    BY <1>0, <2>1 DEF MutexInv
<1>5. CASE ReopenFile(w)
  <2>1. /\ mtx' = NoOne /\ UNCHANGED <<line, lines, deq>>
        /\ pc[w] = "reopen" /\ pc' = [pc EXCEPT ![w] = "format"]
    BY <1>5 DEF ReopenFile
  <2>2. mtx = w
    BY <2>1 DEF MutexInv
  <2> QED
    BY <1>0, <2>1, <2>2 DEF MutexInv
<1>6. CASE FormatLine(w)
  <2>1. /\ mtx = NoOne /\ mtx' = w /\ deq' = deq /\ lines' = lines + 1
        /\ line' = [line EXCEPT ![w] = lines + 1] /\ pc[w] = "format"
    BY <1>6 DEF FormatLine
  <2>2. \/ pc' = [pc EXCEPT ![w] = "push"] /\ Len(deq) < Capacity
        \/ pc' = [pc EXCEPT ![w] = "direct"]
    BY <1>6 DEF FormatLine
  <2>3. \A v \in Writers : pc[v] \notin {"reopen", "push", "direct"} /\ line[v] = 0
    BY <1>0, <2>1 DEF MutexInv
  <2>4. lines + 1 # 0
    OBVIOUS
  <2>5. \A v \in Writers : /\ v # w => pc'[v] = pc[v] /\ line'[v] = 0
                           /\ v = w => pc'[v] \in {"push", "direct"} /\ line'[v] = lines'
    BY <2>1, <2>2, <2>3
  <2>6. \A v \in Writers : pc'[v] \in {"reopen", "push", "direct"} <=> v = w
    BY <2>3, <2>5
  <2>7. \A v \in Writers : pc'[v] = "push" => Len(deq) < Capacity
    BY <2>2, <2>3
  <2> QED
    BY <2>1, <2>3, <2>4, <2>5, <2>6, <2>7 DEF MutexInv
<1>7. CASE PushBack(w) \/ WriteDirectly(w)
  <2>1. pc[w] \in {"push", "direct"} /\ mtx = w
    BY <1>7 DEF PushBack, WriteDirectly, MutexInv
  <2>2. lines' = lines /\ pc' = [pc EXCEPT ![w] = "flush"] /\ mtx' = NoOne
        /\ line' = [line EXCEPT ![w] = 0]
    <3>1. CASE PushBack(w)
      <4>1. pc' # [pc EXCEPT ![w] = "blocked"]
        <5>1. Len(deq) \in Nat /\ Capacity \in Nat /\ Len(deq) < Capacity
          BY <3>1, LenProperties DEF PushBack, MutexInv, LogAssumption
        <5>2. pc' = [pc EXCEPT ![w] = "flush"]
          BY <3>1, <5>1 DEF PushBack
        <5> QED
          BY <5>2
      <4> QED
        BY <3>1, <4>1 DEF PushBack
    <3> QED
      BY <1>7, <3>1 DEF WriteDirectly
  <2>3. \A v \in Writers : v # w => pc[v] \notin {"reopen", "push", "direct"}
    BY <2>1 DEF MutexInv
  <2>4. \A v \in Writers : pc'[v] \notin {"reopen", "push", "direct"} /\ line'[v] = 0
    BY <2>2, <2>3 DEF MutexInv
  <2> QED
    BY <1>0, <2>2, <2>4 DEF MutexInv
<1> QED
  BY <1>2, <1>3, <1>4, <1>5, <1>6, <1>7 DEF Writer

\* Nobody else makes the queue longer.
LEMMA MutexOthers ==
    ASSUME LogAssumption, TypeOK, MutexInv, OrderInv,
           Midnight \/ WriteThread \/ SpuriousWakeUp \/ BeginDestructor \/ Destructor
    PROVE  MutexInv'
<1>1. UNCHANGED <<mtx, pc, line, lines>>
  BY WritersKept
<1>2. Len(deq') <= Len(deq) /\ Len(deq') \in Nat /\ Len(deq) \in Nat
  <2>1. Len(deq) \in Nat
    BY LenProperties DEF TypeOK
  <2>2. deq' = deq \/ (deq # << >> /\ deq' = Tail(deq)) \/ deq' = << >>
    BY DEF Midnight, WriteThread, Pop, PopAfterWait, TakeFront, AsyncWrite, SpuriousWakeUp,
       BeginDestructor, Destructor, Drain, CloseQueue, NotifyAll, Join, queue
  <2>3. CASE deq # << >> /\ deq' = Tail(deq)
    BY <2>1, <2>3, QueueShrinks
  <2>4. CASE deq' = << >>
    <3>1. Len(<< >>) = 0
      BY EmptySeq
    <3>2. Len(deq') = 0
      BY <2>4, <3>1, Zenon
    <3> QED
      BY <2>1, <3>2
  <2> QED
    BY <2>1, <2>2, <2>3, <2>4
<1>3. \A w \in Writers : pc'[w] = "push" => Len(deq') < Capacity
  BY <1>1, <1>2 DEF MutexInv, LogAssumption
<1> QED
  BY <1>1, <1>3 DEF MutexInv

LEMMA EndStep ==
    ASSUME LogAssumption, TypeOK, MutexInv, EndInv, [Next]_vars
    PROVE  EndInv'
<1> USE DEF TypeOK, queue, log, output, locals, flushes
<1>1. CASE UNCHANGED vars
  BY <1>1 DEF vars, EndInv
<1>2. ASSUME NEW w \in Writers, Write(w) \/ Writer(w) PROVE EndInv'
  <2>1. opc' = opc /\ opc = "open"
    <3>1. pc[w] # "idle" \/ opc = "open"
      BY <1>2 DEF Write, Writer, CheckFile, ChooseName, ResetCount, CloseFile, ReopenFile,
         FormatLine, PushBack, WriteDirectly, Flush, FileFlush
    <3>2. opc' = opc
      BY <1>2 DEF Write, Writer, CheckFile, ChooseName, ResetCount, CloseFile, ReopenFile,
         FormatLine, PushBack, WriteDirectly, Flush, FileFlush
    <3> QED
      BY <3>1, <3>2 DEF EndInv
  <2> QED
    BY <2>1 DEF EndInv
<1>3. CASE Midnight \/ SpuriousWakeUp
  BY <1>3 DEF Midnight, SpuriousWakeUp, EndInv
<1>4. CASE WriteThread
  <2>1. UNCHANGED <<pc, opc>> /\ cpc # "exited"
    BY <1>4 DEF WriteThread, Pop, PopAfterWait, AsyncWrite
  <2>2. deq' = deq \/ deq # << >>
    BY <1>4 DEF WriteThread, Pop, PopAfterWait, AsyncWrite
  <2> QED
    BY <2>1, <2>2 DEF EndInv
<1>5. CASE BeginDestructor
  BY <1>5 DEF BeginDestructor, EndInv
<1>6. CASE Destructor
  BY <1>6 DEF Destructor, Drain, CloseQueue, NotifyAll, Join, EndInv
<1> QED
  BY <1>1, <1>2, <1>3, <1>4, <1>5, <1>6 DEF Next

LEMMA ThreadStep ==
    ASSUME LogAssumption, TypeOK, OrderInv, ThreadInv, [Next]_vars
    PROVE  ThreadInv'
<1> USE DEF TypeOK, queue, log, output, locals, flushes
<1>1. CASE UNCHANGED vars
  BY <1>1 DEF vars, ThreadInv
<1>2. ASSUME held' = held, cpc' = cpc \/ cpc' = Notified(cpc) PROVE ThreadInv'
  BY <1>2 DEF ThreadInv, Notified
<1>3. ASSUME NEW w \in Writers, Write(w) \/ Writer(w)
      PROVE  held' = held /\ (cpc' = cpc \/ cpc' = Notified(cpc))
  BY <1>3 DEF Write, Writer, CheckFile, ChooseName, ResetCount, CloseFile, ReopenFile,
     FormatLine, PushBack, WriteDirectly, Flush, FileFlush
<1>4. CASE Midnight \/ BeginDestructor \/ Destructor
  <2>1. held' = held /\ (cpc' = cpc \/ cpc' = Notified(cpc))
    BY <1>4 DEF Midnight, BeginDestructor, Destructor, Drain, CloseQueue, NotifyAll, Join
  <2> QED
    BY <1>2, <2>1
<1>5. CASE SpuriousWakeUp
  BY <1>5 DEF SpuriousWakeUp, ThreadInv
<1>6. CASE deq # << >> /\ TakeFront
  <2>1. Head(deq) \in 1 .. MaxLines
    BY <1>6, QueueShrinks DEF TakeFront
  <2> QED
    BY <1>6, <2>1 DEF TakeFront, ThreadInv
<1>7. CASE Pop \/ PopAfterWait \/ AsyncWrite
  BY <1>6, <1>7 DEF Pop, PopAfterWait, AsyncWrite, ThreadInv
<1> QED
  BY <1>1, <1>2, <1>3, <1>4, <1>5, <1>7 DEF Next, WriteThread

LEMMA FileStep ==
    ASSUME LogAssumption, TypeOK, FileInv, [Next]_vars
    PROVE  FileInv'
<1> USE DEF TypeOK, queue, log, output, locals, flushes
<1>1. CASE UNCHANGED vars
  BY <1>1 DEF vars, FileInv
<1>2. CASE Midnight \/ WriteThread \/ SpuriousWakeUp \/ BeginDestructor \/ Destructor
  <2>1. UNCHANGED <<pc, day, newFile>>
    BY <1>2, WritersKept
  <2> QED
    BY <2>1 DEF FileInv
<1>3. ASSUME NEW w \in Writers, Write(w) PROVE FileInv'
  BY <1>3 DEF Write, FileInv
<1>4. ASSUME NEW w \in Writers, ChooseName(w) PROVE FileInv'
  <2>1. day[w] \in 1 .. Days
    BY <1>4 DEF ChooseName, FileInv
  <2>2. \A d \in 1 .. Days : DailyName(d) # Closed /\ \A k : PartName(d, k) # Closed
    <3>1. \A d \in 1 .. Days : DailyName(d) # Closed
      BY NamesOfFiles
    <3>2. ASSUME NEW d \in 1 .. Days, NEW k PROVE PartName(d, k) # Closed
      <4>1. PartName(d, k).day # Closed.day
        BY DEF PartName, Closed
      <4> QED
        BY <4>1
    <3> QED
      BY <3>1, <3>2
  <2>3. \E f : newFile' = [newFile EXCEPT ![w] = f] /\ f # Closed
    <3>1. CASE toDay # day[w]
      BY <1>4, <2>1, <2>2, <3>1 DEF ChooseName
    <3>2. CASE toDay = day[w]
      BY <1>4, <2>1, <2>2, <3>2 DEF ChooseName
    <3> QED
      BY <3>1, <3>2
  <2>4. pc' = [pc EXCEPT ![w] = "reset"] \/ pc' = [pc EXCEPT ![w] = "close"]
    BY <1>4 DEF ChooseName
  <2>5. day' = day
    BY <1>4 DEF ChooseName
  <2> QED
    BY <2>1, <2>3, <2>4, <2>5 DEF FileInv
<1>5. ASSUME NEW w \in Writers, Writer(w), ~ChooseName(w) PROVE FileInv'
  <2>1. day' = day /\ newFile' = newFile /\ pc[w] # "idle"
    BY <1>5 DEF Writer, CheckFile, ResetCount, CloseFile, ReopenFile,
       FormatLine, PushBack, WriteDirectly, Flush, FileFlush
  <2>2. \E s \in Places : /\ pc' = [pc EXCEPT ![w] = s]
                          /\ s \in {"reset", "close", "reopen"}
                                => pc[w] \in {"reset", "close", "reopen"}
    BY <1>5 DEF Writer, CheckFile, ResetCount, CloseFile, ReopenFile,
       FormatLine, PushBack, WriteDirectly, Flush, FileFlush, Places
  <2> QED
    BY <2>1, <2>2 DEF FileInv
<1> QED
  BY <1>1, <1>2, <1>3, <1>4, <1>5 DEF Next

\* The guard of Write counts the threads that are already at a line.
LEMMA CountStep ==
    ASSUME LogAssumption, TypeOK, CountInv, [Next]_vars
    PROVE  CountInv'
<1> USE DEF TypeOK, queue, log, output, locals, flushes
<1>0. IsFiniteSet(Writers) /\ IsFiniteSet(Before) /\ Cardinality(Before) \in Nat /\ MaxLines \in Nat
  BY FS_Subset, FS_CardinalityType DEF LogAssumption, Before
<1>1. ASSUME UNCHANGED <<lineCount, lines>>, Before' \subseteq Before PROVE CountInv'
  <2>1. Cardinality(Before') \in Nat /\ Cardinality(Before') <= Cardinality(Before)
    BY <1>0, <1>1, FS_Subset, FS_CardinalityType
  <2> QED
    BY <1>0, <1>1, <2>1 DEF CountInv
<1>2. CASE UNCHANGED vars
  <2>1. UNCHANGED <<lineCount, lines>> /\ Before' = Before
    BY <1>2 DEF vars, Before
  <2> QED
    BY <1>1, <2>1
<1>3. CASE Midnight \/ WriteThread \/ SpuriousWakeUp \/ BeginDestructor \/ Destructor
  <2>1. UNCHANGED <<lineCount, lines, pc>>
    BY <1>3, WritersKept
  <2>2. Before' = Before
    BY <2>1 DEF Before
  <2> QED
    BY <1>1, <2>1, <2>2
<1>4. ASSUME NEW w \in Writers, Write(w) PROVE CountInv'
  <2> DEFINE Busy == {v \in Writers : pc[v] # "idle"}
  <2>1. UNCHANGED <<lineCount, lines>> /\ lines + Cardinality(Busy) < MaxLines
    BY <1>4 DEF Write
  <2>2. Before' \subseteq Before \cup {w} /\ Before \subseteq Busy
    BY <1>4 DEF Write, Before
  <2>3. /\ IsFiniteSet(Busy) /\ Cardinality(Busy) \in Nat
        /\ Cardinality(Before) <= Cardinality(Busy)
    BY <1>0, <2>2, FS_Subset, FS_CardinalityType
  <2>4. /\ IsFiniteSet(Before \cup {w})
        /\ Cardinality(Before \cup {w}) \in Nat
        /\ Cardinality(Before \cup {w}) <= Cardinality(Before) + 1
    <3>1. /\ IsFiniteSet(Before \cup {w})
          /\ \/ Cardinality(Before \cup {w}) = Cardinality(Before)
             \/ Cardinality(Before \cup {w}) = Cardinality(Before) + 1
      BY <1>0, FS_AddElement
    <3> QED
      BY <1>0, <3>1
  <2>5. Cardinality(Before') \in Nat /\ Cardinality(Before') <= Cardinality(Before) + 1
    BY <1>0, <2>2, <2>4, FS_Subset, FS_CardinalityType
  <2> HIDE DEF Busy
  <2> QED
    BY <1>0, <2>1, <2>3, <2>5 DEF CountInv
<1>5. ASSUME NEW w \in Writers, FormatLine(w) PROVE CountInv'
  <2>1. lineCount' = lineCount + 1 /\ lines' = lines + 1
    BY <1>5 DEF FormatLine
  <2>2. w \in Before /\ Before' \subseteq Before \ {w}
    BY <1>5 DEF FormatLine, Before
  <2>3. IsFiniteSet(Before \ {w}) /\ Cardinality(Before \ {w}) = Cardinality(Before) - 1
    BY <1>0, <2>2, FS_RemoveElement
  <2>4. Cardinality(Before') \in Nat /\ Cardinality(Before') <= Cardinality(Before) - 1
    BY <1>0, <2>2, <2>3, FS_Subset, FS_CardinalityType
  <2> QED
    BY <1>0, <2>1, <2>4 DEF CountInv
<1>6. ASSUME NEW w \in Writers, ResetCount(w) PROVE CountInv'
  <2>1. lineCount' = 0 /\ lines' = lines /\ Before' = Before
    BY <1>6 DEF ResetCount, Before
  <2> QED
    BY <1>0, <2>1 DEF CountInv
<1>7. ASSUME NEW w \in Writers, Writer(w), ~FormatLine(w), ~ResetCount(w) PROVE CountInv'
  <2>1. UNCHANGED <<lineCount, lines>>
    BY <1>7 DEF Writer, CheckFile, ChooseName, CloseFile, ReopenFile,
       PushBack, WriteDirectly, Flush, FileFlush
  <2>2. Before' \subseteq Before
    BY <1>7 DEF Writer, CheckFile, ChooseName, CloseFile, ReopenFile,
       PushBack, WriteDirectly, Flush, FileFlush, Before
  <2> QED
    BY <1>1, <2>1, <2>2
<1> QED
  BY <1>2, <1>3, <1>4, <1>5, <1>6, <1>7 DEF Next

\* Who closes the file has the mutex; who queues a line wakes the write thread.
LEMMA LockStep ==
    ASSUME LogAssumption, TypeOK, LogInv, MutexInv, EndInv, FileInv, [Next]_vars, MutexInv'
    PROVE  ClosedUnderLock' /\ PushNeverWaits' /\ NoLostWakeUp'
<1> USE DEF TypeOK, LogInv, queue, log, output, locals, flushes
<1>1. CASE UNCHANGED vars
  BY <1>1 DEF vars, ClosedUnderLock, PushNeverWaits, NoLostWakeUp
<1>2. CASE Midnight \/ WriteThread \/ SpuriousWakeUp \/ BeginDestructor \/ Destructor
  <2>1. UNCHANGED <<mtx, pc>>
    BY <1>2, WritersKept
  <2>2. ClosedUnderLock'
    <3>1. (fp' = fp /\ (opc' = "done" <=> opc = "done")) \/ opc' = "done"
      BY <1>2 DEF Midnight, WriteThread, Pop, PopAfterWait, AsyncWrite, SpuriousWakeUp,
         BeginDestructor, Destructor, Drain, CloseQueue, NotifyAll, Join
    <3> QED
      BY <2>1, <3>1 DEF ClosedUnderLock
  <2>3. NoLostWakeUp'
    BY <1>2 DEF Midnight, WriteThread, Pop, PopAfterWait, TakeFront, AsyncWrite, SpuriousWakeUp,
       BeginDestructor, Destructor, Drain, CloseQueue, NotifyAll, Join, Notified, NoLostWakeUp
  <2> QED
    BY <2>1, <2>2, <2>3 DEF PushNeverWaits
<1>3. ASSUME NEW w \in Writers, Write(w) \/ Writer(w)
      PROVE  ClosedUnderLock' /\ PushNeverWaits' /\ NoLostWakeUp'
  <2>1. NoLostWakeUp'
    BY <1>3 DEF Write, Writer, CheckFile, ChooseName, ResetCount, CloseFile, ReopenFile,
       FormatLine, PushBack, WriteDirectly, Flush, FileFlush, Notified, NoLostWakeUp
  <2>2. PushNeverWaits'
    <3>1. pc' # [pc EXCEPT ![w] = "blocked"] /\ \E s \in Places : pc' = [pc EXCEPT ![w] = s]
      <4>1. CASE PushBack(w)
        <5>1. Len(deq) \in Nat /\ Capacity \in Nat /\ Len(deq) < Capacity
          BY <4>1, LenProperties DEF PushBack, MutexInv, LogAssumption
        <5>2. pc' = [pc EXCEPT ![w] = "flush"]
          BY <4>1, <5>1 DEF PushBack
        <5> QED
          BY <5>2 DEF Places
      <4>2. CASE ~PushBack(w)
        BY <1>3, <4>2 DEF Write, Writer, CheckFile, ChooseName, ResetCount, CloseFile, ReopenFile,
           FormatLine, WriteDirectly, Flush, FileFlush, Places
      <4> QED
        BY <4>1, <4>2
    <3> QED
      BY <3>1 DEF PushNeverWaits
  <2>3. ClosedUnderLock'
    <3>1. CASE CloseFile(w)
      <4>1. mtx' = w /\ pc'[w] = "reopen"
        BY <3>1 DEF CloseFile
      <4>2. w # NoOne
        BY DEF LogAssumption
      <4> QED
        BY <4>1, <4>2 DEF ClosedUnderLock
    <3>2. CASE ReopenFile(w)
      BY <3>2 DEF ReopenFile, FileInv, ClosedUnderLock
    <3>3. CASE ~CloseFile(w) /\ ~ReopenFile(w)
      <4>1. fp' = fp /\ opc' = opc
        BY <1>3, <3>3 DEF Write, Writer, CheckFile, ChooseName, ResetCount,
           FormatLine, PushBack, WriteDirectly, Flush, FileFlush
      <4>2. pc[w] # "reopen" /\ \A v \in Writers : v # w => pc'[v] = pc[v]
        BY <1>3, <3>3 DEF Write, Writer, CheckFile, ChooseName, ResetCount,
           FormatLine, PushBack, WriteDirectly, Flush, FileFlush
      <4>3. ASSUME fp = Closed, opc # "done" PROVE mtx' # NoOne /\ pc'[mtx'] = "reopen"
        <5>1. mtx \in Writers /\ pc[mtx] = "reopen" /\ mtx # w
          BY <4>2, <4>3 DEF ClosedUnderLock
        <5>2. pc'[mtx] = "reopen"
          BY <4>2, <5>1
        <5>3. mtx' = mtx
          BY <5>1, <5>2 DEF MutexInv
        <5> QED
          BY <5>1, <5>2, <5>3 DEF ClosedUnderLock
      <4> QED
        BY <4>1, <4>3 DEF ClosedUnderLock
    <3> QED
      BY <3>1, <3>2, <3>3
  <2> QED
    BY <2>1, <2>2, <2>3
<1> QED
  BY <1>1, <1>2, <1>3 DEF Next

LEMMA FullFile ==
    ASSUME NEW a \in Nat \ {0}, NEW b \in Nat \ {0}, a % b = 0
    PROVE  a >= b
OBVIOUS

\* A flush meets a closed FILE only beside a thread that changes the file, and
\* that happens after a midnight or a full file only.
LEMMA RotationStep ==
    ASSUME LogAssumption, TypeOK, ClosedUnderLock, FlushMeetsRotation, EndInv, FileInv, CountInv,
           RotationInv, [Next]_vars, TypeOK'
    PROVE  RotationInv' /\ FlushMeetsRotation'
<1> USE DEF queue, log, output, locals, flushes
<1>0. /\ today \in Nat /\ today' \in Nat /\ toDay \in 1 .. Days /\ lines \in Nat /\ lines' \in Nat
      /\ lineCount \in Nat /\ day \in [Writers -> 0 .. Days] /\ MAX_LINES \in Nat \ {0}
      /\ Days \in Nat /\ pc \in [Writers -> Places]
  <2>1. /\ today \in 1 .. Days /\ toDay \in 1 .. Days /\ lines \in 0 .. MaxLines
        /\ lineCount \in 0 .. MaxLines /\ day \in [Writers -> 0 .. Days]
        /\ pc \in [Writers -> Places]
    BY DEF TypeOK, Places
  <2>2. today' \in 1 .. Days /\ lines' \in 0 .. MaxLines
    BY DEF TypeOK
  <2>3. Days \in Nat /\ MaxLines \in Nat /\ MAX_LINES \in Nat \ {0}
    BY DEF LogAssumption
  <2> QED
    BY <2>1, <2>2, <2>3
<1>1. CASE UNCHANGED vars
  BY <1>1 DEF vars, RotationInv, Rotated, FlushMeetsRotation
<1>2. CASE Midnight \/ WriteThread \/ SpuriousWakeUp \/ BeginDestructor \/ Destructor
  <2>1. UNCHANGED <<pc, day, lines>>
    BY <1>2, WritersKept
  <2>2. /\ UNCHANGED <<stale, broken, toDay>>
        /\ today' = today \/ today' = today + 1
    BY <1>2 DEF Midnight, WriteThread, Pop, PopAfterWait, AsyncWrite, SpuriousWakeUp,
       BeginDestructor, Destructor, Drain, CloseQueue, NotifyAll, Join
  <2>3. today <= today' /\ (Rotated => Rotated')
    BY <1>0, <2>1, <2>2 DEF Rotated
  <2>4. \A w \in Writers : day[w] \in Nat
    BY <1>0
  <2>5. RotationInv'
    BY <1>0, <2>1, <2>2, <2>3, <2>4 DEF RotationInv
  <2>6. FlushMeetsRotation'
    BY <2>2, <2>3 DEF FlushMeetsRotation, Rotated
  <2> QED
    BY <2>5, <2>6
<1>3. ASSUME NEW w \in Writers, Write(w) \/ Writer(w)
      PROVE  RotationInv' /\ FlushMeetsRotation'
  <2>1. today' = today /\ (lines' = lines \/ lines' = lines + 1)
    BY <1>3 DEF Write, Writer, CheckFile, ChooseName, ResetCount, CloseFile, ReopenFile,
       FormatLine, PushBack, WriteDirectly, Flush, FileFlush
  <2>2. Rotated => Rotated'
    BY <1>0, <2>1 DEF Rotated
  <2>3. toDay' <= today /\ \A v \in Writers : day'[v] <= today
    <3>1. CASE Write(w)
      BY <1>0, <3>1 DEF Write, RotationInv
    <3>2. CASE ChooseName(w)
      BY <1>0, <3>2 DEF ChooseName, RotationInv
    <3>3. CASE ~Write(w) /\ ~ChooseName(w)
      <4>1. UNCHANGED <<toDay, day>>
        BY <1>3, <3>3 DEF Writer, CheckFile, ResetCount, CloseFile, ReopenFile,
           FormatLine, PushBack, WriteDirectly, Flush, FileFlush
      <4> QED
        BY <4>1 DEF RotationInv
    <3> QED
      BY <3>1, <3>2, <3>3
  <2>4. \A v \in Writers : pc'[v] \in {"name", "reset", "close", "reopen"} => Rotated
    <3>1. CASE CheckFile(w)
      <4>1. CASE toDay # day[w] \/ (lineCount # 0 /\ lineCount % MAX_LINES = 0)
        <5>1. CASE toDay # day[w]
          <6>1. day[w] \in 1 .. Days
            BY <3>1 DEF CheckFile, FileInv
          <6>2. toDay <= today /\ day[w] <= today
            BY DEF RotationInv
          <6>3. today > 1
            BY <1>0, <5>1, <6>1, <6>2
          <6> QED
            BY <6>3 DEF Rotated
        <5>2. CASE lineCount # 0 /\ lineCount % MAX_LINES = 0
          <6>1. lineCount >= MAX_LINES
            BY <1>0, <5>2, FullFile
          <6>2. lineCount <= lines
            BY DEF CountInv
          <6> QED
            BY <1>0, <6>1, <6>2 DEF Rotated
        <5> QED
          BY <4>1, <5>1, <5>2
      <4>2. CASE ~(toDay # day[w] \/ (lineCount # 0 /\ lineCount % MAX_LINES = 0))
        <5>1. pc' = [pc EXCEPT ![w] = "format"]
          BY <3>1, <4>2 DEF CheckFile
        <5> QED
          BY <1>0, <5>1 DEF RotationInv
      <4> QED
        BY <4>1, <4>2
    <3>2. CASE ~CheckFile(w)
      <4>1. \E s \in Places : /\ pc' = [pc EXCEPT ![w] = s]
                              /\ s \in {"name", "reset", "close", "reopen"}
                                    => pc[w] \in {"name", "reset", "close", "reopen"}
        BY <1>3, <3>2 DEF Write, Writer, ChooseName, ResetCount, CloseFile, ReopenFile,
           FormatLine, PushBack, WriteDirectly, Flush, FileFlush, Places
      <4> QED
        BY <1>0, <4>1 DEF RotationInv
    <3> QED
      BY <3>1, <3>2
  <2>5. RotationInv'
    BY <2>1, <2>2, <2>3, <2>4 DEF RotationInv
  <2>6. FlushMeetsRotation'
    <3>1. ASSUME stale # {} \/ broken PROVE FlushMeetsRotation'
      BY <2>2, <3>1 DEF FlushMeetsRotation, Rotated
    <3>2. ASSUME Rotated, NEW v \in Writers, v # w PROVE FlushMeetsRotation'
      BY <2>2, <3>2 DEF FlushMeetsRotation, Rotated
    <3>3. CASE Flush(w)
      <4>1. CASE fp = Closed
        <5>1. opc # "done"
          BY <3>3 DEF Flush, EndInv
        <5>2. mtx \in Writers /\ pc[mtx] = "reopen"
          BY <4>1, <5>1 DEF ClosedUnderLock, TypeOK
        <5>3. mtx # w
          BY <3>3, <5>2 DEF Flush
        <5>4. Rotated
          BY <5>2 DEF RotationInv
        <5> QED
          BY <3>2, <5>2, <5>3, <5>4
      <4>2. CASE fp # Closed
        <5>1. UNCHANGED <<stale, broken>>
          BY <3>3, <4>2 DEF Flush
        <5> QED
          BY <3>1, <5>1 DEF FlushMeetsRotation
      <4> QED
        BY <4>1, <4>2
    <3>4. CASE CloseFile(w)
      <4>1. CASE \E v \in Writers : pc[v] = "fflush"
        <5>1. PICK v \in Writers : pc[v] = "fflush"
          BY <4>1
        <5>2. v # w /\ Rotated
          BY <3>4, <5>1 DEF CloseFile, RotationInv
        <5> QED
          BY <3>2, <5>2
      <4>2. CASE ~\E v \in Writers : pc[v] = "fflush"
        <5>1. stale' = stale /\ broken' = broken
          BY <3>4, <4>2 DEF CloseFile
        <5> QED
          BY <3>1, <5>1 DEF FlushMeetsRotation
      <4> QED
        BY <4>1, <4>2
    <3>5. CASE FileFlush(w)
      <4>1. stale' # {} \/ broken' => stale # {}
        BY <3>5 DEF FileFlush
      <4> QED
        BY <3>1, <4>1 DEF FlushMeetsRotation
    <3>6. CASE ~Flush(w) /\ ~CloseFile(w) /\ ~FileFlush(w)
      <4>1. UNCHANGED <<stale, broken>>
        BY <1>3, <3>6 DEF Write, Writer, CheckFile, ChooseName, ResetCount, ReopenFile,
           FormatLine, PushBack, WriteDirectly
      <4> QED
        BY <3>1, <4>1 DEF FlushMeetsRotation
    <3> QED
      BY <3>3, <3>4, <3>5, <3>6
  <2> QED
    BY <2>5, <2>6
<1> QED
  BY <1>1, <1>2, <1>3 DEF Next
-----------------------------------------------------------------------------
(* The places of the lines and their order.                                *)

\* A line that goes from one place to the next is still in one place.
LEMMA LineMoves ==
    ASSUME NEW S, NEW F, NEW Q, NEW H, NEW P, Partition(S, F, Q, H, P), NEW n
    PROVE  /\ n \notin S => Partition(S \cup {n}, F, Q, H, P \cup {n})
           /\ n \in P => Partition(S, F, Q \cup {n}, H, P \ {n})
           /\ n \in P => Partition(S, F \cup {n}, Q, H, P \ {n})
           /\ n \in Q => Partition(S, F, Q \ {n}, H \cup {n}, P)
           /\ n \in H => Partition(S, F \cup {n}, Q, H \ {n}, P)
<1>1. n \notin S => Partition(S \cup {n}, F, Q, H, P \cup {n})
  BY DEF Partition
<1>2. n \in P => Partition(S, F, Q \cup {n}, H, P \ {n})
  BY DEF Partition
<1>3. n \in P => Partition(S, F \cup {n}, Q, H, P \ {n})
  BY DEF Partition
<1>4. n \in Q => Partition(S, F, Q \ {n}, H \cup {n}, P)
  BY DEF Partition
<1>5. n \in H => Partition(S, F \cup {n}, Q, H \ {n}, P)
  BY DEF Partition
<1> QED
  BY <1>1, <1>2, <1>3, <1>4, <1>5

\* A thread that holds the mutex for a line has the last one, and nobody else has any.
LEMMA WithWriter ==
    ASSUME TypeOK, MutexInv, NEW w \in Writers
    PROVE  /\ pc[w] \in {"push", "direct"} => With = {lines} /\ lines \in 1 .. MaxLines
           /\ mtx \notin Writers => With = {}
<1>1. ASSUME pc[w] \in {"push", "direct"} PROVE With = {lines} /\ lines \in 1 .. MaxLines
  <2>1. lines # 0 /\ line[w] = lines
    BY <1>1 DEF MutexInv
  <2>2. lines \in 1 .. MaxLines
    BY <2>1, LineTypes
  <2>3. \A v \in Writers : v # w => line[v] = 0
    BY <1>1 DEF MutexInv
  <2>4. \A n \in 1 .. MaxLines : n # 0
    OBVIOUS
  <2> QED
    BY <2>1, <2>2, <2>3, <2>4 DEF With
<1>2. ASSUME mtx \notin Writers PROVE With = {}
  <2>1. \A v \in Writers : line[v] = 0
    BY <1>2 DEF MutexInv
  <2>2. \A n \in 1 .. MaxLines : n # 0
    OBVIOUS
  <2> QED
    BY <2>1, <2>2 DEF With
<1> QED
  BY <1>1, <1>2

LEMMA PlacesKept ==
    ASSUME PlaceInv, OrderInv, UNCHANGED <<lines, written, direct, deq, held, line>>
    PROVE  PlaceInv' /\ OrderInv'
<1>1. InFile' = InFile /\ Queued' = Queued /\ Popped' = Popped /\ With' = With
  BY DEF InFile, Queued, Popped, With
<1>2. PlaceInv'
  BY <1>1 DEF PlaceInv
<1>3. OrderInv'
  BY <1>1 DEF OrderInv
<1> QED
  BY <1>2, <1>3

LEMMA FormatPlaces ==
    ASSUME LogAssumption, TypeOK, CountInv, MutexInv, PlaceInv, OrderInv, NEW w \in Writers, FormatLine(w)
    PROVE  PlaceInv' /\ OrderInv'
<1> USE DEF queue, log, output, locals
<1>1. /\ lines' = lines + 1 /\ line' = [line EXCEPT ![w] = lines + 1]
      /\ UNCHANGED <<written, direct, deq, held>> /\ mtx = NoOne
  BY DEF FormatLine
<1>2. InFile' = InFile /\ Queued' = Queued /\ Popped' = Popped
  BY <1>1 DEF InFile, Queued, Popped
<1>3. lines + 1 \in 1 .. MaxLines
  BY RoomForLine DEF FormatLine
<1>4. With = {} /\ With' = {lines + 1}
  <2>1. With = {}
    BY <1>1, WithWriter DEF LogAssumption
  <2>2. \A v \in Writers : line[v] = 0
    BY <1>1 DEF MutexInv, LogAssumption
  <2>3. \A n \in 1 .. MaxLines : n # 0
    OBVIOUS
  <2>4. \A v \in Writers : line'[v] = IF v = w THEN lines + 1 ELSE 0
    BY <1>1, <2>2, LineTypes
  <2> QED
    BY <1>3, <2>1, <2>3, <2>4 DEF With
<1>5. 1 .. (lines + 1) = (1 .. lines) \cup {lines + 1} /\ lines + 1 \notin 1 .. lines
  BY LineTypes
<1>6. Partition((1 .. lines) \cup {lines + 1}, InFile, Queued, Popped, With \cup {lines + 1})
  BY <1>5, LineMoves DEF PlaceInv
<1>7. Partition(1 .. lines', InFile', Queued', Popped', With')
  <2>1. With \cup {lines + 1} = With'
    BY <1>4
  <2> QED
    BY <1>1, <1>2, <1>5, <1>6, <2>1
<1>8. PlaceInv'
  BY <1>1, <1>7 DEF PlaceInv
<1>9. OrderInv'
  BY <1>1, <1>2 DEF OrderInv
<1> QED
  BY <1>8, <1>9

\* What is in a file, in the queue or popped is before the last line, while a
\* thread has that one.
LEMMA LastLine ==
    ASSUME TypeOK, PlaceInv, With = {lines}
    PROVE  /\ \A n \in InFile \cup Queued \cup Popped : n < lines
           /\ \A i \in 1 .. Len(written) : written[i].line \in InFile /\ written[i].line < lines
<1>1. \A n \in InFile \cup Queued \cup Popped : n \in 1 .. lines /\ n # lines
  BY DEF PlaceInv, Partition
<1>2. \A n \in InFile \cup Queued \cup Popped : n < lines
  BY <1>1, LineTypes
<1>3. \A i \in 1 .. Len(written) : written[i].line \in InFile
  BY LineTypes DEF InFile
<1> QED
  BY <1>2, <1>3

LEMMA PushPlaces ==
    ASSUME LogAssumption, TypeOK, MutexInv, PlaceInv, OrderInv, NEW w \in Writers, PushBack(w)
    PROVE  PlaceInv' /\ OrderInv'
<1> USE DEF queue, log, output, locals
<1>1. /\ deq' = Append(deq, line[w]) /\ line' = [line EXCEPT ![w] = 0]
      /\ UNCHANGED <<written, direct, lines, held>> /\ pc[w] = "push"
  <2>1. Len(deq) \in Nat /\ Capacity \in Nat /\ Len(deq) < Capacity
    BY LineTypes DEF PushBack, MutexInv, LogAssumption
  <2> QED
    BY <2>1 DEF PushBack
<1>2. With = {lines} /\ lines \in 1 .. MaxLines /\ line[w] = lines
  BY <1>1, WithWriter DEF MutexInv
<1>3. InFile' = InFile /\ Popped' = Popped
  BY <1>1 DEF InFile, Popped
<1>4. With' = {}
  <2>1. \A v \in Writers : line'[v] = 0
    BY <1>1, LineTypes DEF MutexInv
  <2>2. \A n \in 1 .. MaxLines : n # 0
    OBVIOUS
  <2> QED
    BY <2>1, <2>2 DEF With
<1>5. /\ Len(deq) \in Nat /\ Len(deq') = Len(deq) + 1
      /\ \A i \in 1 .. Len(deq) : deq'[i] = deq[i]
      /\ deq'[Len(deq) + 1] = lines
      /\ Queued' = Queued \cup {lines}
  BY <1>1, <1>2, QueueGrows
<1>6. PlaceInv'
  <2>1. Partition(1 .. lines, InFile, Queued \cup {lines}, Popped, With \ {lines})
    BY <1>2, LineMoves DEF PlaceInv
  <2>2. With \ {lines} = With'
    BY <1>2, <1>4
  <2>3. Partition(1 .. lines', InFile', Queued', Popped', With')
    BY <1>1, <1>3, <1>5, <2>1, <2>2
  <2> QED
    BY <1>1, <2>3 DEF PlaceInv
<1>7. /\ \A n \in InFile \cup Queued \cup Popped : n < lines
      /\ \A i \in 1 .. Len(written) : written[i].line < lines
  BY <1>2, LastLine
<1>8. \A k, l \in 1 .. Len(deq') : k < l => deq'[k] < deq'[l]
  <2> SUFFICES ASSUME NEW k \in 1 .. Len(deq'), NEW l \in 1 .. Len(deq'), k < l
               PROVE  deq'[k] < deq'[l]
    OBVIOUS
  <2>1. k \in 1 .. Len(deq) /\ deq'[k] = deq[k]
    BY <1>5
  <2>2. CASE l \in 1 .. Len(deq)
    BY <1>5, <2>1, <2>2 DEF OrderInv
  <2>3. CASE l = Len(deq) + 1
    <3>1. deq[k] \in 1 .. MaxLines
      BY <2>1, LineTypes
    <3>2. deq[k] \in Queued
      BY <2>1, <3>1 DEF Queued
    <3>3. deq[k] < lines
      BY <1>7, <3>2
    <3> QED
      BY <1>5, <2>1, <2>3, <3>3
  <2>4. l \in 1 .. Len(deq) \/ l = Len(deq) + 1
    BY <1>5, LastIndex
  <2> QED
    BY <2>2, <2>3, <2>4
<1>9. \A n \in Popped', m \in Queued' : n < m
  BY <1>3, <1>5, <1>7 DEF OrderInv
<1>10. \A i \in 1 .. Len(written) : written[i].line \notin direct =>
          /\ \A j \in 1 .. Len(written) : i < j => written[i].line < written[j].line
          /\ \A m \in Queued' \cup Popped' : written[i].line < m
  BY <1>3, <1>5, <1>7 DEF OrderInv
<1>11. OrderInv'
  BY <1>1, <1>8, <1>9, <1>10 DEF OrderInv
<1> QED
  BY <1>6, <1>11

LEMMA DirectPlaces ==
    ASSUME LogAssumption, TypeOK, ClosedUnderLock, MutexInv, EndInv, PlaceInv, OrderInv,
           NEW w \in Writers, WriteDirectly(w)
    PROVE  PlaceInv' /\ OrderInv'
<1> USE DEF queue, log, output, locals
<1> DEFINE e == [line |-> line[w], file |-> fp]
<1>1. /\ written' = Append(written, e) /\ line' = [line EXCEPT ![w] = 0]
      /\ direct' = direct \cup {line[w]}
      /\ UNCHANGED <<deq, lines, held>> /\ pc[w] = "direct"
  BY DEF WriteDirectly
<1>2. With = {lines} /\ lines \in 1 .. MaxLines /\ line[w] = lines
  BY <1>1, WithWriter DEF MutexInv
<1>3. Queued' = Queued /\ Popped' = Popped
  BY <1>1 DEF Queued, Popped
<1>4. With' = {}
  <2>1. \A v \in Writers : line'[v] = 0
    BY <1>1, LineTypes DEF MutexInv
  <2>2. \A n \in 1 .. MaxLines : n # 0
    OBVIOUS
  <2> QED
    BY <2>1, <2>2 DEF With
<1>5. e \in Entry /\ e.line = lines
  BY <1>1, <1>2, FileIsOpen DEF Entry
<1> HIDE DEF e
<1>6. /\ Len(written) \in Nat /\ Len(written') = Len(written) + 1
      /\ \A i \in 1 .. Len(written) : written'[i] = written[i]
      /\ written'[Len(written) + 1].line = lines
      /\ InFile' = InFile \cup {lines}
  BY <1>1, <1>5, WrittenGrows
<1>7. /\ \A n \in InFile \cup Queued \cup Popped : n < lines
      /\ \A i \in 1 .. Len(written) : written[i].line \in InFile /\ written[i].line < lines
  BY <1>2, LastLine
<1>8. \A i \in 1 .. Len(written') :
         \/ i \in 1 .. Len(written) /\ written'[i] = written[i]
         \/ i = Len(written) + 1 /\ written'[i].line = lines
  BY <1>6, LastIndex
<1>9. PlaceInv'
  <2>1. Partition(1 .. lines, InFile \cup {lines}, Queued, Popped, With \ {lines})
    BY <1>2, LineMoves DEF PlaceInv
  <2>2. With \ {lines} = With'
    BY <1>2, <1>4
  <2>3. Partition(1 .. lines', InFile', Queued', Popped', With')
    BY <1>1, <1>3, <1>6, <2>1, <2>2
  <2>4. \A i, j \in 1 .. Len(written') : written'[i].line = written'[j].line => i = j
    <3>1. lines \notin InFile
      BY <1>2 DEF PlaceInv, Partition
    <3>2. \A i \in 1 .. Len(written) : written[i].line # lines
      BY <1>7, <3>1
    <3> QED
      BY <1>8, <3>2 DEF PlaceInv
  <2> QED
    BY <2>3, <2>4 DEF PlaceInv
<1>10. ASSUME NEW i \in 1 .. Len(written'), written'[i].line \notin direct'
       PROVE  /\ \A j \in 1 .. Len(written') : i < j => written'[i].line < written'[j].line
              /\ \A m \in Queued' \cup Popped' : written'[i].line < m
  <2>1. i \in 1 .. Len(written) /\ written'[i] = written[i]
    BY <1>1, <1>2, <1>8, <1>10
  <2>2. written[i].line \notin direct
    BY <1>1, <1>10, <2>1
  <2>3. \A m \in Queued' \cup Popped' : written'[i].line < m
    BY <1>3, <2>1, <2>2 DEF OrderInv
  <2>4. \A j \in 1 .. Len(written') : i < j => written'[i].line < written'[j].line
    BY <1>7, <1>8, <2>1, <2>2 DEF OrderInv
  <2> QED
    BY <2>3, <2>4
<1>11. OrderInv'
  BY <1>1, <1>3, <1>10 DEF OrderInv
<1> QED
  BY <1>9, <1>11

LEMMA TakePlaces ==
    ASSUME LogAssumption, TypeOK, PlaceInv, OrderInv, held = 0, deq # << >>, TakeFront,
           UNCHANGED <<lines, written, direct, line>>
    PROVE  PlaceInv' /\ OrderInv'
<1>1. held' = Head(deq) /\ deq' = Tail(deq)
  BY DEF TakeFront
<1>2. /\ Head(deq) \in 1 .. MaxLines
      /\ Len(deq) \in Nat \ {0} /\ Len(deq') = Len(deq) - 1
      /\ \A i \in 1 .. Len(deq') : deq'[i] = deq[i + 1]
      /\ Queued' = Queued \ {Head(deq)} /\ Head(deq) \in Queued
      /\ \A m \in Queued' : Head(deq) < m
  BY <1>1, QueueShrinks
<1>3. InFile' = InFile /\ With' = With
  BY DEF InFile, With
<1>4. Popped = {} /\ Popped' = {Head(deq)}
  BY <1>1, <1>2 DEF Popped
<1>5. PlaceInv'
  <2>1. Partition(1 .. lines, InFile, Queued \ {Head(deq)}, Popped \cup {Head(deq)}, With)
    BY <1>2, LineMoves DEF PlaceInv
  <2>2. Popped \cup {Head(deq)} = Popped'
    BY <1>4
  <2>3. Partition(1 .. lines', InFile', Queued', Popped', With')
    BY <1>2, <1>3, <2>1, <2>2
  <2> QED
    BY <2>3 DEF PlaceInv
<1>6. \A k, l \in 1 .. Len(deq') : k < l => deq'[k] < deq'[l]
  <2> SUFFICES ASSUME NEW k \in 1 .. Len(deq'), NEW l \in 1 .. Len(deq'), k < l
               PROVE  deq'[k] < deq'[l]
    OBVIOUS
  <2>1. k + 1 \in 1 .. Len(deq) /\ l + 1 \in 1 .. Len(deq) /\ k + 1 < l + 1
    BY <1>2
  <2>2. deq[k + 1] < deq[l + 1]
    BY <2>1 DEF OrderInv
  <2> QED
    BY <1>2, <2>2
<1>7. \A n \in Popped', m \in Queued' : n < m
  BY <1>2, <1>4
<1>8. \A i \in 1 .. Len(written) : written[i].line \notin direct =>
          /\ \A j \in 1 .. Len(written) : i < j => written[i].line < written[j].line
          /\ \A m \in Queued' \cup Popped' : written[i].line < m
  <2>1. Queued' \cup Popped' \subseteq Queued \cup Popped
    BY <1>2, <1>4
  <2> QED
    BY <2>1 DEF OrderInv
<1>9. OrderInv'
  BY <1>6, <1>7, <1>8 DEF OrderInv
<1> QED
  BY <1>5, <1>9

LEMMA ThreadPlaces ==
    ASSUME LogAssumption, TypeOK, ClosedUnderLock, MutexInv, EndInv, ThreadInv, PlaceInv, OrderInv,
           AsyncWrite
    PROVE  PlaceInv' /\ OrderInv'
<1> USE DEF queue, log, output, locals
<1> DEFINE e == [line |-> held, file |-> fp]
<1>1. /\ written' = Append(written, e) /\ held' = 0 /\ cpc = "write" /\ mtx = NoOne
      /\ UNCHANGED <<deq, lines, line, direct>>
  BY DEF AsyncWrite
<1>2. held \in 1 .. MaxLines /\ held # 0
  BY <1>1, LineTypes DEF ThreadInv
<1>3. Queued' = Queued /\ With' = With /\ Popped = {held} /\ Popped' = {}
  BY <1>1, <1>2 DEF Queued, With, Popped
<1>4. e \in Entry /\ e.line = held
  BY <1>1, <1>2, FileIsOpen DEF Entry
<1> HIDE DEF e
<1>5. /\ Len(written) \in Nat /\ Len(written') = Len(written) + 1
      /\ \A i \in 1 .. Len(written) : written'[i] = written[i]
      /\ written'[Len(written) + 1].line = held
      /\ InFile' = InFile \cup {held}
  BY <1>1, <1>4, WrittenGrows
<1>6. \A i \in 1 .. Len(written) : written[i].line \in InFile
  BY LineTypes DEF InFile
<1>7. held \notin InFile
  BY <1>3 DEF PlaceInv, Partition
<1>8. \A i \in 1 .. Len(written') :
         \/ i \in 1 .. Len(written) /\ written'[i] = written[i]
         \/ i = Len(written) + 1 /\ written'[i].line = held
  BY <1>5, LastIndex
<1>9. PlaceInv'
  <2>1. Partition(1 .. lines, InFile \cup {held}, Queued, Popped \ {held}, With)
    BY <1>3, LineMoves DEF PlaceInv
  <2>2. Popped \ {held} = Popped'
    BY <1>3
  <2>3. Partition(1 .. lines', InFile', Queued', Popped', With')
    BY <1>1, <1>3, <1>5, <2>1, <2>2
  <2>4. \A i, j \in 1 .. Len(written') : written'[i].line = written'[j].line => i = j
    BY <1>6, <1>7, <1>8 DEF PlaceInv
  <2> QED
    BY <2>3, <2>4 DEF PlaceInv
<1>10. ASSUME NEW i \in 1 .. Len(written'), written'[i].line \notin direct
       PROVE  /\ \A j \in 1 .. Len(written') : i < j => written'[i].line < written'[j].line
              /\ \A m \in Queued' \cup Popped' : written'[i].line < m
  <2>1. CASE i \in 1 .. Len(written)
    <3>1. written'[i] = written[i]
      BY <1>5, <2>1
    <3>2. /\ \A j \in 1 .. Len(written) : i < j => written[i].line < written[j].line
          /\ \A m \in Queued \cup Popped : written[i].line < m
      BY <1>10, <2>1, <3>1 DEF OrderInv
    <3>3. written[i].line < held
      BY <1>3, <3>2
    <3>4. \A j \in 1 .. Len(written') : i < j => written'[i].line < written'[j].line
      BY <1>8, <3>1, <3>2, <3>3
    <3> QED
      BY <1>3, <3>1, <3>2, <3>4
  <2>2. CASE i = Len(written) + 1
    <3>1. \A j \in 1 .. Len(written') : ~(i < j)
      BY <1>5, <2>2
    <3>2. \A m \in Queued : held < m
      BY <1>3 DEF OrderInv
    <3> QED
      BY <1>3, <1>5, <2>2, <3>1, <3>2
  <2> QED
    BY <1>8, <2>1, <2>2
<1>11. OrderInv'
  <2>1. \A k, l \in 1 .. Len(deq') : k < l => deq'[k] < deq'[l]
    BY <1>1 DEF OrderInv
  <2>2. \A n \in Popped', m \in Queued' : n < m
    BY <1>3
  <2> QED
    BY <1>1, <1>10, <2>1, <2>2 DEF OrderInv
<1> QED
  BY <1>9, <1>11

LEMMA PlaceStep ==
    ASSUME LogAssumption, IInv, [Next]_vars
    PROVE  PlaceInv' /\ OrderInv'
<1>0. /\ TypeOK /\ ClosedUnderLock /\ MutexInv /\ EndInv /\ ThreadInv /\ CountInv
      /\ PlaceInv /\ OrderInv
  BY DEF IInv, LogInv
<1>1. ASSUME NEW w \in Writers, FormatLine(w) PROVE PlaceInv' /\ OrderInv'
  BY <1>0, <1>1, FormatPlaces
<1>2. ASSUME NEW w \in Writers, PushBack(w) PROVE PlaceInv' /\ OrderInv'
  BY <1>0, <1>2, PushPlaces
<1>3. ASSUME NEW w \in Writers, WriteDirectly(w) PROVE PlaceInv' /\ OrderInv'
  BY <1>0, <1>3, DirectPlaces
<1>4. CASE Pop \/ PopAfterWait
  <2>1. held = 0
    BY <1>0, <1>4 DEF Pop, PopAfterWait, ThreadInv
  <2>2. UNCHANGED <<lines, written, direct, line>>
    BY <1>4 DEF Pop, PopAfterWait, log, output, locals
  <2>3. CASE deq # << >> /\ TakeFront
    BY <1>0, <2>1, <2>2, <2>3, TakePlaces
  <2>4. CASE UNCHANGED <<deq, held>>
    BY <1>0, <2>2, <2>4, PlacesKept
  <2> QED
    BY <1>4, <2>3, <2>4 DEF Pop, PopAfterWait
<1>5. CASE AsyncWrite
  BY <1>0, <1>5, ThreadPlaces
<1>6. CASE CloseQueue
  <2>1. UNCHANGED <<lines, written, direct, deq, held, line>>
    BY <1>0, <1>6 DEF CloseQueue, EndInv, log, output, locals
  <2> QED
    BY <1>0, <2>1, PlacesKept
<1>7. CASE \/ UNCHANGED vars \/ Midnight \/ SpuriousWakeUp
           \/ BeginDestructor \/ Drain \/ NotifyAll \/ Join
  <2>1. UNCHANGED <<lines, written, direct, deq, held, line>>
    BY <1>7 DEF vars, Midnight, SpuriousWakeUp, BeginDestructor, Drain, NotifyAll, Join,
       queue, log, output, locals
  <2> QED
    BY <1>0, <2>1, PlacesKept
<1>8. ASSUME NEW w \in Writers,
             \/ Write(w) \/ CheckFile(w) \/ ChooseName(w) \/ ResetCount(w)
             \/ CloseFile(w) \/ ReopenFile(w) \/ Flush(w) \/ FileFlush(w)
      PROVE  PlaceInv' /\ OrderInv'
  <2>1. UNCHANGED <<lines, written, direct, deq, held, line>>
    BY <1>8 DEF Write, CheckFile, ChooseName, ResetCount, CloseFile, ReopenFile, Flush, FileFlush,
       queue, log, output, locals
  <2> QED
    BY <1>0, <2>1, PlacesKept
<1> QED
  BY <1>1, <1>2, <1>3, <1>4, <1>5, <1>6, <1>7, <1>8 DEF Next, Writer, WriteThread, Destructor
-----------------------------------------------------------------------------
(* The invariant.                                                          *)

LEMMA InitInv ==
    ASSUME LogAssumption, Init
    PROVE  IInv
<1>1. /\ deq = << >> /\ written = << >> /\ held = 0 /\ lines = 0 /\ direct = {} /\ lineCount = 0
      /\ \A w \in Writers : pc[w] = "idle" /\ line[w] = 0
      /\ mtx = NoOne /\ cpc = "pop" /\ opc = "open" /\ fp = DailyName(1)
  BY DEF Init
<1>2. /\ deq \in Seq(1 .. MaxLines) /\ Len(deq) = 0
      /\ written \in Seq(Entry) /\ Len(written) = 0
  BY <1>1, EmptySeq, Zenon
<1>3. InFile = {} /\ Queued = {} /\ Popped = {} /\ With = {}
  <2>1. \A n \in 1 .. MaxLines : n # 0
    OBVIOUS
  <2> QED
    BY <1>1, <1>2, <2>1 DEF InFile, Queued, Popped, With
<1>4. 1 \in 1 .. Days /\ DailyName(1) \in Files /\ DailyName(1) # Closed
  <2>1. 1 \in 1 .. Days
    BY DEF LogAssumption
  <2> QED
    BY <2>1, NamesOfFiles
<1>5. TypeOK
  <2>1. /\ today \in 1 .. Days /\ toDay \in 1 .. Days /\ fp \in Files
        /\ lineCount \in 0 .. MaxLines /\ lines \in 0 .. MaxLines /\ held \in 0 .. MaxLines
        /\ Len(deq) <= Capacity
    BY <1>1, <1>2, <1>4 DEF Init, LogAssumption
  <2>2. /\ pc \in [Writers -> Places] /\ newFile \in [Writers -> Files]
        /\ day \in [Writers -> 0 .. Days] /\ line \in [Writers -> 0 .. MaxLines]
    BY NamesOfFiles DEF Init, LogAssumption, Places
  <2>3. /\ isClose \in BOOLEAN /\ mtx \in Writers \cup {NoOne} /\ direct \subseteq 1 .. MaxLines
        /\ stale \subseteq Writers /\ broken \in BOOLEAN
    BY DEF Init
  <2> QED
    BY <1>1, <1>2, <2>1, <2>2, <2>3 DEF TypeOK, Entry, Places
<1>6. ClosedUnderLock /\ PushNeverWaits /\ NoLostWakeUp /\ FlushMeetsRotation
  BY <1>1, <1>4 DEF Init, ClosedUnderLock, PushNeverWaits, NoLostWakeUp, FlushMeetsRotation
<1>7. MutexInv /\ EndInv /\ ThreadInv /\ FileInv /\ RotationInv
  BY <1>1 DEF Init, MutexInv, EndInv, ThreadInv, FileInv, RotationInv, LogAssumption
<1>8. CountInv
  <2>1. Before = {}
    BY <1>1 DEF Before
  <2>2. Cardinality(Before) = 0
    BY <2>1, FS_EmptySet
  <2> QED
    BY <1>1, <2>2 DEF CountInv, LogAssumption
<1>9. PlaceInv
  <2>1. Partition({}, {}, {}, {}, {})
    BY DEF Partition
  <2>2. 1 .. lines = {}
    BY <1>1
  <2>3. Partition(1 .. lines, InFile, Queued, Popped, With)
    BY <1>3, <2>1, <2>2, Zenon
  <2>4. \A i \in 1 .. Len(written) : FALSE
    BY <1>2
  <2> QED
    BY <2>3, <2>4 DEF PlaceInv
<1>10. OrderInv
  BY <1>2, <1>3 DEF OrderInv
<1> QED
  BY <1>5, <1>6, <1>7, <1>8, <1>9, <1>10 DEF IInv, LogInv

LEMMA NextInv ==
    ASSUME LogAssumption, IInv, [Next]_vars
    PROVE  IInv'
<1>0. /\ TypeOK /\ ClosedUnderLock /\ PushNeverWaits /\ NoLostWakeUp /\ FlushMeetsRotation
      /\ MutexInv /\ EndInv /\ ThreadInv /\ FileInv /\ CountInv /\ RotationInv
      /\ PlaceInv /\ OrderInv
  BY DEF IInv, LogInv
<1>1. TypeOK' /\ MutexInv'
  <2>1. CASE UNCHANGED vars
    BY <1>0, <2>1 DEF vars, TypeOK, MutexInv, queue, log, output, locals, flushes
  <2>2. ASSUME NEW w \in Writers, Write(w) \/ Writer(w) PROVE TypeOK' /\ MutexInv'
    BY <1>0, <2>2, TypeWriter, MutexWriter
  <2>3. CASE Midnight \/ WriteThread \/ SpuriousWakeUp \/ BeginDestructor \/ Destructor
    BY <1>0, <2>3, TypeOthers, MutexOthers
  <2> QED
    BY <2>1, <2>2, <2>3 DEF Next
<1>2. EndInv' /\ ThreadInv' /\ FileInv' /\ CountInv'
  BY <1>0, EndStep, ThreadStep, FileStep, CountStep
<1>3. ClosedUnderLock' /\ PushNeverWaits' /\ NoLostWakeUp'
  BY <1>0, <1>1, LockStep DEF LogInv
<1>4. PlaceInv' /\ OrderInv'
  BY PlaceStep
<1>5. RotationInv' /\ FlushMeetsRotation'
  BY <1>0, <1>1, RotationStep
<1> QED
  BY <1>1, <1>2, <1>3, <1>4, <1>5 DEF IInv, LogInv

\* IInv holds in every state: nothing below needs more.
THEOREM AlwaysInv == Spec => []IInv
<1>1. Init => IInv
  BY InitInv, LogAssumption
<1>2. IInv /\ [Next]_vars => IInv'
  BY NextInv, LogAssumption
<1> QED
  BY <1>1, <1>2, PTL DEF Spec

\* The locks and wake-ups of the log hold for any number of threads: a file is
\* closed only under the mutex, push_back never waits with the mutex held, and
\* the write thread does not sleep while lines are queued.
THEOREM LogConsistent == Spec => []LogInv
<1>1. IInv => LogInv
  BY DEF IInv
<1> QED
  BY <1>1, AlwaysInv, PTL

\* A line that passes an earlier one was written by its own thread, because the
\* queue was full.
THEOREM OvertakenOnlyWhenFullAlways == Spec => []OvertakenOnlyWhenFull
<1>1. IInv => OvertakenOnlyWhenFull
  <2> SUFFICES ASSUME TypeOK, OrderInv, NEW i \in 1 .. Len(written), NEW j \in 1 .. Len(written),
                      i < j, written[i].line > written[j].line, written[i].line \notin direct
               PROVE  FALSE
    BY DEF IInv, LogInv, OvertakenOnlyWhenFull
  <2>1. written[i].line < written[j].line
    BY DEF OrderInv
  <2>2. written[i].line \in 1 .. MaxLines /\ written[j].line \in 1 .. MaxLines
    BY LineTypes
  <2> QED
    BY <2>1, <2>2
<1> QED
  BY <1>1, AlwaysInv, PTL
-----------------------------------------------------------------------------
(* Every line is in one place.                                             *)

LEMMA ConcatOnce ==
    ASSUME NEW S, NEW a \in Seq(S), NEW b \in Seq(S),
           IsInjective(a), IsInjective(b), ToSet(a) \cap ToSet(b) = {}
    PROVE  /\ a \o b \in Seq(S)
           /\ IsInjective(a \o b)
           /\ ToSet(a \o b) = ToSet(a) \cup ToSet(b)
<1> DEFINE c == a \o b
<1>1. /\ c \in Seq(S) /\ Len(a) \in Nat /\ Len(b) \in Nat /\ Len(c) = Len(a) + Len(b)
      /\ \A i \in 1 .. Len(c) : c[i] = IF i <= Len(a) THEN a[i] ELSE b[i - Len(a)]
  BY ConcatProperties, LenProperties
<1>2. DOMAIN a = 1 .. Len(a) /\ DOMAIN b = 1 .. Len(b) /\ DOMAIN c = 1 .. Len(c)
  BY <1>1, LenProperties
<1> HIDE DEF c
<1>3. \A i \in 1 .. Len(c) :
         \/ i \in 1 .. Len(a) /\ c[i] = a[i]
         \/ i - Len(a) \in 1 .. Len(b) /\ ~(i <= Len(a)) /\ c[i] = b[i - Len(a)]
  BY <1>1
<1>4. /\ \A i \in 1 .. Len(a) : a[i] \in ToSet(a)
      /\ \A i \in 1 .. Len(b) : b[i] \in ToSet(b)
  BY <1>2 DEF ToSet
<1>5. \A i, j \in 1 .. Len(c) : c[i] = c[j] => i = j
  <2> SUFFICES ASSUME NEW i \in 1 .. Len(c), NEW j \in 1 .. Len(c), c[i] = c[j]
               PROVE  i = j
    OBVIOUS
  <2>1. CASE i \in 1 .. Len(a) /\ c[i] = a[i] /\ j \in 1 .. Len(a) /\ c[j] = a[j]
    BY <1>2, <2>1 DEF IsInjective
  <2>2. ASSUME i - Len(a) \in 1 .. Len(b), c[i] = b[i - Len(a)],
               j - Len(a) \in 1 .. Len(b), c[j] = b[j - Len(a)]
        PROVE  i = j
    <3>1. i - Len(a) = j - Len(a)
      BY <1>2, <2>2 DEF IsInjective
    <3> QED
      BY <1>1, <3>1
  <2>3. ~(c[i] \in ToSet(a) /\ c[j] \in ToSet(b)) /\ ~(c[j] \in ToSet(a) /\ c[i] \in ToSet(b))
    OBVIOUS
  <2> QED
    BY <1>3, <1>4, <2>1, <2>2, <2>3
<1>6. ToSet(c) = ToSet(a) \cup ToSet(b)
  <2>1. ToSet(c) \subseteq ToSet(a) \cup ToSet(b)
    <3>1. \A i \in 1 .. Len(c) : c[i] \in ToSet(a) \cup ToSet(b)
      BY <1>3, <1>4
    <3> QED
      BY <1>2, <3>1 DEF ToSet
  <2>2. ASSUME NEW i \in 1 .. Len(a) PROVE a[i] \in ToSet(c)
    <3>1. i \in 1 .. Len(c) /\ c[i] = a[i]
      BY <1>1
    <3> QED
      BY <1>2, <3>1 DEF ToSet
  <2>3. ASSUME NEW i \in 1 .. Len(b) PROVE b[i] \in ToSet(c)
    <3>1. i + Len(a) \in 1 .. Len(c) /\ ~(i + Len(a) <= Len(a)) /\ (i + Len(a)) - Len(a) = i
      BY <1>1
    <3>2. c[i + Len(a)] = b[i]
      BY <1>1, <3>1
    <3> QED
      BY <1>2, <3>1, <3>2 DEF ToSet
  <2>4. ToSet(a) \subseteq ToSet(c)
    BY <1>2, <2>2 DEF ToSet
  <2>5. ToSet(b) \subseteq ToSet(c)
    BY <1>2, <2>3 DEF ToSet
  <2> QED
    BY <2>1, <2>4, <2>5
<1>7. IsInjective(c)
  BY <1>2, <1>5 DEF IsInjective
<1> QED
  BY <1>1, <1>6, <1>7 DEF c

LEMMA PlacesOnce ==
    ASSUME LogAssumption, TypeOK, PlaceInv, OrderInv
    PROVE  EveryLineOnce
<1> DEFINE files == [i \in 1 .. Len(written) |-> written[i].line]
           popped == IF held = 0 THEN << >> ELSE <<held>>
           with == {line[w] : w \in Writers} \ {0}
<1>1. files \in Seq(1 .. MaxLines) /\ IsInjective(files) /\ ToSet(files) = InFile
  <2>1. Len(written) \in Nat /\ \A i \in 1 .. Len(written) : written[i].line \in 1 .. MaxLines
    BY LineTypes
  <2>2. files \in [1 .. Len(written) -> 1 .. MaxLines]
    BY <2>1
  <2>3. files \in Seq(1 .. MaxLines)
    BY <2>1, <2>2, SeqDef
  <2>4. IsInjective(files)
    BY DEF PlaceInv, IsInjective
  <2>5. ToSet(files) = InFile
    BY <2>1 DEF ToSet, InFile
  <2> QED
    BY <2>3, <2>4, <2>5
<1>2. deq \in Seq(1 .. MaxLines) /\ IsInjective(deq) /\ ToSet(deq) = Queued
  <2>1. /\ deq \in Seq(1 .. MaxLines) /\ Len(deq) \in Nat /\ DOMAIN deq = 1 .. Len(deq)
        /\ \A k \in 1 .. Len(deq) : deq[k] \in 1 .. MaxLines
    BY LineTypes, LenProperties
  <2>2. ASSUME NEW k \in 1 .. Len(deq), NEW l \in 1 .. Len(deq), deq[k] = deq[l] PROVE k = l
    <3>1. ~(deq[k] < deq[l]) /\ ~(deq[l] < deq[k])
      BY <2>1, <2>2
    <3>2. ~(k < l) /\ ~(l < k)
      BY <3>1 DEF OrderInv
    <3> QED
      BY <2>1, <3>2
  <2>3. IsInjective(deq)
    BY <2>1, <2>2 DEF IsInjective
  <2>4. ToSet(deq) = Queued
    BY <2>1 DEF ToSet, Queued
  <2> QED
    BY <2>1, <2>3, <2>4
<1>3. popped \in Seq(1 .. MaxLines) /\ IsInjective(popped) /\ ToSet(popped) = Popped
  <2>1. CASE held = 0
    <3>1. popped = << >>
      BY <2>1
    <3>2. << >> \in Seq(1 .. MaxLines) /\ IsInjective(<< >>) /\ ToSet(<< >>) = {}
      BY EmptySeq DEF IsInjective, ToSet
    <3> QED
      BY <2>1, <3>1, <3>2, Zenon DEF Popped
  <2>2. CASE held # 0
    <3>1. popped = <<held>> /\ held \in 1 .. MaxLines
      BY <2>2, LineTypes
    <3>2. <<held>> \in Seq(1 .. MaxLines) /\ IsInjective(<<held>>) /\ ToSet(<<held>>) = {held}
      BY <3>1 DEF IsInjective, ToSet
    <3> QED
      BY <2>2, <3>1, <3>2, Zenon DEF Popped
  <2> QED
    BY <2>1, <2>2
<1>4. with = With
  BY LineTypes DEF With
<1>5. ToSet(files) \cap ToSet(deq) = {}
  BY <1>1, <1>2 DEF PlaceInv, Partition
<1> HIDE DEF files, popped, with
<1> DEFINE written_deq == files \o deq
           places == written_deq \o popped
<1>6. /\ written_deq \in Seq(1 .. MaxLines) /\ IsInjective(written_deq)
      /\ ToSet(written_deq) = InFile \cup Queued
  BY <1>1, <1>2, <1>5, ConcatOnce
<1> HIDE DEF written_deq
<1>7. ToSet(written_deq) \cap ToSet(popped) = {}
  BY <1>3, <1>6 DEF PlaceInv, Partition
<1>8. IsInjective(places) /\ ToSet(places) = InFile \cup Queued \cup Popped
  <2>1. IsInjective(places) /\ ToSet(places) = ToSet(written_deq) \cup ToSet(popped)
    BY <1>3, <1>6, <1>7, ConcatOnce
  <2> QED
    BY <1>3, <1>6, <2>1
<1> HIDE DEF places
<1>9. ToSet(places) \cap with = {} /\ ToSet(places) \cup with = 1 .. lines
  BY <1>4, <1>8 DEF PlaceInv, Partition
<1> QED
  BY <1>8, <1>9 DEF EveryLineOnce, places, written_deq, files, popped, with

\* Every formatted line is in a file, in the queue, with the write thread or
\* with the thread that logged it, and nowhere twice: rotation, a full queue and
\* the destructor lose nothing.
THEOREM EveryLineOnceAlways == Spec => []EveryLineOnce
<1>1. IInv => EveryLineOnce
  BY LogAssumption, PlacesOnce DEF IInv, LogInv
<1> QED
  BY <1>1, AlwaysInv, PTL
===========================================================================
