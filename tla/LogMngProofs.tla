---------------------------- MODULE LogMngProofs ----------------------------
(***************************************************************************)
(* Theorems about the log manager for every number of callers, every file  *)
(* and queue size, every set of failing calls and any number of crashes.   *)
(***************************************************************************)
EXTENDS LogMngRefinement, FiniteSetTheorems, SequenceTheorems, TLAPS

USE DEF Threads, NoFd, memory, init, bounds

-----------------------------------------------------------------------------
(* Lemmas on headers and files.                                            *)

\* Offsets of slots are natural numbers, and different slots do not share one.
LEMMA SlotOffsets ==
    /\ \A k \in Nat \ {0} : SlotOffset(k) \in Nat
    /\ \A j, k \in Nat \ {0} : SlotOffset(j) = SlotOffset(k) => j = k
<1> USE SizeAssumption DEF SlotOffset
<1>1. \A i, s \in Nat : i * s \in Nat
  OBVIOUS
<1>2. \A k \in Nat \ {0} : SlotOffset(k) \in Nat
  <2>1. TAKE k \in Nat \ {0}
  <2>2. k - 1 \in Nat
    OBVIOUS
  <2>3. (k - 1) * ItemSize \in Nat
    BY <1>1, <2>2
  <2> QED
    BY <2>3
<1>3. ASSUME NEW j \in Nat \ {0}, NEW k \in Nat \ {0}, j < k
      PROVE  SlotOffset(j) # SlotOffset(k)
  <2>1. (k - 1) * ItemSize = (j - 1) * ItemSize + (k - j) * ItemSize
    OBVIOUS
  <2>2. (k - j) * ItemSize > 0
    BY <1>3
  <2>3. (j - 1) * ItemSize \in Int /\ (k - j) * ItemSize \in Int
    OBVIOUS
  <2> QED
    BY <2>1, <2>2, <2>3
<1> QED
  BY <1>2, <1>3

\* A file stays well formed when its header is written.
LEMMA WriteHeadType ==
    ASSUME NEW f, FileType(f), NEW h \in HeadRecord
    PROVE  FileType(WriteHead(f, h))
BY DEF FileType, WriteHead

\* A file stays well formed when an item is written at any offset.
LEMMA WriteItemType ==
    ASSUME NEW f, FileType(f), NEW o \in Nat, NEW m \in Nat
    PROVE  FileType(WriteItemAt(f, o, m))
BY DEF FileType, WriteItemAt, Garbled

\* The headers the program builds are header records.
LEMMA HeadTypes ==
    /\ ZeroHead \in HeadRecord
    /\ NewHead \in HeadRecord
    /\ \A h \in HeadRecord :
          /\ [num |-> h.num + 1, wpos |-> h.wpos + ItemSize] \in HeadRecord
BY SizeAssumption DEF ZeroHead, NewHead, HeadRecord

\* What the scan reads from a header it does not reject is a header record.
LEMMA HeadsReadType ==
    ASSUME NEW f, FileType(f), f.head # Torn
    PROVE  HeadsRead(f.head) \subseteq HeadRecord
BY SizeAssumption DEF FileType, HeadsRead, HeadRecord, Torn, Garbled

\* A file left by an earlier process is well formed.
LEMMA OldFileType ==
    ASSUME NEW n \in Nat
    PROVE  FileType(OldFile(n))
<1> DEFINE MAX == MAX_LOG_ITEMS_PER_FILE
           slot(o) == CHOOSE k \in 1 .. MAX : o = SlotOffset(k)
           offsets == {SlotOffset(k) : k \in 1 .. MAX}
<1>1. MAX \in Nat /\ MAX + 1 \in Nat \ {0}
  BY SizeAssumption
<1>2. ASSUME NEW o \in offsets
      PROVE  o \in Nat /\ slot(o) \in 1 .. MAX
  BY <1>1, SlotOffsets
<1>3. n * MAX \in Nat
  BY <1>1
<1>4. \A o \in offsets : n * MAX + slot(o) \in Nat
  <2> HIDE DEF slot, offsets
  <2> QED
    BY <1>1, <1>2, <1>3
<1>5. SlotOffset(MAX + 1) \in Nat
  BY <1>1, SlotOffsets
<1> QED
  BY <1>1, <1>2, <1>4, <1>5 DEF OldFile, FileType, HeadRecord
-----------------------------------------------------------------------------
(* Type correctness.                                                       *)

LEMMA InitType == Init => TypeOK
<1> SUFFICES ASSUME Init PROVE TypeOK
  OBVIOUS
<1>1. OldItems \in Nat
  <2>1. \A i, j \in Nat : i * j \in Nat
    OBVIOUS
  <2> QED
    BY <2>1, SizeAssumption DEF OldItems
<1>2. IsFiniteSet(0 .. InitFiles - 1)
  BY FS_Interval, SizeAssumption
<1>3. \A n \in DOMAIN disk : FileType(disk[n])
  <2>1. DOMAIN disk \subseteq Nat /\ \A n \in DOMAIN disk : disk[n] = OldFile(n)
    BY DEF Init
  <2> QED
    BY <2>1, OldFileType
<1>4. IsFiniteSet(DOMAIN disk) /\ DOMAIN disk \subseteq Nat
  BY <1>2 DEF Init
<1> QED
  BY <1>1, <1>3, <1>4, HeadTypes, EmptySeq DEF Init, TypeOK, Storing

\* The consumer's steps on the disk keep every file well formed.
LEMMA DiskSteps ==
    ASSUME TypeOK
    PROVE  /\ \A h \in HeadRecord :
                LET d == [disk EXCEPT ![fd] = WriteHead(@, h)]
                IN /\ DOMAIN d = DOMAIN disk
                   /\ \A n \in DOMAIN d : FileType(d[n])
           /\ \A o, m \in Nat :
                LET d == [disk EXCEPT ![fd] = WriteItemAt(@, o, m)]
                IN /\ DOMAIN d = DOMAIN disk
                   /\ \A n \in DOMAIN d : FileType(d[n])
           /\ \A k : LET d == Without(disk, k)
                     IN /\ IsFiniteSet(DOMAIN d)
                        /\ DOMAIN d \subseteq Nat
                        /\ \A n \in DOMAIN d : FileType(d[n])
<1>1. \A n \in DOMAIN disk : FileType(disk[n])
  BY DEF TypeOK
<1>2. ASSUME NEW h \in HeadRecord
      PROVE  \A n \in DOMAIN disk : FileType(WriteHead(disk[n], h))
  BY <1>1, WriteHeadType
<1>3. ASSUME NEW o \in Nat, NEW m \in Nat
      PROVE  \A n \in DOMAIN disk : FileType(WriteItemAt(disk[n], o, m))
  BY <1>1, WriteItemType
<1>4. ASSUME NEW k
      PROVE  IsFiniteSet(DOMAIN disk \ {k}) /\ DOMAIN disk \ {k} \subseteq Nat
  BY FS_RemoveElement DEF TypeOK
<1> QED
  BY <1>1, <1>2, <1>3, <1>4 DEF Without

LEMMA ScanType ==
    ASSUME TypeOK, NEW l \in SortedNames(DOMAIN disk)
    PROVE  /\ l \in Seq(Nat)
           /\ Len(l) \in Nat
           /\ l # << >> => l[Len(l)] \in DOMAIN disk
<1>1. Cardinality(DOMAIN disk) \in Nat
  BY FS_CardinalityType DEF TypeOK
<1>2. l \in [1 .. Cardinality(DOMAIN disk) -> DOMAIN disk]
  BY DEF SortedNames
<1>3. l \in Seq(DOMAIN disk)
  BY <1>1, <1>2
<1>4. l \in Seq(Nat) /\ Len(l) \in Nat
  BY <1>3, SeqMonotonic, LenProperties DEF TypeOK
<1>5. l # << >> => Len(l) \in 1 .. Len(l)
  BY <1>3, EmptySeq
<1> QED
  BY <1>3, <1>4, <1>5, ElementOfSeq

LEMMA TypeStep == TypeOK /\ [Next]_vars => TypeOK'
<1> SUFFICES ASSUME TypeOK, [Next]_vars PROVE TypeOK'
  OBVIOUS
<1>a. /\ accepted \in Nat /\ queue \in Seq(Nat)
      /\ IsFiniteSet(DOMAIN disk) /\ DOMAIN disk \subseteq Nat
      /\ \A n \in DOMAIN disk : FileType(disk[n])
      /\ list \in Seq(Nat) /\ fileNum \in Nat /\ seq \in Nat
      /\ fd \in Nat \cup {NoFd} /\ logHead \in HeadRecord
      /\ initResult \in {0, -1} /\ initDone \in BOOLEAN
      /\ pc \in [Threads -> {"idle", "start", "lock", "wait", "check", "send", "done"}]
      /\ cpc \in {"none", "init", "notify", "recv", "exited"} \cup Storing
      /\ cur \in Nat /\ headInfo \in HeadRecord
      /\ faults \in Nat /\ crashes \in Nat
  BY DEF TypeOK
<1>b. \A kind : Fail(kind) => faults' \in Nat /\ crashes' \in Nat
  BY DEF TypeOK, Fail
<1>c. \A q \in [Threads -> {"idle", "start", "lock", "wait", "check", "send", "done"}] :
         Broadcast(q) \in [Threads -> {"idle", "start", "lock", "wait", "check", "send", "done"}]
  BY DEF Broadcast
<1> USE SizeAssumption DEF Storing
<1>1. CASE StartLogMngTask
  BY <1>a, <1>1 DEF StartLogMngTask, TypeOK
<1>2. CASE StartLogMngTaskFails
  <2>1. pc' \in [Threads -> {"idle", "start", "lock", "wait", "check", "send", "done"}]
    BY <1>a, <1>c, <1>2 DEF StartLogMngTaskFails
  <2> QED
    BY <1>a, <1>b, <1>2, <2>1 DEF StartLogMngTaskFails, TypeOK
<1>3. CASE \E t \in Threads : WaitModuleInited(t)
  BY <1>a, <1>3 DEF WaitModuleInited, TypeOK
<1>4. CASE InitLogMngFails
  BY <1>a, <1>b, <1>4 DEF InitLogMngFails, TypeOK
<1>5. CASE InitLogMng
  <2> PICK l \in SortedNames(DOMAIN disk) :
          /\ list' = l
          /\ fileNum' = Len(l)
          /\ seq' \in NextSeq(DOMAIN disk)
          /\ IF l = << >>
             THEN /\ fd' = NoFd
                  /\ initResult' = 0
                  /\ logHead' = ZeroHead
             ELSE IF disk[l[Len(l)]].head \in {Torn}
             THEN /\ fd' = NoFd
                  /\ initResult' = -1
                  /\ UNCHANGED logHead
             ELSE /\ fd' = l[Len(l)]
                  /\ initResult' = 0
                  /\ logHead' \in HeadsRead(disk[l[Len(l)]].head)
    BY <1>5 DEF InitLogMng, ScanDirectory
  <2>1. list' \in Seq(Nat) /\ fileNum' \in Nat
    BY ScanType
  <2>2. seq' \in Nat
    BY <1>a DEF NextSeq
  <2>3. fd' \in Nat \cup {NoFd} /\ logHead' \in HeadRecord /\ initResult' \in {0, -1}
    BY <1>a, ScanType, HeadsReadType, HeadTypes
  <2> QED
    BY <1>a, <1>5, <2>1, <2>2, <2>3 DEF InitLogMng, ScanDirectory, TypeOK
<1>6. CASE NotifyModuleInited
  <2>1. pc' \in [Threads -> {"idle", "start", "lock", "wait", "check", "send", "done"}]
    BY <1>a, <1>c, <1>6 DEF NotifyModuleInited
  <2> QED
    BY <1>a, <1>6, <2>1 DEF NotifyModuleInited, TypeOK
<1>7. CASE \E p \in Producers : WriteLogApi(p)
  BY <1>a, <1>7 DEF WriteLogApi, TypeOK
<1>8. CASE \E p \in Producers : CheckInitResult(p)
  BY <1>a, <1>8 DEF CheckInitResult, TypeOK
<1>9. CASE \E p \in Producers : MsgSnd(p)
  <2>1. Append(queue, accepted + 1) \in Seq(Nat)
    BY <1>a, AppendProperties
  <2>2. queue' = queue \/ queue' = Append(queue, accepted + 1)
    BY <1>9, Zenon DEF MsgSnd
  <2>3. queue' \in Seq(Nat)
    BY <1>a, <2>1, <2>2
  <2>4. accepted' \in Nat
    BY <1>a, <1>9 DEF MsgSnd
  <2>5. pc' \in [Threads -> {"idle", "start", "lock", "wait", "check", "send", "done"}]
    BY <1>a, <1>9 DEF MsgSnd
  <2> QED
    BY <1>a, <1>9, <2>3, <2>4, <2>5 DEF MsgSnd, TypeOK
<1>10. CASE MsgRcv
  <2>1. Head(queue) \in Nat /\ Tail(queue) \in Seq(Nat)
    BY <1>a, <1>10, HeadTailProperties DEF MsgRcv, Receive
  <2> QED
    BY <1>a, <1>10, <2>1 DEF MsgRcv, Receive, TypeOK
<1>11. CASE RotateOld
  <2>1. list' \in Seq(Nat) /\ fileNum' \in Nat
    <3>1. list # << >> => Tail(list) \in Seq(Nat)
      BY <1>a, HeadTailProperties
    <3>2. list' = list \/ (list # << >> /\ list' = Tail(list))
      BY <1>11, Zenon DEF RotateOld, DeleteWhen
    <3>4. fileNum' = fileNum \/ (fileNum >= LOG_FILE_MAX_NUM /\ fileNum' = fileNum - 1)
      BY <1>11, Zenon DEF RotateOld, DeleteWhen
    <3>3. list' \in Seq(Nat)
      BY <1>a, <3>1, <3>2, Zenon
    <3>5. fileNum' \in Nat
      BY <1>a, <3>4
    <3> QED
      BY <3>3, <3>5
  <2>2. /\ IsFiniteSet(DOMAIN disk') /\ DOMAIN disk' \subseteq Nat
        /\ \A n \in DOMAIN disk' : FileType(disk'[n])
    BY <1>a, <1>11, DiskSteps DEF RotateOld, DeleteWhen
  <2>3. faults' \in Nat /\ crashes' \in Nat
    BY <1>a, <1>b, <1>11 DEF RotateOld, DeleteWhen
  <2> QED
    BY <1>a, <1>11, <2>1, <2>2, <2>3 DEF RotateOld, DeleteWhen, TypeOK
<1>12. CASE OpenNew
  <2>1. IsFiniteSet(DOMAIN disk') /\ DOMAIN disk' \subseteq Nat
    <3>1. IsFiniteSet(DOMAIN disk \cup {seq}) /\ DOMAIN disk \cup {seq} \subseteq Nat
      BY <1>a, FS_AddElement
    <3>2. disk' = disk \/ DOMAIN disk' = DOMAIN disk \cup {seq}
      BY <1>12 DEF OpenNew
    <3> QED
      BY <1>a, <3>1, <3>2
  <2>2. FileType(EmptyFile)
    BY DEF FileType, EmptyFile
  <2>3. \A n \in DOMAIN disk' : FileType(disk'[n])
    BY <1>a, <1>12, <2>2 DEF OpenNew
  <2>4. faults' \in Nat /\ crashes' \in Nat
    BY <1>a, <1>b, <1>12 DEF OpenNew
  <2>5. fd' \in Nat \cup {NoFd} /\ cur' \in Nat /\ headInfo' \in HeadRecord
    <3>1. /\ fd' = seq \/ fd' = NoFd
          /\ cur' = cur \/ cur' = 0
          /\ headInfo' = headInfo \/ headInfo' = ZeroHead
      BY <1>12 DEF OpenNew, WriteLogReturns
    <3> QED
      BY <1>a, <3>1, HeadTypes
  <2>6. cpc' \in {"none", "init", "notify", "recv", "exited"} \cup Storing
    BY <1>12 DEF OpenNew, WriteLogReturns
  <2> QED
    BY <1>a, <1>12, <2>1, <2>3, <2>4, <2>5, <2>6 DEF OpenNew, TypeOK
<1>13. CASE WriteNewHeader
  <2>1. /\ IsFiniteSet(DOMAIN disk') /\ DOMAIN disk' \subseteq Nat
        /\ \A n \in DOMAIN disk' : FileType(disk'[n])
    BY <1>a, <1>13, DiskSteps, HeadTypes DEF WriteNewHeader
  <2>2. faults' \in Nat /\ crashes' \in Nat
    BY <1>a, <1>b, <1>13 DEF WriteNewHeader
  <2>3. list' = list \/ list' = Append(list, seq)
    BY <1>13, Zenon DEF WriteNewHeader
  <2>4. list' \in Seq(Nat)
    <3>1. Append(list, seq) \in Seq(Nat)
      BY <1>a, AppendProperties
    <3> QED
      BY <1>a, <2>3, <3>1, Zenon
  <2> QED
    BY <1>a, <1>13, <2>1, <2>2, <2>4, HeadTypes DEF WriteNewHeader, TypeOK
<1>14. CASE WriteNewHeaderFails
  BY <1>a, <1>b, <1>14, HeadTypes DEF WriteNewHeaderFails, WriteLogReturns, TypeOK
<1>15. CASE WriteItem
  <2>1. headInfo.wpos \in Nat
    BY <1>a DEF HeadRecord
  <2>2. /\ IsFiniteSet(DOMAIN disk') /\ DOMAIN disk' \subseteq Nat
        /\ \A n \in DOMAIN disk' : FileType(disk'[n])
    BY <1>a, <1>15, <2>1, DiskSteps DEF WriteItem
  <2>3. faults' \in Nat /\ crashes' \in Nat
    BY <1>a, <1>b, <1>15 DEF WriteItem
  <2> QED
    BY <1>a, <1>15, <2>2, <2>3, HeadTypes DEF WriteItem, WriteLogReturns, TypeOK
<1>16. CASE UpdateHeader
  <2>1. /\ IsFiniteSet(DOMAIN disk') /\ DOMAIN disk' \subseteq Nat
        /\ \A n \in DOMAIN disk' : FileType(disk'[n])
    BY <1>a, <1>16, DiskSteps, HeadTypes DEF UpdateHeader
  <2>2. logHead' \in HeadRecord /\ faults' \in Nat /\ crashes' \in Nat
    BY <1>a, <1>b, <1>16, HeadTypes DEF UpdateHeader
  <2> QED
    BY <1>a, <1>16, <2>1, <2>2, HeadTypes DEF UpdateHeader, WriteLogReturns, TypeOK
<1>17. CASE Crash
  <2>1. pc' \in [Threads -> {"idle", "start", "lock", "wait", "check", "send", "done"}]
    BY <1>17 DEF Crash, FreshMemory
  <2>2. list' \in Seq(Nat) /\ faults' \in Nat /\ crashes' \in Nat
    BY <1>a, <1>17, EmptySeq DEF Crash, FreshMemory
  <2> QED
    BY <1>a, <1>17, <2>1, <2>2, HeadTypes DEF Crash, FreshMemory, TypeOK
<1>18. CASE UNCHANGED vars
  BY <1>a, <1>18 DEF vars, TypeOK
<1> QED
  BY <1>1, <1>2, <1>3, <1>4, <1>5, <1>6, <1>7, <1>8, <1>9, <1>10, <1>11, <1>12,
     <1>13, <1>14, <1>15, <1>16, <1>17, <1>18
     DEF Next, MainThread, Consumer, Producer

\* Every variable of the log manager keeps its type, in every run, whatever
\* calls fail and whenever the process dies: in particular the descriptor, the
\* write offset and the item count never leave their ranges.
THEOREM TypeCorrect == Spec => []TypeOK
BY InitType, TypeStep, PTL DEF Spec
-----------------------------------------------------------------------------
(* The initialisation handshake.                                           *)

LEMMA InitHandshake == Init => HandshakeInv
BY ThreadAssumption DEF Init, HandshakeInv, SleepersAreWoken, Running, Storing

LEMMA HandshakeStep == TypeOK /\ HandshakeInv /\ [Next]_vars => HandshakeInv'
<1> SUFFICES ASSUME TypeOK, HandshakeInv, [Next]_vars PROVE HandshakeInv'
  OBVIOUS
<1> USE ThreadAssumption DEF HandshakeInv, SleepersAreWoken, Running, Storing
<1>a. /\ pc \in [Threads -> {"idle", "start", "lock", "wait", "check", "send", "done"}]
      /\ cpc \in {"none", "init", "notify", "recv", "exited"} \cup Storing
      /\ initResult \in {0, -1}
      /\ initDone \in BOOLEAN
  BY DEF TypeOK
<1>b. \A q \in [Threads -> {"idle", "start", "lock", "wait", "check", "send", "done"}], t \in Threads :
         /\ Broadcast(q)[t] # "wait"
         /\ \A v \in {"start", "check", "send"} : Broadcast(q)[t] = v <=> q[t] = v
  BY DEF Broadcast
<1>1. CASE StartLogMngTask
  BY <1>a, <1>1 DEF StartLogMngTask
<1>2. CASE StartLogMngTaskFails
  <2> DEFINE q == [pc EXCEPT ![Main] = "done"]
  <2>1. q \in [Threads -> {"idle", "start", "lock", "wait", "check", "send", "done"}]
    BY <1>a
  <2>2. \A t \in Threads : q[t] = IF t = Main THEN "done" ELSE pc[t]
    BY <1>a
  <2>3. pc[Main] = "start" /\ cpc' = cpc /\ initDone' = TRUE /\ initResult' = -1
    BY <1>2 DEF StartLogMngTaskFails
  <2>4. pc' = Broadcast(q)
    BY <1>2 DEF StartLogMngTaskFails
  <2> HIDE DEF q
  <2>5. \A t \in Threads : /\ pc'[t] # "wait"
                           /\ \A v \in {"start", "check", "send"} : pc'[t] = v => q[t] = v
    BY <1>b, <2>1, <2>4
  <2> QED
    BY <1>a, <2>2, <2>3, <2>5
<1>3. CASE \E t \in Threads : WaitModuleInited(t)
  BY <1>a, <1>3 DEF WaitModuleInited
<1>4. CASE InitLogMngFails
  BY <1>a, <1>4 DEF InitLogMngFails
<1>5. CASE InitLogMng
  BY <1>a, <1>5 DEF InitLogMng, ScanDirectory
<1>6. CASE NotifyModuleInited
  BY <1>a, <1>b, <1>6 DEF NotifyModuleInited
<1>7. CASE \E p \in Producers : WriteLogApi(p)
  BY <1>a, <1>7 DEF WriteLogApi
<1>8. CASE \E p \in Producers : CheckInitResult(p)
  BY <1>a, <1>8 DEF CheckInitResult
<1>9. CASE \E p \in Producers : MsgSnd(p)
  BY <1>a, <1>9 DEF MsgSnd
<1>10. CASE MsgRcv \/ RotateOld \/ OpenNew \/ WriteNewHeader
              \/ WriteNewHeaderFails \/ WriteItem \/ UpdateHeader
  <2>1. UNCHANGED <<pc, initResult, initDone>> /\ Running /\ Running'
    BY <1>10 DEF MsgRcv, Receive, RotateOld, DeleteWhen, OpenNew, WriteNewHeader,
       WriteNewHeaderFails, WriteItem, UpdateHeader, WriteLogReturns
  <2> QED
    BY <1>a, <2>1
<1>11. CASE Crash
  BY <1>a, <1>11 DEF Crash, FreshMemory
<1>12. CASE UNCHANGED vars
  BY <1>a, <1>12 DEF vars
<1> QED
  BY <1>1, <1>2, <1>3, <1>4, <1>5, <1>6, <1>7, <1>8, <1>9, <1>10, <1>11, <1>12
     DEF Next, MainThread, Consumer, Producer

LEMMA HandshakeAlways == Spec => []HandshakeInv
BY TypeCorrect, InitHandshake, HandshakeStep, PTL DEF Spec

\* Whichever call of the initialisation fails, and for any number of threads: a
\* thread sleeps in waitModuleInited only while somebody is left to notify it, and
\* posts a message only to the queue of a process whose consumer has initialised.
THEOREM HandshakeCorrect == Spec => []HandshakeSafe
<1>1. HandshakeInv => SleepersAreWoken
  BY DEF HandshakeInv
<1>2. TypeOK /\ HandshakeInv => SendOnlyToConsumer
  BY DEF TypeOK, HandshakeInv, SendOnlyToConsumer, Running, Storing
<1>3. TypeOK /\ HandshakeInv => HandshakeSafe
  BY <1>1, <1>2 DEF HandshakeSafe
<1> QED
  BY <1>3, TypeCorrect, HandshakeAlways, PTL
-----------------------------------------------------------------------------
(* No message is stored twice.                                             *)

\* The disk of the next state holds nothing the disk does not hold.
DiskShrinks ==
    \A n \in DOMAIN disk' : \A o \in DOMAIN disk'[n].items :
        /\ n \in DOMAIN disk /\ o \in DOMAIN disk[n].items
        /\ disk'[n].items[o] = disk[n].items[o]

\* What an earlier process left on disk: messages 1 .. OldItems, each once.
LEMMA OldFilesOnce ==
    ASSUME NEW m \in Nat, NEW n \in Nat,
           NEW o \in DOMAIN OldFile(m).items, NEW p \in DOMAIN OldFile(n).items
    PROVE  /\ m < InitFiles => OldFile(m).items[o] <= OldItems
           /\ OldFile(m).items[o] = OldFile(n).items[p] => m = n /\ o = p
<1> DEFINE MAX == MAX_LOG_ITEMS_PER_FILE
           slot(x) == CHOOSE k \in 1 .. MAX : x = SlotOffset(k)
<1>1. /\ slot(o) \in 1 .. MAX /\ o = SlotOffset(slot(o))
      /\ slot(p) \in 1 .. MAX /\ p = SlotOffset(slot(p))
  BY SizeAssumption DEF OldFile
<1>2. /\ OldFile(m).items[o] = m * MAX + slot(o)
      /\ OldFile(n).items[p] = n * MAX + slot(p)
  BY DEF OldFile
<1>3. MAX \in Nat
  BY SizeAssumption
<1> HIDE DEF slot, MAX
<1>4. ASSUME NEW i \in Nat, NEW j \in Nat, i < j
      PROVE  i * MAX + MAX <= j * MAX
  <2>1. j * MAX = i * MAX + MAX + (j - i - 1) * MAX
    BY <1>3
  <2>2. j - i - 1 \in Nat
    BY <1>4
  <2>3. \A x, y \in Nat : x * y \in Nat
    OBVIOUS
  <2>4. (j - i - 1) * MAX \in Nat /\ i * MAX \in Nat
    BY <1>3, <2>2, <2>3
  <2> QED
    BY <1>3, <2>1, <2>4
<1>5. m * MAX \in Int /\ n * MAX \in Int
  BY <1>3
<1>6. m < InitFiles => OldFile(m).items[o] <= OldItems
  <2>1. m < InitFiles => m * MAX + MAX <= InitFiles * MAX
    BY <1>4, SizeAssumption
  <2>2. OldItems = InitFiles * MAX /\ OldItems \in Int
    BY SizeAssumption DEF OldItems, MAX
  <2> QED
    BY <1>1, <1>2, <1>3, <1>5, <2>1, <2>2
<1>7. ASSUME OldFile(m).items[o] = OldFile(n).items[p]
      PROVE  m = n
  <2>1. m * MAX + slot(o) = n * MAX + slot(p)
    BY <1>2, <1>7
  <2>2. ~(m < n)
    BY <1>1, <1>3, <1>4, <1>5, <2>1
  <2>3. ~(n < m)
    BY <1>1, <1>3, <1>4, <1>5, <2>1
  <2> QED
    BY <2>2, <2>3
<1>8. ASSUME OldFile(m).items[o] = OldFile(n).items[p]
      PROVE  o = p
  BY <1>1, <1>2, <1>3, <1>5, <1>7, <1>8
<1> QED
  BY <1>6, <1>7, <1>8

LEMMA InitDelivery == Init => DeliveryInv
<1> SUFFICES ASSUME Init PROVE DeliveryInv
  OBVIOUS
<1>1. OldItems \in Nat
  BY InitType DEF Init, TypeOK
<1>2. Received = OldItems /\ Len(queue) = 0 /\ cpc \notin Storing
  BY <1>1 DEF Init, Received, Storing
<1>3. \A n \in DOMAIN disk : n \in Nat /\ n < InitFiles /\ disk[n] = OldFile(n)
  BY SizeAssumption DEF Init
<1>4. NoDuplicate
  BY <1>3, OldFilesOnce DEF NoDuplicate
<1>5. \A n \in DOMAIN disk : \A o \in DOMAIN disk[n].items : disk[n].items[o] <= Received
  BY <1>2, <1>3, OldFilesOnce
<1> QED
  BY <1>2, <1>4, <1>5 DEF DeliveryInv

\* A step that takes nothing from the queue, keeps the message in hand and
\* adds nothing to the disk keeps the invariant.
LEMMA QuietStep ==
    ASSUME TypeOK, DeliveryInv, DiskShrinks,
           UNCHANGED <<queue, accepted>>,
           cpc' \in Storing => cpc \in Storing /\ cur' = cur,
           cpc' \in Storing \ {"update"} => cpc # "update"
    PROVE  DeliveryInv'
BY DEF DeliveryInv, NoDuplicate, Received, DiskShrinks

LEMMA DeliveryStep == TypeOK /\ DeliveryInv /\ [Next]_vars => DeliveryInv'
<1> SUFFICES ASSUME TypeOK, DeliveryInv, [Next]_vars PROVE DeliveryInv'
  OBVIOUS
<1> USE DEF Storing
<1>a. \A d : disk' = d => (d = disk => DiskShrinks)
  BY DEF DiskShrinks
<1>1. CASE StartLogMngTask \/ StartLogMngTaskFails \/ \E t \in Threads : WaitModuleInited(t)
  BY <1>a, <1>1, QuietStep DEF StartLogMngTask, StartLogMngTaskFails, WaitModuleInited
<1>2. CASE InitLogMngFails \/ InitLogMng \/ NotifyModuleInited
  BY <1>a, <1>2, QuietStep DEF InitLogMngFails, InitLogMng, ScanDirectory, NotifyModuleInited
<1>3. CASE \E p \in Producers : WriteLogApi(p) \/ CheckInitResult(p)
  BY <1>a, <1>3, QuietStep DEF WriteLogApi, CheckInitResult
<1>4. CASE \E p \in Producers : MsgSnd(p)
  <2>1. UNCHANGED <<disk, cpc, cur>>
    BY <1>4 DEF MsgSnd
  <2>2. CASE UNCHANGED <<queue, accepted>>
    BY <1>a, <2>1, <2>2, QuietStep
  <2>3. CASE queue' = Append(queue, accepted + 1) /\ accepted' = accepted + 1
    <3>1. queue \in Seq(Nat) /\ accepted \in Nat /\ accepted + 1 \in Nat
      BY DEF TypeOK
    <3>2. /\ Len(queue) \in Nat /\ Len(queue') = Len(queue) + 1
          /\ \A i \in 1 .. Len(queue) : queue'[i] = queue[i]
          /\ queue'[Len(queue) + 1] = accepted + 1
      BY <2>3, <3>1, AppendProperties, LenProperties
    <3>3. Received' = Received
      BY <2>3, <3>1, <3>2 DEF Received
    <3>4. \A i \in 1 .. Len(queue') : queue'[i] = Received' + i
      BY <2>3, <3>1, <3>2, <3>3 DEF DeliveryInv, Received
    <3> QED
      BY <2>1, <3>3, <3>4 DEF DeliveryInv, NoDuplicate
  <2> QED
    BY <1>4, <2>2, <2>3 DEF MsgSnd
<1>5. CASE MsgRcv
  <2>1. /\ queue # << >> /\ cur' = Head(queue) /\ queue' = Tail(queue)
        /\ UNCHANGED <<accepted, disk>>
    BY <1>5 DEF MsgRcv, Receive
  <2>2. queue \in Seq(Nat) /\ accepted \in Nat
    BY DEF TypeOK
  <2>3. /\ Len(queue) \in Nat \ {0} /\ Len(queue') = Len(queue) - 1
        /\ cur' = queue[1]
        /\ \A i \in 1 .. Len(queue') : queue'[i] = queue[i + 1]
    BY <2>1, <2>2, HeadTailProperties, EmptySeq, LenProperties
  <2>4. Received' = Received + 1 /\ Received \in Int
    BY <2>1, <2>2, <2>3 DEF Received
  <2>5. cur' = Received'
    BY <2>3, <2>4 DEF DeliveryInv
  <2>6. \A i \in 1 .. Len(queue') : queue'[i] = Received' + i
    BY <2>3, <2>4 DEF DeliveryInv
  <2>7. \A n \in DOMAIN disk : \A o \in DOMAIN disk[n].items :
           /\ disk[n].items[o] <= Received /\ disk[n].items[o] \in Nat
    BY DEF DeliveryInv, TypeOK, FileType
  <2>8. \A n \in DOMAIN disk : \A o \in DOMAIN disk[n].items :
           /\ disk[n].items[o] <= Received' /\ disk[n].items[o] # cur'
    BY <2>4, <2>5, <2>7
  <2> QED
    BY <2>1, <2>5, <2>6, <2>8 DEF DeliveryInv, NoDuplicate
<1>6. CASE RotateOld
  <2>1. DiskShrinks
    BY <1>6 DEF RotateOld, DeleteWhen, Without, DiskShrinks
  <2> QED
    BY <1>6, <2>1, QuietStep DEF RotateOld, DeleteWhen
<1>7. CASE OpenNew
  <2>1. DiskShrinks
    BY <1>7 DEF OpenNew, EmptyFile, DiskShrinks
  <2> QED
    BY <1>7, <2>1, QuietStep DEF OpenNew, WriteLogReturns
<1>8. CASE WriteNewHeader
  <2>1. DiskShrinks
    BY <1>8 DEF WriteNewHeader, WriteHead, DiskShrinks
  <2> QED
    BY <1>8, <2>1, QuietStep DEF WriteNewHeader
<1>9. CASE WriteNewHeaderFails
  BY <1>a, <1>9, QuietStep DEF WriteNewHeaderFails, WriteLogReturns
<1>10. CASE WriteItem
  <2>1. CASE UNCHANGED disk
    <3>1. UNCHANGED <<queue, accepted>> /\ (cpc' = "recv" \/ (cpc' = "update" /\ cur' = cur))
             /\ cpc = "item"
      BY <1>10 DEF WriteItem, WriteLogReturns
    <3> QED
      BY <1>a, <2>1, <3>1, QuietStep
  <2>2. CASE /\ disk' = [disk EXCEPT ![fd] = WriteItemAt(@, headInfo.wpos, cur)]
             /\ cpc' = "update"
             /\ UNCHANGED cur
    <3>1. UNCHANGED <<queue, accepted>> /\ cpc = "item"
      BY <1>10 DEF WriteItem
    <3>2. \A n \in DOMAIN disk' : \A o \in DOMAIN disk'[n].items :
             \/ /\ n \in DOMAIN disk /\ o \in DOMAIN disk[n].items
                /\ disk'[n].items[o] = disk[n].items[o]
             \/ n = fd /\ o = headInfo.wpos /\ disk'[n].items[o] = cur
      BY <2>2 DEF WriteItemAt
    <3>3. cur = Received /\ Received' = Received /\ cur \in Nat
      BY <3>1 DEF DeliveryInv, Received, TypeOK
    <3>4. \A n \in DOMAIN disk : \A o \in DOMAIN disk[n].items : disk[n].items[o] # cur
      BY <3>1 DEF DeliveryInv
    <3>5. NoDuplicate'
      BY <3>2, <3>4 DEF DeliveryInv, NoDuplicate
    <3>6. \A n \in DOMAIN disk' : \A o \in DOMAIN disk'[n].items :
             disk'[n].items[o] <= Received'
      BY <3>2, <3>3 DEF DeliveryInv
    <3> QED
      BY <2>2, <3>1, <3>3, <3>5, <3>6 DEF DeliveryInv
  <2> QED
    BY <1>10, <2>1, <2>2 DEF WriteItem
<1>11. CASE UpdateHeader
  <2>1. DiskShrinks
    BY <1>11 DEF UpdateHeader, WriteHead, DiskShrinks
  <2> QED
    BY <1>11, <2>1, QuietStep DEF UpdateHeader, WriteLogReturns
<1>12. CASE Crash
  BY <1>a, <1>12, QuietStep DEF Crash, FreshMemory
<1>13. CASE UNCHANGED vars
  BY <1>a, <1>13, QuietStep DEF vars
<1> QED
  BY <1>1, <1>2, <1>3, <1>4, <1>5, <1>6, <1>7, <1>8, <1>9, <1>10, <1>11, <1>12, <1>13
     DEF Next, MainThread, Consumer, Producer

\* No accepted message is ever stored at two places of the log, for every mix
\* of failing system calls, crashes and restarts: at-most-once storage.
THEOREM StoredAtMostOnce == Spec => []NoDuplicate
<1>1. DeliveryInv => NoDuplicate
  BY DEF DeliveryInv
<1> QED
  BY <1>1, TypeCorrect, InitDelivery, DeliveryStep, PTL DEF Spec
-----------------------------------------------------------------------------
(* The number of files stays within its bound.                             *)

\* A directory that holds S, sorted: the list names every file of S, once.
LEMMA SortedNamesList ==
    ASSUME NEW S, IsFiniteSet(S), NEW l \in SortedNames(S)
    PROVE  /\ Len(l) = Cardinality(S)
           /\ \A i, j \in 1 .. Len(l) : l[i] = l[j] => i = j
           /\ {l[i] : i \in 1 .. Len(l)} = S
<1> DEFINE N == Cardinality(S)
<1>1. N \in Nat
  BY FS_CardinalityType
<1>2. /\ l \in [1 .. N -> S]
      /\ \A i, j \in 1 .. N : i < j => l[i] # l[j]
  BY DEF SortedNames
<1>3. Len(l) = N
  BY <1>1, <1>2
<1>4. ASSUME NEW i \in 1 .. N, NEW j \in 1 .. N, l[i] = l[j]
      PROVE  i = j
  <2>1. ~(i < j) /\ ~(j < i)
    BY <1>1, <1>2, <1>4
  <2> QED
    BY <1>1, <2>1
<1>5. l \in Injection(1 .. N, S)
  BY <1>2, <1>4 DEF Injection, IsInjective
<1>6. Cardinality(1 .. N) = Cardinality(S)
  BY <1>1, FS_Interval
<1>7. l \in Surjection(1 .. N, S)
  BY <1>5, <1>6, FS_Injection
<1>8. {l[i] : i \in 1 .. N} = S
  BY <1>2, <1>7 DEF Surjection
<1> QED
  BY <1>3, <1>4, <1>8

LEMMA InitBound ==
    ASSUME InitFiles <= LOG_FILE_MAX_NUM
    PROVE  Init => BoundInv
<1> SUFFICES ASSUME Init PROVE BoundInv
  OBVIOUS
<1>1. InitFiles \in Nat /\ LOG_FILE_MAX_NUM \in Nat
  BY SizeAssumption
<1>2. DOMAIN disk = 0 .. InitFiles - 1
  BY DEF Init
<1>3. Cardinality(0 .. InitFiles - 1) = InitFiles
  BY <1>1, FS_Interval
<1> QED
  BY <1>1, <1>2, <1>3 DEF Init, BoundInv, DiskBound, Scanned, Running, Storing

\* A step that leaves the files and the list alone, and takes the consumer
\* neither past a scan nor into a rotation, keeps the invariant.
LEMMA BoundQuiet ==
    ASSUME BoundInv, DOMAIN disk' = DOMAIN disk,
           Scanned' => Scanned /\ UNCHANGED <<list, fileNum, seq>>,
           cpc' \in {"open", "header"} =>
               cpc' = cpc /\ UNCHANGED <<fileNum, fd, seq>>
    PROVE  BoundInv'
BY DEF BoundInv, DiskBound, ListMirrorsDisk, Listed

LEMMA BoundScan == TypeOK /\ BoundInv /\ InitLogMng => BoundInv'
<1> SUFFICES ASSUME TypeOK, BoundInv, InitLogMng PROVE BoundInv'
  OBVIOUS
<1> PICK l \in SortedNames(DOMAIN disk) :
        list' = l /\ fileNum' = Len(l) /\ seq' \in NextSeq(DOMAIN disk)
  BY DEF InitLogMng, ScanDirectory
<1>1. IsFiniteSet(DOMAIN disk) /\ DOMAIN disk \subseteq Nat
  BY DEF TypeOK
<1>2. cpc' = "notify" /\ disk' = disk
  BY DEF InitLogMng, ScanDirectory
<1>3. /\ Len(l) = Cardinality(DOMAIN disk)
      /\ \A i, j \in 1 .. Len(l) : l[i] = l[j] => i = j
      /\ {l[i] : i \in 1 .. Len(l)} = DOMAIN disk
  BY <1>1, SortedNamesList
<1>4. \A n \in DOMAIN disk : n < seq'
  BY <1>1 DEF NextSeq
<1>5. ListMirrorsDisk'
  BY <1>2, <1>3, <1>4 DEF ListMirrorsDisk, Listed
<1> QED
  BY <1>2, <1>5 DEF BoundInv, DiskBound

\* Deleting the oldest file leaves room for one more.
LEMMA BoundRotate ==
    ASSUME "unlink" \notin Faults
    PROVE  TypeOK /\ BoundInv /\ RotateOld => BoundInv'
<1> SUFFICES ASSUME TypeOK, BoundInv, RotateOld PROVE BoundInv'
  OBVIOUS
<1> DEFINE N == Len(list)
<1>1. /\ IsFiniteSet(DOMAIN disk) /\ list \in Seq(Nat) /\ N \in Nat
      /\ seq \in Nat /\ fileNum \in Nat
      /\ LOG_FILE_MAX_NUM \in Nat \ {0}
  BY SizeAssumption DEF TypeOK
<1>2. cpc = "rotate" /\ cpc' = "open" /\ seq' = seq
  BY DEF RotateOld, DeleteWhen
<1>3. ListMirrorsDisk /\ DiskBound
  BY <1>2 DEF BoundInv, Scanned, Running, Storing
<1>4. IsFiniteSet(Listed) /\ fileNum = N /\ fileNum = Cardinality(Listed)
  BY <1>1, <1>3, FS_Subset DEF ListMirrorsDisk
<1>5. fileNum <= LOG_FILE_MAX_NUM
  <2>1. Cardinality(Listed) <= Cardinality(DOMAIN disk)
    BY <1>1, <1>3, FS_Subset DEF ListMirrorsDisk
  <2>2. Cardinality(DOMAIN disk) \in Nat
    BY <1>1, FS_CardinalityType
  <2> QED
    BY <1>1, <1>3, <1>4, <2>1, <2>2 DEF DiskBound
<1>6. CASE fileNum >= LOG_FILE_MAX_NUM /\ list # << >>
  <2>1. /\ list' = Tail(list) /\ fileNum' = fileNum - 1
        /\ disk' = Without(disk, Head(list))
    BY <1>6 DEF RotateOld, DeleteWhen, Fail
  <2>2. /\ N \in Nat \ {0} /\ Len(list') = N - 1 /\ Head(list) = list[1]
        /\ \A i \in 1 .. N - 1 : list'[i] = list[i + 1]
    BY <1>1, <1>6, <2>1, HeadTailProperties, EmptySeq, LenProperties
  <2>3. DOMAIN disk' = DOMAIN disk \ {list[1]}
    BY <2>1, <2>2 DEF Without
  <2>4. \A i, j \in 1 .. N : list[i] = list[j] => i = j
    BY <1>3 DEF ListMirrorsDisk
  <2>5. Listed' = Listed \ {list[1]}
    <3>1. \A i \in 1 .. N - 1 : i + 1 \in 1 .. N /\ i + 1 # 1
      BY <1>1
    <3>2. Listed' \subseteq Listed \ {list[1]}
      BY <2>2, <2>4, <3>1 DEF Listed
    <3>3. ASSUME NEW i \in 1 .. N, i # 1
          PROVE  i - 1 \in 1 .. Len(list') /\ list'[i - 1] = list[i]
      <4>1. i - 1 \in 1 .. N - 1 /\ (i - 1) + 1 = i
        BY <1>1, <3>3
      <4> QED
        BY <2>2, <4>1
    <3>4. Listed \ {list[1]} \subseteq Listed'
      BY <3>3 DEF Listed
    <3> QED
      BY <3>2, <3>4
  <2>6. list[1] \in Listed
    BY <2>2 DEF Listed
  <2>7. Cardinality(Listed') = fileNum - 1
    BY <1>4, <2>5, <2>6, FS_RemoveElement
  <2>8. \A i, j \in 1 .. Len(list') : list'[i] = list'[j] => i = j
    <3>1. \A i \in 1 .. N - 1 : i + 1 \in 1 .. N
      BY <1>1
    <3>2. ASSUME NEW i \in 1 .. N - 1, NEW j \in 1 .. N - 1, list'[i] = list'[j]
          PROVE  i = j
      <4>1. list[i + 1] = list[j + 1]
        BY <2>2, <3>2
      <4>2. i + 1 = j + 1
        BY <2>4, <3>1, <4>1
      <4> QED
        BY <1>1, <4>2
    <3> QED
      BY <2>2, <3>2
  <2>9. ListMirrorsDisk'
    BY <1>1, <1>2, <1>3, <1>4, <2>1, <2>2, <2>3, <2>5, <2>7, <2>8 DEF ListMirrorsDisk
  <2>10. DiskBound'
    <3>1. Cardinality(DOMAIN disk') <= Cardinality(DOMAIN disk)
      BY <1>1, <2>3, FS_Subset
    <3>2. Cardinality(DOMAIN disk) \in Nat /\ Cardinality(DOMAIN disk') \in Nat
      BY <1>1, <2>3, FS_RemoveElement, FS_CardinalityType
    <3> QED
      BY <1>1, <1>3, <3>1, <3>2 DEF DiskBound
  <2> QED
    BY <1>1, <1>2, <1>5, <2>1, <2>9, <2>10 DEF BoundInv
<1>7. CASE ~(fileNum >= LOG_FILE_MAX_NUM /\ list # << >>)
  <2>1. UNCHANGED <<list, fileNum, disk>>
    BY <1>7 DEF RotateOld, DeleteWhen
  <2>2. fileNum < LOG_FILE_MAX_NUM
    <3>1. list = << >> => N = 0
      BY EmptySeq
    <3> QED
      BY <1>1, <1>4, <1>7, <3>1
  <2> QED
    BY <1>2, <1>3, <2>1, <2>2 DEF BoundInv, DiskBound, ListMirrorsDisk, Listed
<1> QED
  BY <1>6, <1>7

LEMMA BoundOpen == TypeOK /\ BoundInv /\ OpenNew => BoundInv'
<1> SUFFICES ASSUME TypeOK, BoundInv, OpenNew PROVE BoundInv'
  OBVIOUS
<1>1. IsFiniteSet(DOMAIN disk) /\ fileNum \in Nat /\ LOG_FILE_MAX_NUM \in Nat
  BY SizeAssumption DEF TypeOK
<1>2. cpc = "open" /\ UNCHANGED <<list, fileNum, seq>>
  BY DEF OpenNew
<1>3. ListMirrorsDisk /\ fileNum < LOG_FILE_MAX_NUM
  BY <1>2 DEF BoundInv, Scanned, Running, Storing
<1>4. CASE disk' = disk /\ cpc' = "recv"
  BY <1>2, <1>3, <1>4, BoundQuiet DEF Scanned, Running, Storing
<1>5. CASE DOMAIN disk' = DOMAIN disk \cup {seq} /\ fd' = seq /\ cpc' = "header"
  <2>1. Cardinality(DOMAIN disk') <= fileNum + 1
    <3>1. IsFiniteSet(Listed)
      BY <1>1, <1>3, FS_Subset DEF ListMirrorsDisk
    <3>2. Cardinality(Listed \cup {seq}) <= fileNum + 1 /\ IsFiniteSet(Listed \cup {seq})
      BY <1>1, <1>3, <3>1, FS_AddElement DEF ListMirrorsDisk
    <3>3. DOMAIN disk' \subseteq Listed \cup {seq}
      BY <1>3, <1>5 DEF ListMirrorsDisk
    <3>4. Cardinality(DOMAIN disk') <= Cardinality(Listed \cup {seq})
      BY <3>2, <3>3, FS_Subset
    <3>5. /\ Cardinality(DOMAIN disk') \in Nat
          /\ Cardinality(Listed \cup {seq}) \in Nat
      BY <3>2, <3>3, FS_Subset, FS_CardinalityType
    <3> QED
      BY <1>1, <3>2, <3>4, <3>5
  <2>2. DiskBound'
    <3>1. Cardinality(DOMAIN disk') \in Nat
      BY <1>1, <1>5, FS_AddElement, FS_CardinalityType
    <3> QED
      BY <1>1, <1>3, <2>1, <3>1 DEF DiskBound
  <2>3. ListMirrorsDisk'
    BY <1>2, <1>3, <1>5 DEF ListMirrorsDisk, Listed
  <2> QED
    BY <1>2, <1>3, <1>5, <2>2, <2>3 DEF BoundInv
<1> QED
  BY <1>4, <1>5 DEF OpenNew, WriteLogReturns

LEMMA BoundHeader ==
    ASSUME "malloc" \notin Faults
    PROVE  TypeOK /\ BoundInv /\ WriteNewHeader => BoundInv'
<1> SUFFICES ASSUME TypeOK, BoundInv, WriteNewHeader PROVE BoundInv'
  OBVIOUS
<1> DEFINE N == Len(list)
<1>1. /\ IsFiniteSet(DOMAIN disk) /\ DOMAIN disk \subseteq Nat
      /\ list \in Seq(Nat) /\ N \in Nat
      /\ seq \in Nat /\ fileNum \in Nat
  BY DEF TypeOK
<1>2. /\ cpc = "header" /\ cpc' = "item" /\ DOMAIN disk' = DOMAIN disk
      /\ list' = Append(list, seq) /\ fileNum' = fileNum + 1 /\ seq' = seq + 1
  BY DEF WriteNewHeader, Fail
<1>3. ListMirrorsDisk /\ seq \in DOMAIN disk
  BY <1>2 DEF BoundInv, Scanned, Running, Storing
<1>4. /\ Len(list') = N + 1 /\ list'[N + 1] = seq
      /\ \A i \in 1 .. N : list'[i] = list[i]
  BY <1>1, <1>2, AppendProperties
<1>5. Listed' = Listed \cup {seq}
  <2>1. 1 .. N + 1 = (1 .. N) \cup {N + 1}
    BY <1>1
  <2> QED
    BY <1>4, <2>1 DEF Listed
<1>6. seq \notin Listed
  BY <1>1, <1>3 DEF ListMirrorsDisk
<1>7. Cardinality(Listed') = fileNum + 1
  <2>1. IsFiniteSet(Listed)
    BY <1>1, <1>3, FS_Subset DEF ListMirrorsDisk
  <2> QED
    BY <1>3, <1>5, <1>6, <2>1, FS_AddElement DEF ListMirrorsDisk
<1>8. \A i, j \in 1 .. Len(list') : list'[i] = list'[j] => i = j
  <2>1. \A i \in 1 .. N : list[i] # seq
    BY <1>6 DEF Listed
  <2>2. \A i \in 1 .. Len(list') : i \in 1 .. N \/ i = N + 1
    BY <1>1, <1>4
  <2> QED
    BY <1>3, <1>4, <2>1, <2>2 DEF ListMirrorsDisk
<1>9. \A n \in Listed' : n < seq'
  BY <1>1, <1>2, <1>3, <1>5 DEF ListMirrorsDisk
<1>10. ListMirrorsDisk'
  BY <1>2, <1>3, <1>4, <1>5, <1>7, <1>8, <1>9 DEF ListMirrorsDisk
<1> QED
  BY <1>2, <1>10 DEF BoundInv, DiskBound

LEMMA BoundStep ==
    ASSUME "malloc" \notin Faults, "unlink" \notin Faults
    PROVE  TypeOK /\ BoundInv /\ [Next]_vars => BoundInv'
<1> SUFFICES ASSUME TypeOK, BoundInv, [Next]_vars PROVE BoundInv'
  OBVIOUS
<1> USE DEF Scanned, Running, Storing
<1>1. CASE StartLogMngTask \/ StartLogMngTaskFails \/ \E t \in Threads : WaitModuleInited(t)
  BY <1>1, BoundQuiet DEF StartLogMngTask, StartLogMngTaskFails, WaitModuleInited
<1>2. CASE InitLogMngFails
  BY <1>2, BoundQuiet DEF InitLogMngFails
<1>3. CASE InitLogMng
  BY <1>3, BoundScan
<1>4. CASE NotifyModuleInited
  BY <1>4, BoundQuiet DEF NotifyModuleInited
<1>5. CASE \E p \in Producers : WriteLogApi(p) \/ CheckInitResult(p) \/ MsgSnd(p)
  BY <1>5, BoundQuiet DEF WriteLogApi, CheckInitResult, MsgSnd
<1>6. CASE MsgRcv
  BY <1>6, BoundQuiet DEF MsgRcv, Receive
<1>7. CASE RotateOld
  BY <1>7, BoundRotate
<1>8. CASE OpenNew
  BY <1>8, BoundOpen
<1>9. CASE WriteNewHeader
  BY <1>9, BoundHeader
<1>10. CASE WriteNewHeaderFails
  BY <1>10, BoundQuiet DEF WriteNewHeaderFails, WriteLogReturns
<1>11. CASE WriteItem
  BY <1>11, BoundQuiet DEF WriteItem, WriteLogReturns
<1>12. CASE UpdateHeader
  BY <1>12, BoundQuiet DEF UpdateHeader, WriteLogReturns
<1>13. CASE Crash
  BY <1>13, BoundQuiet DEF Crash, FreshMemory
<1>14. CASE UNCHANGED vars
  BY <1>14, BoundQuiet DEF vars
<1> QED
  BY <1>1, <1>2, <1>3, <1>4, <1>5, <1>6, <1>7, <1>8, <1>9, <1>10, <1>11, <1>12,
     <1>13, <1>14
     DEF Next, MainThread, Consumer, Producer

\* There are never more than LOG_FILE_MAX_NUM log files, however often the
\* process dies between two steps of a rotation and whichever opens and writes
\* fail, as long as a file in excess can be deleted (LogMng.c:288) and the new
\* one can be listed (LogMng.c:333).
THEOREM FilesBounded ==
    ASSUME InitFiles <= LOG_FILE_MAX_NUM,
           "malloc" \notin Faults, "unlink" \notin Faults
    PROVE  Spec => []DiskBound
<1>1. Init => BoundInv
  BY InitBound
<1>2. TypeOK /\ BoundInv /\ [Next]_vars => BoundInv'
  BY BoundStep
<1>3. BoundInv => DiskBound
  BY DEF BoundInv
<1> QED
  BY <1>1, <1>2, <1>3, TypeCorrect, PTL DEF Spec
-----------------------------------------------------------------------------
(* The memory mirrors the newest file.                                     *)

\* Slots follow each other behind the header, and do not overlap.
LEMMA SlotOrder ==
    /\ SlotOffset(1) = HeadSize
    /\ \A k \in Nat \ {0} : /\ SlotOffset(k) \in Nat /\ SlotOffset(k) >= HeadSize
                            /\ SlotOffset(k + 1) = SlotOffset(k) + ItemSize
    /\ \A j, k \in Nat \ {0} : j < k => SlotOffset(j) + ItemSize <= SlotOffset(k)
    /\ \A j, k \in Nat \ {0} : SlotOffset(j) < SlotOffset(k) <=> j < k
<1> USE SizeAssumption DEF SlotOffset
<1>1. \A i, s \in Nat : i * s \in Nat
  OBVIOUS
<1>2. ASSUME NEW k \in Nat \ {0}
      PROVE  /\ SlotOffset(k) \in Nat /\ SlotOffset(k) >= HeadSize
             /\ SlotOffset(k + 1) = SlotOffset(k) + ItemSize
  <2>1. (k - 1) * ItemSize \in Nat
    BY <1>1
  <2>2. k * ItemSize = (k - 1) * ItemSize + ItemSize
    OBVIOUS
  <2> QED
    BY <2>1, <2>2
<1>3. ASSUME NEW j \in Nat \ {0}, NEW k \in Nat \ {0}, j < k
      PROVE  SlotOffset(j) + ItemSize <= SlotOffset(k)
  <2>1. (k - 1) * ItemSize = (j - 1) * ItemSize + ItemSize + (k - j - 1) * ItemSize
    OBVIOUS
  <2>2. (k - j - 1) * ItemSize \in Nat /\ (j - 1) * ItemSize \in Nat
    <3>1. k - j - 1 \in Nat /\ j - 1 \in Nat
      BY <1>3
    <3> QED
      BY <1>1, <3>1
  <2>3. (k - 1) * ItemSize \in Int
    OBVIOUS
  <2> QED
    BY <2>1, <2>2, <2>3
<1>4. SlotOffset(1) = HeadSize
  OBVIOUS
<1> HIDE DEF SlotOffset
<1>5. \A j, k \in Nat \ {0} : SlotOffset(j) < SlotOffset(k) <=> j < k
  <2>1. TAKE j, k \in Nat \ {0}
  <2>2. CASE j < k
    BY <1>2, <1>3, <2>2
  <2>3. CASE j = k
    BY <1>2, <2>3
  <2>4. CASE k < j
    BY <1>2, <1>3, <2>4
  <2> QED
    BY <2>2, <2>3, <2>4
<1> QED
  BY <1>2, <1>3, <1>4, <1>5

\* What a reader finds in a sound file are the items in the slots its header counts.
LEMMA ReadableOfSound ==
    ASSUME NEW f, SoundFile(f)
    PROVE  /\ f = EmptyFile => ReadableSlots(f) = {}
           /\ f # EmptyFile =>
                 /\ f.head.num \in 0 .. MAX_LOG_ITEMS_PER_FILE /\ f.head.num \in Nat
                 /\ f.head = HeadOf(f.head.num)
                 /\ f.head.wpos = SlotOffset(f.head.num + 1)
                 /\ {SlotOffset(j) : j \in 1 .. f.head.num} \subseteq DOMAIN f.items
                 /\ DOMAIN f.items \subseteq {SlotOffset(j) : j \in 1 .. f.head.num + 1}
                 /\ ReadableSlots(f) = 1 .. f.head.num
<1>1. CASE f = EmptyFile
  BY <1>1 DEF EmptyFile, Torn, ReadableSlots
<1>2. CASE f # EmptyFile
  <2>1. PICK k \in 0 .. MAX_LOG_ITEMS_PER_FILE :
          /\ f.head = HeadOf(k)
          /\ {SlotOffset(j) : j \in 1 .. k} \subseteq DOMAIN f.items
          /\ DOMAIN f.items \subseteq {SlotOffset(j) : j \in 1 .. k + 1}
    BY <1>2 DEF SoundFile
  <2>2. f.head.num = k /\ k \in Nat /\ f.head.wpos = SlotOffset(k + 1)
    BY <2>1, SizeAssumption DEF HeadOf
  <2>3. ReadableSlots(f) = 1 .. k
    BY <2>1, <2>2 DEF ReadableSlots
  <2> QED
    BY <1>2, <2>1, <2>2, <2>3
<1> QED
  BY <1>1, <1>2

LEMMA OldFileSound == \A n \in Nat : SoundFile(OldFile(n))
BY SizeAssumption DEF SoundFile, OldFile, HeadOf

\* The header of a new file.
LEMMA NewHeaderSound ==
    LET f == WriteHead(EmptyFile, NewHead)
    IN SoundFile(f) /\ f.head = NewHead /\ NewHead = HeadOf(0) /\ DOMAIN f.items = {}
<1>1. NewHead = HeadOf(0)
  BY SlotOrder DEF NewHead, HeadOf
<1>2. 0 \in 0 .. MAX_LOG_ITEMS_PER_FILE
  BY SizeAssumption
<1> QED
  BY <1>1, <1>2 DEF WriteHead, EmptyFile, SoundFile

\* An item is written behind all others of its file, and disturbs none.
LEMMA ItemSound ==
    ASSUME NEW f, SoundFile(f), f # EmptyFile,
           f.head.num < MAX_LOG_ITEMS_PER_FILE, NEW m
    PROVE  LET o == f.head.wpos
               g == WriteItemAt(f, o, m)
           IN /\ SoundFile(g) /\ g.head = f.head
              /\ DOMAIN g.items = DOMAIN f.items \cup {o}
              /\ g.items[o] = m
              /\ \A p \in DOMAIN f.items \ {o} : g.items[p] = f.items[p]
              /\ \A p \in DOMAIN f.items : p <= o
              /\ \A j \in ReadableSlots(f) : SlotOffset(j) # o
<1> DEFINE k == f.head.num
           o == f.head.wpos
           g == WriteItemAt(f, o, m)
<1>1. /\ k \in 0 .. MAX_LOG_ITEMS_PER_FILE /\ k \in Nat /\ o = SlotOffset(k + 1)
      /\ {SlotOffset(j) : j \in 1 .. k} \subseteq DOMAIN f.items
      /\ DOMAIN f.items \subseteq {SlotOffset(j) : j \in 1 .. k + 1}
      /\ ReadableSlots(f) = 1 .. k
  BY ReadableOfSound
<1>2. o \in Nat /\ o # 0 /\ o >= HeadSize
  <2>1. k + 1 \in Nat \ {0}
    BY <1>1
  <2>2. SlotOffset(k + 1) \in Nat /\ SlotOffset(k + 1) >= HeadSize
    BY <2>1, SlotOrder
  <2> QED
    BY <1>1, <2>2, SizeAssumption
<1>3. ASSUME NEW p \in DOMAIN f.items
      PROVE  p \in Nat /\ p <= o /\ (p # o => p + ItemSize <= o)
  <2>1. PICK j \in 1 .. k + 1 : p = SlotOffset(j)
    BY <1>1
  <2>2. CASE j = k + 1
    BY <1>1, <1>2, <2>1, <2>2
  <2>3. CASE j < k + 1
    <3>1. j \in Nat \ {0} /\ k + 1 \in Nat \ {0}
      BY <1>1
    <3>2. SlotOffset(j) + ItemSize <= SlotOffset(k + 1) /\ SlotOffset(j) \in Nat
      BY <2>3, <3>1, SlotOrder
    <3> QED
      BY <1>1, <1>2, <2>1, <3>2, SizeAssumption
  <2> QED
    BY <1>1, <2>2, <2>3
<1>4. DOMAIN g.items = DOMAIN f.items \cup {o}
  BY <1>3 DEF WriteItemAt
<1>5. /\ g.head = f.head /\ g.items[o] = m
      /\ \A p \in DOMAIN f.items \ {o} : g.items[p] = f.items[p]
  BY <1>2, <1>3 DEF WriteItemAt
<1>6. SoundFile(g)
  <2>1. DOMAIN g.items \subseteq {SlotOffset(j) : j \in 1 .. k + 1}
    BY <1>1, <1>4
  <2>2. g.head = HeadOf(k)
    BY <1>5, ReadableOfSound
  <2> QED
    BY <1>1, <1>4, <2>1, <2>2 DEF SoundFile
<1>7. \A j \in 1 .. k : SlotOffset(j) # o
  BY <1>1, SlotOffsets
<1> QED
  BY <1>1, <1>3, <1>4, <1>5, <1>6, <1>7

\* Counting the item that was written.
LEMMA UpdateSound ==
    ASSUME NEW f, SoundFile(f), f # EmptyFile,
           f.head.num < MAX_LOG_ITEMS_PER_FILE, f.head.wpos \in DOMAIN f.items
    PROVE  LET h == [num |-> f.head.num + 1, wpos |-> f.head.wpos + ItemSize]
               g == WriteHead(f, h)
           IN /\ SoundFile(g) /\ g.head = h
              /\ DOMAIN g.items = DOMAIN f.items
              /\ \A p \in DOMAIN f.items : g.items[p] = f.items[p]
<1> DEFINE k == f.head.num
           h == [num |-> k + 1, wpos |-> f.head.wpos + ItemSize]
           g == WriteHead(f, h)
<1>1. /\ k \in 0 .. MAX_LOG_ITEMS_PER_FILE /\ k \in Nat /\ f.head.wpos = SlotOffset(k + 1)
      /\ {SlotOffset(j) : j \in 1 .. k} \subseteq DOMAIN f.items
      /\ DOMAIN f.items \subseteq {SlotOffset(j) : j \in 1 .. k + 1}
  BY ReadableOfSound
<1>2. /\ k + 1 \in 0 .. MAX_LOG_ITEMS_PER_FILE
      /\ 1 .. k + 1 = (1 .. k) \cup {k + 1}
      /\ 1 .. k + 1 \subseteq 1 .. (k + 1) + 1
  BY <1>1, SizeAssumption
<1>3. h = HeadOf(k + 1)
  BY <1>1, SlotOrder DEF HeadOf
<1>4. \A p \in DOMAIN f.items : p >= HeadSize
  BY <1>1, SlotOrder
<1>5. g.head = h /\ DOMAIN g.items = DOMAIN f.items
  BY <1>4 DEF WriteHead
<1>6. \A p \in DOMAIN f.items : g.items[p] = f.items[p]
  BY <1>4 DEF WriteHead
<1>8. {SlotOffset(j) : j \in 1 .. k + 1} \subseteq DOMAIN g.items
  BY <1>1, <1>2, <1>5
<1>9. DOMAIN g.items \subseteq {SlotOffset(j) : j \in 1 .. (k + 1) + 1}
  BY <1>1, <1>2, <1>5
<1> QED
  BY <1>2, <1>3, <1>5, <1>6, <1>8, <1>9 DEF SoundFile

LEMMA InitMirror ==
    ASSUME FirstItemSafe
    PROVE  Init => MirrorInv
<1> SUFFICES ASSUME Init PROVE MirrorInv
  OBVIOUS
<1>1. DOMAIN disk = 0 .. InitFiles - 1 /\ \A n \in DOMAIN disk : disk[n] = OldFile(n)
  BY DEF Init
<1>2. \A n \in DOMAIN disk : SoundFile(disk[n])
  BY <1>1, OldFileSound, SizeAssumption
<1>3. InitFiles > 0 => 0 \in DOMAIN disk
  BY <1>1, SizeAssumption
<1>4. FilesSound
  BY <1>2, <1>3 DEF FilesSound, FirstItemSafe
<1> QED
  BY <1>4 DEF Init, MirrorInv, NumbersInv, PositionInv, Scanned, Running, Storing

\* A step that leaves the disk alone, and what the consumer knows of it.
LEMMA MirrorQuiet ==
    ASSUME MirrorInv, disk' = disk,
           Scanned' => Scanned /\ UNCHANGED <<fileNum, seq, fd, logHead>>,
           cpc' \in Storing => cpc' = cpc /\ headInfo' = headInfo,
           Scanned' /\ cpc' \notin Storing => cpc \notin Storing
    PROVE  MirrorInv'
<1>1. FilesSound'
  BY DEF MirrorInv, FilesSound
<1>2. NumbersInv'
  BY DEF MirrorInv, NumbersInv, Full
<1>3. cpc' \in Storing => Scanned'
  BY DEF Scanned, Running
<1>4. PositionInv'
  <2>1. CASE Scanned'
    BY <2>1 DEF MirrorInv, PositionInv, MustRotate, Full, Current, Storing
  <2>2. CASE ~Scanned'
    BY <1>3, <2>2 DEF PositionInv, Storing
  <2> QED
    BY <2>1, <2>2
<1> QED
  BY <1>1, <1>2, <1>4 DEF MirrorInv

\* While they fit their names, the files' names sort like their numbers.
LEMMA NamesInOrder ==
    ASSUME TypeOK, NamesFit
    PROVE  \A m, n \in DOMAIN disk : NameLess(m, n) => m < n
<1>1. DOMAIN disk \subseteq Nat
  BY DEF TypeOK
<1>2. \A n \in DOMAIN disk : NumeralLength(n) = NameWidth
  <2>1. TAKE n \in DOMAIN disk
  <2> DEFINE P(w) == /\ n < NameBase ^ w
                     /\ \A v \in NameWidth .. w - 1 : ~(n < NameBase ^ v)
  <2>2. n \in Nat /\ n < NameBase ^ NameWidth
    BY <1>1 DEF NamesFit
  <2>3. NameWidth \in NameWidth .. NameWidth + n /\ P(NameWidth)
    BY <2>2, SizeAssumption
  <2>4. ASSUME NEW w \in NameWidth .. NameWidth + n, P(w)
        PROVE  w = NameWidth
    <3>1. w \in Int /\ w >= NameWidth
      BY SizeAssumption
    <3>2. w > NameWidth => NameWidth \in NameWidth .. w - 1
      BY <3>1, SizeAssumption
    <3>3. ~(w > NameWidth)
      BY <2>2, <2>4, <3>2
    <3> QED
      BY <3>1, <3>3, SizeAssumption
  <2> HIDE DEF P
  <2>5. NumeralLength(n) = CHOOSE w \in NameWidth .. NameWidth + n : P(w)
    BY DEF NumeralLength, P
  <2> QED
    BY <2>3, <2>4, <2>5
<1> QED
  BY <1>1, <1>2, SizeAssumption DEF NameLess

\* The list that a scan builds names the files in the order of their numbers.
LEMMA SortedByNumber ==
    ASSUME TypeOK, NamesFit, NEW l \in SortedNames(DOMAIN disk)
    PROVE  /\ \A i, j \in 1 .. Len(l) : i < j => l[i] < l[j]
           /\ l # << >> => /\ l[Len(l)] \in DOMAIN disk
                           /\ \A n \in DOMAIN disk : n <= l[Len(l)]
<1> DEFINE N == Len(l)
<1>1. IsFiniteSet(DOMAIN disk) /\ DOMAIN disk \subseteq Nat
  BY DEF TypeOK
<1>2. N = Cardinality(DOMAIN disk) /\ {l[i] : i \in 1 .. N} = DOMAIN disk
  BY <1>1, SortedNamesList
<1>3. l \in Seq(Nat) /\ N \in Nat /\ (l # << >> => l[N] \in DOMAIN disk)
  BY ScanType
<1>4. ASSUME NEW i \in 1 .. N, NEW j \in 1 .. N, i < j
      PROVE  l[i] < l[j]
  <2>1. NameLess(l[i], l[j])
    BY <1>2, <1>4 DEF SortedNames
  <2>2. l[i] \in DOMAIN disk /\ l[j] \in DOMAIN disk
    BY <1>2
  <2> QED
    BY <2>1, <2>2, NamesInOrder
<1>5. ASSUME NEW i \in 1 .. N
      PROVE  l[i] <= l[N]
  <2>1. N \in 1 .. N /\ l[i] \in Nat
    BY <1>1, <1>2, <1>3
  <2>2. CASE i = N
    BY <2>1, <2>2
  <2>3. CASE i < N
    <3>1. l[i] < l[N] /\ l[N] \in DOMAIN disk
      BY <1>2, <1>4, <2>1, <2>3
    <3> QED
      BY <1>1, <2>1, <3>1
  <2> QED
    BY <1>3, <2>2, <2>3
<1> QED
  BY <1>2, <1>3, <1>4, <1>5

LEMMA MirrorScan == TypeOK /\ NamesFit /\ MirrorInv /\ InitLogMng => MirrorInv'
<1> SUFFICES ASSUME TypeOK, NamesFit, MirrorInv, InitLogMng PROVE MirrorInv'
  OBVIOUS
<1> PICK l \in SortedNames(DOMAIN disk) :
        /\ fileNum' = Len(l)
        /\ seq' \in NextSeq(DOMAIN disk)
        /\ IF l = << >>
           THEN /\ fd' = NoFd
                /\ initResult' = 0
                /\ logHead' = ZeroHead
           ELSE IF disk[l[Len(l)]].head \in {Torn}
           THEN /\ fd' = NoFd
                /\ initResult' = -1
                /\ UNCHANGED logHead
           ELSE /\ fd' = l[Len(l)]
                /\ initResult' = 0
                /\ logHead' \in HeadsRead(disk[l[Len(l)]].head)
  BY DEF InitLogMng, ScanDirectory
<1>1. IsFiniteSet(DOMAIN disk) /\ DOMAIN disk \subseteq Nat
  BY DEF TypeOK
<1>2. cpc' = "notify" /\ disk' = disk
  BY DEF InitLogMng, ScanDirectory
<1>3. FilesSound'
  BY <1>2 DEF MirrorInv, FilesSound
<1>4. Len(l) = Cardinality(DOMAIN disk) /\ {l[i] : i \in 1 .. Len(l)} = DOMAIN disk
  BY <1>1, SortedNamesList
<1>5. \A n \in DOMAIN disk : n < seq'
  BY <1>1 DEF NextSeq
<1>6. DOMAIN disk \ {seq'} = DOMAIN disk /\ fileNum' <= Cardinality(DOMAIN disk \ {seq'})
  <2>1. seq' \notin DOMAIN disk
    BY <1>1, <1>5
  <2>2. Cardinality(DOMAIN disk) \in Nat
    BY <1>1, FS_CardinalityType
  <2>3. DOMAIN disk \ {seq'} = DOMAIN disk
    BY <2>1
  <2>4. fileNum' = Cardinality(DOMAIN disk)
    BY <1>4
  <2>5. fileNum' <= Cardinality(DOMAIN disk)
    BY <2>2, <2>4
  <2> QED
    BY <2>3, <2>5
<1>7. fileNum' = 0 => ItemsWritten
  <2>1. fileNum' = 0 => DOMAIN disk = {}
    BY <1>1, <1>4, FS_EmptySet
  <2> QED
    BY <2>1 DEF MirrorInv, FilesSound
<1>8. NumbersInv'
  <2>1. \A n \in DOMAIN disk : n <= seq' /\ n # seq'
    <3>1. seq' \in Nat
      BY <1>1 DEF NextSeq
    <3> QED
      BY <1>1, <1>5, <3>1
  <2> QED
    BY <1>2, <1>6, <1>7, <2>1 DEF NumbersInv
<1>9. Scanned' /\ ~MustRotate' => Current(logHead)'
  <2> SUFFICES ASSUME Scanned', ~MustRotate' PROVE Current(logHead)'
    OBVIOUS
  <2>1. initResult' = 0 /\ fileNum' # 0 /\ ~Full'
    BY <1>2 DEF Scanned, Running, Storing, MustRotate
  <2>2. l # << >>
    BY <1>1, <2>1, EmptySeq
  <2> DEFINE f == disk[l[Len(l)]]
  <2>3. f.head # Torn /\ fd' = l[Len(l)] /\ logHead' \in HeadsRead(f.head)
    BY <2>1, <2>2
  <2>4. fd' \in DOMAIN disk /\ \A n \in DOMAIN disk : n <= fd'
    BY <2>2, <2>3, SortedByNumber
  <2>5. SoundFile(f) /\ f # EmptyFile
    BY <2>3, <2>4 DEF MirrorInv, FilesSound, EmptyFile
  <2>6. f.head.num \in 0 .. MAX_LOG_ITEMS_PER_FILE
    BY <2>5, ReadableOfSound
  <2>7. f.head # Garbled
    BY <2>6 DEF Garbled
  <2>8. logHead' = f.head
    BY <2>3, <2>7 DEF HeadsRead
  <2>9. logHead'.num < MAX_LOG_ITEMS_PER_FILE
    BY <2>1, <2>6, <2>8, SizeAssumption DEF Full
  <2> QED
    BY <1>2, <2>3, <2>4, <2>8, <2>9 DEF Current
<1>10. PositionInv'
  BY <1>2, <1>9 DEF PositionInv, Storing
<1> QED
  BY <1>3, <1>8, <1>10 DEF MirrorInv

LEMMA MirrorReceive == TypeOK /\ MirrorInv /\ MsgRcv => MirrorInv'
<1> SUFFICES ASSUME TypeOK, MirrorInv, MsgRcv PROVE MirrorInv'
  OBVIOUS
<1>1. /\ cpc = "recv" /\ headInfo' = logHead
      /\ cpc' = IF MustRotate THEN "rotate" ELSE "item"
      /\ UNCHANGED <<disk, list, fileNum, seq, fd, logHead>>
  BY DEF MsgRcv, Receive
<1>2. Scanned /\ Scanned'
  BY <1>1 DEF Scanned, Running, Storing
<1>3. FilesSound' /\ NumbersInv'
  BY <1>1, <1>2 DEF MirrorInv, FilesSound, NumbersInv, Full
<1>4. CASE MustRotate
  BY <1>1, <1>3, <1>4 DEF MirrorInv, PositionInv, MustRotate, Full, Storing
<1>5. CASE ~MustRotate
  <2>1. Current(logHead) /\ fileNum > 0
    BY <1>1, <1>2, <1>5 DEF MirrorInv, PositionInv, MustRotate, Storing, TypeOK
  <2>2. Current(headInfo)' /\ fileNum' > 0 /\ logHead' = headInfo' /\ cpc' = "item"
    BY <1>1, <1>5, <2>1 DEF Current
  <2> QED
    BY <1>3, <2>2 DEF MirrorInv, PositionInv, Storing
<1> QED
  BY <1>4, <1>5

LEMMA MirrorRotate ==
    ASSUME FirstItemSafe
    PROVE  TypeOK /\ MirrorInv /\ RotateOld => MirrorInv'
<1> SUFFICES ASSUME TypeOK, MirrorInv, RotateOld PROVE MirrorInv'
  OBVIOUS
<1> DEFINE x == Head(list)
           counted == DOMAIN disk \ {seq}
<1>1. /\ IsFiniteSet(DOMAIN disk) /\ fileNum \in Nat /\ LOG_FILE_MAX_NUM \in Nat \ {0}
  BY SizeAssumption DEF TypeOK
<1>2. cpc = "rotate" /\ cpc' = "open" /\ UNCHANGED <<seq, logHead>>
  BY DEF RotateOld, DeleteWhen
<1>3. Scanned /\ Scanned'
  BY <1>2 DEF Scanned, Running, Storing
<1>4. MustRotate /\ (Full \/ ItemsWritten)
  BY <1>2, <1>3 DEF MirrorInv, PositionInv, NumbersInv, MustRotate
<1>5. /\ DOMAIN disk' \subseteq DOMAIN disk
      /\ \A n \in DOMAIN disk' : disk'[n] = disk[n]
  BY DEF RotateOld, DeleteWhen, Without
<1>6. \/ UNCHANGED <<fileNum, disk>>
      \/ /\ fileNum >= LOG_FILE_MAX_NUM /\ fileNum' = fileNum - 1
         /\ DOMAIN disk \ {x} \subseteq DOMAIN disk'
  BY DEF RotateOld, DeleteWhen, Without
<1>7. MustRotate'
  BY <1>1, <1>2, <1>4, <1>6 DEF MustRotate, Full
<1>8. /\ IsFiniteSet(counted) /\ Cardinality(counted) \in Nat
      /\ fileNum <= Cardinality(counted)
  BY <1>1, <1>3, FS_RemoveElement, FS_CardinalityType DEF MirrorInv, NumbersInv
<1>9. fileNum' <= Cardinality(DOMAIN disk' \ {seq})
  <2>1. CASE UNCHANGED <<fileNum, disk>>
    BY <1>8, <2>1
  <2>2. CASE fileNum' = fileNum - 1 /\ DOMAIN disk \ {x} \subseteq DOMAIN disk'
    <3> DEFINE left == DOMAIN disk' \ {seq}
    <3>1. IsFiniteSet(left) /\ counted \ {x} \subseteq left
      BY <1>1, <1>5, <2>2, FS_Subset
    <3>2. Cardinality(counted \ {x}) <= Cardinality(left)
      BY <3>1, FS_Subset
    <3>3. /\ Cardinality(counted \ {x}) >= Cardinality(counted) - 1
          /\ Cardinality(counted \ {x}) \in Nat
      <4>1. Cardinality(counted \ {x}) = IF x \in counted THEN Cardinality(counted) - 1
                                         ELSE Cardinality(counted)
        BY <1>8, FS_RemoveElement
      <4>2. IsFiniteSet(counted \ {x})
        BY <1>8, FS_RemoveElement
      <4>3. Cardinality(counted \ {x}) \in Nat
        BY <4>2, FS_CardinalityType
      <4> HIDE DEF counted
      <4> QED
        BY <1>8, <4>1, <4>3
    <3>4. Cardinality(left) \in Nat
      BY <3>1, FS_CardinalityType
    <3> QED
      BY <1>1, <1>8, <2>2, <3>2, <3>3, <3>4
  <2> QED
    BY <1>6, <2>1, <2>2
<1>10. ItemsWritten \/ DOMAIN disk' # {}
  <2> SUFFICES ASSUME ~ItemsWritten, DOMAIN disk' = {} PROVE FALSE
    OBVIOUS
  <2>1. LOG_FILE_MAX_NUM > 1 /\ DOMAIN disk # {}
    BY DEF FirstItemSafe, MirrorInv, FilesSound
  <2>2. fileNum >= LOG_FILE_MAX_NUM /\ counted \subseteq {x}
    BY <1>6, <2>1
  <2>3. Cardinality(counted) <= 1
    <3>1. IsFiniteSet({x}) /\ Cardinality({x}) = 1
      BY FS_Singleton
    <3>2. counted \in SUBSET {x}
      BY <2>2
    <3> HIDE DEF counted
    <3>3. Cardinality(counted) <= Cardinality({x})
      BY <3>1, <3>2, FS_Subset
    <3> QED
      BY <3>1, <3>3
  <2> QED
    BY <1>1, <1>8, <2>1, <2>2, <2>3
<1>11. FilesSound'
  BY <1>5, <1>10 DEF MirrorInv, FilesSound
<1>12. NumbersInv'
  BY <1>2, <1>3, <1>4, <1>5, <1>9 DEF MirrorInv, NumbersInv, Full
<1>13. PositionInv'
  BY <1>2, <1>7 DEF PositionInv, Storing
<1> QED
  BY <1>11, <1>12, <1>13 DEF MirrorInv

LEMMA MirrorOpen == TypeOK /\ MirrorInv /\ OpenNew => MirrorInv'
<1> SUFFICES ASSUME TypeOK, MirrorInv, OpenNew PROVE MirrorInv'
  OBVIOUS
<1>1. cpc = "open" /\ UNCHANGED <<list, fileNum, seq, logHead>> /\ seq \in Nat
  BY DEF OpenNew, TypeOK
<1>2. Scanned /\ MustRotate /\ MustRotate'
  BY <1>1 DEF Scanned, Running, Storing, MirrorInv, PositionInv, MustRotate, Full
<1>3. CASE cpc' = "recv" /\ disk' = disk
  <2>1. FilesSound' /\ NumbersInv'
    BY <1>1, <1>2, <1>3 DEF MirrorInv, FilesSound, NumbersInv, Full
  <2> QED
    BY <1>2, <1>3, <2>1 DEF MirrorInv, PositionInv, Storing
<1>4. CASE /\ disk' = IF seq \in DOMAIN disk THEN disk
                      ELSE [n \in DOMAIN disk \cup {seq} |->
                               IF n = seq THEN EmptyFile ELSE disk[n]]
           /\ fd' = seq /\ cpc' = "header"
  <2>1. /\ DOMAIN disk' = DOMAIN disk \cup {seq}
        /\ \A n \in DOMAIN disk : disk'[n] = disk[n]
        /\ disk'[seq] = EmptyFile
    BY <1>2, <1>4 DEF MirrorInv, NumbersInv
  <2>2. FilesSound'
    BY <2>1 DEF MirrorInv, FilesSound, SoundFile
  <2>3. DOMAIN disk' \ {seq} = DOMAIN disk \ {seq}
    BY <2>1
  <2>4. NumbersInv'
    BY <1>1, <1>2, <2>1, <2>3 DEF MirrorInv, NumbersInv, Full
  <2> QED
    BY <1>1, <1>2, <1>4, <2>1, <2>2, <2>4 DEF MirrorInv, PositionInv, Storing
<1> QED
  BY <1>3, <1>4 DEF OpenNew, WriteLogReturns

LEMMA MirrorHeader ==
    TypeOK /\ MirrorInv /\ (WriteNewHeader \/ WriteNewHeaderFails) => MirrorInv'
<1> SUFFICES ASSUME TypeOK, MirrorInv, WriteNewHeader \/ WriteNewHeaderFails
             PROVE  MirrorInv'
  OBVIOUS
<1>1. /\ cpc = "header" /\ UNCHANGED logHead
      /\ IsFiniteSet(DOMAIN disk) /\ DOMAIN disk \subseteq Nat
      /\ seq \in Nat /\ fileNum \in Nat
  BY DEF WriteNewHeader, WriteNewHeaderFails, TypeOK
<1>2. /\ Scanned /\ MustRotate /\ fd = seq /\ seq \in DOMAIN disk
      /\ disk[seq] = EmptyFile /\ (Full \/ ItemsWritten)
  BY <1>1 DEF Scanned, Running, Storing, MirrorInv, PositionInv, NumbersInv, MustRotate
<1>3. CASE WriteNewHeaderFails
  <2>1. cpc' = "recv" /\ UNCHANGED <<disk, fileNum, seq, logHead>>
    BY <1>3 DEF WriteNewHeaderFails, WriteLogReturns
  <2>2. FilesSound' /\ NumbersInv'
    BY <1>2, <2>1 DEF MirrorInv, FilesSound, NumbersInv, Full
  <2>3. MustRotate'
    BY <1>2, <2>1 DEF MustRotate, Full
  <2> QED
    BY <2>1, <2>2, <2>3 DEF MirrorInv, PositionInv, Storing
<1>4. CASE WriteNewHeader
  <2> DEFINE new == WriteHead(EmptyFile, NewHead)
  <2>1. /\ cpc' = "item" /\ headInfo' = NewHead /\ fileNum' = fileNum + 1
        /\ seq' = seq + 1 /\ fd' = fd /\ DOMAIN disk' = DOMAIN disk
        /\ \A n \in DOMAIN disk : disk'[n] = IF n = seq THEN new ELSE disk[n]
    BY <1>2, <1>4 DEF WriteNewHeader
  <2>2. SoundFile(new) /\ new.head = NewHead
    BY NewHeaderSound
  <2> HIDE DEF new
  <2>3. FilesSound'
    BY <2>1, <2>2 DEF MirrorInv, FilesSound
  <2>4. \A n \in DOMAIN disk : n <= seq
    BY <1>2 DEF MirrorInv, NumbersInv
  <2>5. fileNum' <= Cardinality(DOMAIN disk' \ {seq'})
    <3>1. DOMAIN disk' \ {seq'} = DOMAIN disk
      BY <1>1, <2>1, <2>4
    <3>2. /\ Cardinality(DOMAIN disk \ {seq}) = Cardinality(DOMAIN disk) - 1
          /\ Cardinality(DOMAIN disk) \in Nat
      BY <1>1, <1>2, FS_RemoveElement, FS_CardinalityType
    <3>3. fileNum <= Cardinality(DOMAIN disk \ {seq})
      BY <1>2 DEF MirrorInv, NumbersInv
    <3> QED
      BY <1>1, <2>1, <3>1, <3>2, <3>3
  <2>6. NumbersInv'
    <3>1. \A n \in DOMAIN disk' : n <= seq' /\ n # seq'
      BY <1>1, <2>1, <2>4
    <3>2. fileNum' # 0
      BY <1>1, <2>1
    <3> QED
      BY <2>5, <3>1, <3>2 DEF NumbersInv
  <2>7. Current(headInfo)' /\ fileNum' > 0
    <3>1. NewHead.num < MAX_LOG_ITEMS_PER_FILE
      BY SizeAssumption DEF NewHead
    <3> QED
      BY <1>1, <1>2, <2>1, <2>2, <2>4, <3>1 DEF Current
  <2>8. PositionInv'
    BY <1>1, <1>2, <2>1, <2>7 DEF PositionInv, Full, Storing
  <2> QED
    BY <2>3, <2>6, <2>8 DEF MirrorInv
<1> QED
  BY <1>3, <1>4

\* What the consumer knows while it writes an item or counts it.
LEMMA AtItem ==
    ASSUME TypeOK, MirrorInv, cpc \in {"item", "update"}
    PROVE  /\ Scanned /\ fd \in DOMAIN disk /\ \A n \in DOMAIN disk : n <= fd
           /\ SoundFile(disk[fd]) /\ disk[fd] # EmptyFile /\ disk[fd].head = headInfo
           /\ headInfo.num \in Nat /\ headInfo.num < MAX_LOG_ITEMS_PER_FILE
           /\ fileNum > 0 /\ fd # seq
<1>1. Scanned
  BY DEF Scanned, Running, Storing
<1>2. Current(headInfo) /\ fileNum > 0
  BY DEF MirrorInv, PositionInv
<1>3. headInfo.num \in Nat
  BY DEF TypeOK, HeadRecord
<1>4. disk[fd] # EmptyFile
  BY <1>2, <1>3 DEF Current, EmptyFile, Torn
<1> QED
  BY <1>1, <1>2, <1>3, <1>4 DEF Current, MirrorInv, FilesSound, NumbersInv

\* A step that changes the open file only, into a sound one.
LEMMA OnlyOpenFile ==
    ASSUME TypeOK, MirrorInv, cpc \in {"item", "update"}, NEW g, SoundFile(g),
           disk' = [disk EXCEPT ![fd] = g],
           UNCHANGED <<fileNum, seq>>, Full' \/ Full => Full' \/ fileNum > 0
    PROVE  /\ FilesSound' /\ NumbersInv'
           /\ DOMAIN disk' = DOMAIN disk /\ disk'[fd] = g
<1>1. /\ DOMAIN disk' = DOMAIN disk /\ disk'[fd] = g
      /\ \A n \in DOMAIN disk : n # fd => disk'[n] = disk[n]
  BY AtItem
<1>2. FilesSound'
  BY <1>1 DEF MirrorInv, FilesSound
<1>3. NumbersInv'
  BY <1>1, AtItem DEF MirrorInv, NumbersInv, TypeOK
<1> QED
  BY <1>1, <1>2, <1>3

\* A message whose item could not be written or counted: the header in memory is
\* still that of the open file, or that of the full file before it.
LEMMA MirrorGivesUp ==
    ASSUME TypeOK, MirrorInv, cpc \in {"item", "update"}, ~ItemsWritten,
           cpc' = "recv", UNCHANGED <<disk, fileNum, seq, fd, logHead>>
    PROVE  MirrorInv'
<1>1. Scanned /\ Current(headInfo) /\ (logHead = headInfo \/ Full)
  BY AtItem DEF MirrorInv, PositionInv
<1>2. FilesSound' /\ NumbersInv'
  BY <1>1 DEF MirrorInv, FilesSound, NumbersInv, Full
<1>3. ~MustRotate' => Current(logHead)'
  BY <1>1 DEF MustRotate, Full, Current
<1> QED
  BY <1>2, <1>3 DEF MirrorInv, PositionInv, Storing

LEMMA MirrorItem == TypeOK /\ MirrorInv /\ WriteItem => MirrorInv'
<1> SUFFICES ASSUME TypeOK, MirrorInv, WriteItem PROVE MirrorInv'
  OBVIOUS
<1>1. cpc = "item" /\ UNCHANGED <<list, fileNum, seq, fd, logHead>>
  BY DEF WriteItem
<1>2. CASE Fail("item") /\ WriteLogReturns /\ UNCHANGED disk
  BY <1>1, <1>2, MirrorGivesUp DEF Fail, WriteLogReturns, ItemsWritten
<1>3. CASE /\ disk' = [disk EXCEPT ![fd] = WriteItemAt(@, headInfo.wpos, cur)]
           /\ cpc' = "update" /\ UNCHANGED headInfo
  <2> DEFINE g == WriteItemAt(disk[fd], headInfo.wpos, cur)
  <2>1. SoundFile(g) /\ g.head = headInfo /\ headInfo.wpos \in DOMAIN g.items
    BY <1>1, AtItem, ItemSound
  <2>2. disk' = [disk EXCEPT ![fd] = g]
    BY <1>3
  <2> HIDE DEF g
  <2>3. /\ FilesSound' /\ NumbersInv'
        /\ DOMAIN disk' = DOMAIN disk /\ disk'[fd] = g
    BY <1>1, <2>1, <2>2, AtItem, OnlyOpenFile
  <2>4. Current(headInfo)' /\ fileNum' > 0
    BY <1>1, <1>3, <2>1, <2>3, AtItem DEF Current
  <2>5. logHead' = headInfo' \/ Full' \/ ItemsWritten
    BY <1>1, <1>3 DEF MirrorInv, PositionInv, Full
  <2> QED
    BY <1>1, <1>3, <2>1, <2>3, <2>4, <2>5 DEF MirrorInv, PositionInv, Storing
<1> QED
  BY <1>2, <1>3 DEF WriteItem

LEMMA MirrorUpdate == TypeOK /\ MirrorInv /\ UpdateHeader => MirrorInv'
<1> SUFFICES ASSUME TypeOK, MirrorInv, UpdateHeader PROVE MirrorInv'
  OBVIOUS
<1> DEFINE h == [num |-> headInfo.num + 1, wpos |-> headInfo.wpos + ItemSize]
<1>1. cpc = "update" /\ cpc' = "recv" /\ UNCHANGED <<list, fileNum, seq, fd>>
  BY DEF UpdateHeader, WriteLogReturns
<1>2. CASE Fail("update") /\ UNCHANGED <<disk, logHead>>
  BY <1>1, <1>2, MirrorGivesUp DEF Fail, ItemsWritten
<1>3. CASE disk' = [disk EXCEPT ![fd] = WriteHead(@, h)] /\ logHead' = h
  <2> DEFINE g == WriteHead(disk[fd], h)
  <2>1. headInfo.wpos \in DOMAIN disk[fd].items
    BY <1>1 DEF MirrorInv, PositionInv
  <2>2. SoundFile(g) /\ g.head = h
    BY <1>1, <2>1, AtItem, UpdateSound
  <2>3. disk' = [disk EXCEPT ![fd] = g]
    BY <1>3
  <2> HIDE DEF g
  <2>4. /\ FilesSound' /\ NumbersInv'
        /\ DOMAIN disk' = DOMAIN disk /\ disk'[fd] = g
    BY <1>1, <2>2, <2>3, AtItem, OnlyOpenFile
  <2>5. ~MustRotate' => h.num < MAX_LOG_ITEMS_PER_FILE
    BY <1>1, <1>3, AtItem, SizeAssumption DEF MustRotate, Full
  <2>6. ~MustRotate' => Current(logHead)'
    BY <1>1, <1>3, <2>2, <2>4, <2>5, AtItem DEF Current
  <2> QED
    BY <1>1, <2>4, <2>6 DEF MirrorInv, PositionInv, Storing
<1> QED
  BY <1>2, <1>3 DEF UpdateHeader

LEMMA MirrorStep ==
    ASSUME FirstItemSafe
    PROVE  TypeOK /\ NamesFit /\ MirrorInv /\ [Next]_vars => MirrorInv'
<1> SUFFICES ASSUME TypeOK, NamesFit, MirrorInv, [Next]_vars PROVE MirrorInv'
  OBVIOUS
<1> USE DEF Scanned, Running, Storing
<1>1. CASE StartLogMngTask \/ StartLogMngTaskFails \/ \E t \in Threads : WaitModuleInited(t)
  BY <1>1, MirrorQuiet DEF StartLogMngTask, StartLogMngTaskFails, WaitModuleInited
<1>2. CASE InitLogMngFails \/ NotifyModuleInited
  BY <1>2, MirrorQuiet DEF InitLogMngFails, NotifyModuleInited
<1>3. CASE InitLogMng
  BY <1>3, MirrorScan
<1>4. CASE \E p \in Producers : WriteLogApi(p) \/ CheckInitResult(p) \/ MsgSnd(p)
  BY <1>4, MirrorQuiet DEF WriteLogApi, CheckInitResult, MsgSnd
<1>5. CASE MsgRcv
  BY <1>5, MirrorReceive
<1>6. CASE RotateOld
  BY <1>6, MirrorRotate
<1>7. CASE OpenNew
  BY <1>7, MirrorOpen
<1>8. CASE WriteNewHeader \/ WriteNewHeaderFails
  BY <1>8, MirrorHeader
<1>9. CASE WriteItem
  BY <1>9, MirrorItem
<1>10. CASE UpdateHeader
  BY <1>10, MirrorUpdate
<1>11. CASE Crash
  BY <1>11, MirrorQuiet DEF Crash, FreshMemory
<1>12. CASE UNCHANGED vars
  BY <1>12, MirrorQuiet DEF vars
<1> QED
  BY <1>1, <1>2, <1>3, <1>4, <1>5, <1>6, <1>7, <1>8, <1>9, <1>10, <1>11, <1>12
     DEF Next, MainThread, Consumer, Producer

\* The consumer writes into the newest file, behind the items the header of that
\* file on disk counts, whatever failed before it or was interrupted by a crash
\* (LogMng.c:354-389), as long as the names of the files sort like their numbers
\* and no first file loses its first item to a failing write.
THEOREM MemoryMirrors ==
    ASSUME FirstItemSafe
    PROVE  Spec /\ []NamesFit => []MemoryMirrorsDisk
<1>1. Init => MirrorInv
  BY InitMirror
<1>2. TypeOK /\ NamesFit /\ MirrorInv /\ [Next]_vars => MirrorInv'
  BY MirrorStep
<1>3. TypeOK /\ MirrorInv => MemoryMirrorsDisk
  <2> SUFFICES ASSUME TypeOK, MirrorInv, cpc \in {"header", "item", "update"}
               PROVE  /\ fd \in DOMAIN disk /\ \A n \in DOMAIN disk : n <= fd
                      /\ cpc = "item" => disk[fd].head = headInfo
    BY DEF MemoryMirrorsDisk, WriterOnNewestFile, HeadMirrorsDisk
  <2>1. CASE cpc = "header"
    BY <2>1 DEF MirrorInv, PositionInv, NumbersInv, Scanned, Running, Storing
  <2>2. CASE cpc \in {"item", "update"}
    BY <2>2, AtItem
  <2> QED
    BY <2>1, <2>2
<1> QED
  BY <1>1, <1>2, <1>3, TypeCorrect, PTL DEF Spec
-----------------------------------------------------------------------------
(* The log keeps the order of the queue.                                   *)

LEMMA InitOrder == Init => OrderInv
<1> SUFFICES ASSUME Init PROVE OrderInv
  OBVIOUS
<1> DEFINE MAX == MAX_LOG_ITEMS_PER_FILE
           slot(x) == CHOOSE k \in 1 .. MAX : x = SlotOffset(k)
<1>1. \A n \in DOMAIN disk : n \in Nat /\ disk[n] = OldFile(n)
  BY SizeAssumption DEF Init
<1>2. ASSUME NEW n \in Nat, NEW o \in DOMAIN OldFile(n).items
      PROVE  /\ slot(o) \in 1 .. MAX /\ o = SlotOffset(slot(o))
             /\ OldFile(n).items[o] = n * MAX + slot(o)
  BY <1>2 DEF OldFile
<1>3. MAX \in Nat
  BY SizeAssumption
<1> HIDE DEF slot, MAX
<1>4. ASSUME NEW i \in Nat, NEW j \in Nat, i < j
      PROVE  i * MAX + MAX <= j * MAX
  <2>1. j * MAX = i * MAX + MAX + (j - i - 1) * MAX
    BY <1>3
  <2>2. j - i - 1 \in Nat
    BY <1>4
  <2>3. \A x, y \in Nat : x * y \in Nat
    OBVIOUS
  <2>4. (j - i - 1) * MAX \in Nat /\ i * MAX \in Nat
    BY <1>3, <2>2, <2>3
  <2> QED
    BY <1>3, <2>1, <2>4
<1>5. ASSUME NEW m \in Nat, NEW n \in Nat,
             NEW o \in DOMAIN OldFile(m).items, NEW p \in DOMAIN OldFile(n).items,
             m < n \/ (m = n /\ o < p)
      PROVE  OldFile(m).items[o] < OldFile(n).items[p]
  <2>1. /\ slot(o) \in 1 .. MAX /\ o = SlotOffset(slot(o))
        /\ slot(p) \in 1 .. MAX /\ p = SlotOffset(slot(p))
        /\ OldFile(m).items[o] = m * MAX + slot(o)
        /\ OldFile(n).items[p] = n * MAX + slot(p)
    BY <1>2
  <2>2. m * MAX \in Int /\ n * MAX \in Int
    BY <1>3
  <2>3. CASE m < n
    BY <1>3, <1>4, <2>1, <2>2, <2>3
  <2>4. CASE m = n /\ o < p
    <3>1. slot(o) < slot(p)
      BY <2>1, <2>4, SlotOrder
    <3> QED
      BY <1>3, <2>1, <2>2, <2>4, <3>1
  <2> QED
    BY <1>5, <2>3, <2>4
<1> QED
  BY <1>1, <1>5 DEF OrderInv

\* Only a successful WriteItem adds to the disk.
LEMMA OnlyWriteItemAdds ==
    ASSUME [Next]_vars
    PROVE  \/ DiskShrinks
           \/ /\ cpc = "item"
              /\ disk' = [disk EXCEPT ![fd] = WriteItemAt(@, headInfo.wpos, cur)]
<1>1. disk' = disk => DiskShrinks
  BY DEF DiskShrinks
<1>2. CASE MainThread \/ (\E p \in Producers : Producer(p)) \/ Crash \/ UNCHANGED vars
  BY <1>1, <1>2 DEF MainThread, StartLogMngTask, StartLogMngTaskFails, WaitModuleInited,
     Producer, WriteLogApi, CheckInitResult, MsgSnd, Crash, vars
<1>3. CASE \/ InitLogMngFails \/ InitLogMng \/ NotifyModuleInited
           \/ MsgRcv \/ WriteNewHeaderFails
  BY <1>1, <1>3 DEF InitLogMngFails, InitLogMng, ScanDirectory, NotifyModuleInited,
     MsgRcv, Receive, WriteNewHeaderFails
<1>4. CASE RotateOld
  BY <1>4 DEF RotateOld, DeleteWhen, Without, DiskShrinks
<1>5. CASE OpenNew
  BY <1>5 DEF OpenNew, EmptyFile, DiskShrinks
<1>6. CASE WriteNewHeader
  BY <1>6 DEF WriteNewHeader, WriteHead, DiskShrinks
<1>7. CASE UpdateHeader
  BY <1>7 DEF UpdateHeader, WriteHead, DiskShrinks
<1>8. CASE WriteItem
  BY <1>1, <1>8 DEF WriteItem
<1> QED
  BY <1>2, <1>3, <1>4, <1>5, <1>6, <1>7, <1>8 DEF Next, Consumer

LEMMA OrderStep ==
    TypeOK /\ MirrorInv /\ DeliveryInv /\ OrderInv /\ [Next]_vars => OrderInv'
<1> SUFFICES ASSUME TypeOK, MirrorInv, DeliveryInv, OrderInv, [Next]_vars
             PROVE  OrderInv'
  OBVIOUS
<1>1. CASE DiskShrinks
  BY <1>1 DEF OrderInv, DiskShrinks
<1>2. CASE /\ cpc = "item"
           /\ disk' = [disk EXCEPT ![fd] = WriteItemAt(@, headInfo.wpos, cur)]
  <2> DEFINE f == disk[fd]
             o == headInfo.wpos
             g == WriteItemAt(f, o, cur)
  <2>1. /\ fd \in DOMAIN disk /\ \A n \in DOMAIN disk : n <= fd
        /\ DOMAIN g.items = DOMAIN f.items \cup {o} /\ g.items[o] = cur
        /\ \A p \in DOMAIN f.items \ {o} : g.items[p] = f.items[p]
        /\ \A p \in DOMAIN f.items : p <= o
    BY <1>2, AtItem, ItemSound
  <2>2. DOMAIN disk' = DOMAIN disk
        /\ \A n \in DOMAIN disk : disk'[n] = IF n = fd THEN g ELSE disk[n]
    BY <1>2
  <2>3. \A n \in DOMAIN disk : \A p \in DOMAIN disk[n].items :
           disk[n].items[p] < cur /\ disk[n].items[p] \in Nat /\ cur \in Nat
    BY <1>2 DEF DeliveryInv, Storing, TypeOK, FileType
  <2>4. /\ DOMAIN disk \subseteq Nat /\ fd \in Nat /\ o \in Nat
        /\ \A n \in DOMAIN disk : DOMAIN disk[n].items \subseteq Nat
    BY <2>1 DEF TypeOK, FileType, HeadRecord
  <2> HIDE DEF f, g, o
  <2>5. \A n \in DOMAIN disk : \A p \in DOMAIN disk'[n].items :
           \/ n = fd /\ p = o /\ disk'[n].items[p] = cur
           \/ /\ p \in DOMAIN disk[n].items
              /\ disk'[n].items[p] = disk[n].items[p]
              /\ n < fd \/ (n = fd /\ p < o)
    BY <2>1, <2>2, <2>4 DEF f
  <2>6. SUFFICES ASSUME NEW m \in DOMAIN disk, NEW n \in DOMAIN disk,
                        NEW p \in DOMAIN disk'[m].items, NEW q \in DOMAIN disk'[n].items,
                        m < n \/ (m = n /\ p < q)
                 PROVE  disk'[m].items[p] < disk'[n].items[q]
    BY <2>2 DEF OrderInv
  <2>7. m \in Nat /\ n \in Nat /\ p \in Nat /\ q \in Nat
    BY <2>4, <2>5
  <2>8. CASE m = fd /\ p = o
    BY <2>4, <2>5, <2>6, <2>7, <2>8
  <2>9. CASE ~(m = fd /\ p = o)
    <3>1. p \in DOMAIN disk[m].items /\ disk'[m].items[p] = disk[m].items[p]
      BY <2>5, <2>9
    <3>2. CASE n = fd /\ q = o /\ disk'[n].items[q] = cur
      BY <2>3, <3>1, <3>2
    <3>3. CASE q \in DOMAIN disk[n].items /\ disk'[n].items[q] = disk[n].items[q]
      BY <2>6, <3>1, <3>3 DEF OrderInv
    <3> QED
      BY <2>5, <3>2, <3>3
  <2> QED
    BY <2>8, <2>9
<1> QED
  BY <1>1, <1>2, OnlyWriteItemAdds

\* Files in the order of their numbers, and items in the order of their slots, give
\* the messages in the order msgsnd accepted them, across rotations, failing calls
\* and restarts (LogMng.c:354-389, 466).
THEOREM StoredOrdered ==
    ASSUME FirstItemSafe
    PROVE  Spec /\ []NamesFit => []StoredInOrder
<1>1. Init => MirrorInv /\ DeliveryInv /\ OrderInv
  BY InitMirror, InitDelivery, InitOrder
<1>2. TypeOK /\ NamesFit /\ MirrorInv /\ DeliveryInv /\ OrderInv /\ [Next]_vars
        => MirrorInv' /\ DeliveryInv' /\ OrderInv'
  BY MirrorStep, DeliveryStep, OrderStep
<1>3. TypeOK /\ OrderInv => StoredInOrder
  <2> SUFFICES ASSUME TypeOK, OrderInv, NEW m \in DOMAIN disk, NEW n \in DOMAIN disk,
                      NEW j \in ReadableSlots(disk[m]), NEW k \in ReadableSlots(disk[n]),
                      m < n \/ (m = n /\ j < k)
               PROVE  disk[m].items[SlotOffset(j)] < disk[n].items[SlotOffset(k)]
    BY DEF StoredInOrder
  <2>1. ASSUME NEW x \in DOMAIN disk, NEW i \in ReadableSlots(disk[x])
        PROVE  i \in Nat \ {0} /\ SlotOffset(i) \in DOMAIN disk[x].items
    <3>1. disk[x].head.num \in Int
      BY DEF TypeOK, FileType, HeadRecord, Torn, Garbled
    <3> QED
      BY <3>1 DEF ReadableSlots
  <2>2. j < k => SlotOffset(j) < SlotOffset(k)
    BY <2>1, SlotOrder
  <2> QED
    BY <2>1, <2>2 DEF OrderInv
<1> QED
  BY <1>1, <1>2, <1>3, TypeCorrect, PTL DEF Spec
-----------------------------------------------------------------------------
(* No step loses a message but by deleting its file.                       *)

LEMMA NothingOverwritten ==
    ASSUME TypeOK, MirrorInv, [Next]_vars, NEW n \in DOMAIN disk \cap DOMAIN disk'
    PROVE  ReadableIn(disk[n]) \subseteq ReadableIn(disk'[n])
<1>1. CASE MainThread \/ (\E p \in Producers : Producer(p)) \/ Crash \/ UNCHANGED vars
  BY <1>1 DEF MainThread, StartLogMngTask, StartLogMngTaskFails, WaitModuleInited,
     Producer, WriteLogApi, CheckInitResult, MsgSnd, Crash, vars
<1>2. CASE \/ InitLogMngFails \/ InitLogMng \/ NotifyModuleInited
           \/ MsgRcv \/ WriteNewHeaderFails
  BY <1>2 DEF InitLogMngFails, InitLogMng, ScanDirectory, NotifyModuleInited,
     MsgRcv, Receive, WriteNewHeaderFails
<1>3. CASE RotateOld \/ OpenNew
  BY <1>3 DEF RotateOld, DeleteWhen, Without, OpenNew
<1>4. CASE WriteNewHeader
  <2>1. fd = seq /\ seq \in DOMAIN disk /\ disk[seq] = EmptyFile
    BY <1>4 DEF WriteNewHeader, MirrorInv, PositionInv, NumbersInv, Scanned, Running, Storing
  <2>2. ReadableIn(EmptyFile) = {}
    BY DEF ReadableIn, ReadableSlots, EmptyFile, Torn
  <2> QED
    BY <1>4, <2>1, <2>2 DEF WriteNewHeader
<1>5. CASE WriteItem
  <2> DEFINE f == disk[fd]
             g == WriteItemAt(f, headInfo.wpos, cur)
  <2>1. CASE disk' = disk
    BY <2>1
  <2>2. CASE disk' = [disk EXCEPT ![fd] = WriteItemAt(@, headInfo.wpos, cur)]
    <3>1. cpc = "item"
      BY <1>5 DEF WriteItem
    <3>2. /\ fd \in DOMAIN disk /\ g.head = f.head
          /\ DOMAIN f.items \subseteq DOMAIN g.items
          /\ \A p \in DOMAIN f.items \ {headInfo.wpos} : g.items[p] = f.items[p]
          /\ \A j \in ReadableSlots(f) : SlotOffset(j) # headInfo.wpos
      BY <3>1, AtItem, ItemSound
    <3>3. disk'[n] = IF n = fd THEN g ELSE disk[n]
      BY <2>2, <3>2
    <3> HIDE DEF g
    <3>4. ReadableIn(f) \subseteq ReadableIn(g)
      BY <3>2 DEF ReadableIn, ReadableSlots
    <3> QED
      BY <3>3, <3>4
  <2> QED
    BY <1>5, <2>1, <2>2 DEF WriteItem
<1>6. CASE UpdateHeader
  <2> DEFINE f == disk[fd]
             h == [num |-> headInfo.num + 1, wpos |-> headInfo.wpos + ItemSize]
             g == WriteHead(f, h)
  <2>1. CASE disk' = disk
    BY <2>1
  <2>2. CASE disk' = [disk EXCEPT ![fd] = WriteHead(@, h)]
    <3>1. cpc = "update" /\ headInfo.wpos \in DOMAIN f.items
      BY <1>6 DEF UpdateHeader, MirrorInv, PositionInv
    <3>2. /\ fd \in DOMAIN disk /\ f.head.num = headInfo.num /\ headInfo.num \in Nat
          /\ g.head.num = headInfo.num + 1 /\ DOMAIN g.items = DOMAIN f.items
          /\ \A p \in DOMAIN f.items : g.items[p] = f.items[p]
      BY <3>1, AtItem, UpdateSound
    <3>3. disk'[n] = IF n = fd THEN g ELSE disk[n]
      BY <2>2, <3>2
    <3> HIDE DEF g
    <3>4. ReadableIn(f) \subseteq ReadableIn(g)
      BY <3>2 DEF ReadableIn, ReadableSlots
    <3> QED
      BY <3>3, <3>4
  <2> QED
    BY <1>6, <2>1, <2>2 DEF UpdateHeader
<1> QED
  BY <1>1, <1>2, <1>3, <1>4, <1>5, <1>6 DEF Next, Consumer

\* A step never loses a message a reader of the log could find, except by deleting
\* the whole file that holds it: no write lands on a counted item, and no header
\* counts fewer of them (LogMng.c:314-381).
THEOREM NothingLost ==
    ASSUME FirstItemSafe
    PROVE  Spec /\ []NamesFit => NoOverwrite
<1>1. Init => MirrorInv
  BY InitMirror
<1>2. TypeOK /\ NamesFit /\ MirrorInv /\ [Next]_vars => MirrorInv'
  BY MirrorStep
<1> DEFINE Kept == \A n \in DOMAIN disk \cap DOMAIN disk' :
                      ReadableIn(disk[n]) \subseteq ReadableIn(disk'[n])
<1>3. TypeOK /\ MirrorInv /\ [Next]_vars => [Kept]_vars
  BY NothingOverwritten
<1> QED
  BY <1>1, <1>2, <1>3, TypeCorrect, PTL DEF Spec, NoOverwrite
-----------------------------------------------------------------------------
(* How long the file numbers fit their names.                              *)

\* A new file needs a message: the number of the next one, and those on disk, are
\* within what the messages received so far account for.
PerMessage ==
    LET limit == InitFiles + Received - OldItems
    IN /\ \A n \in DOMAIN disk : n < limit
       /\ seq <= limit
       /\ cpc \in {"rotate", "open", "header"} => seq < limit
       /\ cpc = "header" => fd = seq

LEMMA InitPerMessage == Init => PerMessage
<1> SUFFICES ASSUME Init PROVE PerMessage
  OBVIOUS
<1>1. OldItems \in Nat /\ InitFiles \in Nat
  BY InitType, SizeAssumption DEF Init, TypeOK
<1>2. InitFiles + Received - OldItems = InitFiles
  BY <1>1 DEF Init, Received
<1> QED
  BY <1>1, <1>2 DEF Init, PerMessage

LEMMA PerMessageStep == TypeOK /\ PerMessage /\ [Next]_vars => PerMessage'
<1> SUFFICES ASSUME TypeOK, PerMessage, [Next]_vars PROVE PerMessage'
  OBVIOUS
<1>1. Received \in Int /\ InitFiles \in Nat /\ OldItems \in Int /\ seq \in Nat
  BY SizeAssumption DEF TypeOK, Received, OldItems
<1>2. ASSUME UNCHANGED <<queue, accepted>>
      PROVE  Received' = Received
  BY <1>2 DEF Received
<1>3. ASSUME Received' = Received, DOMAIN disk' \subseteq DOMAIN disk, seq' = seq,
             cpc' \in {"rotate", "open", "header"} =>
                cpc \in {"rotate", "open", "header"} /\ (cpc' = "header" => UNCHANGED <<cpc, fd>>)
      PROVE  PerMessage'
  BY <1>3 DEF PerMessage
<1>4. CASE StartLogMngTask \/ StartLogMngTaskFails \/ \E t \in Threads : WaitModuleInited(t)
  BY <1>2, <1>3, <1>4 DEF StartLogMngTask, StartLogMngTaskFails, WaitModuleInited
<1>5. CASE InitLogMngFails \/ NotifyModuleInited
  BY <1>2, <1>3, <1>5 DEF InitLogMngFails, NotifyModuleInited
<1>6. CASE InitLogMng
  <2>1. /\ seq' \in NextSeq(DOMAIN disk) /\ cpc' = "notify"
        /\ UNCHANGED <<disk, queue, accepted>>
    BY <1>6 DEF InitLogMng, ScanDirectory
  <2>2. \E m \in DOMAIN disk \cup {-1} : seq' = m + 1
    BY <2>1 DEF NextSeq
  <2>3. InitFiles + Received - OldItems >= 0
    BY <1>1 DEF PerMessage
  <2>4. seq' <= InitFiles + Received - OldItems
    <3> PICK m \in DOMAIN disk \cup {-1} : seq' = m + 1
      BY <2>2
    <3>1. m \in Int /\ m < InitFiles + Received - OldItems
      BY <1>1, <2>3 DEF PerMessage, TypeOK
    <3> QED
      BY <1>1, <3>1
  <2> QED
    BY <1>2, <2>1, <2>4 DEF PerMessage
<1>7. CASE \E p \in Producers : WriteLogApi(p) \/ CheckInitResult(p)
  BY <1>2, <1>3, <1>7 DEF WriteLogApi, CheckInitResult
<1>8. CASE \E p \in Producers : MsgSnd(p)
  <2>1. UNCHANGED <<disk, seq, cpc, fd>>
    BY <1>8 DEF MsgSnd, memory
  <2>2. Received' = Received
    <3>1. queue \in Seq(Nat) /\ accepted \in Nat
      BY DEF TypeOK
    <3>2. CASE queue' = Append(queue, accepted + 1) /\ accepted' = accepted + 1
      <4>1. Len(queue') = Len(queue) + 1 /\ Len(queue) \in Nat
        BY <3>1, <3>2, AppendProperties, LenProperties
      <4> QED
        BY <3>1, <3>2, <4>1 DEF Received
    <3> QED
      BY <1>2, <1>8, <3>2 DEF MsgSnd
  <2> QED
    BY <1>3, <2>1, <2>2
<1>9. CASE MsgRcv
  <2>1. /\ queue # << >> /\ queue' = Tail(queue) /\ UNCHANGED <<accepted, disk, seq, fd>>
        /\ cpc' # "header"
    BY <1>9 DEF MsgRcv, Receive, memory
  <2>2. queue \in Seq(Nat) /\ accepted \in Nat
    BY DEF TypeOK
  <2>3. Len(queue) \in Nat \ {0} /\ Len(queue') = Len(queue) - 1
    BY <2>1, <2>2, HeadTailProperties, EmptySeq, LenProperties
  <2>4. Received' = Received + 1
    BY <2>1, <2>2, <2>3 DEF Received
  <2>5. \A n \in DOMAIN disk : n \in Nat
    BY DEF TypeOK
  <2> QED
    BY <1>1, <2>1, <2>4, <2>5 DEF PerMessage, OldItems
<1>10. CASE RotateOld
  BY <1>2, <1>3, <1>10 DEF RotateOld, DeleteWhen, Without
<1>11. CASE OpenNew
  <2>1. /\ cpc = "open" /\ seq' = seq /\ UNCHANGED <<queue, accepted>>
        /\ DOMAIN disk' \subseteq DOMAIN disk \cup {seq}
        /\ cpc' = "header" => fd' = seq
        /\ cpc' \in {"header", "recv"}
    BY <1>11 DEF OpenNew, WriteLogReturns
  <2> QED
    BY <1>1, <1>2, <2>1 DEF PerMessage
<1>12. CASE WriteNewHeader
  <2>1. /\ cpc = "header" /\ seq' = seq + 1 /\ cpc' = "item" /\ UNCHANGED <<queue, accepted>>
        /\ DOMAIN disk' = DOMAIN disk
    BY <1>12 DEF WriteNewHeader
  <2> QED
    BY <1>1, <1>2, <2>1 DEF PerMessage
<1>13. CASE WriteNewHeaderFails
  BY <1>2, <1>3, <1>13 DEF WriteNewHeaderFails, WriteLogReturns
<1>14. CASE WriteItem
  BY <1>2, <1>3, <1>14 DEF WriteItem, WriteLogReturns, memory
<1>15. CASE UpdateHeader
  BY <1>2, <1>3, <1>15 DEF UpdateHeader, WriteLogReturns
<1>16. CASE Crash
  <2>1. seq' = 0 /\ cpc' = "none" /\ UNCHANGED <<queue, accepted, disk>>
    BY <1>16 DEF Crash, FreshMemory
  <2> QED
    BY <1>1, <1>2, <2>1 DEF PerMessage
<1>17. CASE UNCHANGED vars
  BY <1>2, <1>3, <1>17 DEF vars, memory
<1> QED
  BY <1>4, <1>5, <1>6, <1>7, <1>8, <1>9, <1>10, <1>11, <1>12, <1>13, <1>14, <1>15,
     <1>16, <1>17
     DEF Next, MainThread, Consumer, Producer

\* The names "log%03d" sort like the numbers for as long as the files of an earlier
\* process and the messages accepted since are no more than there are numbers of
\* three digits (LogMng.c:163, 292): a log file is only begun for a message.
THEOREM NamesFitForLong ==
    Spec => [](InitFiles + accepted - OldItems <= NameBase ^ NameWidth => NamesFit)
<1>1. TypeOK /\ PerMessage =>
        (InitFiles + accepted - OldItems <= NameBase ^ NameWidth => NamesFit)
  <2> SUFFICES ASSUME TypeOK, PerMessage, NEW n \in DOMAIN disk,
                      InitFiles + accepted - OldItems <= NameBase ^ NameWidth
               PROVE  n < NameBase ^ NameWidth
    BY DEF NamesFit
  <2>1. queue \in Seq(Nat) /\ accepted \in Nat /\ n \in Nat
    BY DEF TypeOK
  <2>2. Len(queue) \in Nat
    BY <2>1, LenProperties
  <2>3. n < InitFiles + (accepted - Len(queue)) - OldItems
    BY DEF PerMessage, Received
  <2>4. InitFiles \in Nat /\ OldItems \in Int
    BY SizeAssumption DEF OldItems
  <2>5. NameBase ^ NameWidth \in Int
    BY SizeAssumption
  <2> QED
    BY <2>1, <2>2, <2>3, <2>4, <2>5
<1> QED
  BY <1>1, TypeCorrect, InitPerMessage, PerMessageStep, PTL DEF Spec
-----------------------------------------------------------------------------
(* The places of a finite set, in their order.                             *)

Spots == Nat \X Nat

\* The places before one.
Below(S, p) == {q \in S : Before(q, p)}

\* Before is a strict total order.
LEMMA BeforeOrder ==
    /\ \A p \in Spots : ~Before(p, p)
    /\ \A p, q \in Spots : p = q \/ Before(p, q) \/ Before(q, p)
    /\ \A p, q, r \in Spots : Before(p, q) /\ Before(q, r) => Before(p, r)
<1>1. \A p \in Spots : p[1] \in Nat /\ p[2] \in Nat /\ p = <<p[1], p[2]>>
  BY DEF Spots
<1>2. \A p \in Spots : ~Before(p, p)
  BY <1>1, SMT DEF Before
<1>3. \A p, q, r \in Spots : Before(p, q) /\ Before(q, r) => Before(p, r)
  BY <1>1, SMT DEF Before
<1>4. ASSUME NEW p \in Spots, NEW q \in Spots, ~Before(p, q), ~Before(q, p)
      PROVE  p = q
  <2>1. p[1] = q[1] /\ p[2] = q[2]
    BY <1>1, <1>4, SMT DEF Before
  <2> QED
    BY <1>1, <2>1
<1> QED
  BY <1>2, <1>3, <1>4

\* How many places are before one.
LEMMA BelowType ==
    ASSUME NEW S \in SUBSET Spots, IsFiniteSet(S), NEW p
    PROVE  IsFiniteSet(Below(S, p)) /\ Cardinality(Below(S, p)) \in Nat
<1>1. Below(S, p) \subseteq S
  BY DEF Below
<1> QED
  BY <1>1, FS_Subset, FS_CardinalityType

LEMMA RankedIsBelow ==
    \A S, i : Ranked(S, i) = {p \in S : Cardinality(Below(S, p)) = i}
BY DEF Ranked, Below

\* A place of S has fewer places before it than S has, and more than those before it.
LEMMA BelowGrows ==
    ASSUME NEW S \in SUBSET Spots, IsFiniteSet(S), NEW p \in S
    PROVE  /\ Cardinality(Below(S, p)) < Cardinality(S)
           /\ \A q \in S : Before(q, p) => Cardinality(Below(S, q)) < Cardinality(Below(S, p))
<1>1. ASSUME NEW A, IsFiniteSet(A), NEW B \in SUBSET A, NEW x \in A, x \notin B
      PROVE  Cardinality(B) < Cardinality(A)
  <2>1. IsFiniteSet(A \ {x}) /\ Cardinality(A \ {x}) = Cardinality(A) - 1
    BY <1>1, FS_RemoveElement
  <2>2. B \subseteq A \ {x}
    BY <1>1
  <2>3. IsFiniteSet(B) /\ Cardinality(B) <= Cardinality(A \ {x})
    BY <2>1, <2>2, FS_Subset
  <2>4. Cardinality(A) \in Nat /\ Cardinality(B) \in Nat
    BY <1>1, <2>3, FS_CardinalityType
  <2> QED
    BY <2>1, <2>3, <2>4
<1>2. Below(S, p) \subseteq S /\ p \notin Below(S, p)
  BY BeforeOrder DEF Below
<1>3. ASSUME NEW q \in S, Before(q, p)
      PROVE  Cardinality(Below(S, q)) < Cardinality(Below(S, p))
  <2>1. Below(S, q) \subseteq Below(S, p)
    <3> SUFFICES ASSUME NEW r \in Below(S, q) PROVE r \in Below(S, p)
      OBVIOUS
    <3>2. r \in S /\ Before(r, q) /\ r \in Spots /\ q \in Spots /\ p \in Spots
      BY DEF Below
    <3>3. Before(r, p)
      BY <1>3, <3>2, BeforeOrder
    <3> QED
      BY <3>2, <3>3 DEF Below
  <2>2. q \in Below(S, p) /\ q \notin Below(S, q)
    BY <1>3, BeforeOrder DEF Below
  <2>3. IsFiniteSet(Below(S, p))
    BY BelowType
  <2> QED
    BY <1>1, <2>1, <2>2, <2>3
<1>4. Cardinality(Below(S, p)) < Cardinality(S)
  BY <1>1, <1>2
<1> QED
  BY <1>3, <1>4

\* Every number below that of the places is the rank of one.
LEMMA RankTaken ==
    ASSUME NEW S \in SUBSET Spots, IsFiniteSet(S), NEW i \in 0 .. Cardinality(S) - 1
    PROVE  Ranked(S, i) # {} /\ Nth(S, i) \in S
<1> DEFINE N == Cardinality(S)
           rank == [p \in S |-> Cardinality(Below(S, p))]
<1>1. N \in Nat
  BY FS_CardinalityType
<1>2. rank \in [S -> 0 .. N - 1]
  BY <1>1, BelowType, BelowGrows
<1>3. ASSUME NEW p \in S, NEW q \in S, rank[p] = rank[q]
      PROVE  p = q
  <2>1. ~Before(p, q)
    BY <1>3, BelowGrows, BelowType
  <2>2. ~Before(q, p)
    BY <1>3, BelowGrows, BelowType
  <2> QED
    BY <2>1, <2>2, BeforeOrder
<1>4. rank \in Injection(S, 0 .. N - 1)
  BY <1>2, <1>3 DEF Injection, IsInjective
<1>5. IsFiniteSet(0 .. N - 1) /\ Cardinality(0 .. N - 1) = N
  BY <1>1, FS_Interval
<1>6. rank \in Surjection(S, 0 .. N - 1)
  BY <1>4, <1>5, FS_Injection
<1>7. PICK p \in S : rank[p] = i
  BY <1>6 DEF Surjection
<1>8. p \in Ranked(S, i)
  BY <1>7, RankedIsBelow
<1>9. Ranked(S, i) \subseteq S
  BY DEF Ranked
<1> QED
  BY <1>8, <1>9 DEF Nth

\* A place behind all others takes the next rank and changes no other.
LEMMA RankedAdd ==
    ASSUME NEW S \in SUBSET Spots, IsFiniteSet(S), NEW x \in Spots,
           \A p \in S : Before(p, x)
    PROVE  /\ x \notin S
           /\ Ranked(S \cup {x}, Cardinality(S)) = {x}
           /\ \A i \in 0 .. Cardinality(S) - 1 : Ranked(S \cup {x}, i) = Ranked(S, i)
<1> DEFINE T == S \cup {x}
           N == Cardinality(S)
<1>1. x \notin S /\ N \in Nat
  BY BeforeOrder, FS_CardinalityType
<1>2. \A p \in S : ~Before(x, p)
  BY BeforeOrder
<1>3. \A p \in S : Below(T, p) = Below(S, p)
  BY <1>2 DEF Below
<1>4. Below(T, x) = S
  BY BeforeOrder DEF Below
<1>5. \A p \in S : Cardinality(Below(T, p)) # N
  BY <1>1, <1>3, BelowGrows, BelowType
<1>6. Ranked(T, N) = {x}
  BY <1>4, <1>5, RankedIsBelow
<1>7. ASSUME NEW i \in 0 .. N - 1
      PROVE  Ranked(T, i) = Ranked(S, i)
  <2>1. Cardinality(Below(T, x)) # i
    BY <1>1, <1>4
  <2> QED
    BY <1>3, <2>1, RankedIsBelow
<1> QED
  BY <1>1, <1>6, <1>7

\* Without places before all others, the ranks of the others begin at nought.
LEMMA RankedDrop ==
    ASSUME NEW S \in SUBSET Spots, IsFiniteSet(S), NEW D \in SUBSET S,
           \A x \in D, p \in S \ D : Before(x, p)
    PROVE  /\ IsFiniteSet(D) /\ Cardinality(D) \in Nat
           /\ Cardinality(S \ D) = Cardinality(S) - Cardinality(D)
           /\ \A i \in Nat : Ranked(S \ D, i) = Ranked(S, i + Cardinality(D))
<1> DEFINE T == S \ D
           N == Cardinality(D)
<1>1. IsFiniteSet(D) /\ N \in Nat /\ IsFiniteSet(T) /\ T \in SUBSET Spots
  BY FS_Subset, FS_CardinalityType
<1>2. \A x \in D, p \in T : ~Before(p, x)
  BY BeforeOrder
<1>3. ASSUME NEW p \in T
      PROVE  Cardinality(Below(S, p)) = Cardinality(Below(T, p)) + N
  <2>1. Below(S, p) = D \cup Below(T, p)
    BY DEF Below
  <2>2. IsFiniteSet(Below(T, p)) /\ Cardinality(Below(T, p)) \in Nat
    BY <1>1, BelowType
  <2>3. D \cap Below(T, p) = {}
    BY DEF Below
  <2>4. Cardinality(D \cup Below(T, p)) = N + Cardinality(Below(T, p)) - Cardinality({})
    BY <1>1, <2>2, <2>3, FS_Union
  <2> QED
    BY <1>1, <2>1, <2>2, <2>4, FS_EmptySet
<1>4. ASSUME NEW x \in D
      PROVE  Cardinality(Below(S, x)) < N
  <2>1. Below(S, x) = Below(D, x)
    BY <1>2 DEF Below
  <2>2. D \in SUBSET Spots
    OBVIOUS
  <2> QED
    BY <1>1, <2>1, <2>2, BelowGrows
<1>5. Cardinality(T) = Cardinality(S) - N
  <2>1. S = D \cup T /\ D \cap T = {}
    OBVIOUS
  <2>2. Cardinality(S) = N + Cardinality(T) - Cardinality({})
    BY <1>1, <2>1, FS_Union
  <2>3. Cardinality(T) \in Nat /\ Cardinality(S) \in Nat
    BY <1>1, FS_CardinalityType
  <2> QED
    BY <1>1, <2>2, <2>3, FS_EmptySet
<1>6. ASSUME NEW i \in Nat
      PROVE  Ranked(T, i) = Ranked(S, i + N)
  <2>1. ASSUME NEW p \in T
        PROVE  Cardinality(Below(T, p)) = i <=> Cardinality(Below(S, p)) = i + N
    <3>1. Cardinality(Below(T, p)) \in Nat
      BY <1>1, BelowType
    <3> QED
      BY <1>1, <1>3, <3>1
  <2>2. ASSUME NEW x \in D
        PROVE  Cardinality(Below(S, x)) # i + N
    <3>1. Cardinality(Below(S, x)) \in Nat
      BY BelowType
    <3> QED
      BY <1>1, <1>4, <3>1
  <2> QED
    BY <2>1, <2>2, RankedIsBelow
<1> QED
  BY <1>1, <1>5, <1>6
-----------------------------------------------------------------------------
(* The messages a log holds.                                               *)

SoundDisk(d) ==
    /\ IsFiniteSet(DOMAIN d) /\ DOMAIN d \subseteq Nat
    /\ \A n \in DOMAIN d : SoundFile(d[n])

\* The slots a sound file counts.
LEMMA SlotsOfSound ==
    ASSUME NEW f, SoundFile(f)
    PROVE  /\ ReadableSlots(f) \subseteq 1 .. MAX_LOG_ITEMS_PER_FILE
           /\ ReadableSlots(f) \subseteq Nat
           /\ FullFile(f) => ReadableSlots(f) = 1 .. MAX_LOG_ITEMS_PER_FILE
<1>1. MAX_LOG_ITEMS_PER_FILE \in Nat \ {0}
  BY SizeAssumption
<1>2. CASE f = EmptyFile
  BY <1>1, <1>2, ReadableOfSound DEF FullFile, EmptyFile, Torn
<1>3. CASE f # EmptyFile
  BY <1>1, <1>3, ReadableOfSound DEF FullFile
<1> QED
  BY <1>2, <1>3

LEMMA PlacesAre ==
    ASSUME NEW d
    PROVE  /\ \A n \in DOMAIN d : \A k \in ReadableSlots(d[n]) : <<n, k>> \in Places(d)
           /\ \A p \in Places(d) : \E n \in DOMAIN d : \E k \in ReadableSlots(d[n]) : p = <<n, k>>
           /\ \A p \in Places(d) : /\ p[1] \in DOMAIN d /\ p[2] \in ReadableSlots(d[p[1]])
                                   /\ p = <<p[1], p[2]>>
<1>1. \A p \in Places(d) : \E n \in DOMAIN d : \E k \in ReadableSlots(d[n]) : p = <<n, k>>
  BY DEF Places
<1>2. \A n \in DOMAIN d : \A k \in ReadableSlots(d[n]) : <<n, k>> \in Places(d)
  BY DEF Places
<1>3. ASSUME NEW p \in Places(d)
      PROVE  p[1] \in DOMAIN d /\ p[2] \in ReadableSlots(d[p[1]]) /\ p = <<p[1], p[2]>>
  <2>1. PICK n \in DOMAIN d : \E k \in ReadableSlots(d[n]) : p = <<n, k>>
    BY <1>1
  <2>2. PICK k \in ReadableSlots(d[n]) : p = <<n, k>>
    BY <2>1
  <2>3. p[1] = n /\ p[2] = k
    BY <2>2
  <2> QED
    BY <2>2, <2>3
<1> QED
  BY <1>1, <1>2, <1>3

LEMMA PlacesType ==
    ASSUME NEW d, SoundDisk(d)
    PROVE  /\ Places(d) \in SUBSET Spots /\ IsFiniteSet(Places(d))
           /\ Cardinality(Places(d)) \in Nat
<1> DEFINE MAX == MAX_LOG_ITEMS_PER_FILE
<1>1. ASSUME NEW p \in Places(d)
      PROVE  p \in (DOMAIN d) \X (1 .. MAX) /\ p \in Spots
  <2>1. p[1] \in DOMAIN d /\ p[2] \in ReadableSlots(d[p[1]]) /\ p = <<p[1], p[2]>>
    BY PlacesAre
  <2>2. p[2] \in 1 .. MAX /\ p[2] \in Nat /\ p[1] \in Nat
    BY <2>1, SlotsOfSound DEF SoundDisk
  <2> QED
    BY <2>1, <2>2 DEF Spots
<1>2. IsFiniteSet(1 .. MAX)
  BY FS_Interval, SizeAssumption
<1>3. IsFiniteSet((DOMAIN d) \X (1 .. MAX))
  BY <1>2, FS_Product DEF SoundDisk
<1>4. IsFiniteSet(Places(d))
  BY <1>1, <1>3, FS_Subset
<1> QED
  BY <1>1, <1>4, FS_CardinalityType

\* The message of each rank, and how many there are.
LEMMA ContentsAre ==
    ASSUME NEW d, SoundDisk(d)
    PROVE  /\ Contents(d) \in Seq({ItemAt(d, p) : p \in Places(d)})
           /\ Len(Contents(d)) = Cardinality(Places(d))
           /\ \A i \in 1 .. Cardinality(Places(d)) :
                 Contents(d)[i] = ItemAt(d, Nth(Places(d), i - 1))
           /\ \A i \in 0 .. Cardinality(Places(d)) - 1 :
                 Nth(Places(d), i) \in Places(d)
<1> DEFINE N == Cardinality(Places(d))
           R(i) == Nth(Places(d), i)
<1>1. N \in Nat /\ Places(d) \in SUBSET Spots /\ IsFiniteSet(Places(d))
  BY PlacesType
<1>2. \A i \in 0 .. N - 1 : R(i) \in Places(d)
  BY <1>1, RankTaken DEF Nth
<1>3. Contents(d) = [i \in 1 .. N |-> ItemAt(d, R(i - 1))]
  BY DEF Contents
<1> HIDE DEF R, N
<1>4. \A i \in 1 .. N : R(i - 1) \in Places(d)
  <2>1. \A i \in 1 .. N : i - 1 \in 0 .. N - 1
    BY <1>1
  <2> QED
    BY <1>2, <2>1
<1>5. Contents(d) \in [1 .. N -> {ItemAt(d, p) : p \in Places(d)}]
  BY <1>3, <1>4
<1>6. Contents(d) \in Seq({ItemAt(d, p) : p \in Places(d)}) /\ Len(Contents(d)) = N
  BY <1>1, <1>5
<1>7. \A i \in 1 .. N : Contents(d)[i] = ItemAt(d, R(i - 1))
  BY <1>3
<1> QED
  BY <1>2, <1>6, <1>7 DEF R, N

LEMMA ContentsSame ==
    ASSUME NEW d, NEW e, SoundDisk(d), Places(e) = Places(d),
           \A p \in Places(d) : ItemAt(e, p) = ItemAt(d, p)
    PROVE  Contents(e) = Contents(d)
<1> DEFINE N == Cardinality(Places(d))
           R(i) == Nth(Places(d), i)
<1>1. N \in Nat /\ \A i \in 0 .. N - 1 : R(i) \in Places(d)
  BY PlacesType, ContentsAre
<1>2. /\ Contents(d) = [i \in 1 .. N |-> ItemAt(d, R(i - 1))]
      /\ Contents(e) = [i \in 1 .. N |-> ItemAt(e, R(i - 1))]
  BY DEF Contents
<1> HIDE DEF N, R
<1>3. \A i \in 1 .. N : ItemAt(e, R(i - 1)) = ItemAt(d, R(i - 1))
  <2>1. \A i \in 1 .. N : i - 1 \in 0 .. N - 1
    BY <1>1
  <2> QED
    BY <1>1, <2>1
<1> QED
  BY <1>2, <1>3

\* A new place behind all others.
LEMMA ContentsAdd ==
    ASSUME NEW d, NEW e, SoundDisk(d), SoundDisk(e), NEW x \in Spots, Places(e) = Places(d) \cup {x},
           \A p \in Places(d) : Before(p, x) /\ ItemAt(e, p) = ItemAt(d, p)
    PROVE  Contents(e) = Append(Contents(d), ItemAt(e, x))
<1> DEFINE S == Places(d)
           N == Cardinality(S)
           T == S \cup {x}
<1>1. S \in SUBSET Spots /\ IsFiniteSet(S) /\ N \in Nat
  BY PlacesType
<1>2. x \notin S /\ Ranked(T, N) = {x} /\ \A i \in 0 .. N - 1 : Ranked(T, i) = Ranked(S, i)
  BY <1>1, RankedAdd
<1>3. Cardinality(T) = N + 1
  BY <1>1, <1>2, FS_AddElement
<1>4. Nth(T, N) = x /\ \A i \in 0 .. N - 1 : Nth(T, i) = Nth(S, i) /\ Nth(S, i) \in S
  BY <1>1, <1>2, RankTaken DEF Nth
<1>5. /\ Len(Contents(d)) = N /\ Contents(d) \in Seq({ItemAt(d, p) : p \in S})
      /\ \A i \in 1 .. N : Contents(d)[i] = ItemAt(d, Nth(S, i - 1))
  BY ContentsAre
<1>6. /\ Len(Contents(e)) = N + 1 /\ Contents(e) \in Seq({ItemAt(e, p) : p \in T})
      /\ \A i \in 1 .. N + 1 : Contents(e)[i] = ItemAt(e, Nth(T, i - 1))
  BY <1>3, ContentsAre
<1> DEFINE V == {ItemAt(e, p) : p \in T}
           c == Append(Contents(d), ItemAt(e, x))
<1>7. \A p \in S : ItemAt(d, p) \in V /\ ItemAt(e, p) = ItemAt(d, p)
  <2>1. \A p \in S : ItemAt(e, p) = ItemAt(d, p)
    OBVIOUS
  <2> QED
    BY <2>1
<1>8. x \in T
  OBVIOUS
<1> HIDE DEF S, N, T
<1>9. ItemAt(e, x) \in V /\ Contents(d) \in Seq(V)
  <2>1. {ItemAt(d, p) : p \in S} \subseteq V
    BY <1>7
  <2> QED
    BY <1>5, <1>8, <2>1, SeqMonotonic
<1> HIDE DEF V
<1>10. c \in Seq(V) /\ Len(c) = N + 1 /\ c[N + 1] = ItemAt(e, x)
       /\ \A i \in 1 .. N : c[i] = Contents(d)[i]
  BY <1>5, <1>9, AppendProperties
<1> HIDE DEF c
<1>11. ASSUME NEW i \in 1 .. N
       PROVE  Contents(e)[i] = c[i]
  <2>1. i - 1 \in 0 .. N - 1 /\ i \in 1 .. N + 1
    BY <1>1
  <2>2. Nth(T, i - 1) = Nth(S, i - 1) /\ Nth(S, i - 1) \in S
    BY <1>4, <2>1
  <2> QED
    BY <1>5, <1>6, <1>7, <1>10, <2>1, <2>2
<1>12. Contents(e)[N + 1] = c[N + 1]
  <2>1. N + 1 - 1 = N /\ N + 1 \in 1 .. N + 1
    BY <1>1
  <2>2. \A i \in 1 .. N + 1 : i - 1 = N => Contents(e)[i] = ItemAt(e, x)
    <3>1. TAKE i \in 1 .. N + 1
    <3>2. Contents(e)[i] = ItemAt(e, Nth(T, i - 1))
      BY <1>6
    <3> QED
      BY <1>4, <3>2, Zenon
  <2> QED
    BY <1>1, <1>10, <2>1, <2>2
<1>13. \A i \in 1 .. N + 1 : Contents(e)[i] = c[i]
  <2>1. \A i \in 1 .. N + 1 : i = N + 1 \/ i \in 1 .. N
    BY <1>1
  <2> QED
    BY <1>11, <1>12, <2>1
<1>14. Contents(e) \in Seq(V)
  BY <1>6 DEF V
<1>15. Contents(e) = c
  BY <1>6, <1>10, <1>13, <1>14, SeqEqual
<1> QED
  BY <1>15 DEF c

\* Without places before all others.
LEMMA ContentsDrop ==
    ASSUME NEW d, NEW e, SoundDisk(d), SoundDisk(e), NEW D \in SUBSET Places(d),
           Places(e) = Places(d) \ D,
           \A x \in D, p \in Places(d) \ D : Before(x, p),
           \A p \in Places(e) : ItemAt(e, p) = ItemAt(d, p)
    PROVE  /\ Cardinality(D) \in Nat
           /\ Contents(e) = SubSeq(Contents(d), Cardinality(D) + 1, Len(Contents(d)))
<1> DEFINE S == Places(d)
           N == Cardinality(S)
           T == S \ D
           M == Cardinality(D)
<1>1. S \in SUBSET Spots /\ IsFiniteSet(S) /\ N \in Nat
  BY PlacesType
<1>2. /\ M \in Nat /\ Cardinality(T) = N - M
      /\ \A i \in Nat : Ranked(T, i) = Ranked(S, i + M)
  BY <1>1, RankedDrop
<1>3. IsFiniteSet(T) /\ T \in SUBSET Spots /\ N - M \in Nat
  BY <1>1, <1>2, FS_Subset, FS_CardinalityType
<1>4. \A i \in 0 .. (N - M) - 1 : Nth(T, i) \in T
  BY <1>2, <1>3, RankTaken
<1>5. \A i \in Nat : Nth(T, i) = Nth(S, i + M)
  BY <1>2 DEF Nth
<1>6. /\ Len(Contents(d)) = N /\ Contents(d) \in Seq({ItemAt(d, p) : p \in S})
      /\ \A i \in 1 .. N : Contents(d)[i] = ItemAt(d, Nth(S, i - 1))
  BY ContentsAre
<1>7. /\ Len(Contents(e)) = N - M /\ Contents(e) \in Seq({ItemAt(e, p) : p \in T})
      /\ \A i \in 1 .. N - M : Contents(e)[i] = ItemAt(e, Nth(T, i - 1))
  BY <1>2, ContentsAre
<1>8. \A p \in T : p \in S /\ ItemAt(e, p) = ItemAt(d, p)
  OBVIOUS
<1> DEFINE V == {ItemAt(d, p) : p \in S}
           c == SubSeq(Contents(d), M + 1, N)
<1> HIDE DEF S, N, T, M
<1>9. ASSUME NEW i \in 1 .. N - M
      PROVE  Contents(e)[i] = Contents(d)[i + M]
  <2>1. i - 1 \in 0 .. (N - M) - 1 /\ i - 1 \in Nat /\ i + M \in 1 .. N
        /\ (i - 1) + M = (i + M) - 1
    BY <1>1, <1>2, <1>3
  <2>2. Nth(T, i - 1) = Nth(S, (i + M) - 1) /\ Nth(T, i - 1) \in T
    BY <1>4, <1>5, <2>1
  <2>3. Contents(d)[i + M] = ItemAt(d, Nth(S, (i + M) - 1))
    BY <1>6, <2>1
  <2> QED
    BY <1>7, <1>8, <2>2, <2>3
<1>10. Contents(e) \in Seq(V)
  <2>1. {ItemAt(e, p) : p \in T} \subseteq V
    BY <1>8
  <2> QED
    BY <1>7, <2>1, SeqMonotonic
<1>11. \A i \in 1 .. N : Contents(d)[i] \in V
  BY <1>6, ElementOfSeq
<1> HIDE DEF V
<1>12. /\ c \in Seq(V)
       /\ Len(c) = IF M + 1 <= N THEN N - (M + 1) + 1 ELSE 0
       /\ \A i \in 1 .. N - (M + 1) + 1 : c[i] = Contents(d)[(M + 1) + i - 1]
  <2>1. M + 1 \in Int /\ N \in Int /\ \A i \in M + 1 .. N : Contents(d)[i] \in V
    BY <1>1, <1>2, <1>11
  <2> QED
    BY <2>1, SubSeqProperties
<1>13. Len(c) = N - M
  BY <1>1, <1>2, <1>3, <1>12
<1>14. \A i \in 1 .. N - M : c[i] = Contents(d)[i + M]
  <2>1. TAKE i \in 1 .. N - M
  <2>2. i \in 1 .. N - (M + 1) + 1 /\ (M + 1) + i - 1 = i + M
    BY <1>1, <1>2
  <2> QED
    BY <1>12, <2>2
<1> HIDE DEF c
<1>15. Contents(e) = c
  BY <1>7, <1>9, <1>10, <1>12, <1>13, <1>14, SeqEqual
<1> QED
  BY <1>2, <1>6, <1>15 DEF M, N, c
-----------------------------------------------------------------------------
(* Only the newest file is not full.                                       *)

LEMMA InitFull == Init => FullInv
<1> SUFFICES ASSUME Init PROVE FullInv
  OBVIOUS
<1>1. \A n \in DOMAIN disk : disk[n] = OldFile(n)
  BY DEF Init
<1>2. \A n \in DOMAIN disk : FullFile(disk[n])
  <2>1. \A n : OldFile(n).head.num = MAX_LOG_ITEMS_PER_FILE
    BY DEF OldFile
  <2> QED
    BY <1>1, <2>1 DEF FullFile
<1>3. ~Scanned /\ cpc = "none"
  BY DEF Init, Scanned, Running, Storing
<1> QED
  BY <1>2, <1>3 DEF FullInv

\* A step that leaves the disk alone, and what the consumer knows of it.
LEMMA FullQuiet ==
    ASSUME FullInv, disk' = disk,
           Scanned' => Scanned /\ UNCHANGED <<list, fileNum, seq, logHead>>,
           Scanned' /\ cpc' \notin {"item", "update"} /\ MustRotate =>
               cpc \notin {"item", "update"},
           cpc' # "update"
    PROVE  FullInv'
BY DEF FullInv, MustRotate, Full

LEMMA FullScan == TypeOK /\ NamesFit /\ MirrorInv /\ FullInv /\ InitLogMng => FullInv'
<1> SUFFICES ASSUME TypeOK, NamesFit, MirrorInv, FullInv, InitLogMng PROVE FullInv'
  OBVIOUS
<1> DEFINE MAX == MAX_LOG_ITEMS_PER_FILE
<1> PICK l \in SortedNames(DOMAIN disk) :
        /\ list' = l
        /\ fileNum' = Len(l)
        /\ IF l = << >>
           THEN /\ fd' = NoFd
                /\ initResult' = 0
                /\ logHead' = ZeroHead
           ELSE IF disk[l[Len(l)]].head \in {Torn}
           THEN /\ fd' = NoFd
                /\ initResult' = -1
                /\ UNCHANGED logHead
           ELSE /\ fd' = l[Len(l)]
                /\ initResult' = 0
                /\ logHead' \in HeadsRead(disk[l[Len(l)]].head)
  BY DEF InitLogMng, ScanDirectory
<1>1. IsFiniteSet(DOMAIN disk) /\ DOMAIN disk \subseteq Nat
  BY DEF TypeOK
<1>2. cpc' = "notify" /\ disk' = disk
  BY DEF InitLogMng, ScanDirectory
<1>3. \A i, j \in 1 .. Len(list') : i < j => list'[i] < list'[j]
  BY SortedByNumber
<1>4. ASSUME Scanned', MustRotate', NEW n \in DOMAIN disk
      PROVE  FullFile(disk[n])
  <2>1. initResult' = 0
    BY <1>2, <1>4 DEF Scanned, Running, Storing
  <2>2. Len(l) = Cardinality(DOMAIN disk) /\ Cardinality(DOMAIN disk) # 0
    BY <1>1, <1>4, FS_EmptySet, SortedNamesList
  <2>3. l # << >>
    BY <2>2, EmptySeq
  <2> DEFINE x == l[Len(l)]
  <2>4. x \in DOMAIN disk /\ n <= x
    BY <2>3, SortedByNumber
  <2>5. disk[x].head # Torn /\ logHead' \in HeadsRead(disk[x].head)
    BY <2>1, <2>3
  <2>6. SoundFile(disk[x]) /\ disk[x] # EmptyFile
    BY <2>4, <2>5 DEF MirrorInv, FilesSound, EmptyFile
  <2>7. disk[x].head.num \in 0 .. MAX
    BY <2>6, ReadableOfSound
  <2>8. disk[x].head # Garbled
    BY <2>7 DEF Garbled
  <2>9. logHead' = disk[x].head
    BY <2>5, <2>8 DEF HeadsRead
  <2>10. logHead'.num >= MAX
    <3>1. fileNum' # 0
      BY <2>2
    <3> QED
      BY <1>4, <3>1 DEF MustRotate, Full
  <2>11. FullFile(disk[x])
    BY <2>7, <2>9, <2>10, SizeAssumption DEF FullFile
  <2> HIDE DEF x
  <2>12. n < x \/ n = x
    BY <1>1, <2>4
  <2> QED
    BY <2>4, <2>11, <2>12 DEF FullInv
<1> QED
  BY <1>2, <1>3, <1>4 DEF FullInv

LEMMA FullRotate ==
    TypeOK /\ BoundInv /\ MirrorInv /\ FullInv /\ RotateOld => FullInv'
<1> SUFFICES ASSUME TypeOK, BoundInv, MirrorInv, FullInv, RotateOld PROVE FullInv'
  OBVIOUS
<1>1. cpc = "rotate" /\ cpc' = "open" /\ UNCHANGED <<seq, logHead>>
  BY DEF RotateOld, DeleteWhen
<1>2. Scanned /\ MustRotate
  BY <1>1 DEF Scanned, Running, Storing, MirrorInv, PositionInv
<1>3. DOMAIN disk' \subseteq DOMAIN disk /\ \A n \in DOMAIN disk' : disk'[n] = disk[n]
  BY DEF RotateOld, DeleteWhen, Without
<1>4. \A i, j \in 1 .. Len(list') : i < j => list'[i] < list'[j]
  <2>1. list \in Seq(Nat) /\ \A i, j \in 1 .. Len(list) : i < j => list[i] < list[j]
    BY <1>2 DEF TypeOK, FullInv
  <2>2. CASE list' = list
    BY <2>1, <2>2
  <2>3. CASE list # << >> /\ list' = Tail(list)
    <3>1. /\ Len(list') = Len(list) - 1 /\ Len(list) \in Nat
          /\ \A i \in 1 .. Len(list') : list'[i] = list[i + 1]
      BY <2>1, <2>3, HeadTailProperties, LenProperties
    <3>2. TAKE i, j \in 1 .. Len(list')
    <3>3. i + 1 \in 1 .. Len(list) /\ j + 1 \in 1 .. Len(list) /\ (i < j => i + 1 < j + 1)
      BY <3>1
    <3> QED
      BY <2>1, <3>1, <3>3
  <2> QED
    BY <2>2, <2>3, Zenon DEF RotateOld, DeleteWhen
<1> QED
  BY <1>1, <1>2, <1>3, <1>4 DEF FullInv

LEMMA FullOpen == TypeOK /\ MirrorInv /\ FullInv /\ OpenNew => FullInv'
<1> SUFFICES ASSUME TypeOK, MirrorInv, FullInv, OpenNew PROVE FullInv'
  OBVIOUS
<1>1. cpc = "open" /\ UNCHANGED <<list, fileNum, seq, logHead>>
      /\ seq \in Nat /\ DOMAIN disk \subseteq Nat
  BY DEF OpenNew, TypeOK
<1>2. Scanned /\ MustRotate /\ \A n \in DOMAIN disk : n <= seq /\ (n = seq \/ FullFile(disk[n]))
  BY <1>1 DEF Scanned, Running, Storing, MirrorInv, PositionInv, NumbersInv, FullInv
<1>3. /\ DOMAIN disk' \subseteq DOMAIN disk \cup {seq}
      /\ \A n \in DOMAIN disk : disk'[n] = disk[n]
      /\ cpc' \in {"header", "recv"}
  BY DEF OpenNew, WriteLogReturns
<1>4. \A n \in DOMAIN disk' : n \in Nat /\ n <= seq /\ (n = seq \/ FullFile(disk'[n]))
  BY <1>1, <1>2, <1>3
<1>5. \A m, n \in DOMAIN disk' : m < n => FullFile(disk'[m])
  BY <1>1, <1>4
<1> QED
  BY <1>1, <1>2, <1>3, <1>4, <1>5 DEF FullInv

LEMMA FullHeader ==
    ASSUME "malloc" \notin Faults
    PROVE  TypeOK /\ BoundInv /\ MirrorInv /\ FullInv /\ WriteNewHeader => FullInv'
<1> SUFFICES ASSUME TypeOK, BoundInv, MirrorInv, FullInv, WriteNewHeader PROVE FullInv'
  OBVIOUS
<1>1. /\ cpc = "header" /\ cpc' = "item" /\ list' = Append(list, seq)
      /\ list \in Seq(Nat) /\ seq \in Nat /\ DOMAIN disk \subseteq Nat
      /\ disk' = [disk EXCEPT ![fd] = WriteHead(@, NewHead)]
  BY DEF WriteNewHeader, Fail, TypeOK
<1>2. /\ Scanned /\ fd = seq /\ seq \in DOMAIN disk
      /\ \A n \in DOMAIN disk : n <= seq
  BY <1>1 DEF Scanned, Running, Storing, MirrorInv, PositionInv, NumbersInv
<1>3. \A n \in DOMAIN disk : n # seq => disk'[n] = disk[n]
  BY <1>1, <1>2
<1>4. \A m, n \in DOMAIN disk' : m < n => FullFile(disk'[m])
  <2>1. DOMAIN disk' = DOMAIN disk
    BY <1>1
  <2>2. \A m, n \in DOMAIN disk : m < n => m # seq
    BY <1>1, <1>2
  <2> QED
    BY <1>3, <2>1, <2>2 DEF FullInv
<1>5. \A i, j \in 1 .. Len(list') : i < j => list'[i] < list'[j]
  <2> DEFINE N == Len(list)
  <2>1. \A i \in 1 .. N : list[i] < seq
    BY <1>2 DEF BoundInv, ListMirrorsDisk, Listed
  <2>2. /\ N \in Nat /\ Len(list') = N + 1 /\ list'[N + 1] = seq
        /\ \A i \in 1 .. N : list'[i] = list[i]
    BY <1>1, AppendProperties, LenProperties
  <2>3. \A i, j \in 1 .. N : i < j => list[i] < list[j]
    BY <1>2 DEF FullInv
  <2> HIDE DEF N
  <2>4. SUFFICES ASSUME NEW i \in 1 .. N + 1, NEW j \in 1 .. N + 1, i < j
                 PROVE  list'[i] < list'[j]
    BY <2>2
  <2>5. i \in 1 .. N /\ (j \in 1 .. N \/ j = N + 1)
    BY <2>2, <2>4
  <2> QED
    BY <2>1, <2>2, <2>3, <2>4, <2>5
<1> QED
  BY <1>1, <1>4, <1>5 DEF FullInv

LEMMA FullItem ==
    ASSUME "item" \notin Faults
    PROVE  TypeOK /\ MirrorInv /\ FullInv /\ WriteItem => FullInv'
<1> SUFFICES ASSUME TypeOK, MirrorInv, FullInv, WriteItem PROVE FullInv'
  OBVIOUS
<1> DEFINE g == WriteItemAt(disk[fd], headInfo.wpos, cur)
<1>1. /\ cpc = "item" /\ cpc' = "update"
      /\ disk' = [disk EXCEPT ![fd] = g]
      /\ UNCHANGED <<list, fileNum, seq, fd, logHead, headInfo, cur>>
  BY DEF WriteItem, Fail
<1>2. /\ Scanned /\ fd \in DOMAIN disk
      /\ g.head = disk[fd].head /\ g.items[headInfo.wpos] = cur
  BY <1>1, AtItem, ItemSound
<1> HIDE DEF g
<1>3. DOMAIN disk' = DOMAIN disk /\ \A n \in DOMAIN disk : disk'[n].head = disk[n].head
  BY <1>1, <1>2
<1>4. disk'[fd'].items[headInfo'.wpos] = cur'
  BY <1>1, <1>2
<1>5. \A m, n \in DOMAIN disk' : m < n => FullFile(disk'[m])
  BY <1>3 DEF FullInv, FullFile
<1> QED
  BY <1>1, <1>2, <1>4, <1>5 DEF FullInv

LEMMA FullUpdate ==
    ASSUME "update" \notin Faults
    PROVE  TypeOK /\ MirrorInv /\ FullInv /\ UpdateHeader => FullInv'
<1> SUFFICES ASSUME TypeOK, MirrorInv, FullInv, UpdateHeader PROVE FullInv'
  OBVIOUS
<1> DEFINE h == [num |-> headInfo.num + 1, wpos |-> headInfo.wpos + ItemSize]
           g == WriteHead(disk[fd], h)
           MAX == MAX_LOG_ITEMS_PER_FILE
<1>1. /\ cpc = "update" /\ cpc' = "recv" /\ logHead' = h
      /\ disk' = [disk EXCEPT ![fd] = g]
      /\ UNCHANGED <<list, fileNum, seq, fd>>
  BY DEF UpdateHeader, Fail, WriteLogReturns
<1>2. /\ Scanned /\ fd \in DOMAIN disk /\ \A n \in DOMAIN disk : n <= fd
      /\ headInfo.num \in Nat /\ headInfo.num < MAX /\ fileNum > 0
      /\ DOMAIN disk \subseteq Nat /\ fileNum \in Nat /\ MAX \in Nat
  BY <1>1, AtItem, SizeAssumption DEF TypeOK
<1>3. g.head = h
  BY DEF WriteHead
<1> HIDE DEF g
<1>4. DOMAIN disk' = DOMAIN disk /\ disk'[fd] = g
      /\ \A n \in DOMAIN disk : n # fd => disk'[n] = disk[n]
  BY <1>1, <1>2
<1>5. \A n \in DOMAIN disk : n # fd => n < fd /\ FullFile(disk[n])
  BY <1>2 DEF FullInv
<1>6. \A m, n \in DOMAIN disk' : m < n => FullFile(disk'[m])
  <2>1. \A m, n \in DOMAIN disk : m < n => m # fd
    BY <1>2
  <2> QED
    BY <1>4, <1>5, <2>1
<1>7. MustRotate' => FullFile(disk'[fd])
  <2>1. h.num = headInfo.num + 1
    OBVIOUS
  <2>2. MustRotate' => h.num >= MAX
    BY <1>1, <1>2 DEF MustRotate, Full
  <2> QED
    BY <1>2, <1>3, <1>4, <2>1, <2>2 DEF FullFile
<1>8. Scanned' /\ UNCHANGED list
  BY <1>1 DEF Scanned, Running
<1> QED
  BY <1>1, <1>2, <1>4, <1>5, <1>6, <1>7, <1>8 DEF FullInv

LEMMA FullStep ==
    ASSUME Faults \cap {"item", "update", "unlink", "malloc"} = {}
    PROVE  TypeOK /\ NamesFit /\ BoundInv /\ MirrorInv /\ FullInv /\ [Next]_vars => FullInv'
<1> SUFFICES ASSUME TypeOK, NamesFit, BoundInv, MirrorInv, FullInv, [Next]_vars
             PROVE  FullInv'
  OBVIOUS
<1>0. "item" \notin Faults /\ "update" \notin Faults /\ "malloc" \notin Faults
  OBVIOUS
<1> USE DEF Scanned, Running, Storing
<1>1. CASE StartLogMngTask
  BY <1>1, FullQuiet DEF StartLogMngTask
<1>2. CASE InitLogMngFails \/ NotifyModuleInited
  BY <1>2, FullQuiet DEF InitLogMngFails, NotifyModuleInited
<1>3. CASE InitLogMng
  BY <1>3, FullScan
<1>4. CASE \/ \E t \in Threads : WaitModuleInited(t)
           \/ \E p \in Producers : WriteLogApi(p) \/ CheckInitResult(p) \/ MsgSnd(p)
           \/ StartLogMngTaskFails \/ UNCHANGED vars
  <2>1. /\ UNCHANGED <<disk, list, fileNum, seq, fd, logHead, cpc, cur, headInfo>>
        /\ initResult' = initResult \/ initResult' = -1
    BY <1>4 DEF WaitModuleInited, WriteLogApi, CheckInitResult, MsgSnd,
       StartLogMngTaskFails, vars
  <2> QED
    BY <2>1 DEF FullInv, MustRotate, Full
<1>5. CASE MsgRcv
  <2>1. /\ cpc = "recv" /\ cpc' \in {"rotate", "item"}
        /\ UNCHANGED <<disk, list, fileNum, seq, logHead>>
    BY <1>5 DEF MsgRcv, Receive
  <2> QED
    BY <2>1, FullQuiet
<1>6. CASE RotateOld
  BY <1>6, FullRotate
<1>7. CASE OpenNew
  BY <1>7, FullOpen
<1>8. CASE WriteNewHeader
  BY <1>0, <1>8, FullHeader
<1>9. CASE WriteNewHeaderFails
  BY <1>9, FullQuiet DEF WriteNewHeaderFails, WriteLogReturns
<1>10. CASE WriteItem
  BY <1>0, <1>10, FullItem
<1>11. CASE UpdateHeader
  BY <1>0, <1>11, FullUpdate
<1>12. CASE Crash
  BY <1>12, FullQuiet DEF Crash, FreshMemory
<1> QED
  BY <1>1, <1>2, <1>3, <1>4, <1>5, <1>6, <1>7, <1>8, <1>9, <1>10, <1>11, <1>12
     DEF Next, MainThread, Consumer, Producer
-----------------------------------------------------------------------------
(* The log manager implements RotatingLog.                                 *)

LEMMA IsPlace ==
    ASSUME NEW d
    PROVE  \A p : p \in Places(d) <=> /\ p = <<p[1], p[2]>>
                                      /\ p[1] \in DOMAIN d
                                      /\ p[2] \in ReadableSlots(d[p[1]])
<1>1. ASSUME NEW p, p = <<p[1], p[2]>>, p[1] \in DOMAIN d, p[2] \in ReadableSlots(d[p[1]])
      PROVE  p \in Places(d)
  <2>1. <<p[1], p[2]>> \in Places(d)
    BY <1>1, PlacesAre
  <2> QED
    BY <1>1, <2>1
<1> QED
  BY <1>1, PlacesAre

\* A step that leaves slots and their items as they are leaves the log as it is.
LEMMA LogStays ==
    ASSUME NEW d, NEW e, SoundDisk(d), DOMAIN d \subseteq DOMAIN e,
           \A n \in DOMAIN e \ DOMAIN d : ReadableSlots(e[n]) = {},
           \A n \in DOMAIN d :
              /\ ReadableSlots(e[n]) = ReadableSlots(d[n])
              /\ \A k \in ReadableSlots(d[n]) :
                    e[n].items[SlotOffset(k)] = d[n].items[SlotOffset(k)]
    PROVE  Contents(e) = Contents(d)
<1>1. \A p : p \in Places(e) <=> p \in Places(d)
  BY IsPlace
<1>2. Places(e) = Places(d)
  BY <1>1
<1>3. \A p \in Places(d) : ItemAt(e, p) = ItemAt(d, p)
  BY IsPlace DEF ItemAt
<1> QED
  BY <1>2, <1>3, ContentsSame

SoundNow == TypeOK /\ MirrorInv

LEMMA SoundNowDisk == SoundNow => SoundDisk(disk)
BY DEF SoundNow, SoundDisk, TypeOK, MirrorInv, FilesSound

\* Neither a new file nor its header nor an item that is not counted yet is found
\* by a reader.
LEMMA OpenStays == SoundNow /\ OpenNew => Contents(disk') = Contents(disk)
<1> SUFFICES ASSUME SoundNow, OpenNew PROVE Contents(disk') = Contents(disk)
  OBVIOUS
<1>1. \/ disk' = disk
      \/ /\ DOMAIN disk' = DOMAIN disk \cup {seq}
         /\ \A n \in DOMAIN disk : disk'[n] = disk[n]
         /\ \A n \in DOMAIN disk' \ DOMAIN disk : disk'[n] = EmptyFile
  BY DEF OpenNew
<1>2. ReadableSlots(EmptyFile) = {}
  BY DEF ReadableSlots, EmptyFile, Torn
<1> QED
  BY <1>1, <1>2, LogStays, SoundNowDisk

LEMMA HeaderStays == SoundNow /\ WriteNewHeader => Contents(disk') = Contents(disk)
<1> SUFFICES ASSUME SoundNow, WriteNewHeader PROVE Contents(disk') = Contents(disk)
  OBVIOUS
<1> DEFINE new == WriteHead(EmptyFile, NewHead)
<1>1. fd = seq /\ seq \in DOMAIN disk /\ disk[seq] = EmptyFile
  BY DEF SoundNow, WriteNewHeader, MirrorInv, PositionInv, NumbersInv, Scanned, Running, Storing
<1>2. /\ DOMAIN disk' = DOMAIN disk
      /\ \A n \in DOMAIN disk : disk'[n] = IF n = seq THEN new ELSE disk[n]
  BY <1>1 DEF WriteNewHeader
<1>3. ReadableSlots(EmptyFile) = {} /\ ReadableSlots(new) = {}
  BY DEF ReadableSlots, EmptyFile, Torn, WriteHead, NewHead
<1> HIDE DEF new
<1>4. \A n \in DOMAIN disk :
         /\ ReadableSlots(disk'[n]) = ReadableSlots(disk[n])
         /\ n # seq => disk'[n] = disk[n]
         /\ n = seq => ReadableSlots(disk[n]) = {}
  BY <1>1, <1>2, <1>3
<1> QED
  BY <1>2, <1>4, LogStays, SoundNowDisk

LEMMA ItemStays == SoundNow /\ WriteItem => Contents(disk') = Contents(disk)
<1> SUFFICES ASSUME SoundNow, WriteItem PROVE Contents(disk') = Contents(disk)
  OBVIOUS
<1> DEFINE f == disk[fd]
           o == headInfo.wpos
           g == WriteItemAt(f, o, cur)
<1>1. CASE disk' = disk
  BY <1>1
<1>2. CASE disk' = [disk EXCEPT ![fd] = g]
  <2>1. cpc = "item"
    BY DEF WriteItem
  <2>2. /\ fd \in DOMAIN disk /\ SoundFile(f) /\ f # EmptyFile /\ f.head.wpos = o
        /\ f.head.num < MAX_LOG_ITEMS_PER_FILE
    BY <2>1, AtItem DEF SoundNow
  <2>3. /\ SoundFile(g) /\ g.head = f.head
        /\ DOMAIN g.items = DOMAIN f.items \cup {o}
        /\ \A p \in DOMAIN f.items \ {o} : g.items[p] = f.items[p]
        /\ \A j \in ReadableSlots(f) : SlotOffset(j) # o
    BY <2>2, ItemSound
  <2>4. f.head.num \in Nat
    BY <2>2, ReadableOfSound
  <2>5. ReadableSlots(f) = 1 .. f.head.num
    BY <2>2, ReadableOfSound
  <2>6. ReadableSlots(g) = 1 .. g.head.num
    <3>1. g # EmptyFile
      BY <2>3, <2>4 DEF EmptyFile, Torn
    <3> QED
      BY <2>3, <3>1, ReadableOfSound
  <2>7. \A k \in ReadableSlots(f) : g.items[SlotOffset(k)] = f.items[SlotOffset(k)]
    BY <2>3 DEF ReadableSlots
  <2> HIDE DEF g
  <2>8. /\ DOMAIN disk' = DOMAIN disk
        /\ \A n \in DOMAIN disk : disk'[n] = IF n = fd THEN g ELSE disk[n]
    BY <1>2, <2>2
  <2>9. \A n \in DOMAIN disk : ReadableSlots(disk'[n]) = ReadableSlots(disk[n])
    BY <2>3, <2>5, <2>6, <2>8
  <2>10. \A n \in DOMAIN disk : \A k \in ReadableSlots(disk[n]) :
            disk'[n].items[SlotOffset(k)] = disk[n].items[SlotOffset(k)]
    BY <2>7, <2>8
  <2> QED
    BY <2>8, <2>9, <2>10, LogStays, SoundNowDisk
<1> QED
  BY <1>1, <1>2 DEF WriteItem

\* Counting an item appends it to what a reader finds.
LEMMA UpdateAdds ==
    ASSUME SoundNow, SoundNow', FullInv, UpdateHeader, "update" \notin Faults
    PROVE  Contents(disk') = Append(Contents(disk), cur)
<1> DEFINE f == disk[fd]
           k == headInfo.num
           h == [num |-> k + 1, wpos |-> headInfo.wpos + ItemSize]
           g == WriteHead(f, h)
           x == <<fd, k + 1>>
<1>1. cpc = "update" /\ disk' = [disk EXCEPT ![fd] = g]
  BY DEF UpdateHeader, Fail
<1>2. /\ fd \in DOMAIN disk /\ \A n \in DOMAIN disk : n <= fd
      /\ SoundFile(f) /\ f # EmptyFile /\ f.head = headInfo
      /\ k \in Nat /\ k < MAX_LOG_ITEMS_PER_FILE
      /\ DOMAIN disk \subseteq Nat
  BY <1>1, AtItem DEF SoundNow, TypeOK
<1>3. /\ headInfo.wpos \in DOMAIN f.items /\ f.items[headInfo.wpos] = cur
  BY <1>1 DEF SoundNow, MirrorInv, PositionInv, FullInv
<1>4. /\ SoundFile(g) /\ g.head = h /\ DOMAIN g.items = DOMAIN f.items
      /\ \A p \in DOMAIN f.items : g.items[p] = f.items[p]
  BY <1>2, <1>3, UpdateSound
<1>5. ReadableSlots(f) = 1 .. k /\ headInfo.wpos = SlotOffset(k + 1)
      /\ \A j \in 1 .. k : SlotOffset(j) \in DOMAIN f.items
  BY <1>2, ReadableOfSound
<1>6. ReadableSlots(g) = 1 .. k + 1
  <2>1. g # EmptyFile
    BY <1>2, <1>4 DEF EmptyFile, Torn
  <2>2. g.head.num = k + 1
    BY <1>4
  <2> QED
    BY <1>4, <2>1, <2>2, ReadableOfSound
<1>7. 1 .. k + 1 = (1 .. k) \cup {k + 1} /\ k + 1 \notin 1 .. k
  BY <1>2
<1> HIDE DEF g, h
<1>8. /\ DOMAIN disk' = DOMAIN disk
      /\ \A n \in DOMAIN disk : disk'[n] = IF n = fd THEN g ELSE disk[n]
  BY <1>1, <1>2
<1>9. x \in Spots
  BY <1>2 DEF Spots
<1>10. Places(disk') = Places(disk) \cup {x}
  <2>1. \A p : p \in Places(disk') <=> p \in Places(disk) \/ p = x
    <3>1. TAKE p
    <3>2. CASE p = <<p[1], p[2]>> /\ p[1] = fd
      <4>1. p \in Places(disk') <=> p[2] \in 1 .. k + 1
        BY <1>2, <1>6, <1>8, <3>2, IsPlace
      <4>2. p \in Places(disk) <=> p[2] \in 1 .. k
        BY <1>2, <1>5, <3>2, IsPlace
      <4>3. p = x <=> p[2] = k + 1
        BY <3>2
      <4> QED
        BY <1>7, <4>1, <4>2, <4>3
    <3>3. CASE p # <<p[1], p[2]>>
      <4>1. p # x
        BY <3>3
      <4> QED
        BY <3>3, <4>1, IsPlace
    <3>4. CASE p[1] # fd
      <4>1. p # x
        BY <3>4
      <4>2. p[1] \in DOMAIN disk => disk'[p[1]] = disk[p[1]]
        BY <1>8, <3>4
      <4> QED
        BY <1>8, <4>1, <4>2, IsPlace
    <3> QED
      BY <3>2, <3>3, <3>4
  <2> QED
    BY <2>1
<1>11. ASSUME NEW p \in Places(disk)
       PROVE  Before(p, x) /\ ItemAt(disk', p) = ItemAt(disk, p)
  <2>1. p[1] \in DOMAIN disk /\ p[2] \in ReadableSlots(disk[p[1]])
    BY IsPlace
  <2>2. CASE p[1] = fd
    <3>1. p[2] \in 1 .. k
      BY <1>5, <2>1, <2>2
    <3>2. Before(p, x)
      BY <1>2, <2>2, <3>1 DEF Before
    <3>3. ItemAt(disk', p) = ItemAt(disk, p)
      BY <1>4, <1>5, <1>8, <2>1, <2>2, <3>1 DEF ItemAt
    <3> QED
      BY <3>2, <3>3
  <2>3. CASE p[1] # fd
    <3>1. p[1] < fd
      BY <1>2, <2>1, <2>3
    <3> QED
      BY <1>8, <2>1, <2>3, <3>1 DEF Before, ItemAt
  <2> QED
    BY <2>2, <2>3
<1>12. ItemAt(disk', x) = cur
  <2>1. x[1] = fd /\ x[2] = k + 1
    OBVIOUS
  <2>2. disk'[fd].items[SlotOffset(k + 1)] = cur
    BY <1>2, <1>3, <1>4, <1>5, <1>8
  <2> QED
    BY <2>1, <2>2 DEF ItemAt
<1>13. SoundDisk(disk) /\ SoundDisk(disk')
  <2>1. SoundDisk(disk')
    BY DEF SoundNow, SoundDisk, TypeOK, MirrorInv, FilesSound
  <2> QED
    BY <2>1, SoundNowDisk
<1> HIDE DEF x
<1> QED
  BY <1>9, <1>10, <1>11, <1>12, <1>13, ContentsAdd

\* Full files have so many slots.
LEMMA SlotsOfFiles ==
    ASSUME NEW S, IsFiniteSet(S)
    PROVE  /\ IsFiniteSet(S \X (1 .. MAX_LOG_ITEMS_PER_FILE))
           /\ Cardinality(S \X (1 .. MAX_LOG_ITEMS_PER_FILE))
                = Cardinality(S) * MAX_LOG_ITEMS_PER_FILE
<1>1. /\ IsFiniteSet(1 .. MAX_LOG_ITEMS_PER_FILE)
      /\ Cardinality(1 .. MAX_LOG_ITEMS_PER_FILE) = MAX_LOG_ITEMS_PER_FILE
  BY FS_Interval, SizeAssumption
<1>2. \A T : IsFiniteSet(T) => /\ IsFiniteSet(S \X T)
                              /\ Cardinality(S \X T) = Cardinality(S) * Cardinality(T)
  BY FS_Product
<1> QED
  BY <1>1, <1>2

\* Deleting the oldest file deletes its items, which come before all others, from a
\* log that has as many as its full files hold.
LEMMA RotateDrops ==
    ASSUME SoundNow, SoundNow', BoundInv, FullInv, RotateOld, "unlink" \notin Faults,
           disk' # disk
    PROVE  /\ Len(Contents(disk)) >= LOG_FILE_MAX_NUM * MAX_LOG_ITEMS_PER_FILE
           /\ Contents(disk') = SubSeq(Contents(disk), MAX_LOG_ITEMS_PER_FILE + 1,
                                       Len(Contents(disk)))
<1> DEFINE MAX == MAX_LOG_ITEMS_PER_FILE
           x == Head(list)
           N == Len(list)
           D == {x} \X (1 .. MAX)
<1>1. /\ cpc = "rotate" /\ fileNum >= LOG_FILE_MAX_NUM /\ list # << >>
      /\ disk' = Without(disk, x)
  BY DEF RotateOld, DeleteWhen, Fail
<1>2. /\ Scanned /\ MustRotate /\ ListMirrorsDisk
  BY <1>1 DEF Scanned, Running, Storing, SoundNow, MirrorInv, PositionInv, BoundInv
<1>3. /\ MAX \in Nat \ {0} /\ LOG_FILE_MAX_NUM \in Nat /\ fileNum \in Nat
      /\ IsFiniteSet(DOMAIN disk) /\ DOMAIN disk \subseteq Nat
      /\ list \in Seq(Nat) /\ seq \in Nat
  BY SizeAssumption DEF SoundNow, TypeOK
<1>4. /\ N \in Nat \ {0} /\ x = list[1] /\ 1 \in 1 .. N
  BY <1>1, <1>3, EmptySeq, LenProperties, HeadTailProperties
<1>5. x \in Listed
  BY <1>4 DEF Listed
<1>6. \A n \in Listed : n \in DOMAIN disk /\ n \in Nat /\ n # seq /\ FullFile(disk[n])
  <2>1. TAKE n \in Listed
  <2>2. n \in DOMAIN disk /\ n < seq /\ n \in Nat
    BY <1>2, <1>3 DEF ListMirrorsDisk
  <2>3. n # seq
    BY <1>3, <2>2
  <2> QED
    BY <1>1, <1>2, <2>2, <2>3 DEF FullInv
<1>7. \A n \in Listed : ReadableSlots(disk[n]) = 1 .. MAX
  BY <1>6, SlotsOfSound DEF SoundNow, MirrorInv, FilesSound
<1>8. \A n \in DOMAIN disk : n = x \/ x < n
  <2>1. TAKE n \in DOMAIN disk
  <2>2. CASE n = seq
    BY <1>2, <1>5, <2>2 DEF ListMirrorsDisk
  <2>3. CASE n \in Listed
    <3>1. PICK i \in 1 .. N : n = list[i]
      BY <2>3 DEF Listed
    <3>2. 1 < i \/ i = 1
      BY <1>3, <3>1
    <3>3. 1 < i => list[1] < list[i]
      BY <1>2, <1>4, <3>1 DEF FullInv
    <3> QED
      BY <1>4, <3>1, <3>2, <3>3
  <2> QED
    BY <1>2, <2>2, <2>3 DEF ListMirrorsDisk
<1>9. /\ DOMAIN disk' = DOMAIN disk \ {x}
      /\ \A n \in DOMAIN disk' : disk'[n] = disk[n]
  BY <1>1 DEF Without
<1>10. \A p : p \in D <=> p = <<p[1], p[2]>> /\ p[1] = x /\ p[2] \in 1 .. MAX
  OBVIOUS
<1>11. \A p : p \in Places(disk) /\ p[1] = x <=> p \in D
  <2>1. ReadableSlots(disk[x]) = 1 .. MAX /\ x \in DOMAIN disk
    BY <1>5, <1>6, <1>7
  <2> HIDE DEF D, x
  <2> QED
    BY <1>10, <2>1, IsPlace
<1>12. \A p : p \in Places(disk') <=> p \in Places(disk) /\ p[1] # x
  <2> HIDE DEF D, x
  <2> QED
    BY <1>9, IsPlace
<1> HIDE DEF D
<1>13. D \in SUBSET Places(disk) /\ Places(disk') = Places(disk) \ D
  BY <1>11, <1>12
<1>14. \A q \in D, p \in Places(disk) \ D : Before(q, p)
  <2>1. TAKE q \in D, p \in Places(disk) \ D
  <2>2. q[1] = x /\ p[1] # x
    BY <1>11
  <2>3. p[1] \in DOMAIN disk
    BY IsPlace
  <2> QED
    BY <1>8, <2>2, <2>3 DEF Before
<1>15. \A p \in Places(disk') : ItemAt(disk', p) = ItemAt(disk, p)
  BY <1>9, IsPlace DEF ItemAt
<1>16. SoundDisk(disk) /\ SoundDisk(disk')
  <2>1. SoundDisk(disk')
    BY DEF SoundNow, SoundDisk, TypeOK, MirrorInv, FilesSound
  <2> QED
    BY <2>1, SoundNowDisk
<1>17. Cardinality(D) = MAX
  <2>1. IsFiniteSet({x}) /\ Cardinality({x}) = 1
    BY FS_Singleton
  <2>2. Cardinality(D) = 1 * MAX
    BY <2>1, SlotsOfFiles DEF D
  <2> QED
    BY <1>3, <2>2
<1>18. Contents(disk') = SubSeq(Contents(disk), MAX + 1, Len(Contents(disk)))
  BY <1>13, <1>14, <1>15, <1>16, <1>17, ContentsDrop
<1>19. Len(Contents(disk)) >= LOG_FILE_MAX_NUM * MAX
  <2> DEFINE F == Listed \X (1 .. MAX)
  <2>1. IsFiniteSet(Listed) /\ Cardinality(Listed) = fileNum
    BY <1>2, <1>3, FS_Subset DEF ListMirrorsDisk
  <2>2. IsFiniteSet(F) /\ Cardinality(F) = fileNum * MAX
    BY <2>1, SlotsOfFiles
  <2>3. \A p \in F : p = <<p[1], p[2]>> /\ p[1] \in Listed /\ p[2] \in 1 .. MAX
    OBVIOUS
  <2> HIDE DEF F
  <2>4. F \subseteq Places(disk)
    BY <1>6, <1>7, <2>3, IsPlace
  <2>5. Cardinality(F) <= Cardinality(Places(disk)) /\ Cardinality(Places(disk)) \in Nat
    BY <1>16, <2>4, PlacesType, FS_Subset
  <2>6. Len(Contents(disk)) = Cardinality(Places(disk))
    BY <1>16, ContentsAre
  <2>7. fileNum * MAX >= LOG_FILE_MAX_NUM * MAX
    <3>1. fileNum * MAX = LOG_FILE_MAX_NUM * MAX + (fileNum - LOG_FILE_MAX_NUM) * MAX
      BY <1>3
    <3>2. \A i, j \in Nat : i * j \in Nat
      OBVIOUS
    <3>3. fileNum - LOG_FILE_MAX_NUM \in Nat
      BY <1>1, <1>3
    <3>4. /\ (fileNum - LOG_FILE_MAX_NUM) * MAX \in Nat /\ LOG_FILE_MAX_NUM * MAX \in Nat
      BY <1>3, <3>2, <3>3
    <3> QED
      BY <3>1, <3>4
  <2>8. fileNum * MAX \in Int /\ LOG_FILE_MAX_NUM * MAX \in Int
    BY <1>3
  <2> QED
    BY <2>2, <2>5, <2>6, <2>7, <2>8
<1> QED
  BY <1>18, <1>19

\* The actions of RotatingLog, in terms of the log manager.
LEMMA AbstractForm ==
    /\ Abstract!Init <=> /\ accepted \in Nat /\ Pending = << >>
                         /\ Contents(disk) \in Seq(1 .. accepted)
    /\ Abstract!Accept <=> /\ accepted' = accepted + 1
                           /\ Pending' = Append(Pending, accepted')
                           /\ Contents(disk') = Contents(disk)
    /\ Abstract!Store <=> /\ Pending # << >>
                          /\ Contents(disk') = Append(Contents(disk), Head(Pending))
                          /\ Pending' = Tail(Pending) /\ accepted' = accepted
    /\ Abstract!Lose <=> /\ Pending # << >> /\ Pending' = Tail(Pending)
                         /\ accepted' = accepted /\ Contents(disk') = Contents(disk)
    /\ Abstract!Prune <=>
          /\ Len(Contents(disk)) >= LOG_FILE_MAX_NUM * MAX_LOG_ITEMS_PER_FILE
          /\ \E k \in 1 .. MAX_LOG_ITEMS_PER_FILE :
                Contents(disk') = SubSeq(Contents(disk), k + 1, Len(Contents(disk)))
          /\ accepted' = accepted /\ Pending' = Pending
    /\ accepted' = accepted /\ Pending' = Pending /\ Contents(disk') = Contents(disk)
          => UNCHANGED Abstract!vars
<1>1. Abstract!Init <=> /\ accepted \in Nat /\ Pending = << >>
                        /\ Contents(disk) \in Seq(1 .. accepted)
  BY DEF Abstract!Init
<1>2. Abstract!Accept <=> /\ accepted' = accepted + 1
                          /\ Pending' = Append(Pending, accepted')
                          /\ Contents(disk') = Contents(disk)
  BY DEF Abstract!Accept
<1>3. Abstract!Store <=> /\ Pending # << >>
                         /\ Contents(disk') = Append(Contents(disk), Head(Pending))
                         /\ Pending' = Tail(Pending) /\ accepted' = accepted
  BY DEF Abstract!Store
<1>4. Abstract!Lose <=> /\ Pending # << >> /\ Pending' = Tail(Pending)
                        /\ accepted' = accepted /\ Contents(disk') = Contents(disk)
  BY DEF Abstract!Lose
<1>5. Abstract!Prune <=>
          /\ Len(Contents(disk)) >= LOG_FILE_MAX_NUM * MAX_LOG_ITEMS_PER_FILE
          /\ \E k \in 1 .. MAX_LOG_ITEMS_PER_FILE :
                Contents(disk') = SubSeq(Contents(disk), k + 1, Len(Contents(disk)))
          /\ accepted' = accepted /\ Pending' = Pending
  BY DEF Abstract!Prune
<1>6. accepted' = accepted /\ Pending' = Pending /\ Contents(disk') = Contents(disk)
          => UNCHANGED Abstract!vars
  BY DEF Abstract!vars
<1> QED
  BY <1>1, <1>2, <1>3, <1>4, <1>5, <1>6

\* The message being stored is pending before those in the queue.
LEMMA PendingIs ==
    ASSUME TypeOK
    PROVE  /\ Pending \in Seq(Nat)
           /\ cpc \in Storing => /\ Pending # << >> /\ Head(Pending) = cur
                                 /\ Tail(Pending) = queue
                                 /\ \A m \in Nat : <<cur>> \o Append(queue, m) = Append(Pending, m)
           /\ cpc \notin Storing => Pending = queue
<1>1. queue \in Seq(Nat) /\ cur \in Nat
  BY DEF TypeOK
<1>2. CASE cpc \in Storing
  <2>1. Pending = <<cur>> \o queue
    BY <1>2 DEF Pending
  <2>2. /\ <<cur>> \o queue \in Seq(Nat) /\ <<cur>> \o queue # << >>
        /\ Head(<<cur>> \o queue) = cur /\ Tail(<<cur>> \o queue) = queue
    BY <1>1
  <2>3. ASSUME NEW m \in Nat
        PROVE  <<cur>> \o Append(queue, m) = Append(<<cur>> \o queue, m)
    BY <1>1
  <2> QED
    BY <1>2, <2>1, <2>2, <2>3
<1>3. CASE cpc \notin Storing
  BY <1>1, <1>3 DEF Pending
<1> QED
  BY <1>2, <1>3

\* A step of the log manager.
LogStep == Abstract!Next \/ UNCHANGED Abstract!vars

LEMMA StutterStep ==
    ASSUME TypeOK, accepted' = accepted, queue' = queue, Contents(disk') = Contents(disk),
           cpc' \in Storing <=> cpc \in Storing, cpc \in Storing => cur' = cur
    PROVE  LogStep
<1>1. Pending' = Pending
  BY DEF Pending
<1> QED
  BY <1>1, AbstractForm DEF LogStep

LEMMA LoseStep ==
    ASSUME TypeOK, accepted' = accepted, queue' = queue, disk' = disk,
           cpc \in Storing, cpc' \notin Storing
    PROVE  LogStep
<1>1. Pending' = queue
  BY DEF Pending
<1>2. Abstract!Lose
  BY <1>1, PendingIs, AbstractForm
<1> QED
  BY <1>2 DEF LogStep, Abstract!Next

LEMMA AcceptStep ==
    ASSUME TypeOK, NEW p \in Producers, MsgSnd(p)
    PROVE  LogStep
<1>1. UNCHANGED <<disk, cpc, cur>> /\ accepted \in Nat
  BY DEF MsgSnd, TypeOK
<1>2. CASE queue' = queue /\ accepted' = accepted
  BY <1>1, <1>2, StutterStep
<1>3. CASE queue' = Append(queue, accepted + 1) /\ accepted' = accepted + 1
  <2>1. Pending' = Append(Pending, accepted + 1)
    <3>1. CASE cpc \in Storing
      <4>1. Pending' = <<cur>> \o Append(queue, accepted + 1)
        BY <1>1, <1>3, <3>1 DEF Pending
      <4>2. accepted + 1 \in Nat
        BY <1>1
      <4> QED
        BY <3>1, <4>1, <4>2, PendingIs
    <3>2. CASE cpc \notin Storing
      <4>1. Pending' = Append(queue, accepted + 1)
        BY <1>1, <1>3, <3>2 DEF Pending
      <4> QED
        BY <3>2, <4>1, PendingIs
    <3> QED
      BY <3>1, <3>2
  <2>2. Abstract!Accept
    BY <1>1, <1>3, <2>1, AbstractForm
  <2> QED
    BY <2>2 DEF LogStep, Abstract!Next
<1> QED
  BY <1>2, <1>3, Zenon DEF MsgSnd

LEMMA ReceiveStep ==
    ASSUME TypeOK, MsgRcv
    PROVE  LogStep
<1>1. /\ cpc = "recv" /\ cpc' \in Storing /\ queue # << >> /\ queue \in Seq(Nat)
      /\ cur' = Head(queue) /\ queue' = Tail(queue) /\ UNCHANGED <<accepted, disk>>
  BY DEF MsgRcv, Receive, TypeOK, Storing
<1>2. Pending' = <<Head(queue)>> \o Tail(queue)
  BY <1>1 DEF Pending
<1>3. <<Head(queue)>> \o Tail(queue) = queue
  BY <1>1
<1>4. Pending = queue
  BY <1>1 DEF Pending, Storing
<1> QED
  BY <1>1, <1>2, <1>3, <1>4, AbstractForm DEF LogStep

LEMMA PruneStep ==
    ASSUME SoundNow, SoundNow', BoundInv, FullInv, RotateOld, "unlink" \notin Faults
    PROVE  LogStep
<1>1. UNCHANGED <<queue, accepted, cur>> /\ cpc = "rotate" /\ cpc' = "open" /\ TypeOK
  BY DEF RotateOld, DeleteWhen, SoundNow
<1>2. Pending' = Pending
  BY <1>1 DEF Pending, Storing
<1>3. CASE disk' = disk
  BY <1>1, <1>2, <1>3, AbstractForm DEF LogStep
<1>4. CASE disk' # disk
  <2>1. MAX_LOG_ITEMS_PER_FILE \in 1 .. MAX_LOG_ITEMS_PER_FILE
    BY SizeAssumption
  <2>2. Abstract!Prune
    BY <1>1, <1>2, <1>4, <2>1, RotateDrops, AbstractForm
  <2> QED
    BY <2>2 DEF LogStep, Abstract!Next
<1> QED
  BY <1>3, <1>4

LEMMA StoreStep ==
    ASSUME SoundNow, SoundNow', FullInv, UpdateHeader, "update" \notin Faults
    PROVE  LogStep
<1>1. UNCHANGED <<queue, accepted>> /\ cpc = "update" /\ cpc' = "recv" /\ TypeOK
  BY DEF UpdateHeader, WriteLogReturns, SoundNow
<1>2. cpc \in Storing /\ cpc' \notin Storing
  BY <1>1 DEF Storing
<1>3. Pending' = queue
  BY <1>1, <1>2 DEF Pending
<1>4. Abstract!Store
  BY <1>1, <1>2, <1>3, PendingIs, UpdateAdds, AbstractForm
<1> QED
  BY <1>4 DEF LogStep, Abstract!Next


\* A step that ends or interrupts the storing of a message, or stores none.
LEMMA QuietLogStep ==
    ASSUME TypeOK, accepted' = accepted, queue' = queue, disk' = disk, cpc' \notin Storing
    PROVE  LogStep
BY StutterStep, LoseStep

LEMMA ImplementationStep ==
    ASSUME Faults \cap {"item", "update", "unlink", "malloc"} = {},
           SoundNow, SoundNow', BoundInv, FullInv, [Next]_vars
    PROVE  LogStep
<1>0. /\ TypeOK
      /\ "item" \notin Faults /\ "update" \notin Faults /\ "unlink" \notin Faults
  BY DEF SoundNow
<1>1. CASE StartLogMngTask \/ InitLogMngFails \/ InitLogMng \/ NotifyModuleInited
  <2>1. UNCHANGED <<accepted, queue, disk>> /\ cpc' \in {"init", "notify", "recv", "exited"}
    BY <1>1 DEF StartLogMngTask, InitLogMngFails, InitLogMng, ScanDirectory,
       NotifyModuleInited
  <2> QED
    BY <1>0, <2>1, QuietLogStep DEF Storing
<1>2. CASE \/ StartLogMngTaskFails \/ \E t \in Threads : WaitModuleInited(t)
           \/ \E p \in Producers : WriteLogApi(p) \/ CheckInitResult(p)
           \/ UNCHANGED vars
  <2>1. UNCHANGED <<accepted, queue, disk, cpc, cur>>
    BY <1>2 DEF StartLogMngTaskFails, WaitModuleInited, WriteLogApi, CheckInitResult, vars
  <2> QED
    BY <1>0, <2>1, StutterStep
<1>3. CASE \E p \in Producers : MsgSnd(p)
  BY <1>0, <1>3, AcceptStep
<1>4. CASE MsgRcv
  BY <1>0, <1>4, ReceiveStep
<1>5. CASE RotateOld
  BY <1>0, <1>5, PruneStep
<1>6. CASE OpenNew
  <2>1. /\ UNCHANGED <<accepted, queue>> /\ cpc = "open"
        /\ \/ cpc' = "header" /\ cur' = cur
           \/ cpc' = "recv" /\ disk' = disk
    BY <1>6 DEF OpenNew, WriteLogReturns
  <2>2. CASE cpc' = "header" /\ cur' = cur
    BY <1>0, <1>6, <2>1, <2>2, OpenStays, StutterStep DEF Storing
  <2>3. CASE cpc' = "recv" /\ disk' = disk
    BY <1>0, <2>1, <2>3, QuietLogStep DEF Storing
  <2> QED
    BY <2>1, <2>2, <2>3
<1>7. CASE WriteNewHeader
  <2>1. UNCHANGED <<accepted, queue, cur>> /\ cpc = "header" /\ cpc' = "item"
    BY <1>7 DEF WriteNewHeader
  <2> QED
    BY <1>0, <1>7, <2>1, HeaderStays, StutterStep DEF Storing
<1>8. CASE WriteItem
  <2>1. UNCHANGED <<accepted, queue, cur>> /\ cpc = "item" /\ cpc' = "update"
    BY <1>0, <1>8 DEF WriteItem, Fail
  <2> QED
    BY <1>0, <1>8, <2>1, ItemStays, StutterStep DEF Storing
<1>9. CASE UpdateHeader
  BY <1>0, <1>9, StoreStep
<1>10. CASE WriteNewHeaderFails \/ Crash
  <2>1. UNCHANGED <<accepted, queue, disk>> /\ cpc' \in {"recv", "none"}
    BY <1>10 DEF WriteNewHeaderFails, WriteLogReturns, Crash, FreshMemory
  <2> QED
    BY <1>0, <2>1, QuietLogStep DEF Storing
<1> QED
  BY <1>1, <1>2, <1>3, <1>4, <1>5, <1>6, <1>7, <1>8, <1>9, <1>10
     DEF Next, MainThread, Consumer, Producer

\* The old files hold messages that were accepted.
LEMMA AbstractInit == Init /\ SoundNow => Abstract!Init
<1> SUFFICES ASSUME Init, SoundNow PROVE Abstract!Init
  OBVIOUS
<1> DEFINE MAX == MAX_LOG_ITEMS_PER_FILE
           slot(o) == CHOOSE k \in 1 .. MAX : o = SlotOffset(k)
<1>1. /\ DOMAIN disk = 0 .. InitFiles - 1 /\ \A n \in DOMAIN disk : disk[n] = OldFile(n)
      /\ accepted = InitFiles * MAX /\ Pending = << >>
  BY DEF Init, OldItems, Pending, Storing
<1>2. InitFiles \in Nat /\ MAX \in Nat /\ accepted \in Nat
  BY SizeAssumption DEF SoundNow, TypeOK
<1>3. ASSUME NEW n \in DOMAIN disk, NEW k \in ReadableSlots(disk[n])
      PROVE  disk[n].items[SlotOffset(k)] \in 1 .. accepted
  <2> DEFINE o == SlotOffset(k)
  <2>1. disk[n] = OldFile(n) /\ o \in DOMAIN OldFile(n).items
    BY <1>1 DEF ReadableSlots
  <2>2. slot(o) \in 1 .. MAX /\ disk[n].items[o] = n * MAX + slot(o)
    <3>1. \A x \in DOMAIN OldFile(n).items :
             slot(x) \in 1 .. MAX /\ OldFile(n).items[x] = n * MAX + slot(x)
      BY DEF OldFile
    <3> HIDE DEF slot, o
    <3> QED
      BY <2>1, <3>1
  <2> HIDE DEF slot, o, MAX
  <2>3. n \in Nat /\ InitFiles - n - 1 \in Nat
    <3>1. n \in 0 .. InitFiles - 1
      BY <1>1
    <3> QED
      BY <1>2, <3>1
  <2>4. InitFiles * MAX = n * MAX + MAX + (InitFiles - n - 1) * MAX
    BY <1>2, <2>3
  <2>5. n * MAX \in Nat /\ (InitFiles - n - 1) * MAX \in Nat
    <3>1. \A i, j \in Nat : i * j \in Nat
      OBVIOUS
    <3> QED
      BY <1>2, <2>3, <3>1
  <2>6. slot(o) \in 1 .. MAX /\ slot(o) \in Nat
    BY <1>2, <2>2
  <2>7. n * MAX + slot(o) \in 1 .. accepted
    <3>1. accepted = InitFiles * MAX
      BY <1>1 DEF MAX
    <3>2. slot(o) >= 1 /\ slot(o) <= MAX
      BY <1>2, <2>6
    <3> QED
      BY <1>2, <2>4, <2>5, <2>6, <3>1, <3>2
  <2> QED
    BY <2>2, <2>7 DEF o
<1>4. SoundDisk(disk)
  BY SoundNowDisk
<1>5. {ItemAt(disk, p) : p \in Places(disk)} \subseteq 1 .. accepted
  BY <1>3, IsPlace DEF ItemAt
<1>6. Contents(disk) \in Seq(1 .. accepted)
  BY <1>4, <1>5, ContentsAre, SeqMonotonic
<1> QED
  BY <1>1, <1>2, <1>6, AbstractForm

\* The log manager implements the rotating log: each message is stored after those
\* accepted before it, at most once, or is lost; and only a log whose files are all
\* full loses its oldest file (LogMng.c:276-389).  The names of the files must sort like
\* their numbers; a file whose first item or counter cannot be written is left before
\* it is full, and one that cannot be deleted or listed stays when younger ones go.
THEOREM LogMngImplementsRotatingLog ==
    ASSUME Faults \cap {"item", "update", "unlink", "malloc"} = {},
           InitFiles <= LOG_FILE_MAX_NUM
    PROVE  Spec /\ []NamesFit => ImplementsRotatingLog
<1>0. FirstItemSafe /\ "malloc" \notin Faults /\ "unlink" \notin Faults
  BY DEF FirstItemSafe, ItemsWritten
<1>1. Init => TypeOK /\ BoundInv /\ MirrorInv /\ FullInv
  BY <1>0, InitType, InitBound, InitMirror, InitFull
<1>2. TypeOK /\ NamesFit /\ BoundInv /\ MirrorInv /\ FullInv /\ [Next]_vars
        => TypeOK' /\ BoundInv' /\ MirrorInv' /\ FullInv'
  BY <1>0, TypeStep, BoundStep, MirrorStep, FullStep
<1>3. Init => Abstract!Init
  BY <1>1, AbstractInit DEF SoundNow
<1>4. TypeOK /\ BoundInv /\ MirrorInv /\ FullInv /\ TypeOK' /\ MirrorInv' /\ [Next]_vars
        => [Abstract!Next]_Abstract!vars
  <2> SUFFICES ASSUME TypeOK, BoundInv, MirrorInv, FullInv, TypeOK', MirrorInv', [Next]_vars
               PROVE  [Abstract!Next]_Abstract!vars
    OBVIOUS
  <2>1. SoundNow /\ SoundNow'
    BY DEF SoundNow
  <2>2. LogStep
    BY <2>1, ImplementationStep
  <2> QED
    BY <2>2 DEF LogStep
<1> QED
  BY <1>1, <1>2, <1>3, <1>4, PTL DEF Spec, Abstract!Spec, ImplementsRotatingLog
===========================================================================
