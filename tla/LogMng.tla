------------------------------- MODULE LogMng -------------------------------
(***************************************************************************)
(* The asynchronous log manager, demo/logMng/LogMng.c.                     *)
(*                                                                         *)
(* Any thread calls writeLogApi, which waits for the module to be          *)
(* initialised and posts the message to a System V queue without blocking. *)
(* One consumer thread (logMngTask) scans the log directory (initLogMng),  *)
(* then receives messages and stores each with writeLog, which rotates the *)
(* log files.  The queue and the files survive a crash of the process,     *)
(* its memory does not.                                                    *)
(*                                                                         *)
(* The steps of the consumer are the system calls that change the disk:    *)
(* the process may die between any two of them.  A message is a number,    *)
(* given in the order in which the queue accepted the messages.            *)
(***************************************************************************)
EXTENDS Integers, Sequences, FiniteSets

CONSTANTS
    Producers,              \* threads that call writeLogApi
    Main,                   \* the thread that calls startLogMngTask
    LOG_FILE_MAX_NUM,       \* files kept before the oldest is deleted (20)
    MAX_LOG_ITEMS_PER_FILE, \* items of a full file (10)
    HeadSize,               \* sizeof(LOG_HEAD_INFO), in some unit
    ItemSize,               \* sizeof(LOG_ITEM), in the same unit
    NameBase, NameWidth,    \* file n is "log%0<NameWidth>d" (10 and 3)
    QueueCap,               \* messages the System V queue holds
    InitFiles,              \* full files an earlier process left behind
    Faults,                 \* the calls that may fail in this instance
    MaxFaults, MaxCrashes,  \* bounds: failing calls, crashes
    MaxMsg                  \* bound: messages ever accepted

FaultKinds == {"create", "init", "unlink", "open", "header", "malloc",
               "item", "update"}

ASSUME SizeAssumption ==
    /\ LOG_FILE_MAX_NUM \in Nat \ {0}
    /\ MAX_LOG_ITEMS_PER_FILE \in Nat \ {0}
    /\ HeadSize \in Nat \ {0}
    /\ ItemSize \in Nat \ {0}
    /\ NameBase \in Nat \ {0, 1}
    /\ NameWidth \in Nat \ {0}
    /\ QueueCap \in Nat \ {0}
    /\ InitFiles \in Nat
    /\ MaxFaults \in Nat /\ MaxCrashes \in Nat /\ MaxMsg \in Nat

ASSUME ThreadAssumption == Main \notin Producers /\ Faults \subseteq FaultKinds

Threads == Producers \cup {Main}
NoFd == -1

VARIABLES
    \* the kernel and the disk: they survive a crash
    queue,       \* the System V message queue
    accepted,    \* number of messages msgsnd has accepted
    disk,        \* file number -> its header and items, by offset
    \* gs_log_mng_t
    list,        \* logFileList, the file numbers, oldest first
    fileNum,     \* logFileNum
    seq,         \* logFileInfo.seq, number of the next file
    fd,          \* logFileInfo.logFilefd, the number of the open file
    logHead,     \* logFileInfo.logHead
    initResult,  \* init_result
    initDone,    \* s_init_done
    \* the threads
    pc,          \* producers and main
    cpc,         \* the consumer
    cur,         \* the message the consumer is storing
    headInfo,    \* the consumer's local copy of the header
    \* bounds
    faults, crashes

memory  == <<list, fileNum, seq, fd, logHead>>
init    == <<initResult, initDone>>
bounds  == <<faults, crashes>>
vars    == <<queue, accepted, disk, memory, init, pc, cpc, cur, headInfo, bounds>>
-----------------------------------------------------------------------------
(* File headers and files.                                                 *)

\* The two header fields that drive the writer: items written, next offset.
HeadRecord == [num : Nat, wpos : Nat]
ZeroHead == [num |-> 0, wpos |-> 0]          \* memset(&logHead, 0)
NewHead  == [num |-> 0, wpos |-> HeadSize]
Torn     == [num |-> -1, wpos |-> 0]         \* fewer bytes than a header
Garbled  == [num |-> -1, wpos |-> 1]         \* bytes of an item

EmptyFile == [head |-> Torn, items |-> [o \in {} |-> 0]]

\* write(fd, &headInfo) at offset 0 destroys what overlaps the header.
WriteHead(f, h) ==
    [head  |-> h,
     items |-> [o \in {p \in DOMAIN f.items : p >= HeadSize} |-> f.items[o]]]

\* write(fd, &item) at offset o destroys the items it overlaps; at offset 0
\* it covers the header fields the writer uses.
WriteItemAt(f, o, m) ==
    LET Kept == {p \in DOMAIN f.items : p + ItemSize <= o \/ p >= o + ItemSize}
    IN [head  |-> IF o = 0 THEN Garbled ELSE f.head,
        items |-> [p \in Kept \cup {o} |-> IF p = o THEN m ELSE f.items[p]]]

SlotOffset(k) == HeadSize + (k - 1) * ItemSize

\* What a reader of file f finds: the items its header counts.
ReadableSlots(f) ==
    {k \in 1 .. f.head.num : SlotOffset(k) \in DOMAIN f.items}

ReadableIn(f) == {f.items[SlotOffset(k)] : k \in ReadableSlots(f)}

Readable(d) == UNION {ReadableIn(d[n]) : n \in DOMAIN d}

\* strcmp on "log%0wd" names: numerals compared digit by digit from the left.
NumeralLength(n) ==
    CHOOSE w \in NameWidth .. NameWidth + n :
        /\ n < NameBase ^ w
        /\ \A v \in NameWidth .. w - 1 : ~(n < NameBase ^ v)

NameLess(m, n) ==
    LET lm == NumeralLength(m)
        ln == NumeralLength(n)
    IN \/ lm = ln /\ m < n
       \/ lm < ln /\ m * NameBase ^ (ln - lm) <= n
       \/ lm > ln /\ m < n * NameBase ^ (lm - ln)

\* Each name readdir yields, once, sorted by qsort(..., compareFileName).
SortedNames(S) ==
    {l \in [1 .. Cardinality(S) -> S] :
        \A i, j \in 1 .. Cardinality(S) :
            i < j => l[i] # l[j] /\ NameLess(l[i], l[j])}

\* One more than the largest number in S, 0 when there is none.
NextSeq(S) == {m + 1 : m \in {k \in S \cup {-1} : \A n \in S : n <= k}}
-----------------------------------------------------------------------------
OldItems == InitFiles * MAX_LOG_ITEMS_PER_FILE

\* File n of an earlier process that filled it without any failure.
OldFile(n) ==
    [head  |-> [num  |-> MAX_LOG_ITEMS_PER_FILE,
                wpos |-> SlotOffset(MAX_LOG_ITEMS_PER_FILE + 1)],
     items |-> [o \in {SlotOffset(k) : k \in 1 .. MAX_LOG_ITEMS_PER_FILE} |->
                  n * MAX_LOG_ITEMS_PER_FILE
                    + CHOOSE k \in 1 .. MAX_LOG_ITEMS_PER_FILE : o = SlotOffset(k)]]

\* The memory of a process that has just started.
FreshMemory ==
    /\ list' = << >>
    /\ fileNum' = 0
    /\ seq' = 0
    /\ fd' = 0
    /\ logHead' = ZeroHead
    /\ initResult' = 0
    /\ initDone' = FALSE
    /\ pc' = [t \in Threads |-> IF t = Main THEN "start" ELSE "idle"]
    /\ cpc' = "none"
    /\ cur' = 0
    /\ headInfo' = ZeroHead

Init ==
    /\ queue = << >>
    /\ accepted = OldItems
    /\ disk = [n \in 0 .. InitFiles - 1 |-> OldFile(n)]
    /\ list = << >>
    /\ fileNum = 0
    /\ seq = 0
    /\ fd = 0
    /\ logHead = ZeroHead
    /\ initResult = 0
    /\ initDone = FALSE
    /\ pc = [t \in Threads |-> IF t = Main THEN "start" ELSE "idle"]
    /\ cpc = "none"
    /\ cur = 0
    /\ headInfo = ZeroHead
    /\ faults = 0
    /\ crashes = 0

\* One call of the given kind fails here.
Fail(kind) ==
    /\ kind \in Faults
    /\ faults < MaxFaults
    /\ faults' = faults + 1
    /\ UNCHANGED crashes
-----------------------------------------------------------------------------
(* The initialisation handshake.                                           *)

\* Mutant: pthread_cond_signal wakes one thread.
MutSignal(q) ==
    LET t == CHOOSE u \in Threads : q[u] = "wait" \/ \A v \in Threads : q[v] # "wait"
    IN [q EXCEPT ![t] = IF @ = "wait" THEN "lock" ELSE @]

\* s_init_done = 1 and pthread_cond_broadcast, under s_init_mutex.
Broadcast(q) == [t \in Threads |-> IF q[t] = "wait" THEN "lock" ELSE q[t]]

StartLogMngTask ==
    /\ pc[Main] = "start"
    /\ cpc' = "init"
    /\ pc' = [pc EXCEPT ![Main] = "lock"]
    /\ UNCHANGED <<queue, accepted, disk, memory, init, cur, headInfo, bounds>>

\* Mutant: the failure branch forgets notifyModuleInited.
MutStartFailsSilently ==
    /\ pc[Main] = "start"
    /\ Fail("create")
    /\ initResult' = -1
    /\ pc' = [pc EXCEPT ![Main] = "done"]
    /\ UNCHANGED <<queue, accepted, disk, memory, initDone, cpc, cur, headInfo>>

\* pthread_create failed: mark the module as failed and wake the callers.
StartLogMngTaskFails ==
    /\ pc[Main] = "start"
    /\ Fail("create")
    /\ initResult' = -1
    /\ initDone' = TRUE
    /\ pc' = Broadcast([pc EXCEPT ![Main] = "done"])
    /\ UNCHANGED <<queue, accepted, disk, memory, cpc, cur, headInfo>>

\* The loop of waitModuleInited: test s_init_done under the mutex, or sleep.
WaitModuleInited(t) ==
    /\ pc[t] = "lock"
    /\ pc' = [pc EXCEPT ![t] = IF ~initDone THEN "wait"
                               ELSE IF t = Main THEN "done" ELSE "check"]
    /\ UNCHANGED <<queue, accepted, disk, memory, init, cpc, cur, headInfo, bounds>>

\* A failure before the scan is complete (mutex, queue, directory, memory).
InitLogMngFails ==
    /\ cpc = "init"
    /\ Fail("init")
    /\ fd' = NoFd
    /\ initResult' = -1
    /\ cpc' = "notify"
    /\ UNCHANGED <<queue, accepted, disk, list, fileNum, seq, logHead, initDone,
                   pc, cur, headInfo>>

\* What read(fd, &logHead) yields for a header on disk.  The bytes of an item
\* give info_len as the write offset and a character as the item count.
HeadsRead(h) ==
    IF h = Garbled THEN [num : {0, MAX_LOG_ITEMS_PER_FILE}, wpos : 1 .. ItemSize]
    ELSE {h}

\* The scan: sort the names, rebuild the list, number the next file from nextSeq,
\* reopen the last file and read its header to recover the write position;
\* a header in rejected ends the initialisation.
ScanDirectory(nextSeq, rejected) ==
    /\ cpc = "init"
    /\ \E l \in SortedNames(DOMAIN disk) :
          /\ list' = l
          /\ fileNum' = Len(l)
          /\ seq' \in nextSeq
          /\ IF l = << >>
             THEN /\ fd' = NoFd
                  /\ initResult' = 0
                  /\ logHead' = ZeroHead
             ELSE IF disk[l[Len(l)]].head \in rejected
             THEN /\ fd' = NoFd
                  /\ initResult' = -1
                  /\ UNCHANGED logHead
             ELSE /\ fd' = l[Len(l)]
                  /\ initResult' = 0
                  /\ logHead' \in HeadsRead(disk[l[Len(l)]].head)
    /\ cpc' = "notify"
    /\ UNCHANGED <<queue, accepted, disk, initDone, pc, cur, headInfo, bounds>>

\* Mutant: the sequence number stays at the 0 of the memset.
MutInitSeqLost == ScanDirectory({0}, {Torn})

InitLogMng == ScanDirectory(NextSeq(DOMAIN disk), {Torn})

\* The end of initLogMng; on failure logMngTask returns.
NotifyModuleInited ==
    /\ cpc = "notify"
    /\ initDone' = TRUE
    /\ pc' = Broadcast(pc)
    /\ cpc' = IF initResult = 0 THEN "recv" ELSE "exited"
    /\ UNCHANGED <<queue, accepted, disk, memory, initResult, cur, headInfo, bounds>>
-----------------------------------------------------------------------------
(* writeLogApi.                                                            *)

WriteLogApi(p) ==
    /\ pc[p] = "idle"
    /\ accepted + Cardinality({r \in Producers : pc[r] # "idle"}) < MaxMsg
    /\ pc' = [pc EXCEPT ![p] = "lock"]
    /\ UNCHANGED <<queue, accepted, disk, memory, init, cpc, cur, headInfo, bounds>>

CheckInitResult(p) ==
    /\ pc[p] = "check"
    /\ pc' = [pc EXCEPT ![p] = IF initResult # 0 THEN "idle" ELSE "send"]
    /\ UNCHANGED <<queue, accepted, disk, memory, init, cpc, cur, headInfo, bounds>>

\* msgsnd with IPC_NOWAIT: a full queue drops the message and returns -1.
MsgSnd(p) ==
    /\ pc[p] = "send"
    /\ IF Len(queue) < QueueCap
       THEN /\ queue' = Append(queue, accepted + 1)
            /\ accepted' = accepted + 1
       ELSE UNCHANGED <<queue, accepted>>
    /\ pc' = [pc EXCEPT ![p] = "idle"]
    /\ UNCHANGED <<disk, memory, init, cpc, cur, headInfo, bounds>>
-----------------------------------------------------------------------------
(* logMngTask and writeLog.                                                *)

\* The current file is full, or there is none yet.
Full == logHead.num >= MAX_LOG_ITEMS_PER_FILE

MustRotate == fileNum = 0 \/ Full

Receive(rest) ==
    /\ cpc = "recv"
    /\ queue # << >>
    /\ cur' = Head(queue)
    /\ queue' = rest
    /\ headInfo' = logHead
    /\ cpc' = IF MustRotate THEN "rotate" ELSE "item"
    /\ UNCHANGED <<accepted, disk, memory, init, pc, bounds>>

\* Mutant: the message is only copied (MSG_COPY) and stays in the queue.
MutMsgCopy == Receive(queue)

MsgRcv == Receive(Tail(queue))

Without(d, n) == [k \in DOMAIN d \ {n} |-> d[k]]

\* The end of writeLog: its result is ignored, its locals die and the next
\* turn of the loop clears msg.
WriteLogReturns ==
    /\ cpc' = "recv"
    /\ cur' = 0
    /\ headInfo' = ZeroHead

\* Close the full file; when there are too many files, delete
\* the oldest, the first of the list.
DeleteWhen(tooMany) ==
    /\ cpc = "rotate"
    /\ fd' = NoFd
    /\ IF tooMany /\ list # << >>
       THEN /\ list' = Tail(list)
            /\ fileNum' = fileNum - 1
            /\ \/ disk' = Without(disk, Head(list)) /\ UNCHANGED bounds
               \/ Fail("unlink") /\ UNCHANGED disk
       ELSE UNCHANGED <<list, fileNum, disk, bounds>>
    /\ cpc' = "open"
    /\ UNCHANGED <<queue, accepted, seq, logHead, init, pc, cur, headInfo>>

\* Mutants: the bound is off by one.
MutDeleteLate   == DeleteWhen(fileNum > LOG_FILE_MAX_NUM)
MutDeleteEarly  == DeleteWhen(fileNum >= LOG_FILE_MAX_NUM - 1)

RotateOld == DeleteWhen(fileNum >= LOG_FILE_MAX_NUM)

\* Mutant: a failed open ends the consumer.
MutOpenEndsTask ==
    /\ cpc = "open"
    /\ \/ /\ disk' = IF seq \in DOMAIN disk THEN disk
                     ELSE [n \in DOMAIN disk \cup {seq} |->
                              IF n = seq THEN EmptyFile ELSE disk[n]]
          /\ fd' = seq
          /\ cpc' = "header"
          /\ UNCHANGED bounds
       \/ /\ Fail("open")
          /\ fd' = NoFd
          /\ cpc' = "exited"
          /\ UNCHANGED disk
    /\ UNCHANGED <<queue, accepted, list, fileNum, seq, logHead, init, pc, cur, headInfo>>

\* open(filename, O_CREAT | O_RDWR): a file of that name is reused as it is.
OpenNew ==
    /\ cpc = "open"
    /\ \/ /\ disk' = IF seq \in DOMAIN disk THEN disk
                     ELSE [n \in DOMAIN disk \cup {seq} |->
                              IF n = seq THEN EmptyFile ELSE disk[n]]
          /\ fd' = seq
          /\ cpc' = "header"
          /\ UNCHANGED <<cur, headInfo, bounds>>
       \/ /\ Fail("open")
          /\ fd' = NoFd
          /\ WriteLogReturns
          /\ UNCHANGED disk
    /\ UNCHANGED <<queue, accepted, list, fileNum, seq, logHead, init, pc>>

\* Write the header of the new file, count the file and list it.
WriteNewHeader ==
    /\ cpc = "header"
    /\ disk' = [disk EXCEPT ![fd] = WriteHead(@, NewHead)]
    /\ headInfo' = NewHead
    /\ fileNum' = fileNum + 1
    /\ seq' = seq + 1
    /\ \/ list' = Append(list, seq) /\ UNCHANGED bounds
       \/ Fail("malloc") /\ UNCHANGED list
    /\ cpc' = "item"
    /\ UNCHANGED <<queue, accepted, fd, logHead, init, pc, cur>>

WriteNewHeaderFails ==
    /\ cpc = "header"
    /\ Fail("header")
    /\ fd' = NoFd
    /\ WriteLogReturns
    /\ UNCHANGED <<queue, accepted, disk, list, fileNum, seq, logHead, init, pc>>

\* Store the item at the offset the local header copy gives.
WriteItem ==
    /\ cpc = "item"
    /\ \/ /\ disk' = [disk EXCEPT ![fd] = WriteItemAt(@, headInfo.wpos, cur)]
          /\ cpc' = "update"
          /\ UNCHANGED <<cur, headInfo, bounds>>
       \/ /\ Fail("item")
          /\ WriteLogReturns
          /\ UNCHANGED disk
    /\ UNCHANGED <<queue, accepted, memory, init, pc>>

\* Mutant: memory is updated although the header on disk was not.
MutSyncAnyway ==
    /\ cpc = "update"
    /\ LET h == [num |-> headInfo.num + 1, wpos |-> headInfo.wpos + ItemSize]
       IN /\ logHead' = h
          /\ \/ disk' = [disk EXCEPT ![fd] = WriteHead(@, h)] /\ UNCHANGED bounds
             \/ Fail("update") /\ UNCHANGED disk
    /\ WriteLogReturns
    /\ UNCHANGED <<queue, accepted, list, fileNum, seq, fd, init, pc>>

\* Count the item in the header on disk, then in memory.
UpdateHeader ==
    /\ cpc = "update"
    /\ LET h == [num |-> headInfo.num + 1, wpos |-> headInfo.wpos + ItemSize]
       IN \/ /\ disk' = [disk EXCEPT ![fd] = WriteHead(@, h)]
             /\ logHead' = h
             /\ UNCHANGED bounds
          \/ /\ Fail("update")
             /\ UNCHANGED <<disk, logHead>>
    /\ WriteLogReturns
    /\ UNCHANGED <<queue, accepted, list, fileNum, seq, fd, init, pc>>
-----------------------------------------------------------------------------
\* The process dies and is started again: memory and threads are new.
Crash ==
    /\ crashes < MaxCrashes
    /\ pc[Main] # "start"
    /\ crashes' = crashes + 1
    /\ FreshMemory
    /\ UNCHANGED <<queue, accepted, disk, faults>>

Producer(p) == WriteLogApi(p) \/ WaitModuleInited(p) \/ CheckInitResult(p) \/ MsgSnd(p)

MainThread == StartLogMngTask \/ StartLogMngTaskFails \/ WaitModuleInited(Main)

Consumer ==
    \/ InitLogMngFails \/ InitLogMng \/ NotifyModuleInited
    \/ MsgRcv \/ RotateOld \/ OpenNew
    \/ WriteNewHeader \/ WriteNewHeaderFails \/ WriteItem \/ UpdateHeader

Next ==
    \/ MainThread
    \/ Consumer
    \/ \E p \in Producers : Producer(p)
    \/ Crash

Spec == Init /\ [][Next]_vars

\* Every thread the scheduler runs makes progress; new calls and crashes are
\* not forced.
Fairness ==
    /\ WF_vars(MainThread)
    /\ WF_vars(Consumer)
    /\ \A p \in Producers :
          WF_vars(WaitModuleInited(p) \/ CheckInitResult(p) \/ MsgSnd(p))

FairSpec == Spec /\ Fairness
-----------------------------------------------------------------------------
(* Properties.                                                             *)

Storing == {"rotate", "open", "header", "item", "update"}

FileType(f) ==
    /\ f.head \in HeadRecord \cup {Torn, Garbled}
    /\ DOMAIN f.items \subseteq Nat
    /\ \A o \in DOMAIN f.items : f.items[o] \in Nat

\* Type correctness of every variable of the log manager.
TypeOK ==
    /\ accepted \in Nat
    /\ queue \in Seq(Nat)
    /\ IsFiniteSet(DOMAIN disk)
    /\ DOMAIN disk \subseteq Nat
    /\ \A n \in DOMAIN disk : FileType(disk[n])
    /\ list \in Seq(Nat)
    /\ fileNum \in Nat
    /\ seq \in Nat
    /\ fd \in Nat \cup {NoFd}
    /\ logHead \in HeadRecord
    /\ initResult \in {0, -1}
    /\ initDone \in BOOLEAN
    /\ pc \in [Threads -> {"idle", "start", "lock", "wait", "check", "send", "done"}]
    /\ cpc \in {"none", "init", "notify", "recv", "exited"} \cup Storing
    /\ cur \in Nat
    /\ headInfo \in HeadRecord
    /\ faults \in Nat /\ crashes \in Nat

\* No message is stored twice, whatever crashes, restarts and failing calls
\* come between msgrcv (LogMng.c:466) and the header update (381).
NoDuplicate ==
    \A m, n \in DOMAIN disk :
        \A o \in DOMAIN disk[m].items, p \in DOMAIN disk[n].items :
            disk[m].items[o] = disk[n].items[p] => m = n /\ o = p

\* Files in the order of their numbers, and items in the order of their slots,
\* give the messages in the order the queue accepted them.
StoredInOrder ==
    \A m, n \in DOMAIN disk :
        \A j \in ReadableSlots(disk[m]), k \in ReadableSlots(disk[n]) :
            (m < n \/ (m = n /\ j < k)) =>
                disk[m].items[SlotOffset(j)] < disk[n].items[SlotOffset(k)]

\* The consumer always writes to an open descriptor (LogMng.c:314, 354, 361,
\* 375 and 381 never use -1), and to the newest file that exists: rotation,
\* failed opens and restarts never leave it on a closed or deleted file.
WriterOnNewestFile ==
    cpc \in {"header", "item", "update"} =>
        fd \in DOMAIN disk /\ \A n \in DOMAIN disk : n <= fd

\* The header in memory is the one on disk when an item is about to be
\* written: the item goes to the next free offset of its file (LogMng.h:89).
HeadMirrorsDisk == cpc = "item" => disk[fd].head = headInfo

\* What the consumer holds in memory is right for the file it is about to write,
\* when failed steps of earlier messages left it half-way.
MemoryMirrorsDisk == WriterOnNewestFile /\ HeadMirrorsDisk

\* A thread that gets past waitModuleInited and the test of init_result posts
\* to the queue of a process whose consumer is alive (LogMng.c:410-432).
SendOnlyToConsumer ==
    \A p \in Producers :
        pc[p] = "send" => initDone /\ cpc \in {"recv"} \cup Storing

\* No thread sleeps on the condition variable once the initialisation is over,
\* and one that sleeps has somebody left to wake it (LogMng.c:42-57).
SleepersAreWoken ==
    \A t \in Threads : pc[t] = "wait" =>
        ~initDone /\ (cpc \in {"init", "notify"} \/ pc[Main] = "start")

\* The handshake between the starter, the consumer and the callers.
HandshakeSafe == SleepersAreWoken /\ SendOnlyToConsumer

\* There are never more log files than LOG_FILE_MAX_NUM (LogMng.c:276-290).
DiskBound == Cardinality(DOMAIN disk) <= LOG_FILE_MAX_NUM

\* A step never loses a message a reader could find, except by deleting the
\* whole file that holds it.
NoOverwrite ==
    [][\A n \in DOMAIN disk \cap DOMAIN disk' :
          ReadableIn(disk[n]) \subseteq ReadableIn(disk'[n])]_vars

\* Every call of writeLogApi returns, also when the initialisation fails or
\* its thread cannot be created (LogMng.c:497): no caller sleeps forever.
CallsReturn == \A p \in Producers : pc[p] # "idle" ~> pc[p] = "idle"

\* A consumer that has initialised empties its queue, however its opens and
\* writes fail, unless the process is restarted first.
QueueDrained == cpc = "recv" ~> (queue = << >> \/ cpc = "none")
-----------------------------------------------------------------------------
(* Inductive strengthenings of the handshake and delivery properties.      *)

Running == cpc \in {"recv"} \cup Storing

\* Where the consumer is determines what the two flags say, and the flags
\* determine which threads may sleep, test or post.
HandshakeInv ==
    /\ pc[Main] = "start" => cpc = "none" /\ ~initDone
    /\ cpc = "none" => pc[Main] = "start" \/ (initDone /\ initResult = -1)
    /\ cpc \in {"init", "notify"} => ~initDone
    /\ Running => initDone /\ initResult = 0
    /\ cpc = "exited" => initDone /\ initResult = -1
    /\ SleepersAreWoken
    /\ \A p \in Producers : pc[p] = "check" => initDone
    /\ \A p \in Producers : pc[p] = "send" => initDone /\ initResult = 0

\* A successful scan has filled the memory of this process.
Scanned == Running \/ (cpc = "notify" /\ initResult = 0)

\* The numbers in the list.
Listed == {list[i] : i \in 1 .. Len(list)}

\* The list of a scanned directory: each of its files once, and on disk besides
\* them only a new file whose header could not be written, which the next
\* rotation reuses.  Its length is the count that RotateOld tests.
ListMirrorsDisk ==
    /\ \A i, j \in 1 .. Len(list) : list[i] = list[j] => i = j
    /\ fileNum = Len(list) /\ fileNum = Cardinality(Listed)
    /\ Listed \subseteq DOMAIN disk
    /\ DOMAIN disk \subseteq Listed \cup {seq}
    /\ \A n \in Listed : n < seq

\* The files stay within the bound, and RotateOld has made room for the file
\* that OpenNew creates and WriteNewHeader lists.
BoundInv ==
    /\ DiskBound
    /\ Scanned => ListMirrorsDisk
    /\ cpc \in {"open", "header"} => fileNum < LOG_FILE_MAX_NUM
    /\ cpc = "header" => fd = seq /\ seq \in DOMAIN disk

\* The numbers of the files have as many digits as the names have places: only then
\* the order of the names is that of the numbers (LogMng.c:163).
NamesFit == \A n \in DOMAIN disk : n < NameBase ^ NameWidth

\* What follows the header of a new file is always written.
ItemsWritten == Faults \cap {"item", "update"} = {}

\* The first item of a first file is not lost with the position in its header:
\* it is always written, or the directory is never empty (LogMng.c:364).
FirstItemSafe == ItemsWritten \/ (InitFiles > 0 /\ LOG_FILE_MAX_NUM > 1)

HeadOf(k) == [num |-> k, wpos |-> SlotOffset(k + 1)]

\* A file is empty, or its header counts the items in its first slots, behind which
\* there may be one that is not counted yet.
SoundFile(f) ==
    \/ f = EmptyFile
    \/ \E k \in 0 .. MAX_LOG_ITEMS_PER_FILE :
          /\ f.head = HeadOf(k)
          /\ {SlotOffset(j) : j \in 1 .. k} \subseteq DOMAIN f.items
          /\ DOMAIN f.items \subseteq {SlotOffset(j) : j \in 1 .. k + 1}

\* The open file is the newest, and h is its header on disk.
Current(h) ==
    /\ fd \in DOMAIN disk /\ \A n \in DOMAIN disk : n <= fd
    /\ disk[fd].head = h /\ h.num < MAX_LOG_ITEMS_PER_FILE

FilesSound ==
    /\ \A n \in DOMAIN disk : SoundFile(disk[n])
    /\ ItemsWritten \/ DOMAIN disk # {}

\* No file has a number to come, but for one whose header could not be written;
\* and no file is counted that is not there.
NumbersInv ==
    Scanned =>
        /\ \A n \in DOMAIN disk : n <= seq /\ (n = seq => disk[n] = EmptyFile)
        /\ fileNum <= Cardinality(DOMAIN disk \ {seq})
        /\ fileNum = 0 => Full \/ ItemsWritten

\* The memory agrees with the open file unless the next message rotates, and while
\* a message is stored the local header does.  After a rotation the header in memory
\* is still that of the full file before, so that a message that fails rotates again.
PositionInv ==
    /\ Scanned /\ cpc \notin Storing /\ ~MustRotate => Current(logHead)
    /\ cpc \in {"rotate", "open", "header"} => MustRotate
    /\ cpc = "header" => fd = seq /\ seq \in DOMAIN disk
    /\ cpc \in {"item", "update"} =>
          /\ Current(headInfo) /\ fileNum > 0
          /\ logHead = headInfo \/ Full \/ ItemsWritten
    /\ cpc = "update" => headInfo.wpos \in DOMAIN disk[fd].items

MirrorInv == FilesSound /\ NumbersInv /\ PositionInv

\* Every item, counted or not, was accepted before those in later slots and files.
OrderInv ==
    \A m, n \in DOMAIN disk :
        \A o \in DOMAIN disk[m].items, p \in DOMAIN disk[n].items :
            (m < n \/ (m = n /\ o < p)) => disk[m].items[o] < disk[n].items[p]

\* Messages msgrcv has removed from the queue.
Received == accepted - Len(queue)

\* The queue holds the messages after Received, in order; the consumer holds
\* Received itself; nothing later is on disk, nor, before WriteItem, that one.
DeliveryInv ==
    /\ \A i \in 1 .. Len(queue) : queue[i] = Received + i
    /\ cpc \in Storing => cur = Received
    /\ \A n \in DOMAIN disk : \A o \in DOMAIN disk[n].items :
          /\ disk[n].items[o] <= Received
          /\ cpc \in Storing \ {"update"} => disk[n].items[o] # cur
    /\ NoDuplicate
=============================================================================
