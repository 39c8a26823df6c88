------------------------------ MODULE AsyncLog ------------------------------
(***************************************************************************)
(* The web server's asynchronous log: Log (webServer/code/log/log.cpp) and *)
(* its bounded queue BlockDeque (blockqueue.h).                            *)
(*                                                                         *)
(* A thread that logs formats its line under Log::mtx_ and pushes it to    *)
(* the queue, or writes it itself when the queue is full; the write thread *)
(* pops lines and writes them under the same mutex.  The test for a new    *)
(* day or a full file and the choice of the new name are made without it.  *)
(* Lines are numbered in the order in which they are formatted.            *)
(*                                                                         *)
(* LOG_BASE flushes the file after every line, without the mutex: a thread *)
(* may be inside fflush, or about to enter it, with a FILE that another    *)
(* thread closes.  What follows is undefined: the flush may do no harm, or *)
(* the behaviour ends with broken, about which nothing is claimed.         *)
(***************************************************************************)
EXTENDS Integers, Sequences, FiniteSets, SequencesExt

CONSTANTS
    Writers,    \* threads that use LOG_DEBUG ... LOG_ERROR
    Capacity,   \* BlockDeque::capacity_ (1000)
    MAX_LINES,  \* lines after which the file is changed (50000)
    Days,       \* bound: last day of a behaviour
    MaxLines    \* bound: lines ever logged

NoOne == "none"     \* the mutex is free

ASSUME LogAssumption ==
    /\ IsFiniteSet(Writers) /\ NoOne \notin Writers
    /\ Capacity \in Nat \ {0}
    /\ MAX_LINES \in Nat \ {0}
    /\ Days \in Nat \ {0}
    /\ MaxLines \in Nat

Closed == [day |-> 0, part |-> 0]

\* path/DATE.log, and path/DATE-k.log.
DailyName(d)   == [day |-> d, part |-> -1]
PartName(d, k) == [day |-> d, part |-> k]

VARIABLES
    today,      \* the day gettimeofday returns
    deq,        \* BlockDeque::deq_
    isClose,    \* BlockDeque::isClose_
    mtx,        \* the holder of Log::mtx_
    toDay, lineCount,   \* Log::toDay_, Log::lineCount_
    fp,         \* the file Log::fp_ writes to, or Closed
    lines,      \* number of lines formatted
    written,    \* what fputs wrote, in order: the line and its file
    direct,     \* the lines written by the thread that logged them
    pc, day, newFile, line, \* the writers and their locals
    stale,      \* the writers that flush a FILE which is closed
    broken,     \* a closed FILE has been used
    cpc, held,  \* the write thread and the line it has popped, 0 for none
    opc         \* the destructor of Log

queue  == <<deq, isClose>>
log    == <<toDay, lineCount, fp, lines>>
output == <<written, direct>>
locals == <<day, newFile, line>>
flushes == <<stale, broken>>
vars   == <<flushes, today, queue, mtx, log, output, pc, locals, cpc, held, opc>>

Init ==
    /\ today = 1
    /\ deq = << >> /\ isClose = FALSE
    /\ mtx = NoOne
    /\ toDay = 1 /\ lineCount = 0 /\ fp = DailyName(1) /\ lines = 0
    /\ written = << >> /\ direct = {}
    /\ pc = [w \in Writers |-> "idle"]
    /\ day = [w \in Writers |-> 0]
    /\ newFile = [w \in Writers |-> Closed]
    /\ line = [w \in Writers |-> 0]
    /\ stale = {} /\ broken = FALSE
    /\ cpc = "pop" /\ held = 0
    /\ opc = "open"

\* condConsumer_.notify_one(): the write thread is the only consumer.
Notified(c) == IF c = "waiting" THEN "woken" ELSE c

Midnight ==
    /\ today < Days
    /\ today' = today + 1
    /\ UNCHANGED <<flushes, queue, mtx, log, output, pc, locals, cpc, held, opc>>
-----------------------------------------------------------------------------
(* Log::write and the flush of LOG_BASE.                                   *)

Write(w) ==
    /\ opc = "open"
    /\ pc[w] = "idle"
    /\ lines + Cardinality({v \in Writers : pc[v] # "idle"}) < MaxLines
    /\ day' = [day EXCEPT ![w] = today]
    /\ pc' = [pc EXCEPT ![w] = "check"]
    /\ UNCHANGED <<flushes, today, queue, mtx, log, output, newFile, line, cpc, held, opc>>

\* A new day, or a full file; the empty critical section waits for the mutex.
CheckFile(w) ==
    /\ pc[w] = "check"
    /\ IF toDay # day[w] \/ (lineCount # 0 /\ lineCount % MAX_LINES = 0)
       THEN mtx = NoOne /\ pc' = [pc EXCEPT ![w] = "name"]
       ELSE pc' = [pc EXCEPT ![w] = "format"]
    /\ UNCHANGED <<flushes, today, queue, mtx, log, output, locals, cpc, held, opc>>

ChooseName(w) ==
    /\ pc[w] = "name"
    /\ IF toDay # day[w]
       THEN /\ newFile' = [newFile EXCEPT ![w] = DailyName(day[w])]
            /\ toDay' = day[w]
            /\ pc' = [pc EXCEPT ![w] = "reset"]
       ELSE /\ newFile' = [newFile EXCEPT ![w] = PartName(day[w], lineCount \div MAX_LINES)]
            /\ pc' = [pc EXCEPT ![w] = "close"]
            /\ UNCHANGED toDay
    /\ UNCHANGED <<flushes, today, queue, mtx, lineCount, fp, lines, output, day, line, cpc, held, opc>>

ResetCount(w) ==
    /\ pc[w] = "reset"
    /\ lineCount' = 0
    /\ pc' = [pc EXCEPT ![w] = "close"]
    /\ UNCHANGED <<flushes, today, queue, mtx, toDay, fp, lines, output, locals, cpc, held, opc>>

\* locker.lock(), flush() and fclose(fp_), also under a thread that flushes.
CloseFile(w) ==
    /\ pc[w] = "close"
    /\ mtx = NoOne
    /\ mtx' = w
    /\ fp' = Closed
    /\ stale' = stale \cup {v \in Writers : pc[v] = "fflush"}
    /\ cpc' = Notified(cpc)
    /\ pc' = [pc EXCEPT ![w] = "reopen"]
    /\ UNCHANGED <<broken, today, queue, toDay, lineCount, lines, output, locals, held, opc>>

\* fopen(newFile, "a"), and the end of the locker's scope.
ReopenFile(w) ==
    /\ pc[w] = "reopen"
    /\ fp' = newFile[w]
    /\ mtx' = NoOne
    /\ pc' = [pc EXCEPT ![w] = "format"]
    /\ UNCHANGED <<flushes, today, queue, toDay, lineCount, lines, output, locals, cpc, held, opc>>

\* Mutant: the mutex protects the buffer only, not the push.
MutFormatUnlocks(w) ==
    /\ pc[w] = "format"
    /\ mtx = NoOne
    /\ lineCount' = lineCount + 1
    /\ lines' = lines + 1
    /\ line' = [line EXCEPT ![w] = lines + 1]
    /\ pc' = [pc EXCEPT ![w] = IF Len(deq) < Capacity THEN "push" ELSE "direct"]
    /\ UNCHANGED <<flushes, today, queue, mtx, toDay, fp, output, day, newFile, cpc, held, opc>>

\* Lock, count and format the line, and test deque_->full().
FormatLine(w) ==
    /\ pc[w] = "format"
    /\ mtx = NoOne
    /\ mtx' = w
    /\ lineCount' = lineCount + 1
    /\ lines' = lines + 1
    /\ line' = [line EXCEPT ![w] = lines + 1]
    /\ pc' = [pc EXCEPT ![w] = IF Len(deq) < Capacity THEN "push" ELSE "direct"]
    /\ UNCHANGED <<flushes, today, queue, toDay, fp, output, day, newFile, cpc, held, opc>>

\* Mutant: push_back does not notify the consumer.
MutPushSilently(w) ==
    /\ pc[w] = "push"
    /\ deq' = Append(deq, line[w])
    /\ pc' = [pc EXCEPT ![w] = "flush"]
    /\ line' = [line EXCEPT ![w] = 0]
    /\ mtx' = IF mtx = w THEN NoOne ELSE mtx
    /\ UNCHANGED <<flushes, today, isClose, log, output, day, newFile, cpc, held, opc>>

\* BlockDeque::push_back.  The wait for room is the state "blocked"; that it is
\* never reached is PushNeverWaits.
PushBack(w) ==
    /\ pc[w] = "push"
    /\ IF Len(deq) >= Capacity
       THEN /\ pc' = [pc EXCEPT ![w] = "blocked"]
            /\ UNCHANGED <<deq, cpc, line, mtx>>
       ELSE /\ deq' = Append(deq, line[w])
            /\ cpc' = Notified(cpc)
            /\ pc' = [pc EXCEPT ![w] = "flush"]
            /\ line' = [line EXCEPT ![w] = 0]
            /\ mtx' = NoOne
    /\ UNCHANGED <<flushes, today, isClose, log, output, day, newFile, held, opc>>

\* The queue is full: fputs by the thread itself.
WriteDirectly(w) ==
    /\ pc[w] = "direct"
    /\ written' = Append(written, [line |-> line[w], file |-> fp])
    /\ direct' = direct \cup {line[w]}
    /\ pc' = [pc EXCEPT ![w] = "flush"]
    /\ line' = [line EXCEPT ![w] = 0]
    /\ mtx' = NoOne
    /\ UNCHANGED <<flushes, today, queue, log, day, newFile, cpc, held, opc>>

\* log->flush() of LOG_BASE, made without the mutex: notify the write thread
\* and read fp_, which between fclose and fopen is the FILE just closed.
Flush(w) ==
    /\ pc[w] = "flush"
    /\ cpc' = Notified(cpc)
    /\ stale' = IF fp = Closed THEN stale \cup {w} ELSE stale
    /\ pc' = [pc EXCEPT ![w] = "fflush"]
    /\ UNCHANGED <<broken, today, queue, mtx, log, output, locals, held, opc>>

\* fflush(fp_).
FileFlush(w) ==
    /\ pc[w] = "fflush"
    /\ \/ broken' = FALSE
       \/ w \in stale /\ broken' = TRUE
    /\ stale' = stale \ {w}
    /\ pc' = [pc EXCEPT ![w] = "idle"]
    /\ UNCHANGED <<today, queue, mtx, log, output, locals, cpc, held, opc>>
-----------------------------------------------------------------------------
(* The write thread: AsyncWrite_ and BlockDeque::pop.                      *)

\* Take the first line; notifying condProducer_ changes nothing, since no
\* thread ever waits on it.
TakeFront ==
    /\ held' = Head(deq)
    /\ deq' = Tail(deq)
    /\ cpc' = "write"

Pop ==
    /\ cpc = "pop"
    /\ \/ deq # << >> /\ TakeFront
       \/ deq = << >> /\ cpc' = "waiting" /\ UNCHANGED <<deq, held>>
    /\ UNCHANGED <<flushes, today, isClose, mtx, log, output, pc, locals, opc>>

\* wait() returns: isClose_ is tested here and nowhere else.
PopAfterWait ==
    /\ cpc = "woken"
    /\ \/ isClose /\ cpc' = "exited" /\ UNCHANGED <<deq, held>>
       \/ ~isClose /\ deq # << >> /\ TakeFront
       \/ ~isClose /\ deq = << >> /\ cpc' = "waiting" /\ UNCHANGED <<deq, held>>
    /\ UNCHANGED <<flushes, today, isClose, mtx, log, output, pc, locals, opc>>

SpuriousWakeUp ==
    /\ cpc = "waiting"
    /\ cpc' = "woken"
    /\ UNCHANGED <<flushes, today, queue, mtx, log, output, pc, locals, held, opc>>

AsyncWrite ==
    /\ cpc = "write"
    /\ mtx = NoOne
    /\ written' = Append(written, [line |-> held, file |-> fp])
    /\ held' = 0
    /\ cpc' = "pop"
    /\ UNCHANGED <<flushes, today, queue, mtx, log, direct, pc, locals, opc>>
-----------------------------------------------------------------------------
(* The destructor of Log.  It runs at exit, when no thread logs any more.  *)

BeginDestructor ==
    /\ opc = "open"
    /\ \A w \in Writers : pc[w] = "idle"
    /\ opc' = "drain"
    /\ UNCHANGED <<flushes, today, queue, mtx, log, output, pc, locals, cpc, held>>

\* Mutant: the queue is closed at once.
MutDrainSkipped ==
    /\ opc = "drain"
    /\ opc' = "close"
    /\ UNCHANGED <<flushes, today, queue, mtx, log, output, pc, locals, cpc, held>>

\* while (!deque_->empty()) deque_->flush().
Drain ==
    /\ opc = "drain"
    /\ IF deq = << >> THEN opc' = "close" /\ UNCHANGED cpc
       ELSE cpc' = Notified(cpc) /\ UNCHANGED opc
    /\ UNCHANGED <<flushes, today, queue, mtx, log, output, pc, locals, held>>

CloseQueue ==
    /\ opc = "close"
    /\ deq' = << >>
    /\ isClose' = TRUE
    /\ opc' = "notify"
    /\ UNCHANGED <<flushes, today, mtx, log, output, pc, locals, cpc, held>>

\* Mutant: only the producers are notified.
MutNotifyProducers ==
    /\ opc = "notify"
    /\ opc' = "join"
    /\ UNCHANGED <<flushes, today, queue, mtx, log, output, pc, locals, cpc, held>>

NotifyAll ==
    /\ opc = "notify"
    /\ cpc' = Notified(cpc)
    /\ opc' = "join"
    /\ UNCHANGED <<flushes, today, queue, mtx, log, output, pc, locals, held>>

\* writeThread_->join(), flush() and fclose(fp_).
Join ==
    /\ opc = "join"
    /\ cpc = "exited"
    /\ mtx = NoOne
    /\ fp' = Closed
    /\ opc' = "done"
    /\ UNCHANGED <<flushes, today, queue, mtx, toDay, lineCount, lines, output, pc, locals, cpc, held>>

Writer(w) ==
    \/ CheckFile(w) \/ ChooseName(w) \/ ResetCount(w) \/ CloseFile(w) \/ ReopenFile(w)
    \/ FormatLine(w) \/ PushBack(w) \/ WriteDirectly(w) \/ Flush(w) \/ FileFlush(w)

WriteThread == Pop \/ PopAfterWait \/ AsyncWrite

Destructor == Drain \/ CloseQueue \/ NotifyAll \/ Join

Next ==
    /\ ~broken
    /\ \/ Midnight
       \/ \E w \in Writers : Write(w) \/ Writer(w)
       \/ WriteThread \/ SpuriousWakeUp
       \/ BeginDestructor \/ Destructor

Spec == Init /\ [][Next]_vars

\* Threads that can run are run, and a thread that keeps asking for mtx_ gets
\* it; logging, the end of the process and spurious wake-ups are not forced.
Fairness ==
    /\ \A w \in Writers : SF_vars(~broken /\ Writer(w))
    /\ SF_vars(~broken /\ WriteThread)
    /\ WF_vars(~broken /\ Destructor)

FairSpec == Spec /\ Fairness
-----------------------------------------------------------------------------
(* Properties.                                                             *)

Files == {Closed} \cup {DailyName(d) : d \in 1 .. Days}
                  \cup {PartName(d, k) : d \in 1 .. Days, k \in 0 .. MaxLines}

\* Type correctness.
TypeOK ==
    /\ today \in 1 .. Days
    /\ deq \in Seq(1 .. MaxLines) /\ Len(deq) <= Capacity
    /\ isClose \in BOOLEAN
    /\ mtx \in Writers \cup {NoOne}
    /\ toDay \in 1 .. Days /\ lineCount \in 0 .. MaxLines
    /\ fp \in Files /\ lines \in 0 .. MaxLines
    /\ written \in Seq([line : 1 .. MaxLines, file : Files \ {Closed}])
    /\ direct \subseteq 1 .. MaxLines
    /\ pc \in [Writers -> {"idle", "check", "name", "reset", "close", "reopen", "format",
                           "push", "blocked", "direct", "flush", "fflush"}]
    /\ stale \subseteq Writers /\ broken \in BOOLEAN
    /\ day \in [Writers -> 0 .. Days]
    /\ newFile \in [Writers -> Files]
    /\ line \in [Writers -> 0 .. MaxLines]
    /\ cpc \in {"pop", "waiting", "woken", "write", "exited"} /\ held \in 0 .. MaxLines
    /\ opc \in {"open", "drain", "close", "notify", "join", "done"}

\* Every line formatted is in exactly one place: written to a file, held by the
\* write thread, queued, or still with the thread that formatted it.  Nothing is
\* lost or written twice, whatever rotates, and also when the log is destroyed.
EveryLineOnce ==
    LET places == [i \in 1 .. Len(written) |-> written[i].line] \o deq
                    \o (IF held = 0 THEN << >> ELSE <<held>>)
        with == {line[w] : w \in Writers} \ {0}
    IN /\ IsInjective(places)
       /\ ToSet(places) \cap with = {}
       /\ ToSet(places) \cup with = 1 .. lines

\* A line comes before one that was formatted earlier only if its own thread
\* wrote it because the queue was full (log.cpp:142-146).
OvertakenOnlyWhenFull ==
    \A i, j \in 1 .. Len(written) :
        i < j /\ written[i].line > written[j].line => written[i].line \in direct

\* No line is written to a closed file: fp_ is closed only by a thread that
\* holds mtx_, and until it has opened the next file every fputs waits for the
\* mutex (log.cpp:118-122).  This is about fputs; a flush that meets a closed
\* FILE is FlushMeetsRotation.
ClosedUnderLock ==
    fp = Closed /\ opc # "done" => mtx # NoOne /\ pc[mtx] = "reopen"

\* push_back never waits for room while Log::mtx_ is held: between full() and
\* the push only the write thread touches the queue (log.cpp:142-143).
PushNeverWaits == \A w \in Writers : pc[w] # "blocked"

\* The write thread does not sleep while lines are queued (blockqueue.h:126, 154).
NoLostWakeUp == cpc = "waiting" => deq = << >>

\* The unlocked flush of LOG_BASE (log.h:72) can meet a closed FILE, but only
\* when two threads log, and not before the first change of file (log.cpp:120).
FlushMeetsRotation ==
    stale # {} \/ broken =>
        /\ today > 1 \/ lines >= MAX_LINES
        /\ \E v, w \in Writers : v # w

\* What the locks and the wake-ups of the log keep, besides the types.
LogInv == TypeOK /\ ClosedUnderLock /\ PushNeverWaits /\ NoLostWakeUp /\ FlushMeetsRotation

\* Every formatted line reaches a file, also when the process ends meanwhile,
\* unless a flush breaks on a closed FILE.
LinesWritten ==
    \A n \in 1 .. MaxLines :
        lines = n ~> broken \/ \A m \in 1 .. n : \E i \in 1 .. Len(written) : written[i].line = m

\* The destructor joins a write thread that waits when the queue is closed.
SleeperIsJoined == opc = "close" /\ cpc = "waiting" ~> opc = "done"

\* The log is brought to its end.
LogFinishes == LinesWritten /\ SleeperIsJoined
=============================================================================
