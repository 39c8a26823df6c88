----------------------------- MODULE ThreadPool -----------------------------
(***************************************************************************)
(* The C++ thread pool of the web server, webServer/code/pool/threadpool.h.*)
(* Every access to the shared Pool is made under its mutex, so each        *)
(* critical section is one step; a task runs, and notify_one and           *)
(* notify_all are called, outside it.                                      *)
(***************************************************************************)
EXTENDS Integers, Sequences, FiniteSets

CONSTANTS
    Threads,    \* the detached threads
    Adders,     \* threads that call AddTask
    MaxTasks    \* bound: tasks ever added

ASSUME PoolAssumption ==
    /\ IsFiniteSet(Threads) /\ Threads # {}
    /\ MaxTasks \in Nat

VARIABLES
    poolTasks,  \* pool->tasks, the numbers of the queued tasks
    isClosed,   \* pool->isClosed
    added,      \* number of tasks added so far
    pc,         \* workers: "ready" to lock, "waiting", "running", "exited"
    task,       \* the task a worker runs, 0 for none
    apc,        \* adders: "idle", or "notify" between the lock and the signal
    owner       \* the destructor: "open", "closing" before notify_all, "closed"

poolVars == <<poolTasks, isClosed, added, pc, task, apc, owner>>

PoolInit ==
    /\ poolTasks = << >>
    /\ isClosed = FALSE
    /\ added = 0
    /\ pc = [w \in Threads |-> "ready"]
    /\ task = [w \in Threads |-> 0]
    /\ apc = [a \in Adders |-> "idle"]
    /\ owner = "open"

Waiting == {w \in Threads : pc[w] = "waiting"}
-----------------------------------------------------------------------------
(* The worker.                                                             *)

\* Mutant: the closed flag is tested before the queue.
MutExitFirst(w) ==
    /\ pc[w] = "ready"
    /\ IF isClosed
       THEN pc' = [pc EXCEPT ![w] = "exited"] /\ UNCHANGED <<poolTasks, task>>
       ELSE IF poolTasks # << >>
       THEN /\ task' = [task EXCEPT ![w] = Head(poolTasks)]
            /\ poolTasks' = Tail(poolTasks)
            /\ pc' = [pc EXCEPT ![w] = "running"]
       ELSE pc' = [pc EXCEPT ![w] = "waiting"] /\ UNCHANGED <<poolTasks, task>>
    /\ UNCHANGED <<isClosed, added, apc, owner>>

\* Mutant: front() without pop().
MutNoPop(w) ==
    /\ pc[w] = "ready"
    /\ IF poolTasks # << >>
       THEN /\ task' = [task EXCEPT ![w] = Head(poolTasks)]
            /\ pc' = [pc EXCEPT ![w] = "running"]
       ELSE /\ pc' = [pc EXCEPT ![w] = IF isClosed THEN "exited" ELSE "waiting"]
            /\ UNCHANGED task
    /\ UNCHANGED <<poolTasks, isClosed, added, apc, owner>>

\* The loop body up to task() or cond.wait(): take the first task, or leave a
\* closed pool, or wait.
Loop(w) ==
    /\ pc[w] = "ready"
    /\ IF poolTasks # << >>
       THEN /\ task' = [task EXCEPT ![w] = Head(poolTasks)]
            /\ poolTasks' = Tail(poolTasks)
            /\ pc' = [pc EXCEPT ![w] = "running"]
       ELSE /\ pc' = [pc EXCEPT ![w] = IF isClosed THEN "exited" ELSE "waiting"]
            /\ UNCHANGED <<poolTasks, task>>
    /\ UNCHANGED <<isClosed, added, apc, owner>>

\* task() returns and the worker locks the mutex again.
FinishTask(w) ==
    /\ pc[w] = "running"
    /\ pc' = [pc EXCEPT ![w] = "ready"]
    /\ task' = [task EXCEPT ![w] = 0]
    /\ UNCHANGED <<poolTasks, isClosed, added, apc, owner>>

\* A condition variable may wake its waiters without a notification.
SpuriousWakeUp(w) ==
    /\ pc[w] = "waiting"
    /\ pc' = [pc EXCEPT ![w] = "ready"]
    /\ UNCHANGED <<poolTasks, isClosed, added, task, apc, owner>>
-----------------------------------------------------------------------------
(* AddTask and the destructor.  The owner destroys the pool when no call   *)
(* of AddTask is in progress.                                              *)

AddTask(a) ==
    /\ owner = "open"
    /\ apc[a] = "idle"
    /\ added < MaxTasks
    /\ poolTasks' = Append(poolTasks, added + 1)
    /\ added' = added + 1
    /\ apc' = [apc EXCEPT ![a] = "notify"]
    /\ UNCHANGED <<isClosed, pc, task, owner>>

\* Mutant: no thread is notified.
MutNoNotify(a) ==
    /\ apc[a] = "notify"
    /\ apc' = [apc EXCEPT ![a] = "idle"]
    /\ UNCHANGED <<poolTasks, isClosed, added, pc, task, owner>>

\* cond.notify_one().
NotifyOne(a) ==
    /\ apc[a] = "notify"
    /\ apc' = [apc EXCEPT ![a] = "idle"]
    /\ IF Waiting = {} THEN UNCHANGED pc
       ELSE \E w \in Waiting : pc' = [pc EXCEPT ![w] = "ready"]
    /\ UNCHANGED <<poolTasks, isClosed, added, task, owner>>

Close ==
    /\ owner = "open"
    /\ \A a \in Adders : apc[a] = "idle"
    /\ isClosed' = TRUE
    /\ owner' = "closing"
    /\ UNCHANGED <<poolTasks, added, pc, task, apc>>

\* Mutant: the destructor wakes one worker only.
MutNotifyOnlyOne ==
    /\ owner = "closing"
    /\ owner' = "closed"
    /\ IF Waiting = {} THEN UNCHANGED pc
       ELSE \E w \in Waiting : pc' = [pc EXCEPT ![w] = "ready"]
    /\ UNCHANGED <<poolTasks, isClosed, added, task, apc>>

\* cond.notify_all().
NotifyAll ==
    /\ owner = "closing"
    /\ owner' = "closed"
    /\ pc' = [w \in Threads |-> IF pc[w] = "waiting" THEN "ready" ELSE pc[w]]
    /\ UNCHANGED <<poolTasks, isClosed, added, task, apc>>

PoolNext ==
    \/ \E w \in Threads : Loop(w) \/ FinishTask(w) \/ SpuriousWakeUp(w)
    \/ \E a \in Adders : AddTask(a) \/ NotifyOne(a)
    \/ Close \/ NotifyAll

PoolSpec == PoolInit /\ [][PoolNext]_poolVars

\* Threads that can run are run, and tasks end; nobody is forced to add a task
\* or to destroy the pool, and no spurious wake-up is relied on.
PoolFairness ==
    /\ \A w \in Threads : WF_poolVars(Loop(w)) /\ WF_poolVars(FinishTask(w))
    /\ \A a \in Adders : WF_poolVars(NotifyOne(a))
    /\ WF_poolVars(NotifyAll)

PoolFairSpec == PoolSpec /\ PoolFairness
-----------------------------------------------------------------------------
(* Properties.                                                             *)

\* Type correctness; a worker holds a task exactly while it runs it.
PoolTypeOK ==
    /\ poolTasks \in Seq(Nat \ {0})
    /\ isClosed \in BOOLEAN
    /\ added \in Nat
    /\ pc \in [Threads -> {"ready", "waiting", "running", "exited"}]
    /\ task \in [Threads -> Nat]
    /\ \A w \in Threads : pc[w] = "running" <=> task[w] # 0
    /\ apc \in [Adders -> {"idle", "notify"}]
    /\ owner \in {"open", "closing", "closed"}

\* No wake-up is lost although notify_one is called after the unlock: while
\* tasks are queued, either some worker is not waiting or a notification is
\* still to come.
NoLostWakeUp ==
    poolTasks # << >> /\ Waiting = Threads =>
        (\E a \in Adders : apc[a] = "notify") \/ owner = "closing"

\* A worker leaves only a closed pool whose queue is empty for good: no task is
\* abandoned by the destructor (threadpool.h:37-44).
ExitOnlyWhenDrained ==
    (\E w \in Threads : pc[w] = "exited") => isClosed /\ poolTasks = << >>

\* After the destructor every worker ends.
WorkersExit == owner = "closing" ~> \A w \in Threads : pc[w] = "exited"

\* Tasks that have been taken from the queue.
Started == added - Len(poolTasks)

\* The queue holds the tasks after Started in order; the running ones come
\* before them and are different.
OrderInv ==
    /\ \A i \in 1 .. Len(poolTasks) : poolTasks[i] = Started + i
    /\ \A w \in Threads : task[w] <= Started
    /\ \A v, w \in Threads : task[v] = task[w] => v = w \/ task[v] = 0

Abstract ==
    INSTANCE TaskPool WITH
        submitted <- added,
        started   <- Started,
        running   <- {task[w] : w \in {v \in Threads : pc[v] = "running"}},
        stopped   <- FALSE

\* Tasks start in the order they were added, each exactly once, and every
\* task added is run to its end, also when the pool is destroyed meanwhile.
ImplementsTaskPool == Abstract!FairSpec
=============================================================================
