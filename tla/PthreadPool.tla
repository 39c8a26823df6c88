---------------------------- MODULE PthreadPool ----------------------------
(***************************************************************************)
(* The C thread pool, frameWork/pthreadPool/pthread_pool.c.  A main thread *)
(* creates the pool, pushes tasks and destroys the pool; each worker runs  *)
(* thread_func.  The queue has a mutex of its own, so a push and a pop are *)
(* one step; "running" is read and written without a lock.                 *)
(***************************************************************************)
EXTENDS Integers, Sequences, FiniteSets

CONSTANTS
    Workers,        \* the threads of the pool
    MaxTasks,       \* bound: tasks ever pushed
    FirstRunning,   \* what malloc'ed or stack memory may hold in "running"
    JoinOutcomes    \* pthread_join of a detached thread is undefined: glibc
                    \* returns an error at once, others may wait

ASSUME PoolAssumption ==
    /\ IsFiniteSet(Workers) /\ MaxTasks \in Nat
    /\ FirstRunning \subseteq {0, 1}
    /\ JoinOutcomes \subseteq {"waits", "returns"}

VARIABLES
    running,    \* pool->running
    tasksDone,  \* pool->tasks_done
    queue,      \* pool->queue, the numbers of the queued tasks
    submitted,  \* number of tasks pushed so far
    pc,         \* the workers
    task,       \* the task a worker has popped, 0 for none
    main,       \* the main thread
    unjoined    \* workers thread_pool_destroy has not joined yet

vars == <<running, tasksDone, queue, submitted, pc, task, main, unjoined>>

Freed == main = "freed"

Init ==
    /\ running \in FirstRunning
    /\ tasksDone = 0
    /\ queue = << >>
    /\ submitted = 0
    /\ pc = [w \in Workers |-> "none"]
    /\ task = [w \in Workers |-> 0]
    /\ main = "create"
    /\ unjoined = Workers
-----------------------------------------------------------------------------
(* The main thread.                                                        *)

\* One turn of the loop of thread_pool_create: the worker starts at once.
PthreadCreate(w) ==
    /\ main = "create"
    /\ pc[w] = "none"
    /\ pc' = [pc EXCEPT ![w] = "check"]
    /\ UNCHANGED <<running, tasksDone, queue, submitted, task, main, unjoined>>

\* The end of thread_pool_create: both fields are set after the threads run.
FinishCreate ==
    /\ main = "create"
    /\ \A w \in Workers : pc[w] # "none"
    /\ running' = 1
    /\ tasksDone' = 0
    /\ main' = "open"
    /\ UNCHANGED <<queue, submitted, pc, task, unjoined>>

\* task_queue_push; the call of pthread_cond_signal is commented out.
TaskQueuePush ==
    /\ main = "open"
    /\ submitted < MaxTasks
    /\ queue' = Append(queue, submitted + 1)
    /\ submitted' = submitted + 1
    /\ UNCHANGED <<running, tasksDone, pc, task, main, unjoined>>

\* thread_pool_destroy: clear running ...
DestroyStops ==
    /\ main = "open"
    /\ running' = 0
    /\ main' = "broadcast"
    /\ UNCHANGED <<tasksDone, queue, submitted, pc, task, unjoined>>

\* ... wake the workers that sleep now, without taking the mutex ...
DestroyBroadcasts ==
    /\ main = "broadcast"
    /\ pc' = [w \in Workers |-> IF pc[w] = "asleep" THEN "check" ELSE pc[w]]
    /\ main' = "join"
    /\ UNCHANGED <<running, tasksDone, queue, submitted, task, unjoined>>

\* ... join every worker ...
DestroyJoins(w) ==
    /\ main = "join"
    /\ w \in unjoined
    /\ "returns" \in JoinOutcomes \/ pc[w] = "exited"
    /\ unjoined' = unjoined \ {w}
    /\ UNCHANGED <<running, tasksDone, queue, submitted, pc, task, main>>

\* ... and free the queued tasks, the queue and the locks: what the queue held
\* then is never read again.
DestroyFrees ==
    /\ main = "join"
    /\ unjoined = {}
    /\ main' = "freed"
    /\ UNCHANGED <<running, tasksDone, queue, submitted, pc, task, unjoined>>

Main ==
    \/ \E w \in Workers : PthreadCreate(w) \/ DestroyJoins(w)
    \/ FinishCreate \/ TaskQueuePush
    \/ DestroyStops \/ DestroyBroadcasts \/ DestroyFrees
-----------------------------------------------------------------------------
(* thread_func.  What a worker does after the pool is freed is undefined;  *)
(* the model stops it there.                                               *)

CheckRunning(w) ==
    /\ ~Freed
    /\ pc[w] = "check"
    /\ pc' = [pc EXCEPT ![w] = IF running = 1 THEN "pop" ELSE "exited"]
    /\ UNCHANGED <<running, tasksDone, queue, submitted, task, main, unjoined>>

\* Mutant: the head of the queue is read without unlinking it.
MutPopKeepsTask(w) ==
    /\ ~Freed
    /\ pc[w] = "pop"
    /\ IF queue = << >>
       THEN pc' = [pc EXCEPT ![w] = "sleep"] /\ UNCHANGED task
       ELSE pc' = [pc EXCEPT ![w] = "run"] /\ task' = [task EXCEPT ![w] = Head(queue)]
    /\ UNCHANGED <<running, tasksDone, queue, submitted, main, unjoined>>

TaskQueuePop(w) ==
    /\ ~Freed
    /\ pc[w] = "pop"
    /\ IF queue = << >>
       THEN /\ pc' = [pc EXCEPT ![w] = "sleep"]
            /\ UNCHANGED <<queue, task>>
       ELSE /\ task' = [task EXCEPT ![w] = Head(queue)]
            /\ queue' = Tail(queue)
            /\ pc' = [pc EXCEPT ![w] = "run"]
    /\ UNCHANGED <<running, tasksDone, submitted, main, unjoined>>

\* task->func(task->arg) and task_destroy.
RunTask(w) ==
    /\ pc[w] = "run"
    /\ pc' = [pc EXCEPT ![w] = "count"]
    /\ task' = [task EXCEPT ![w] = 0]
    /\ UNCHANGED <<running, tasksDone, queue, submitted, main, unjoined>>

\* Mutant: the worker goes to sleep after each task.
MutSleepAfterTask(w) ==
    /\ ~Freed
    /\ pc[w] = "count"
    /\ tasksDone' = tasksDone + 1
    /\ pc' = [pc EXCEPT ![w] = "sleep"]
    /\ UNCHANGED <<running, queue, submitted, task, main, unjoined>>

\* Mutant: the counter is not advanced.
MutNotCounted(w) ==
    /\ ~Freed
    /\ pc[w] = "count"
    /\ pc' = [pc EXCEPT ![w] = "check"]
    /\ UNCHANGED <<running, tasksDone, queue, submitted, task, main, unjoined>>

CountTask(w) ==
    /\ ~Freed
    /\ pc[w] = "count"
    /\ tasksDone' = tasksDone + 1
    /\ pc' = [pc EXCEPT ![w] = "check"]
    /\ UNCHANGED <<running, queue, submitted, task, main, unjoined>>

\* pthread_cond_wait, with no predicate around it.
CondWait(w) ==
    /\ ~Freed
    /\ pc[w] = "sleep"
    /\ pc' = [pc EXCEPT ![w] = "asleep"]
    /\ UNCHANGED <<running, tasksDone, queue, submitted, task, main, unjoined>>

\* POSIX lets a wait end without a signal.
SpuriousWakeUp(w) ==
    /\ ~Freed
    /\ pc[w] = "asleep"
    /\ pc' = [pc EXCEPT ![w] = "check"]
    /\ UNCHANGED <<running, tasksDone, queue, submitted, task, main, unjoined>>

ThreadFunc(w) ==
    CheckRunning(w) \/ TaskQueuePop(w) \/ RunTask(w) \/ CountTask(w) \/ CondWait(w)

Next == Main \/ \E w \in Workers : ThreadFunc(w) \/ SpuriousWakeUp(w)

Spec == Init /\ [][Next]_vars

\* The scheduler runs every thread that can run.  Pushing, destroying and
\* spurious wake-ups are never forced.
Fairness ==
    /\ \A w \in Workers : WF_vars(ThreadFunc(w))
    /\ WF_vars(\E w \in Workers : PthreadCreate(w) \/ DestroyJoins(w))
    /\ WF_vars(FinishCreate \/ DestroyBroadcasts \/ DestroyFrees)

FairSpec == Spec /\ Fairness
-----------------------------------------------------------------------------
(* Properties.                                                             *)

\* Type correctness; tasks_done never exceeds what was pushed.
TypeOK ==
    /\ running \in {0, 1}
    /\ tasksDone \in 0 .. MaxTasks
    /\ queue \in Seq(1 .. MaxTasks)
    /\ submitted \in 0 .. MaxTasks
    /\ pc \in [Workers -> {"none", "check", "pop", "run", "count", "sleep",
                           "asleep", "exited"}]
    /\ task \in [Workers -> 0 .. MaxTasks]
    /\ main \in {"create", "open", "broadcast", "join", "freed"}
    /\ unjoined \subseteq Workers

In(state) == {w \in Workers : pc[w] = state}

\* tasks_done is what the caller polls to learn that everything is done
\* (pthread_pool.c:192): every task pushed is queued, running or counted, so
\* the counter reaches the number of tasks only when all of them have run.
TasksDoneExact ==
    submitted = Len(queue) + Cardinality(In("run")) + Cardinality(In("count")) + tasksDone

\* What the pool keeps consistent: the types and the count of the tasks done.
PoolInv == TypeOK /\ TasksDoneExact

\* A task that is pushed while some worker is awake is taken by a worker,
\* although the push signals nobody (pthread_pool.c:66).
BusyWorkerDrains ==
    (/\ main = "open" /\ queue # << >>
     /\ \E w \in Workers : pc[w] \in {"check", "pop", "run", "count"})
        ~> (queue = << >> \/ main # "open")

Abstract ==
    INSTANCE TaskPool WITH
        started <- submitted - Len(queue),
        running <- {task[w] : w \in In("run")},
        stopped <- Freed

\* The pool starts tasks in the order of the pushes, each once, and discards
\* only what is still queued when it is destroyed.
ImplementsTaskPool == Abstract!Spec
=============================================================================
