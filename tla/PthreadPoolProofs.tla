------------------------- MODULE PthreadPoolProofs -------------------------
(***************************************************************************)
(* Theorems about the C thread pool for every number of workers and of     *)
(* tasks, whatever "running" holds at first and whatever a join does.      *)
(***************************************************************************)
EXTENDS PthreadPool, FiniteSetTheorems, SequenceTheorems, TLAPS

\* A worker holds a task exactly while it runs it, and before the pool is open
\* there is none.
HeldInv ==
    /\ \A w \in Workers : task[w] # 0 <=> pc[w] = "run"
    /\ main = "create" =>
          /\ submitted = 0 /\ tasksDone = 0
          /\ \A w \in Workers : pc[w] \notin {"run", "count"}

IInv == PoolInv /\ HeldInv

-----------------------------------------------------------------------------
(* The queue.                                                              *)

LEMMA TakeFirst ==
    ASSUME TypeOK, queue # << >>
    PROVE  /\ Head(queue) \in 1 .. MaxTasks /\ Head(queue) = queue[1]
           /\ Tail(queue) \in Seq(1 .. MaxTasks)
           /\ Len(queue) \in Nat \ {0} /\ Len(Tail(queue)) = Len(queue) - 1
           /\ \A i \in 1 .. Len(Tail(queue)) : Tail(queue)[i] = queue[i + 1]
<1>1. queue \in Seq(1 .. MaxTasks)
  BY DEF TypeOK
<1>2. Len(queue) \in Nat \ {0}
  BY <1>1, LenProperties, EmptySeq
<1>3. Head(queue) \in 1 .. MaxTasks
  BY <1>1, HeadTailProperties
<1>5. Head(queue) = queue[1]
  BY <1>1
<1>4. /\ Tail(queue) \in Seq(1 .. MaxTasks) /\ Len(Tail(queue)) = Len(queue) - 1
      /\ \A i \in 1 .. Len(Tail(queue)) : Tail(queue)[i] = queue[i + 1]
  BY <1>1, HeadTailProperties
<1> QED
  BY <1>2, <1>3, <1>4, <1>5

LEMMA AddLast ==
    ASSUME TypeOK, submitted < MaxTasks, PoolAssumption
    PROVE  LET q == Append(queue, submitted + 1)
           IN /\ q \in Seq(1 .. MaxTasks)
              /\ Len(queue) \in Nat /\ Len(q) = Len(queue) + 1
              /\ \A i \in 1 .. Len(queue) : q[i] = queue[i]
              /\ q[Len(queue) + 1] = submitted + 1
<1>1. MaxTasks \in Nat /\ submitted \in 0 .. MaxTasks
  BY DEF TypeOK, PoolAssumption
<1>2. submitted + 1 \in 1 .. MaxTasks /\ queue \in Seq(1 .. MaxTasks)
  BY <1>1 DEF TypeOK
<1> QED
  BY <1>2, AppendProperties, LenProperties

-----------------------------------------------------------------------------
(* The count of the tasks done.                                            *)

LEMMA CountsOfStates ==
    ASSUME PoolAssumption, NEW state
    PROVE  IsFiniteSet(In(state)) /\ Cardinality(In(state)) \in Nat
<1>1. In(state) \subseteq Workers
  BY DEF In
<1>2. IsFiniteSet(Workers)
  BY DEF PoolAssumption
<1>3. IsFiniteSet(In(state))
  BY <1>1, <1>2, FS_Subset
<1> QED
  BY <1>3, FS_CardinalityType

\* A worker goes on from one state to another.
LEMMA MovedCounts ==
    ASSUME PoolAssumption, TypeOK, NEW w \in Workers, NEW from, NEW to, from # to,
           pc[w] = from, pc' = [pc EXCEPT ![w] = to]
    PROVE  /\ Cardinality(In(to)') = Cardinality(In(to)) + 1
           /\ Cardinality(In(from)') = Cardinality(In(from)) - 1
<1>1. \A v \in Workers : pc'[v] = IF v = w THEN to ELSE pc[v]
  BY DEF TypeOK
<1>2. In(to)' = In(to) \cup {w} /\ w \notin In(to)
  BY <1>1 DEF In
<1>3. In(from)' = In(from) \ {w} /\ w \in In(from)
  BY <1>1 DEF In
<1>4. Cardinality(In(to)') = Cardinality(In(to)) + 1
  BY <1>2, CountsOfStates, FS_AddElement
<1>5. Cardinality(In(from)') = Cardinality(In(from)) - 1
  BY <1>3, CountsOfStates, FS_RemoveElement
<1> QED
  BY <1>4, <1>5

LEMMA OthersStay ==
    ASSUME TypeOK, NEW w \in Workers, NEW to, NEW other, pc[w] # other, other # to,
           pc' = [pc EXCEPT ![w] = to]
    PROVE  In(other)' = In(other)
BY DEF TypeOK, In

\* The counter is in its range because the sum is exact.
LEMMA Bounded ==
    ASSUME PoolAssumption, submitted \in 0 .. MaxTasks, queue \in Seq(1 .. MaxTasks),
           tasksDone \in Nat, TasksDoneExact
    PROVE  tasksDone \in 0 .. MaxTasks
<1>1. Cardinality(In("run")) \in Nat /\ Cardinality(In("count")) \in Nat
  BY CountsOfStates
<1>2. Len(queue) \in Nat
  BY LenProperties
<1>3. MaxTasks \in Nat
  BY DEF PoolAssumption
<1> QED
  BY <1>1, <1>2, <1>3 DEF TasksDoneExact

LEMMA InvInit ==
    ASSUME PoolAssumption, Init
    PROVE  IInv
<1>1. In("run") = {} /\ In("count") = {}
  BY DEF Init, In
<1>2. Len(<< >>) = 0 /\ << >> \in Seq(1 .. MaxTasks)
  BY EmptySeq
<1>3. queue = << >> /\ submitted = 0 /\ tasksDone = 0
  BY DEF Init
<1>4. Len(queue) = 0 /\ queue \in Seq(1 .. MaxTasks)
  BY <1>2, <1>3, Zenon
<1>5. TasksDoneExact
  <2>1. Cardinality(In("run")) = 0 /\ Cardinality(In("count")) = 0
    BY <1>1, FS_EmptySet, Zenon
  <2> QED
    BY <1>3, <1>4, <2>1 DEF TasksDoneExact
<1>6. TypeOK
  BY <1>3, <1>4 DEF Init, TypeOK, PoolAssumption
<1>7. HeldInv
  BY <1>3 DEF Init, HeldInv
<1> QED
  BY <1>5, <1>6, <1>7 DEF IInv, PoolInv

\* A step that leaves the tasks alone and moves workers between other states.
LEMMA QuietStep ==
    ASSUME PoolAssumption, IInv, UNCHANGED <<tasksDone, queue, submitted, task>>,
           In("run")' = In("run"), In("count")' = In("count"),
           running' \in {0, 1},
           pc' \in [Workers -> {"none", "check", "pop", "run", "count", "sleep",
                                "asleep", "exited"}],
           main' \in {"create", "open", "broadcast", "join", "freed"},
           main' = "create" => main = "create",
           unjoined' \subseteq Workers
    PROVE  IInv'
<1>1. TasksDoneExact'
  BY DEF IInv, PoolInv, TasksDoneExact
<1>2. TypeOK'
  BY DEF IInv, PoolInv, TypeOK
<1>3. \A w \in Workers : /\ pc'[w] = "run" <=> pc[w] = "run"
                         /\ pc'[w] = "count" <=> pc[w] = "count"
  BY DEF In
<1>4. HeldInv'
  BY <1>3 DEF IInv, HeldInv
<1> QED
  BY <1>1, <1>2, <1>4 DEF IInv, PoolInv

LEMMA MainStep ==
    ASSUME PoolAssumption, IInv, Main
    PROVE  IInv'
<1> USE DEF IInv, PoolInv, TypeOK
<1>1. ASSUME NEW w \in Workers, PthreadCreate(w) PROVE IInv'
  <2>1. In("run")' = In("run") /\ In("count")' = In("count")
    BY <1>1 DEF PthreadCreate, In
  <2>2. pc' \in [Workers -> {"none", "check", "pop", "run", "count", "sleep",
                             "asleep", "exited"}]
    BY <1>1 DEF PthreadCreate
  <2> QED
    BY <1>1, <2>1, <2>2, QuietStep, Zenon DEF PthreadCreate
<1>2. ASSUME NEW w \in Workers, DestroyJoins(w) PROVE IInv'
  <2>1. unjoined' \subseteq Workers
    BY <1>2 DEF DestroyJoins
  <2> QED
    BY <1>2, <2>1, QuietStep, Zenon DEF DestroyJoins, In
<1>3. CASE FinishCreate
  <2>1. tasksDone' = tasksDone
    BY <1>3 DEF FinishCreate, HeldInv
  <2>2. running' \in {0, 1} /\ main' = "open"
    BY <1>3 DEF FinishCreate
  <2> QED
    BY <1>3, <2>1, <2>2, QuietStep, Zenon DEF FinishCreate, In
<1>4. CASE TaskQueuePush
  <2>1. queue' \in Seq(1 .. MaxTasks) /\ Len(queue') = Len(queue) + 1 /\ Len(queue) \in Nat
    BY <1>4, AddLast DEF TaskQueuePush
  <2>2. In("run")' = In("run") /\ In("count")' = In("count")
    BY <1>4 DEF TaskQueuePush, In
  <2>3. Cardinality(In("run")) \in Nat /\ Cardinality(In("count")) \in Nat
    BY CountsOfStates
  <2>4. submitted' = submitted + 1 /\ submitted < MaxTasks /\ UNCHANGED tasksDone
    BY <1>4 DEF TaskQueuePush
  <2>5. TasksDoneExact'
    BY <2>1, <2>2, <2>3, <2>4 DEF TasksDoneExact
  <2>6. submitted' \in 0 .. MaxTasks
    BY <2>4 DEF PoolAssumption
  <2>7. TypeOK'
    BY <1>4, <2>1, <2>6 DEF TaskQueuePush
  <2>8. HeldInv'
    BY <1>4 DEF TaskQueuePush, HeldInv
  <2> QED
    BY <2>5, <2>7, <2>8
<1>5. CASE DestroyStops
  <2>1. running' \in {0, 1} /\ main' = "broadcast"
    BY <1>5 DEF DestroyStops
  <2> QED
    BY <1>5, <2>1, QuietStep, Zenon DEF DestroyStops, In
<1>6. CASE DestroyBroadcasts
  <2>1. In("run")' = In("run") /\ In("count")' = In("count")
    BY <1>6 DEF DestroyBroadcasts, In
  <2>2. pc' \in [Workers -> {"none", "check", "pop", "run", "count", "sleep",
                             "asleep", "exited"}]
    BY <1>6 DEF DestroyBroadcasts
  <2>3. main' = "join"
    BY <1>6 DEF DestroyBroadcasts
  <2> QED
    BY <1>6, <2>1, <2>2, <2>3, QuietStep, Zenon DEF DestroyBroadcasts
<1>7. CASE DestroyFrees
  <2>1. main' = "freed"
    BY <1>7 DEF DestroyFrees
  <2> QED
    BY <1>7, <2>1, QuietStep, Zenon DEF DestroyFrees, In
<1> QED
  BY <1>1, <1>2, <1>3, <1>4, <1>5, <1>6, <1>7 DEF Main

\* A worker goes on, and neither of the two states is counted.
LEMMA WorkerMoves ==
    ASSUME PoolAssumption, IInv, NEW w \in Workers, NEW to,
           to \in {"check", "pop", "sleep", "asleep", "exited"},
           pc[w] \in {"none", "check", "pop", "sleep", "asleep"},
           pc' = [pc EXCEPT ![w] = to],
           UNCHANGED <<running, tasksDone, queue, submitted, task, main, unjoined>>
    PROVE  IInv'
<1> USE DEF IInv, PoolInv, TypeOK
<1>1. In("run")' = In("run") /\ In("count")' = In("count")
  BY DEF In
<1>2. pc' \in [Workers -> {"none", "check", "pop", "run", "count", "sleep",
                           "asleep", "exited"}]
  OBVIOUS
<1> QED
  BY <1>1, <1>2, QuietStep, Zenon

LEMMA WorkerStep ==
    ASSUME PoolAssumption, IInv, NEW w \in Workers, ThreadFunc(w) \/ SpuriousWakeUp(w)
    PROVE  IInv'
<1> USE DEF IInv, PoolInv
<1>a. Cardinality(In("run")) \in Nat /\ Cardinality(In("count")) \in Nat
  BY CountsOfStates
<1>b. MaxTasks \in Nat
  BY DEF PoolAssumption
<1>c. TypeOK
  OBVIOUS
<1>1. CASE CheckRunning(w)
  <2>1. (IF running = 1 THEN "pop" ELSE "exited") \in {"check", "pop", "sleep", "asleep", "exited"}
    OBVIOUS
  <2> QED
    BY <1>1, <2>1, WorkerMoves DEF CheckRunning
<1>2. CASE TaskQueuePop(w) /\ queue = << >>
  BY <1>2, WorkerMoves DEF TaskQueuePop
<1>3. CASE TaskQueuePop(w) /\ queue # << >>
  <2>1. /\ task' = [task EXCEPT ![w] = Head(queue)] /\ queue' = Tail(queue)
        /\ pc[w] = "pop" /\ pc' = [pc EXCEPT ![w] = "run"]
        /\ UNCHANGED <<running, tasksDone, submitted, main, unjoined>>
    BY <1>3 DEF TaskQueuePop
  <2>2. /\ Head(queue) \in 1 .. MaxTasks /\ Tail(queue) \in Seq(1 .. MaxTasks)
        /\ Len(queue) \in Nat \ {0} /\ Len(queue') = Len(queue) - 1
    BY <1>3, <2>1, TakeFirst
  <2>3. /\ Cardinality(In("run")') = Cardinality(In("run")) + 1
        /\ In("count")' = In("count")
    BY <1>c, <2>1, MovedCounts, OthersStay
  <2>4. TasksDoneExact'
    BY <1>a, <1>b, <2>1, <2>2, <2>3 DEF TasksDoneExact, TypeOK
  <2>5. TypeOK'
    BY <2>1, <2>2 DEF TypeOK
  <2>6. HeldInv'
    <3>1. main # "create"
      <4>1. Len(queue) # 0
        BY <2>2
      <4> QED
        BY <1>a, <1>b, <2>2 DEF HeldInv, TasksDoneExact, TypeOK
    <3> QED
      BY <2>1, <2>2, <3>1 DEF HeldInv, TypeOK
  <2> QED
    BY <2>4, <2>5, <2>6
<1>4. CASE RunTask(w)
  <2>1. /\ pc[w] = "run" /\ pc' = [pc EXCEPT ![w] = "count"]
        /\ task' = [task EXCEPT ![w] = 0]
        /\ UNCHANGED <<running, tasksDone, queue, submitted, main, unjoined>>
    BY <1>4 DEF RunTask
  <2>2. /\ Cardinality(In("count")') = Cardinality(In("count")) + 1
        /\ Cardinality(In("run")') = Cardinality(In("run")) - 1
    BY <2>1, MovedCounts
  <2>3. Len(queue) \in Nat
    BY LenProperties DEF TypeOK
  <2>4. TasksDoneExact'
    BY <1>a, <1>b, <2>1, <2>2, <2>3 DEF TasksDoneExact, TypeOK
  <2>5. TypeOK'
    BY <1>b, <2>1 DEF TypeOK
  <2>6. HeldInv'
    BY <2>1 DEF HeldInv, TypeOK
  <2> QED
    BY <2>4, <2>5, <2>6
<1>5. CASE CountTask(w)
  <2>1. /\ pc[w] = "count" /\ pc' = [pc EXCEPT ![w] = "check"]
        /\ tasksDone' = tasksDone + 1
        /\ UNCHANGED <<running, queue, submitted, task, main, unjoined>>
    BY <1>5 DEF CountTask
  <2>2. /\ Cardinality(In("count")') = Cardinality(In("count")) - 1
        /\ In("run")' = In("run")
    BY <1>c, <2>1, MovedCounts, OthersStay
  <2>3. Len(queue) \in Nat
    BY LenProperties DEF TypeOK
  <2>a. Cardinality(In("run")') = Cardinality(In("run"))
    BY <2>2
  <2>b. submitted \in Nat /\ tasksDone \in Nat
    BY <1>b DEF TypeOK
  <2>c. /\ Len(queue') = Len(queue) /\ submitted' = submitted
        /\ tasksDone' = tasksDone + 1
        /\ Cardinality(In("count")') = Cardinality(In("count")) - 1
    BY <2>1, <2>2
  <2>d. submitted = Len(queue) + Cardinality(In("run")) + Cardinality(In("count")) + tasksDone
    BY DEF TasksDoneExact
  <2>e. submitted' = Len(queue') + Cardinality(In("run")') + Cardinality(In("count")') + tasksDone'
    BY <1>a, <2>3, <2>a, <2>b, <2>c, <2>d
  <2>4. TasksDoneExact'
    BY <2>e DEF TasksDoneExact
  <2>5. tasksDone' \in Nat
    BY <1>b, <2>1 DEF TypeOK
  <2>6. Cardinality(In("run")') \in Nat /\ Cardinality(In("count")') \in Nat
    <3>1. w \in In("count")
      BY <2>1 DEF In
    <3>2. Cardinality(In("count")) # 0
      BY <3>1, CountsOfStates, FS_EmptySet
    <3> QED
      BY <1>a, <2>2, <3>2
  <2>7. tasksDone' \in 0 .. MaxTasks
    BY <1>b, <2>1, <2>3, <2>4, <2>5, <2>6 DEF TasksDoneExact, TypeOK
  <2>8. TypeOK'
    BY <2>1, <2>7 DEF TypeOK
  <2>9. HeldInv'
    BY <2>1 DEF HeldInv, TypeOK
  <2> QED
    BY <2>4, <2>8, <2>9
<1>6. CASE CondWait(w)
  BY <1>6, WorkerMoves DEF CondWait
<1>7. CASE SpuriousWakeUp(w)
  BY <1>7, WorkerMoves DEF SpuriousWakeUp
<1> QED
  BY <1>1, <1>2, <1>3, <1>4, <1>5, <1>6, <1>7 DEF ThreadFunc

LEMMA InvStep ==
    ASSUME PoolAssumption, IInv, [Next]_vars
    PROVE  IInv'
<1>1. CASE Main
  BY <1>1, MainStep
<1>2. ASSUME NEW w \in Workers, ThreadFunc(w) \/ SpuriousWakeUp(w) PROVE IInv'
  BY <1>2, WorkerStep
<1>3. CASE UNCHANGED vars
  BY <1>3 DEF vars, IInv, PoolInv, TypeOK, TasksDoneExact, HeldInv, In
<1> QED
  BY <1>1, <1>2, <1>3 DEF Next

\* Every task pushed is queued, held, or counted in tasks_done, which is what the
\* caller polls (pthread_pool.c:192); and every field keeps its type.
THEOREM PoolConsistent == Spec => []PoolInv
<1>1. Init => IInv
  BY InvInit, PoolAssumption
<1>2. IInv /\ [Next]_vars => IInv'
  BY InvStep, PoolAssumption
<1>3. IInv => PoolInv
  BY DEF IInv
<1> QED
  BY <1>1, <1>2, <1>3, PTL DEF Spec

-----------------------------------------------------------------------------
(* The refinement.                                                         *)

Started == submitted - Len(queue)
Running == {task[w] : w \in In("run")}

\* The queue holds the tasks after those started, in their order, and no two
\* workers hold the same task.
OrderInv ==
    /\ \A i \in 1 .. Len(queue) : queue[i] = Started + i
    /\ 0 <= Started
    /\ \A w \in Workers : task[w] <= Started
    /\ \A v, w \in Workers : task[v] = task[w] => v = w \/ task[v] = 0

LEMMA InitOrder ==
    ASSUME PoolAssumption, Init
    PROVE  OrderInv /\ Started = 0
<1>1. Len(<< >>) = 0
  BY EmptySeq
<1>2. Len(queue) = 0 /\ submitted = 0
  BY <1>1, Zenon DEF Init
<1>3. Started = 0
  BY <1>2 DEF Started
<1>4. \A w \in Workers : task[w] = 0
  BY DEF Init
<1> QED
  BY <1>2, <1>3, <1>4 DEF OrderInv

\* The tasks that run are those that are held.
RunningHeld == Running = {task[w] : w \in {v \in Workers : task[v] # 0}}

LEMMA HeldRuns ==
    ASSUME TypeOK, HeldInv
    PROVE  RunningHeld
<1>1. In("run") = {v \in Workers : task[v] # 0}
  BY DEF In, HeldInv
<1> QED
  BY <1>1, Zenon DEF Running, RunningHeld

LEMMA NumbersOK ==
    ASSUME PoolAssumption, TypeOK
    PROVE  /\ submitted \in Nat /\ Len(queue) \in Nat /\ Started \in Int
           /\ \A w \in Workers : task[w] \in Nat
<1>1. MaxTasks \in Nat
  BY DEF PoolAssumption
<1>2. Len(queue) \in Nat
  BY LenProperties DEF TypeOK
<1> QED
  BY <1>1, <1>2 DEF TypeOK, Started

\* A step that takes, adds and ends no task.
LEMMA SameTasks ==
    ASSUME RunningHeld, RunningHeld', OrderInv, UNCHANGED <<queue, submitted, task>>
    PROVE  OrderInv' /\ Started' = Started /\ Running' = Running
<1>1. Started' = Started
  BY DEF Started
<1>2. Running' = Running
  BY Zenon DEF RunningHeld
<1> QED
  BY <1>1, <1>2 DEF OrderInv

\* Every step keeps the order of the tasks, and is a step of the abstract pool
\* or leaves its state alone.
LEMMA RefinementStep ==
    ASSUME PoolAssumption, IInv, IInv', OrderInv, RunningHeld, RunningHeld', [Next]_vars
    PROVE  OrderInv' /\ [Abstract!Next]_Abstract!vars
<1> USE DEF IInv, PoolInv
<1>a. /\ submitted \in Nat /\ Len(queue) \in Nat /\ Started \in Int
      /\ \A w \in Workers : task[w] \in Nat
  BY NumbersOK
<1>e. ASSUME UNCHANGED <<queue, submitted, task>>, Freed' = Freed
      PROVE  OrderInv' /\ [Abstract!Next]_Abstract!vars
  BY <1>e, SameTasks DEF Abstract!vars, Running, Started
<1>1. CASE TaskQueuePush
  <2>1. /\ queue' = Append(queue, submitted + 1) /\ submitted' = submitted + 1
        /\ UNCHANGED <<task, pc>> /\ main = "open" /\ main' = main /\ submitted < MaxTasks
    BY <1>1 DEF TaskQueuePush
  <2>2. /\ Len(queue') = Len(queue) + 1
        /\ \A i \in 1 .. Len(queue) : queue'[i] = queue[i]
        /\ queue'[Len(queue) + 1] = submitted + 1
    BY <2>1, AddLast
  <2>3. Started' = Started
    BY <1>a, <2>1, <2>2 DEF Started
  <2>4. Running' = Running
    BY <2>1 DEF RunningHeld
  <2>5. \A i \in 1 .. Len(queue') : queue'[i] = Started' + i
    BY <1>a, <2>2, <2>3 DEF OrderInv, Started
  <2>6. OrderInv'
    BY <2>1, <2>3, <2>5 DEF OrderInv
  <2> QED
    BY <2>1, <2>3, <2>4, <2>6 DEF Abstract!Next, Abstract!Submit, Running, Started, Freed
<1>2. ASSUME NEW w \in Workers, TaskQueuePop(w), queue # << >>
      PROVE  OrderInv' /\ [Abstract!Next]_Abstract!vars
  <2>1. /\ task' = [task EXCEPT ![w] = Head(queue)] /\ queue' = Tail(queue)
        /\ submitted' = submitted /\ ~Freed /\ main' = main /\ pc[w] = "pop"
    BY <1>2 DEF TaskQueuePop
  <2>2. /\ Head(queue) = queue[1] /\ Len(queue) \in Nat \ {0}
        /\ Len(queue') = Len(queue) - 1
        /\ \A i \in 1 .. Len(queue') : queue'[i] = queue[i + 1]
    BY <1>2, <2>1, TakeFirst
  <2>3. Started' = Started + 1 /\ Head(queue) = Started + 1
    BY <1>a, <2>1, <2>2 DEF Started, OrderInv
  <2>4. \A v \in Workers : task'[v] = IF v = w THEN Started + 1 ELSE task[v]
    BY <2>1, <2>3 DEF TypeOK
  <2>5. Started + 1 # 0 /\ 0 <= Started /\ \A v \in Workers : task[v] <= Started
    BY <1>a DEF OrderInv
  <2>6. task[w] = 0
    BY <2>1 DEF HeldInv
  <2>7. Running' = Running \cup {Started + 1}
    BY <2>4, <2>5, <2>6 DEF RunningHeld
  <2>8. \A i \in 1 .. Len(queue') : queue'[i] = Started' + i
    BY <1>a, <2>2, <2>3 DEF OrderInv
  <2>9. 0 <= Started' /\ \A v \in Workers : task'[v] <= Started'
    BY <1>a, <2>3, <2>4, <2>5
  <2>10. \A u, v \in Workers : task'[u] = task'[v] => u = v \/ task'[u] = 0
    BY <1>a, <2>4, <2>5 DEF OrderInv
  <2>11. OrderInv'
    BY <2>8, <2>9, <2>10 DEF OrderInv
  <2>12. Started < submitted
    BY <1>a, <2>2 DEF Started
  <2> QED
    BY <2>1, <2>3, <2>7, <2>11, <2>12
       DEF Abstract!Next, Abstract!Start, Running, Started, Freed
<1>3. ASSUME NEW w \in Workers, RunTask(w)
      PROVE  OrderInv' /\ [Abstract!Next]_Abstract!vars
  <2>1. /\ task' = [task EXCEPT ![w] = 0] /\ UNCHANGED <<queue, submitted, main>>
        /\ pc[w] = "run"
    BY <1>3 DEF RunTask
  <2>2. \A v \in Workers : task'[v] = IF v = w THEN 0 ELSE task[v]
    BY <2>1 DEF TypeOK
  <2>3. Started' = Started
    BY <2>1 DEF Started
  <2>4. task[w] # 0 /\ task[w] \in Running
    BY <2>1 DEF HeldInv, RunningHeld
  <2>5. Running' = Running \ {task[w]}
    BY <2>2, <2>4 DEF OrderInv, RunningHeld
  <2>6. OrderInv'
    BY <2>1, <2>2, <2>3 DEF OrderInv
  <2> QED
    BY <2>1, <2>3, <2>4, <2>5, <2>6
       DEF Abstract!Next, Abstract!Finish, Running, Started, Freed
<1>4. CASE DestroyFrees
  <2>1. OrderInv' /\ Started' = Started /\ Running' = Running
    BY <1>4, SameTasks DEF DestroyFrees
  <2>2. Freed' = TRUE /\ submitted' = submitted
    BY <1>4 DEF DestroyFrees, Freed
  <2> QED
    BY <2>1, <2>2 DEF Abstract!Next, Abstract!Stop, Running, Started
<1>5. CASE FinishCreate \/ DestroyStops \/ DestroyBroadcasts
  BY <1>e, <1>5 DEF FinishCreate, DestroyStops, DestroyBroadcasts, Freed
<1>6. ASSUME NEW w \in Workers, PthreadCreate(w) \/ DestroyJoins(w)
      PROVE  OrderInv' /\ [Abstract!Next]_Abstract!vars
  BY <1>e, <1>6 DEF PthreadCreate, DestroyJoins, Freed
<1>7. ASSUME NEW w \in Workers,
             \/ TaskQueuePop(w) /\ queue = << >>
             \/ CheckRunning(w) \/ CountTask(w) \/ CondWait(w) \/ SpuriousWakeUp(w)
      PROVE  OrderInv' /\ [Abstract!Next]_Abstract!vars
  BY <1>e, <1>7 DEF TaskQueuePop, CheckRunning, CountTask, CondWait, SpuriousWakeUp, Freed
<1>8. CASE UNCHANGED vars
  BY <1>e, <1>8 DEF vars, Freed
<1> QED
  BY <1>1, <1>2, <1>3, <1>4, <1>5, <1>6, <1>7, <1>8 DEF Next, Main, ThreadFunc

\* The C pool implements the abstract pool: tasks start in the order they were
\* pushed, each once, and only a destroyed pool discards any.
THEOREM PoolImplementsTaskPool == Spec => ImplementsTaskPool
<1>1. Init => Abstract!Init /\ OrderInv
  <2> SUFFICES ASSUME Init PROVE Abstract!Init /\ OrderInv
    OBVIOUS
  <2>1. OrderInv /\ Started = 0
    BY InitOrder, PoolAssumption
  <2>2. Running = {} /\ submitted = 0 /\ Freed = FALSE
    BY DEF Init, Running, In, Freed
  <2> QED
    BY <2>1, <2>2 DEF Abstract!Init, Running, Started
<1>2. Init => IInv
  BY InvInit, PoolAssumption
<1>3. IInv /\ [Next]_vars => IInv'
  BY InvStep, PoolAssumption
<1>4. IInv => RunningHeld
  BY HeldRuns DEF IInv, PoolInv
<1>5. IInv /\ IInv' /\ OrderInv /\ RunningHeld /\ RunningHeld' /\ [Next]_vars
          => OrderInv' /\ [Abstract!Next]_Abstract!vars
  BY RefinementStep, PoolAssumption
<1> QED
  BY <1>1, <1>2, <1>3, <1>4, <1>5, PTL DEF Spec, Abstract!Spec, ImplementsTaskPool
=============================================================================
