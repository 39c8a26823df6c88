CONSTANTS
    Workers = {w1, w2}
    MaxTasks = 4
    FirstRunning = {0, 1}
    JoinOutcomes = {"waits", "returns"}
SPECIFICATION FairSpec
INVARIANT PoolInv
PROPERTIES ImplementsTaskPool BusyWorkerDrains
CHECK_DEADLOCK FALSE
