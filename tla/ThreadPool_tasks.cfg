CONSTANTS
    Threads = {w1, w2}
    Adders = {a1, a2}
    MaxTasks = 4
SPECIFICATION PoolFairSpec
INVARIANTS NoLostWakeUp ExitOnlyWhenDrained
PROPERTIES WorkersExit ImplementsTaskPool
CHECK_DEADLOCK FALSE
