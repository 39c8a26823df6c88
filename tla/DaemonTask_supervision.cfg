CONSTANTS
    Pids = {p1, p2, p3}
    RestartLimit = 5
    Strangers = 1
    StartsInTime = TRUE
SPECIFICATION DaemonFairSpec
INVARIANTS OneGateway BurstBound
PROPERTIES ComesUp
CHECK_DEADLOCK FALSE
