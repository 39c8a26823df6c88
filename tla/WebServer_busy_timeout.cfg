CONSTANTS
    Fds = {1, 2}
    Workers = {w1, w2}
    MaxConns = 2
    MaxRequests = 1
    Again = {}
    Limits = {1, 2}
    Slow = {1}
    TimerMode = "any"
SPECIFICATION FairSpec
INVARIANTS OnlyIdleTimesOut

CHECK_DEADLOCK FALSE
