CONSTANTS
    Fds = {1, 2}
    Workers = {w1, w2}
    MaxConns = 2
    MaxRequests = 2
    Again = {2}
    Limits = {1, 2}
    Slow = {1}
    TimerMode = "idle"
SPECIFICATION FairSpec
INVARIANTS ServerInv OneHolder
PROPERTIES KeepsItsConnection RequestAnswered HangUpReleases
CHECK_DEADLOCK FALSE
