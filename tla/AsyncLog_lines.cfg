CONSTANTS
    Writers = {w1, w2}
    Capacity = 1
    MAX_LINES = 2
    Days = 2
    MaxLines = 3
SPECIFICATION FairSpec
INVARIANTS LogInv EveryLineOnce OvertakenOnlyWhenFull
PROPERTIES LogFinishes
CHECK_DEADLOCK FALSE
