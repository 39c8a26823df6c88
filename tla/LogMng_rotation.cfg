CONSTANTS
    Producers = {p1, p2}
    Main = main
    LOG_FILE_MAX_NUM = 2
    MAX_LOG_ITEMS_PER_FILE = 2
    HeadSize = 3
    ItemSize = 2
    NameBase = 10
    NameWidth = 3
    QueueCap = 2
    InitFiles = 0
    Faults = {"create", "init", "open", "header"}
    MaxFaults = 1
    MaxCrashes = 1
    MaxMsg = 7
SPECIFICATION FairSpec
INVARIANTS DiskBound
PROPERTIES ImplementsRotatingLog CallsReturn QueueDrained
CHECK_DEADLOCK FALSE
