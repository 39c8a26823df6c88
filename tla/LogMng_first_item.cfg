CONSTANTS
    Producers = {p1}
    Main = main
    LOG_FILE_MAX_NUM = 2
    MAX_LOG_ITEMS_PER_FILE = 2
    HeadSize = 3
    ItemSize = 2
    NameBase = 10
    NameWidth = 3
    QueueCap = 2
    InitFiles = 0
    Faults = {"item"}
    MaxFaults = 1
    MaxCrashes = 0
    MaxMsg = 4
SPECIFICATION Spec
INVARIANT HeadMirrorsDisk
CHECK_DEADLOCK FALSE
