CONSTANTS
    Producers = {p1, p2}
    Main = main
    LOG_FILE_MAX_NUM = 2
    MAX_LOG_ITEMS_PER_FILE = 2
    HeadSize = 3
    ItemSize = 2
    NameBase = 10
    NameWidth = 3
    QueueCap = 2
    InitFiles = 1
    Faults = {"create", "init", "unlink", "open", "header", "malloc", "item", "update"}
    MaxFaults = 2
    MaxCrashes = 1
    MaxMsg = 8
SPECIFICATION Spec
INVARIANTS NoDuplicate StoredInOrder MemoryMirrorsDisk HandshakeSafe
PROPERTIES NoOverwrite
SYMMETRY Symmetry
CHECK_DEADLOCK FALSE
