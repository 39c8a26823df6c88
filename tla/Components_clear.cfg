SPECIFICATION MCSpec
CONSTANTS
    Ids = {1, 2, 3, 4}
    Timeouts = {1, 2}
    MaxTime = 2
    ListNodes = {1, 2, 3, 4}
    TheLists = {l1, l2}
    RbKeys = {1, 2, 3, 4, 5, 6, 7}
    FirstSize = 2
    MaxSize = 6
    RingSize = 5
    MaxPiece = 6
    Labels = 8
    ClockIds = {1, 2, 3}
    ClockTimeouts = {1, 2}
    ClockCapacity = 3
    ClockMaxTime = 2
    HashKeys <- MCHashKeys
    HashValues = {1, 2, 6}
    HashBuckets = 2
    HashNodes = 3
    KmpLetters = {1, 2}
    KmpMaxText = 6
    KmpMaxPattern = 4
    NodeUnknown = "unknown"
    NodeMaxPath = 3
    Peers = {1, 2}
    Pages = {"", "index", "register", "login", "welcome", "video", "picture", "error", "400",
             "403", "404", "key"}
    Texts = {"", "ann", "bob", "one", "two"}
    Requests <- MCRequests
    UserLines <- MCUserLines
    Served <- MCServed
    Hidden <- MCHidden
    MaxAsked <- MCAsked
    Cuts <- MCCuts
    MaxRestarts = 1
PROPERTY ClearForgetsAll
CHECK_DEADLOCK FALSE
