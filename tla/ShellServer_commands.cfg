CONSTANTS
    Clients = {c1, c2}
    Names = {"setDebugLevel", "getDebugLevel", "test1", "", "other"}
    Levels = {2}
    None = None
SPECIFICATION FairSpec
INVARIANT ShellInv
PROPERTIES MainGetsReady ClientServed ImplementsCommandService
CHECK_DEADLOCK FALSE
