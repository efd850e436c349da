SPECIFICATION Spec
CONSTANTS
    c1 = c1
    c2 = c2
    c3 = c3
    Calls <- MCCalls
    Callable <- MCCallable
    Labels <- MCLabels
    Parts <- MCParts
    Hosts <- MCHosts
    ChunkSize = 2
    FileSizes <- MCFileSizes
    PageSize = 1
    MaxItems = 2
    MaxMessages = 2
    MaxChanges = 2
INVARIANTS
    SecretIsOfTheAddress
    PagesGoOn
    TransfersAreWhole
CONSTRAINT Apart
CHECK_DEADLOCK FALSE
