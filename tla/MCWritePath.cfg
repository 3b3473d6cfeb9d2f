CONSTANTS
    f1 = f1
    h1 = h1
    h2 = h2
    NoFile = NoFile
    Files <- MCFiles
    Handles <- MCHandles
    MaxVersion = 2
    Faults = TRUE
SPECIFICATION FairSpec
INVARIANTS TypeOK NoSilentLoss FsyncDurable OpenSetMatched
PROPERTIES HandlersSettle ImplementsDurable
CHECK_DEADLOCK FALSE
