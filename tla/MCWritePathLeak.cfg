CONSTANTS
    f1 = f1
    h1 = h1
    h2 = h2
    NoFile = NoFile
    Files <- MCFiles
    Handles <- MCHandles
    MaxVersion = 2
    Faults = FALSE
SPECIFICATION Spec
INVARIANTS EveryOpenMatched
CHECK_DEADLOCK FALSE
