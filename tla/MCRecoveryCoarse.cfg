CONSTANTS
    p1 = p1
    p2 = p2
    f1 = f1
    f2 = f2
    NoProc = NoProc
    NoFile = NoFile
    Procs <- MCProcs
    Files <- MCFiles
    Granule = 2
    Budget = 1
    MaxVersion = 2
    MaxClock = 1
    MaxStarts = 2
SPECIFICATION Spec
INVARIANTS NoneLeftBehind
CHECK_DEADLOCK FALSE
