CONSTANTS
    t1 = t1
    t2 = t2
    Null = Null
    Never = Never
    Tasks <- MCTasks
    Account <- MCAccount
    Interval = 2
    BLOCK_SIZE = 4
    FALLBACK_BLOCKS = 16
    MaxClock = 6
SPECIFICATION FairSpec
INVARIANTS TypeOK SingleFlight AnswersAreVolumes
PROPERTIES NeverGoesBack RefreshEnds
CHECK_DEADLOCK FALSE
