CONSTANTS
    e1 = e1
    e2 = e2
    t1 = t1
    s1 = s1
    Entries <- MCEntries
    Tasks <- MCTasks
    Senders <- MCSenders
    Uncached = Uncached
    Written <- MCWritten
    MaxVersion <- MCVersions
    MaxDrops = 1
    ListRace = FALSE
SPECIFICATION FairSpec
INVARIANTS TypeOK InStep
PROPERTIES StaleEnds
CHECK_DEADLOCK FALSE
