CONSTANTS
    Budget = 2
    MaxCalls = 3
    MaxCrashes = 2
SPECIFICATION FairSpec
INVARIANTS TypeOK AtMostOnce RepliesMatch LoopsBounded NoFalseRefusal ProvenInUse
PROPERTIES RefusalIsFinal CallsReturn
CHECK_DEADLOCK FALSE
