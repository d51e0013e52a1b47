CONSTANTS
    Order <- AllWorkers
    MaxClicks = 4
    Patient = TRUE

SPECIFICATION LiveSpec

INVARIANTS
    TypeOK
    OneWorkerPerKind
    MenuTellsTruth
    WatcherOwnsHandle

PROPERTIES
    StopEnds

CHECK_DEADLOCK FALSE
