CONSTANTS
    Order <- AllWorkers
    MaxClicks = 2
    Patient = TRUE

SPECIFICATION FairSpec

PROPERTIES
    StopEnds

CHECK_DEADLOCK FALSE
