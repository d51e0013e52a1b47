CONSTANTS
    PollLimit = 1
    MaxJobs = 4
    MaxActs = 1

SPECIFICATION CFairSpec

INVARIANTS
    TypeOK
    ButtonsTellTruth

PROPERTIES
    DeletesStopped
    ToolReturns

CHECK_DEADLOCK FALSE
