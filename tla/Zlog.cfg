CONSTANTS
    Thread = {a, b}
    MaxSize = 2
    MaxCounts = {0, 2}
    Faults = {"crash", "rename", "open", "locked"}
    MaxMessages = 7
    MaxFaults = 2

SPECIFICATION FairSpec

INVARIANTS
    TypeOK
    LogKept
    OneLateMessage
    AtMostMaxCount
    RenameFindsRoom
    MutexIsOwned
    WritesToItsFile
    FiniWaits

PROPERTIES
    ImplementsLog
    LogReturns

CHECK_DEADLOCK FALSE
