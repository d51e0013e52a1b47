CONSTANTS
    i1 = i1
    i2 = i2
    Image = {i1}
    Thread = {"proc", "up"}
    Uploads <- OneVehicle
    WriterShares = FALSE
    WxMode = TRUE
    Replies = {"OK", "REFUSED"}
    DbFaults = {"step"}
    Faults = {}
    MaxFaults = 2
    MaxImages = 1
    QueueBound = 2

SPECIFICATION Spec

INVARIANTS
    RecordBeforeMove
