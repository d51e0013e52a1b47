CONSTANTS
    i1 = i1
    i2 = i2
    Image = {i1}
    Thread = {"proc", "up"}
    Uploads <- OneWithPlate
    WriterShares = FALSE
    WxMode = TRUE
    Replies = {"OK", "FALIED", "REFUSED", "CONNECT_ERROR"}
    DbFaults = {"open", "prepare", "step"}
    Faults = {"crash", "late"}
    MaxFaults = 2
    MaxImages = 1
    QueueBound = 2

SPECIFICATION Spec

INVARIANTS
    TypeOK
    CopyBeforeDelete
    MovedIsComplete
    OneErrorMovesNothing

PROPERTIES
    ImplementsDelivery
