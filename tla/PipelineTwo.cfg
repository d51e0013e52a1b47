CONSTANTS
    i1 = i1
    i2 = i2
    Image = {i1, i2}
    Thread = {"proc", "up"}
    Uploads <- TwoVehicles
    WriterShares = FALSE
    WxMode = TRUE
    Replies = {"OK", "FALIED", "REFUSED", "CONNECT_ERROR"}
    DbFaults = {"step"}
    Faults = {"crash", "late"}
    MaxFaults = 1
    MaxImages = 1
    QueueBound = 1

SPECIFICATION Spec

INVARIANTS
    OneRowPerImage
    ClosedWasReported
    BoundedResend

SYMMETRY Interchangeable
