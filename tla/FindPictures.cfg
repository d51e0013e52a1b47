CONSTANTS
    i1 = i1
    i2 = i2
    Image = {i1}
    Thread = {"proc", "up"}
    Uploads <- OneVehicle
    WriterShares = FALSE
    WxMode = TRUE
    Replies = {"OK", "REFUSED"}
    DbFaults = {}
    Faults = {}
    MaxFaults = 0
    MaxImages = 1
    QueueBound = 2

SPECIFICATION Spec

PROPERTIES
    UploadedWithPictures
