CONSTANTS
    i1 = i1
    i2 = i2
    Image = {i1}
    Thread = {"proc", "up"}
    Uploads <- OneWithPlate
    WriterShares = FALSE
    WxMode = TRUE
    Replies = {"OK", "FALIED"}
    DbFaults = {"step"}
    Faults = {"crash", "late"}
    MaxFaults = 1
    MaxImages = 1
    QueueBound = 1

SPECIFICATION FairSpec

PROPERTIES
    ImplementsFairDelivery
    EveryVehicleUploaded
    FtpFolderDrains
