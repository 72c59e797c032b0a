\* Actions, jobs and polls alone, one action at a time per row: the rows follow the server.
CONSTANTS
    vol1 = vol1
    vol2 = vol2
    Vols <- MCVols
    Null = Null
    MaxRequests = 3
    MaxRefresh = 2
    WithRefresh = FALSE
    PerRowSerial = TRUE
SPECIFICATION Spec
CHECK_DEADLOCK FALSE
PROPERTY ImplementsVolumeSpec
PROPERTY RowsConverge
