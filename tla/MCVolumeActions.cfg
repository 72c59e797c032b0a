\* Rows, actions, jobs, polls and list reloads with a synchronous deleteVolume.
CONSTANTS
    vol1 = vol1
    vol2 = vol2
    Vols <- MCVols
    Null = Null
    MaxRequests = 3
    MaxRefresh = 2
    WithRefresh = TRUE
    PerRowSerial = FALSE
SPECIFICATION Spec
\* Every request, job and poll ends; then the user may stop for good.
CHECK_DEADLOCK FALSE
INVARIANT TypeOK
INVARIANT RemovedOnlyIfDeleted
