\* Launch VM clicked twice before the creation request answers.
CONSTANTS
    v1 = v1
    v2 = v2
    None = None
    NumSteps = 3
    Values <- MCValues
    First = v1
    DiskStep = 1
    NetStep = 2
    n1 = n1
    g1 = g1
    OptionalNets = {}
    SecurityGroups = {}
    Custom <- MCCustom
    MaxShows = 5
    MaxLaunches = 2
    SyncProvider = TRUE
    ProviderFails = FALSE
SPECIFICATION Spec
CHECK_DEADLOCK FALSE
INVARIANT CompleteOnce
