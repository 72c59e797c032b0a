\* Asynchronous data providers that may fail, up to the launch.
CONSTANTS
    v1 = v1
    v2 = v2
    n1 = n1
    g1 = g1
    None = None
    NumSteps = 3
    Values <- MCValues
    First = v1
    DiskStep = 1
    NetStep = 2
    OptionalNets = {}
    SecurityGroups = {}
    Custom <- MCCustom
    MaxShows = 5
    MaxLaunches = 2
    SyncProvider = FALSE
    ProviderFails = TRUE
SPECIFICATION Spec
\* Once the dialog is destroyed and its callbacks have run, nothing is left.
CHECK_DEADLOCK FALSE
INVARIANT PayloadClicked
INVARIANT CustomSizeMatchesOffering
