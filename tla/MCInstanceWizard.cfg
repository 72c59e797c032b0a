\* Synchronous data providers: the wizard's sequencing, restoration and
\* default selection against racing timers and creation responses.
CONSTANTS
    v1 = v1
    v2 = v2
    None = None
    NumSteps = 3
    Values <- MCValues
    First = v1
    DiskStep = 1
    NetStep = 2
    n1 = n1
    g1 = g1
    OptionalNets <- MCOptionalNets
    SecurityGroups = {}
    Custom <- MCCustom
    SyncProvider = TRUE
    ProviderFails = FALSE
    MaxShows = 5
    MaxLaunches = 2
SPECIFICATION Spec
\* Once the dialog is destroyed and its callbacks have run, nothing is left.
CHECK_DEADLOCK FALSE
INVARIANT TypeOK
 
