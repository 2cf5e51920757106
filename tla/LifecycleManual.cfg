SPECIFICATION FairSpec
CONSTANTS
    Runs = {1}
    ServerIds = {s1}
    VolumeIds = {v1}
    None = None
    Janitor = Janitor
    Operator = Operator
    p1 = p1
    p2 = p2
    Providers = {p1}
    ProviderOf <- OneProvider
    Configured = p1
    RetainOption = {}
    KeepOnFailure = TRUE
    InspectOnly = {}
    WithVolume = {}
    Interruptible = {}
    ManualDestroy = {1}
    DryModes = {FALSE}
    DiskMayFill = TRUE
    RetainFor = 1
    StaleAfter = 2
    RunLimit = 1
    KeepRuns = 1
    MaxTime = 3
    LastStart = 0
    MaxFaults = 1
PROPERTIES NothingLeaks LeaseKept
