SPECIFICATION FairSpec
CONSTANTS
    Runs = {1}
    ServerIds = {s1, s2}
    VolumeIds = {v1}
    None = None
    Janitor = Janitor
    Operator = Operator
    p1 = p1
    p2 = p2
    Providers = {p1}
    ProviderOf <- OneProvider
    Configured = p1
    RetainOption = {}
    KeepOnFailure = TRUE
    InspectOnly = {}
    WithVolume = {1}
    Interruptible = {1}
    ManualDestroy = {}
    DryModes = {FALSE}
    DiskMayFill = FALSE
    RetainFor = 2
    StaleAfter = 2
    RunLimit = 1
    KeepRuns = 1
    MaxTime = 4
    LastStart = 0
    MaxFaults = 2
INVARIANTS TypeOK HostInUseSpared RetainedHostSpared DoneMeansGone ReportTellsTruth
PROPERTIES NothingLeaks LeaseKept
