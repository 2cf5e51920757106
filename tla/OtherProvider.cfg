SPECIFICATION FairSpec
CONSTANTS
    Runs = {1}
    ServerIds = {s1}
    VolumeIds = {}
    None = None
    Janitor = Janitor
    Operator = Operator
    p1 = p1
    p2 = p2
    Providers = {p1, p2}
    ProviderOf <- FormerProvider
    Configured = p1
    RetainOption = {1}
    KeepOnFailure = FALSE
    InspectOnly = {}
    WithVolume = {}
    Interruptible = {}
    ManualDestroy = {}
    DryModes = {FALSE}
    DiskMayFill = FALSE
    RetainFor = 1
    StaleAfter = 2
    RunLimit = 1
    KeepRuns = 1
    MaxTime = 3
    LastStart = 0
    MaxFaults = 1
PROPERTY RetentionEnds
