SPECIFICATION Spec
CONSTANTS
    Runs = {1, 2}
    ServerIds = {s1, s2}
    VolumeIds = {}
    None = None
    Janitor = Janitor
    Operator = Operator
    p1 = p1
    p2 = p2
    Providers = {p1}
    ProviderOf <- OneProvider
    Configured = p1
    RetainOption = {2}
    KeepOnFailure = FALSE
    InspectOnly = {}
    WithVolume = {}
    Interruptible = {}
    ManualDestroy = {}
    DryModes = {TRUE, FALSE}
    DiskMayFill = FALSE
    RetainFor = 1
    StaleAfter = 2
    RunLimit = 1
    KeepRuns = 1
    MaxTime = 2
    LastStart = 1
    MaxFaults = 1
SYMMETRY IdSymmetry
INVARIANTS HostInUseSpared PrunedOwnsNothing
