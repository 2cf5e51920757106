SPECIFICATION Spec
CONSTANTS
    a1 = a1
    a2 = a2
    d1 = d1
    x = x
    Apps <- OneApp
    DataParts <- OnePart
    MainDomain = {}
    OtherDomains = {x}
    ThirdParty = {a1}
    MayFail <- FailingCommands
    MayRaise <- NoticedCommands
    SystemParts = TRUE
    HasRoots = {a1, d1}
    HasObjects = {a1, d1}
    MailParts = {d1}
    Mode = "sampled"
    WithVolume = TRUE
    BorgApp = TRUE
    Keep = "on-failure"
    RetryBudget = 20
    ReadyPolls = 2
    MayBreak <- AllCommands
    LocalDiskFull = TRUE
    Interruptible = TRUE
INVARIANTS
    TypeOK
    AtMostOnce
    NothingBeside
    ProductionDnsSafe
    IsolatedInUse
    SampledWhereRestored
    PassMeansRestored
CHECK_DEADLOCK FALSE
