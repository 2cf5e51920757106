SPECIFICATION Spec
CONSTANTS
    a1 = a1
    a2 = a2
    d1 = d1
    x = x
    Apps <- OneApp
    DataParts <- NoPart
    MainDomain = {}
    OtherDomains = {x}
    ThirdParty = {a1}
    MayFail = {}
    MayRaise = {}
    SystemParts = TRUE
    HasRoots = {}
    HasObjects = {}
    MailParts = {}
    Mode = "sampled"
    WithVolume = FALSE
    BorgApp = FALSE
    Keep = "on-failure"
    RetryBudget = 5
    ReadyPolls = 2
    MayBreak = {"domains"}
    LocalDiskFull = FALSE
    Interruptible = FALSE
INVARIANT RetainedIsolated
CHECK_DEADLOCK FALSE
