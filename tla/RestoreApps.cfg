SPECIFICATION FairSpec
CONSTANTS
    a1 = a1
    a2 = a2
    d1 = d1
    x = x
    Apps <- TwoApps
    DataParts <- NoPart
    MainDomain = {x}
    OtherDomains = {}
    ThirdParty = {a1}
    MayFail <- FailingCommands
    MayRaise <- TidyCommands
    SystemParts = FALSE
    HasRoots = {a1}
    HasObjects = {}
    MailParts = {}
    Mode = "full"
    WithVolume = FALSE
    BorgApp = FALSE
    Keep = "on-failure"
    RetryBudget = 5
    ReadyPolls = 2
    MayBreak <- AllCommands
    LocalDiskFull = TRUE
    Interruptible = FALSE
INVARIANTS
    JudgedAlone
    PassMeansRestored
CHECK_DEADLOCK FALSE
PROPERTY Terminates
