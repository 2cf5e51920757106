SPECIFICATION Spec
CONSTANTS
    Components <- AllComponents
    Settings <- SettingsOf
    SkipParts = {"modified"}
    DryRunLimit = 1
    Sizes <- MachineSizes
    MinMemory = 4
    VolumesOffered = TRUE
    BaseDisk = 8
    Headroom = 3
    VolumeLess = 4
    VolumeMin = 10
    Retries = 2
    ExitCodes <- SomeExits
    Complaints = 1
    OutCapacity = 1
    ErrCapacity = 2
    DumpNames = {"db.sql"}
    CodeDirs = {"lib"}
    ConfigRoots <- WwwRoot
    MinRootSize = 4
    MinRootFiles = 2
    Dominance = 50
    DescendShare = 80
    Plumbing <- PlumbingNames
    Hidden = {".ok"}
    KeepFileMax = 1
    KeepDirMax = 3
    KeepDirFiles = 2
    KeepPerRoot = 4
    MarkerMax = 1
    MarkerFiles = 1
    SampleSize = 2
    MaxObject = 9
    ExcludeDirs = {"cache"}
    ExcludeFiles = {".ok"}
    Files = "_"
CHECK_DEADLOCK FALSE
INVARIANTS FullDryRunReadsAll
