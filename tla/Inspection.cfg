SPECIFICATION Spec
CONSTANTS
    a = a
    b = b
    Comps = {a, b}
    Data <- TwoSizes
    Initial <- OneSize
    Scopes <- Everything
    Window = 1
    GrowthPct = 40
    ShrinkPct = 20
    MinBytes = 50
    MinFiles = 10
    DumpShrinkPct = 50
    MinDump = 1
    SettledPct = 5
    SettledRuns = 1
    RollingWindows = {3}
    MaxAge = 2
    Retention = 3
    MaxTime = 3
    MaxEvents = 1
SYMMETRY BySymmetry
INVARIANTS TypeOK GenerationsSound
PROPERTIES ChangesTold RepeatTellsTheSame SettledIsSilent
