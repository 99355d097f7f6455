SPECIFICATION Spec
CONSTANTS
    web = web
    db = db
    NoPod = NoPod
    Containers = {web, db}
    LongNames <- LongIDs
    Escapes <- Spellings
    MaxPause = 2
    CounterLimit = 8
    Path <- TwoPods
    PodOf <- OwnPods
    Workloads <- BusyOrThrottled
    MaxFailures = 1
    MaxCores = 1
    MaxLives = 2
    MaxCount = 3
INVARIANTS
    TypeOK
    IntervalMatchesSample
    SameContainer
    OnlyCurrentContainersKept
    CPUWithinGrowth
    RatesAreGrowth
    GrowthIsEmitted
    PodsAreNamed
