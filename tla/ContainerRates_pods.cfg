SPECIFICATION Spec
CONSTANTS
    web = web
    db = db
    NoPod = NoPod
    Containers = {web, db}
    LongNames <- LongIDs
    Escapes <- Spellings
    MaxPause = 2
    CounterLimit = 8
    Path <- WithGuaranteed
    PodOf <- OwnPods
    Workloads <- OnlyBusy
    MaxFailures = 0
    MaxCores = 1
    MaxLives = 1
    MaxCount = 2
INVARIANT PodsAreNamed
