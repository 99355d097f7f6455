CONSTANTS
    oom = oom
    started = started
    noise = noise
    Events = {oom, noise}
    Stored = {noise}
    TypeOf <- TypesOfEvents
    ReasonOf <- ReasonsOfEvents
    MaxEvents = 2
    KeepEvents = 1
    MaxVersion = 2
    MaxWatches = 3
SPECIFICATION FairSpec
INVARIANTS
    TypeOK
    SummaryAddsUp
    OncePerWatch
PROPERTIES
    BufferSpec
    EveryTakenEventIsCounted
    NoGap
    StopEndsWatching
