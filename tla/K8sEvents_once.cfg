CONSTANTS
    oom = oom
    started = started
    noise = noise
    Events = {oom, started}
    Stored = {}
    TypeOf <- TypesOfEvents
    ReasonOf <- ReasonsOfEvents
    MaxEvents = 2
    KeepEvents = 1
    MaxVersion = 1
    MaxWatches = 2
SPECIFICATION Spec
INVARIANTS
    EachOccurrenceOnce
