SPECIFICATION FairSpec
CONSTANTS
    a1 = a1
    a2 = a2
    b1 = b1
    b2 = b2
    serial = serial
    mixed = mixed
    Other = Other
    None = None
    Requests <- Exchanges
    Thread <- Threads
    Descriptor <- TwoSockets
    Path <- Targets
    Status <- Answers
    Slices <- ManyLatencies
    Recognised <- Exchanges
    Serial = {serial}
    Duration <- Lasting
    MaxInflight = 2
    MaxRing = 2
    MaxLatencies = 2
    KeepLatencies = 1
    MayStop = TRUE
INVARIANT ErrorsAreCounted
CHECK_DEADLOCK FALSE
