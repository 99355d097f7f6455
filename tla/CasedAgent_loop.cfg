CONSTANTS
    p1 = p1
    p2 = p2
    bad = bad
    cart = cart
    auth = auth
    Host = Host
    Requests = {p1, p2}
    Services <- Names2
    Body <- Bodies
    Nobody = Nobody
    MaxDurations = 2
    KeepDurations = 1
    MaxSpans = 2
    KeepSpans = 1
    DurationLimit = 4
    ProcFiles <- NoneOrZero
    Others = {0}
    MayHang = TRUE
    BatchSize = 5
    MayCancel = TRUE
SPECIFICATION FairSpec
CHECK_DEADLOCK FALSE
INVARIANTS
    TypeOK
    SpanCountsArePosted
    SpansArePostedOnce
PROPERTIES
    CancelStopsTheAgent
    RoundsEnd
