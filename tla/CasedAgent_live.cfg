CONSTANTS
    p1 = p1
    p2 = p2
    bad = bad
    cart = cart
    auth = auth
    Host = Host
    Requests = {p1, p2, bad}
    Services <- Names2
    Body <- Bodies
    Nobody = Nobody
    MaxDurations = 2
    KeepDurations = 1
    MaxSpans = 2
    KeepSpans = 1
    DurationLimit = 4
    ProcFiles <- Usual
    Others = {1}
    MayHang = FALSE
    BatchSize = 5
    MayCancel = FALSE
SPECIFICATION FairSpec
PROPERTIES
    ReceiverIsServed
