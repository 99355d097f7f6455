CONSTANTS
    p1 = p1
    p2 = p2
    bad = bad
    cart = cart
    auth = auth
    Host = Host
    Requests = {p2}
    Services <- Names2
    Body <- Bodies
    Nobody = Nobody
    MaxDurations = 2
    KeepDurations = 1
    MaxSpans = 2
    KeepSpans = 1
    DurationLimit = 4
    ProcFiles <- NoneOrZero
    Others = {0}
    MayHang = FALSE
    BatchSize = 5
    MayCancel = FALSE
SPECIFICATION Spec
INVARIANTS
    ReadyAfterSuccess
