CONSTANTS
    p0 = p0
    p1 = p1
    p2 = p2
    j1 = j1
    badJSON = badJSON
    badProto = badProto
    cart = cart
    auth = auth
    Requests = {p0, p1, p2, j1, badProto}
    Services <- Names
    Body <- Bodies
    Nobody = Nobody
    MaxDurations = 2
    KeepDurations = 1
    MaxSpans = 3
    KeepSpans = 2
    DurationLimit = 4
SPECIFICATION FairSpec
INVARIANTS
    TypeOK
    LockDiscipline
    EntryStaysUnderHandler
    SpanAccounting
    DurationAccounting
    EntriesConsistent
    ForwardedOnceWhole
    AnswerIsTruthful
PROPERTIES
    BufferSpec
    Answered
    EventuallyReported
