CONSTANTS
    a = a
    b = b
    Node = {a, b}
    Shape = {1}
    Direct = {1}
    SegmentOf <- OneSegment
    Upstream <- NoUpstream
    NoNode = NoNode
    NoRevision = NoRevision
    NodeTTL = 5
    CandidateLease = 3
    RenewBefore = 1
    MaxRevision = 3
    Punctual = TRUE
    MayRevoke = FALSE
    MayCrash = FALSE
    PersistMayFail = FALSE
    CliSync = {}
SPECIFICATION Spec
INVARIANT CandidateFresh
