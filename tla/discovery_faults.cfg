CONSTANTS
    a = a
    b = b
    Node = {a, b}
    Shape = {1}
    Direct = {1}
    SegmentOf <- OneSegment
    Upstream <- SubnodeB
    NoNode = NoNode
    NoRevision = NoRevision
    NodeTTL = 1
    CandidateLease = 1
    RenewBefore = 0
    MaxRevision = 2
    Punctual = FALSE
    MayRevoke = TRUE
    MayCrash = TRUE
    PersistMayFail = TRUE
    CliSync = {a}
SPECIFICATION Spec
INVARIANTS DiscoveryTypeOK NeverBackwards RevokedStaysOut RevocationFinal
