CONSTANTS
    a = a
    b = b
    Node = {a, b}
    Shape = {1, 2}
    Direct = {1}
    SegmentOf <- OneSegment
    Upstream <- SubnodeB
    NoNode = NoNode
    NoRevision = NoRevision
    NodeTTL = 2
    CandidateLease = 1
    RenewBefore = 0
    MaxRevision = 2
    Punctual = FALSE
    MayRevoke = FALSE
    MayCrash = FALSE
    PersistMayFail = FALSE
    CliSync = {}
SPECIFICATION WorkersSpec
INVARIANTS PeersCurrent
PROPERTY PeersConverge
