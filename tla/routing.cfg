CONSTANTS
    s1 = s1
    r1 = r1
    k1 = k1
    q1 = q1
    q2 = q2
    t1 = t1
    u1 = u1
    v1 = v1
    p1 = p1
    Node = {s1, r1, k1, q1, q2, t1, u1, v1}
    RoleOf <- Roles
    SegmentOf <- Segments
    Upstream <- Upstreams
    Move <- Moves
    Rank <- Ranks
    Publisher = {t1, u1, q1, k1}
    NoNode = NoNode
    Unknown = Unknown
    Unsure <- Doubts
    Pull = {p1}
    Route <- Routes
    MayFail = TRUE
SPECIFICATION HandlingSpec
INVARIANTS RoutingTypeOK 
PROPERTY EveryPullSettles
