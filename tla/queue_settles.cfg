CONSTANTS
    a = a
    tgt = tgt
    k1 = k1
    k2 = k2
    r1 = r1
    r2 = r2
    Node = {a, tgt}
    Key = {k1, k2}
    Request <- TwoRequests
    SourceOf <- TwoSource
    TargetOf <- TwoTarget
    KeyOf <- SameKey
    NoRequest = NoRequest
    TTL = 2
    Lease = 1
    Retention = 1
    ConnectionMax = 2
    MaxPerTarget = 2
    MaxInboxEvents = 1
    PersistMayFail = FALSE
    MayCrash = TRUE
    Polling = {tgt}
    Watched = {r1}
    Observed = {}
SPECIFICATION SettlingSpec
PROPERTY EveryRequestSettles
INVARIANTS NoStaleWatch IdempotencyExact
