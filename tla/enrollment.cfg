CONSTANTS
    n1 = n1
    h1 = h1
    h2 = h2
    h3 = h3
    None = None
    Node = {n1}
    Handshake = {h1, h2, h3}
    NodeOf <- OneNode
    SourceOf <- OneSource
    CodeOf <- TwoCodes
    Lifetime = 1
    MaxPending = 2
    MaxPerSource = 2
    PersistMayFail = FALSE
    MayRestart = TRUE
    Followed = {h1}
SPECIFICATION PollingSpec
INVARIANTS EnrollmentTypeOK NoResurrection CredentialBacked
PROPERTIES StatusForward ApprovedIsLearned
