CONSTANTS
    r1 = r1
    r2 = r2
    Attempt = {r1, r2}
    Stale = {}
    Manual = {}
    MayCrash = FALSE
SPECIFICATION Spec
INVARIANT OffersDispatched
CHECK_DEADLOCK FALSE
