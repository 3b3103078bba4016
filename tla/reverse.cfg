CONSTANTS
    r1 = r1
    r2 = r2
    Attempt = {r1, r2}
    Stale = {r2}
    Manual = {r1}
    MayCrash = TRUE
SPECIFICATION RunningSpec
INVARIANTS ReverseTypeOK AcceptedWasHanded BridgedIsAccepted
PROPERTIES HandlerReleased SourceReleased
