SPECIFICATION FairSpec
CONSTANTS
    r1 = r1 r2 = r2
    Requests = {r1, r2}
    MaxEvents = 1
    StreamErrors = TRUE
    HostDies = TRUE
CHECK_DEADLOCK FALSE
INVARIANTS TunnelIsFaithful
PROPERTIES NewsArrives
