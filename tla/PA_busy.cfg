SPECIFICATION FairSpec
CONSTANTS
    r1 = r1 r2 = r2 t1 = t1 t2 = t2 t3 = t3
    Requests = {r1, r2}
    Timers = {t1, t2, t3}
    None = None
    Timeout = 2
    Streams = TRUE
    Interrupts = TRUE
CHECK_DEADLOCK FALSE
INVARIANTS ActiveRequestsExact
PROPERTIES NeverStopsBusy IdleStops
