SPECIFICATION FairSpec
CONSTANTS
    Sweeper = Sweeper
    NoToken = NoToken
    Starts = {s1}
    Taps = {t1}
    Hooks = {h1}
    Cancels = {}
    Events = {e1, e2}
    MethodsOffered = {"upi"}
    MaxInFlight = 5
    MaxCrashes = 0
    Faults = FALSE
    MaxTime = 4
    TapTTL = 1
    PayWindow = 1
    LinkLife = 2
    PendingTTL = 3
    CodWindow = 3
    LastStart = 0
PROPERTIES
    HoldsEnd
CHECK_DEADLOCK FALSE
