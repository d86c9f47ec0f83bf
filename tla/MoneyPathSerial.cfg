SPECIFICATION Spec
CONSTANTS
    Sweeper = Sweeper
    NoToken = NoToken
    Starts = {s1}
    Taps = {t1, t2}
    Hooks = {h1}
    Cancels = {}
    Events = {e1, e2}
    MethodsOffered = {"upi", "cod"}
    MaxInFlight = 1
    MaxCrashes = 0
    Faults = FALSE
    MaxTime = 4
    TapTTL = 1
    PayWindow = 1
    LinkLife = 2
    PendingTTL = 3
    CodWindow = 3
    LastStart = 0
INVARIANTS
    ClosedOrderHoldsNothing
PROPERTIES
    KeepsLifecycle
CHECK_DEADLOCK FALSE
