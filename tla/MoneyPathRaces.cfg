SPECIFICATION Spec
CONSTANTS
    Sweeper = Sweeper
    NoToken = NoToken
    Starts = {s1, s2}
    Taps = {t1, t2}
    Hooks = {h1}
    Cancels = {c1}
    Events = {e1}
    MethodsOffered = {"upi"}
    MaxInFlight = 2
    MaxCrashes = 1
    Faults = TRUE
    MaxTime = 4
    TapTTL = 1
    PayWindow = 1
    LinkLife = 2
    PendingTTL = 3
    CodWindow = 3
    LastStart = 0
SYMMETRY HandlerSymmetry
INVARIANTS
    TypeOK
    RowFollowsShop
    HoldImpliesTap
    OneTapPerToken
CHECK_DEADLOCK FALSE
