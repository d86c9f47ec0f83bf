SPECIFICATION MCSpec
CONSTANTS
    Sessions = {s1, s2}
    Orders = {o1}
    Amounts <- SignedAmounts
    RefundIds <- SignedAmounts
    ReversalIds = {v1}
    Attempt = Attempt
    NoEntry = NoEntry
    RequestIds = {q1, q2}
    NoAsk = NoAsk
    Listed = {}
SYMMETRY Symmetry
INVARIANTS
    DeskTypeOK
    WritesStand
    MoneyBounds
    OneOpenAsk
PROPERTIES
    ResolvedStays
    ApprovedAfterRefund
CHECK_DEADLOCK FALSE
