SPECIFICATION EvidenceSpec
CONSTANTS
    None = None
    Goods <- MCGoods
    Services <- MCServices
    Addons <- MCAddons
    RateOf <- MCRateOf
    GroupOf <- MCGroupOf
    Shops <- MCShops
    Policies <- MCPolicies
    SeedPolicy <- MCSeed
    Carts <- MCCarts
    MaxEdits = 2
    Kids <- MCKids
    FirstKid = "k1"
    Followed <- MCFollowed
    KeyActs = 3
    MaxTime = 2
    MaxSeals = 2
INVARIANTS
    EvidenceTypeOK
    ReceiptsStand
    ReceiptSaysWhatHappened
    QuoteIsSound
    PermitWithinPolicy
    ChargedIsApproved
CHECK_DEADLOCK FALSE
