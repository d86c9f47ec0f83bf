SPECIFICATION MCSpec
CONSTANTS
    c1 = c1
    c2 = c2
    c3 = c3
    k1 = k1
    k2 = k2
    Orders = {o1, o2}
    Carts = {c1, c2, c3}
    Skus = {k1, k2}
    Threads = {t1, t2}
    Basket <- Baskets
    CodeCarts = {c1, c3}
    MaxUses = 1
    Targets = {"paid", "expired"}
    Counts = {1}
    NoCart = NoCart
    NoKey = NoKey
    MaxSerial = 4
    MaxRacing = 3
SYMMETRY Symmetry
INVARIANTS
    TypeOK
    BooksExplainStock
    OneTrueAnswer
    CodeIsRationed
PROPERTIES
    KeepsShelf
CHECK_DEADLOCK FALSE
