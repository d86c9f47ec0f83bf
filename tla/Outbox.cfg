SPECIFICATION Spec
CONSTANTS
    a1 = a1
    o1 = o1
    Agents = {a1}
    Orders = {o1}
    AgentOf <- PlacedBy
    MAX_ATTEMPTS = 2
    Limit = 2
    MaxEvents = 2
    MaxCrashes = 1
INVARIANTS
    TypeOK
    ToldIsTrue
    DeliveryIsHonest
PROPERTIES
    QueueDrains
CHECK_DEADLOCK FALSE
