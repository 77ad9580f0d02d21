SPECIFICATION Spec
CONSTANTS
    c1 = c1
    c2 = c2
    c3 = c3
    Callers <- TwoCallers
    Nobody = Nobody
    System = System
    Capacity = 2
    MaxConnections = 2
    MaxSends = 3
    MaxSubscribes = 1
INVARIANTS
    DeliveredInOrder
PROPERTIES
    DeliversAsMailboxes
    SendReturns
CHECK_DEADLOCK FALSE
