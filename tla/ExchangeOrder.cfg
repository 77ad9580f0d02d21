SPECIFICATION Spec
CONSTANTS
    c1 = c1
    c2 = c2
    c3 = c3
    Callers <- TwoCallers
    Nobody = Nobody
    System = System
    Capacity = 1
    MaxConnections = 2
    MaxSends = 3
    MaxSubscribes = 2
SYMMETRY CallerSymmetry
INVARIANTS
    DeliveredInOrder
CHECK_DEADLOCK FALSE
