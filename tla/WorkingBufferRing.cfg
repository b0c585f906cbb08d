SPECIFICATION FairSpec
CONSTANTS
    w1 = w1
    w2 = w2
    s1 = s1
    n1 = n1
    NoNs = NoNs
    Workers <- MCWorkers2
    Sessions <- MCSessions1
    Namespaces <- MCNamespaces
    Capacity = 2
    Ttls = {0, 5}
    DefaultTtl = 1
    MaxTime = 2
    MaxAdds = 4
INVARIANTS
    TypeOK
    RingOrder
    Retained
    PromotedOnce
PROPERTIES
    EventuallySwept
CHECK_DEADLOCK FALSE
