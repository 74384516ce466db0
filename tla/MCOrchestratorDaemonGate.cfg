SPECIFICATION Spec
CONSTANTS
    c1 = c1
    c2 = c2
    c3 = c3
    s1 = s1
    s2 = s2
    k1 = k1
    k2 = k2
    Cards <- WideCards
    Sessions <- WideSessions
    SessionOf <- WideSessionOf
    SemiAuto <- TwoSemiAuto
    Contents <- TwoContents
    PoolOf <- WidePoolOf
    EventCap = 3
    MaxTrios = 1
    None = None
INVARIANT
    WaitingGateIsListed
CHECK_DEADLOCK FALSE
