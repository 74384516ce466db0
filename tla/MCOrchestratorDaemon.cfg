SPECIFICATION Spec
CONSTANTS
    c1 = c1
    c2 = c2
    c3 = c3
    s1 = s1
    s2 = s2
    k1 = k1
    k2 = k2
    Cards <- NarrowCards
    Sessions <- NarrowSessions
    SessionOf <- NarrowSessionOf
    SemiAuto <- TwoSemiAuto
    Contents <- TwoContents
    PoolOf <- NarrowPoolOf
    EventCap = 3
    MaxTrios = 2
    None = None
INVARIANTS
    TypeOK
    GateEntryWaits
    SnapshotIsSuffix
    NoOrphanTrio
PROPERTIES
    OverrideTakenOnce
    ImplementsCardCall
CHECK_DEADLOCK FALSE
