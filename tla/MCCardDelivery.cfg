SPECIFICATION Spec
CONSTANTS
    c1 = c1
    c2 = c2
    c3 = c3
    v1 = v1
    v2 = v2
    Cards <- MCCards
    Conversations <- MCConversations
    ConvOf <- MCConvOf
    Paranoid <- MCParanoid
    Burst = 1
    None = None
INVARIANTS
    TypeOK
    ApprovalTableExact
    AckedDecisionHolds
    NothingSentUnapproved
PROPERTIES
    EveryCardEnds
CHECK_DEADLOCK FALSE
