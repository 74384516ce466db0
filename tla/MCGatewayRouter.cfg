SPECIFICATION Spec
CONSTANTS
    r1 = r1
    r2 = r2
    anthropic = anthropic
    infomaniak = infomaniak
    Requests <- MCRequests
    Providers <- MCProviders
    FallbackOf <- MCFallbackOf
    FallbackEnabled = TRUE
    PrimaryBudget = 2
    TotalBudget = 4
    WaitCap = 3
    AttemptMax = 1
    MaxRetries = 2
    Backoffs <- MCBackoffs
    DegradedTtl = 2
    None = None
INVARIANTS
    TypeOK
    WithinWorstCase
    SkippedOnlyWhenFresh
PROPERTIES
    RetriesWithinBudget
    EveryRequestSettles
