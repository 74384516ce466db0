SPECIFICATION Spec
CONSTANTS
    c1 = c1
    c2 = c2
    c3 = c3
    Callers <- MCCallers
    Patient <- MCPatient
    Cost = 2
    Full = 4
    MaxWindow = 4
    None = None
INVARIANTS
    TypeOK
    NeverFasterThanRate
    QueueExact
    DrainComes
PROPERTIES
    NoOvertaking
    PatientServed
