SPECIFICATION Spec
CONSTANTS
    N = 2
    Caller = {c1, c2}
    Rtt = {4, 6}
    MaxAttempts = 3
    FailureModulus = 2
SYMMETRY Callers
INVARIANTS
    TypeOK
    HealthConsistent
    NoServerAskedTwice
    BandsPartition
    EmptyMeansExhausted
PROPERTIES
    FailedOnlyAsLastResort
CHECK_DEADLOCK FALSE
