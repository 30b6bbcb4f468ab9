SPECIFICATION FairSpec
CONSTANTS
    N = 3
    Caller = {c1}
    Rtt = {4}
    MaxAttempts = 2
    FailureModulus = 1
INVARIANTS
    EmptyMeansExhausted
PROPERTIES
    FailedServerRecovers
    CallsReturn
    ProberEnds
CHECK_DEADLOCK FALSE
