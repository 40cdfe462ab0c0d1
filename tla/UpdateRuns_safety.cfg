SPECIFICATION Spec
CONSTANTS
    w1 = w1
    w2 = w2
    MaxRuns = 2
    Workers = {w1}
    MaxRequests = 2
    MaxFaults = 1
INVARIANTS
    TypeOK
    AtMostOneActive
    SuccessIsEarned
