SPECIFICATION FairSpec
CONSTANTS
    w1 = w1
    w2 = w2
    MaxRuns = 1
    Workers = {w1, w2}
    MaxRequests = 1
    MaxFaults = 0
PROPERTIES
    LinkedJobSpared
