SPECIFICATION FairSpec
CONSTANTS
    w1 = w1
    w2 = w2
    g1 = g1
    g2 = g2
    MaxDeployments = 2
    OnServers = {2}
    Digests = {g1, g2}
    DigestOf <- RetryDiffers
    Keep = 1
    DockerfileType = TRUE
    Workers = {w1}
    MaxFaults = 1
INVARIANTS
    TypeOK
PROPERTIES
    NeededImageSpared
    NeededLayersSpared
    DiskReclaimed
CHECK_DEADLOCK FALSE
