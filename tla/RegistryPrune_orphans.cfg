SPECIFICATION FairSpec
CONSTANTS
    w1 = w1
    w2 = w2
    g1 = g1
    g2 = g2
    MaxDeployments = 2
    OnServers = {2}
    Digests = {g1, g2}
    DigestOf <- RetryDiffers
    Keep = 1
    DockerfileType = TRUE
    Workers = {w1}
    MaxFaults = 0
PROPERTIES
    OrphansReclaimed
CHECK_DEADLOCK FALSE
