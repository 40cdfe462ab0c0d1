SPECIFICATION FairSpec
CONSTANTS
    s1 = s1
    s2 = s2
    s3 = s3
    e1 = e1
    e2 = e2
    w1 = w1
    w2 = w2
    Services = {s1, s2, s3}
    Envs = {e1, e2}
    EnvOf <- Shared
    Workers = {w1}
    MaxFaults = 1
INVARIANTS
    TypeOK
PROPERTIES
    LiveWorkloadSpared
    LiveVolumeSpared
    ClusterFollows
CHECK_DEADLOCK FALSE
