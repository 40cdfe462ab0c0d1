SPECIFICATION FairSpec
CONSTANTS
    app = app
    api = api
    w1 = w1
    w2 = w2
    Services = {app}
    BuildServices = {app}
    MaxDeployments = 2
    ServiceOf <- OwnersOfTwo
    Workers = {w1}
    NoWorker = NoWorker
    MaxConcurrent = 1
    ClaimBatch = 5
    MaxRollbacks = 2
    MaxOpenEnqueues = 1
    MaxFaults = 1
    SlowWorkers = FALSE
    RegistryReliable = FALSE
PROPERTIES
    EveryRowEnds
CHECK_DEADLOCK FALSE
