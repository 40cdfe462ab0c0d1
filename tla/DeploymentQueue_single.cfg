SPECIFICATION Spec
CONSTANTS
    app = app
    api = api
    w1 = w1
    w2 = w2
    Services = {app, api}
    BuildServices = {app}
    MaxDeployments = 3
    ServiceOf <- OwnersOfThree
    Workers = {w1}
    NoWorker = NoWorker
    MaxConcurrent = 1
    ClaimBatch = 5
    MaxRollbacks = 2
    MaxOpenEnqueues = 1
    MaxFaults = 1
    SlowWorkers = FALSE
    RegistryReliable = TRUE
INVARIANTS
    TypeOK
    DeployingWithinCap
    LiveIsAccountedFor
    LastSuccessServes
PROPERTIES
    BuildsByContract
CHECK_DEADLOCK FALSE
