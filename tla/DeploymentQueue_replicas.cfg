SPECIFICATION Spec
CONSTANTS
    app = app
    api = api
    w1 = w1
    w2 = w2
    Services = {app}
    BuildServices = {}
    MaxDeployments = 2
    ServiceOf <- OwnersOfTwo
    Workers = {w1, w2}
    NoWorker = NoWorker
    MaxConcurrent = 2
    ClaimBatch = 5
    MaxRollbacks = 1
    MaxOpenEnqueues = 2
    MaxFaults = 1
    SlowWorkers = TRUE
    RegistryReliable = TRUE
SYMMETRY WorkerSymmetry
INVARIANTS
    OneRowPerStage
PROPERTIES
    LifecycleSpec
CHECK_DEADLOCK FALSE
