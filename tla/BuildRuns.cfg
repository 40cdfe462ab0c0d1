SPECIFICATION FairSpec
CONSTANTS
    r1 = r1
    r2 = r2
    a1 = a1
    a2 = a2
    w1 = w1
    w2 = w2
    Runs = {r1}
    ExecutionOf <- AllOnAgents
    Agents = {a1}
    AgentMax <- OneEach
    MaxBuilds = 1
    Fallback = TRUE
    Workers = {w1}
    NoAgent = NoAgent
    MaxFaults = 1
    MaxActs = 1
    PromptWorkers = FALSE
INVARIANTS
    TypeOK
    SuccessHasImage
    ActiveRunsHaveAgents
PROPERTIES
    OnlyDeadLeasesRetried
    LifecycleSpec
    NothingLingers
CHECK_DEADLOCK FALSE
