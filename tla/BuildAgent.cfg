SPECIFICATION FairSpec
CHECK_DEADLOCK FALSE
CONSTANTS
    Tasks = {1, 2}
    RunOf <- OneRun
    Lease = 2
    BufferSize = 1
    Batch = 1
    MaxLines = 2
    LinesOf <- FirstWrites
    MaxFaults = 2
INVARIANTS
    TypeOK
    BuildsHoldTheirLease
    LossesReported
PROPERTIES
    TasksEnd
