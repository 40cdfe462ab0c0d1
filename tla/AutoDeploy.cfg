SPECIFICATION FairSpec
CONSTANTS
    w1 = w1
    w2 = w2
    MaxCommits = 5
    Paths = {"app", "accented", "doc"}
    Watched = {"app", "accented"}
    Quoted = {"accented"}
    FilesOf <- Changing
    Workers = {w1}
    MaxPushes = 4
    MaxFaults = 2
INVARIANTS
    TypeOK
    RecordMatchesDeployment
PROPERTIES
    NoRetrigger
    HeadDeployed
CHECK_DEADLOCK FALSE
