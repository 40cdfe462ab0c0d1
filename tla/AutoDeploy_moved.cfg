SPECIFICATION FairSpec
CONSTANTS
    w1 = w1
    w2 = w2
    MaxCommits = 4
    Paths = {"app", "accented", "doc"}
    Watched = {"app", "accented"}
    Quoted = {"accented"}
    FilesOf <- Moving
    Workers = {w1}
    MaxPushes = 2
    MaxFaults = 0
PROPERTIES
    ChangesDeployed
CHECK_DEADLOCK FALSE
