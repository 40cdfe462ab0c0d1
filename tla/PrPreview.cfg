SPECIFICATION FairSpec
CONSTANTS
    e1 = e1
    e2 = e2
    w1 = w1
    w2 = w2
    Envs = {e1, e2}
    Prs <- ThreePrs
    RepoOf <- ThreeRepos
    NameOf <- ThreeNames
    ReposOf <- OwnRepo
    Workers = {w1}
    Cap = 1
    Ids <- ThreeIds
    MaxChanges = 2
    MaxFaults = 1
INVARIANTS
    TypeOK
    OvershootBounded
PROPERTIES
    OpenPreviewSpared
    PreviewsFollow
CHECK_DEADLOCK FALSE
