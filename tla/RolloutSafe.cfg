\* Three deployments on two clusters: of an order on both, called by a build on one, and on none.
CONSTANTS
    j1 = j1
    j2 = j2
    j3 = j3
    Jobs = {j1, j2, j3}
    Tags = {"v1", "v2", "v3"}
    TagOf <- OwnTag
    Targets <- Chosen
    Ordered = {j1}
    Called = {j2}
    NumClusters = 2
    Workers = 2
    FindPolls = 1
    ReplicaPolls = 1
    CheckCount = 1
    Clients = {}
    NoTag = "none"
SPECIFICATION RolloutSafe
INVARIANTS RolloutTypeOK RecordsWereReady
PROPERTY KeepsPromise
