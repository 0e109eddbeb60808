\* Two deployments, one after the other, on two clusters, and a request that takes one offline.
CONSTANTS
    j1 = j1
    j2 = j2
    j3 = j3
    Jobs = {j1, j2}
    Tags = {"v1", "v2"}
    TagOf <- OwnTag
    Targets <- Chosen
    Ordered = {j1}
    Called = {j2}
    NumClusters = 2
    Workers = 1
    FindPolls = 1
    ReplicaPolls = 1
    CheckCount = 1
    Clients = {c1}
    NoTag = "none"
SPECIFICATION RolloutSpec
PROPERTY RolloutEnds
