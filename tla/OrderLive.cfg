\* Progress of queued tasks.
CONSTANTS
    a1 = a1
    a2 = a2
    j1 = j1
    j2 = j2
    Apps = {a1, a2}
    Jobs = {j1, j2}
    AppOf <- OneEach
    Kind <- K8sAndJar
    Workers = 1
    Clients = {c1}
    Requests = {"void", "reset", "editApp"}
    Times = {0}
    MaxTime = 0
    Diff = 0
SPECIFICATION LiveSpec
PROPERTY EveryTaskEnds
