\* Orders planned for later are listed.
CONSTANTS
    a1 = a1
    a2 = a2
    j1 = j1
    j2 = j2
    Apps = {a1, a2}
    Jobs = {j1}
    AppOf <- OnlyFirst
    Kind <- OnlyK8s
    Workers = 1
    Clients = {c1}
    Requests = {"list"}
    Times = {0, 1}
    MaxTime = 1
    Diff = 0
SPECIFICATION Spec
PROPERTY OnlyOverdueVoided
