\* Two requests predict the same build number.
CONSTANTS
    Builds = {b1, b2}
    Requests = 2
    Workers = {w1}
    Clients = {}
    MaxPending = 0
SPECIFICATION Spec
INVARIANT RowTellsRun
