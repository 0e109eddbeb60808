\* One build request at a time; two workers and stops.
CONSTANTS
    Builds = {b1, b2}
    Requests = 1
    Workers = {w1, w2}
    Clients = {c1}
    MaxPending = 0
SPECIFICATION Spec
INVARIANTS TypeOK RowTellsRun
PROPERTY StopsOwnRun
