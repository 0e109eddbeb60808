\* Callbacks and stops under fairness.
CONSTANTS
    Builds = {b1}
    Requests = 1
    Workers = {w1, w2}
    Clients = {c1}
    MaxPending = 1
SPECIFICATION FairSpec
PROPERTIES CallbackEndsBuild StoppedHasResult
