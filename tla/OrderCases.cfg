\* Mixed tasks and requests, planned orders, and a single worker.
CONSTANTS
    a1 = a1
    a2 = a2
    j1 = j1
    j2 = j2
    j3 = j3
    j4 = j4
    j5 = j5
    Apps = {a1, a2}
    Jobs = {j1, j2, j3, j4, j5}
    AppOf <- FiveApps
    Kind <- FiveKinds
    Workers = 2
    Clients = {c1}
    Requests = {"list", "reschedule", "void", "resetJob"}
    Times = {0, 1}
    MaxTime = 1
    Diff = 0
SPECIFICATION CaseSpec
INVARIANTS TypeOK DeployingIsOwned JobRowTracksTask NoAppLeftBehind VerdictStandsPlanned VerdictFollowsSingle
PROPERTY JobOutcomeFinal
