\* Two users at once with every override, and callbacks with a retry.
CONSTANTS
    creator = creator
    m1 = m1
    m2 = m2
    Users = {creator, m1, m2}
    Creator = creator
    Clients = {c1, c2}
    NumNodes = 3
    Countersigned = {2}
    Members <- MCMembers
    FirstForms = {"none"}
    Hooks <- LastCalls
    Overrides = {"revoke", "close", "complete"}
    MaxHistory = 6
    ShortHistory = 4
    MaxCalls = 2
SPECIFICATION CaseSpec
INVARIANTS TypeOK NoNodeSkipped MembersHavePassed
