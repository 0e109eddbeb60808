\* A member of two nodes counts as having signed both.
CONSTANTS
    creator = creator
    m1 = m1
    m2 = m2
    Users = {creator, m1, m2}
    Creator = creator
    Clients = {c1}
    NumNodes = 3
    Countersigned = {3}
    Members <- TwiceMembers
    FirstForms = {"none"}
    Hooks <- NeverCalls
    Overrides = {}
    MaxHistory = 7
    ShortHistory = 7
    MaxCalls = 0
SPECIFICATION Spec
INVARIANT AllHaveSigned
