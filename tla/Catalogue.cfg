\* Each part on its own; two clients at once wherever requests overlap.
CONSTANTS
    a = a
    b = b
    c1 = c1
    c2 = c2
    Applications = {a, b}
    AppName <- MCAppName
    EnvOrder <- MCEnvOrder
    NameTag <- MCNameTag
    SpaceTag <- MCSpaceTag
    Preset = {"dev"}
    Counts = {"one", "two"}
    DefaultCount = "one"
    CatClients = {c1, c2}
    MaxCalls = 4
    Members = {1, 2, 3}
    GroupClients = {c1, c2}
    MaxGroupCalls = 3
    r1 = r1
    r2 = r2
    SettingRows = {r1, r2}
    SettingForms <- MCForms
    ByType = {"harbor"}
    SettingClients = {c1, c2}
    MaxSettingCalls = 3
    Blocks = {"resources", "strategy"}
    Required = {"resources"}
    Menus = {1, 2, 3}
    Roles = {1, 2}
    Perms = {"edit", "admin"}
    AdminRole = 2
    PermsMap <- MCPermsMap
    Requests <- MCRequests
    MaxChanges = 3
    FormUsers = {"ann", "bob"}
    Superusers = {"bob"}
    Layouts <- MCLayouts
    FormClients = {c1, c2}
    MaxForms = 4
    HostLists <- MCHostLists
    Forward = "fwd"
    HostJobs = {1, 2}
    LastTask = 2
    MaxHostEdits = 1
    AccessLives = {1, 2}
    RefreshLives = {2, 3}
    UserClients = {c1, c2}
    MaxTime = 5
    MaxUserCalls = 3
SYMMETRY MCSymmetry
SPECIFICATION Spec
INVARIANTS CatTypeOK ServiceHasJob ScaledStays OwnImagesOffered CopiesFollowRow NearestWins RolesAdd MembersKept SuccessReachedAll EndsAsOrdered SessionEnds
PROPERTY StaysDisabled
CHECK_DEADLOCK FALSE
