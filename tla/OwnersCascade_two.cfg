SPECIFICATION FairSpec
CONSTANTS
    o1 = o1
    Orgs = {o1, o2}
    Requests = {r1, r2}
    OrgOf <- Targets
    Projects = {p1}
    Envs = {e1}
    User = User
    Unborn = Unborn
    Gone = Gone
    None = None
    PageLimit = 1
    MaxSaves = 1
    MaxFailures = 1
    MaxCrashes = 1
INVARIANTS NothingElseIsDeleted
PROPERTIES DeleteIsAnswered
