SPECIFICATION Spec
CONSTANTS
    o1 = o1
    Orgs = {o1}
    Requests = {r1, r2}
    OrgOf <- Targets
    Projects = {p1, p2}
    Envs = {e1}
    User = User
    Unborn = Unborn
    Gone = Gone
    None = None
    PageLimit = 1
    MaxSaves = 1
    MaxFailures = 1
    MaxCrashes = 1
SYMMETRY Symmetry
VIEW Present
INVARIANTS SelectionsCover OrphansAreExplained
