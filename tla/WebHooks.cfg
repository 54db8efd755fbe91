SPECIFICATION Spec
CONSTANTS
    s1 = s1
    s2 = s2
    d1 = d1
    d2 = d2
    d3 = d3
    point = point
    here = here
    there = there
    NoPoint = NoPoint
    NoUrl = NoUrl
    Empty = Empty
    Own = Own
    Servers = {s1, s2}
    Docs = {d1, d2}
    Points = {point}
    Deployment <- HereOnly
    Contents <- AllContents
    PageSize = 1
    MaxAttempts = 3
    MaxSaves = 1
    MaxDeletes = 1
    MaxCrashes = 1
INVARIANTS AnsweredSavesAreRun BootRunsStoredHooks
PROPERTIES HooksOnlyGrow ServersComeUp
CHECK_DEADLOCK FALSE
