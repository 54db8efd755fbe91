SPECIFICATION Spec
CONSTANTS
    s1 = s1
    s2 = s2
    d1 = d1
    d2 = d2
    d3 = d3
    d4 = d4
    Servers = {s1, s2}
    Docs = {d1, d2, d3, d4}
    Served = {d1, d2, d3}
    Asked <- Wanted
    Fields <- SlugIndex
    UpdatedAt <- UpdatedAtIndex
    Stored = {d1}
    None = None
    MaxFailures = 1
INVARIANTS DocumentsAreIndexed OnlyRivalsFail OnlyRivalsKill OrphanIndexesAreExplained
CHECK_DEADLOCK FALSE
SYMMETRY Symmetry
