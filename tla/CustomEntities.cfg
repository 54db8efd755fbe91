SPECIFICATION Spec
CONSTANTS
    d1 = d1
    d2 = d2
    f1 = f1
    f2 = f2
    v1 = v1
    v2 = v2
    e1 = e1
    e2 = e2
    None = None
    Docs = {d1, d2}
    Slugs = {f1, f2}
    Versions = {v1, v2}
    Enablers = {e1, e2}
    Servers = {s1}
    MaxRequests = 2
    MaxLost = 1
    MaxLoads = 1
INVARIANTS FilesFollowDocuments LoadFailsOnlyOnDelete
CHECK_DEADLOCK FALSE
PROPERTIES DropsAreEnabled
