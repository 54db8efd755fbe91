SPECIFICATION Spec
CONSTANTS
    p1 = p1
    p2 = p2
    p3 = p3
    p4 = p4
    Comms = {c1}
    People = {p1, p2, p3, p4}
    NoTos = NoTos
    CopyLists <- MCCopyLists
    PageLimit = 1
    FindLimit = 2
    MaxUserChanges = 1
INVARIANTS OneMessagePerRecipient FailureMailsNobody SendToAllReach
CHECK_DEADLOCK FALSE
PROPERTIES RequestsAreAnswered
