SPECIFICATION Spec
CONSTANTS
    Requests = {r1, r2}
    MaxAttempts = 3
    MaxOutages = 1
INVARIANTS OnlyFaultsKill RestartsAreRecorded
PROPERTIES RequestsAreSettled InstanceComesBack
CHECK_DEADLOCK FALSE
