SPECIFICATION FairSpec
CONSTANTS
    Request = {r1, r2}
    Chain = {r1, r2}
    Hash = {1, 2}
    MaxUpdates = 1
    MaxFaults = 1
    Faults = {"reconnect", "flood", "reject", "forget", "remove"}
INVARIANTS StoredIsTold
PROPERTIES OrderKept EnvironmentArrives
CHECK_DEADLOCK FALSE
