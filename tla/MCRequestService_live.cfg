SPECIFICATION FairSpec
CONSTANTS
    Request = {r1}
    PasswordBound = {}
    MaxFaults = 2
    Faults = {"close", "error", "scheme"}
    MaxPayloads = 1
    WaitSeconds = {1}
PROPERTIES RequestsFinish
CHECK_DEADLOCK FALSE
