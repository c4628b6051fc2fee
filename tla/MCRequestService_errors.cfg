SPECIFICATION Spec
CONSTANTS
    Request = {r1, r2}
    PasswordBound = {r1}
    MaxFaults = 2
    Faults = {"error", "bad"}
    MaxPayloads = 1
    WaitSeconds = {1, 2}
INVARIANTS RetriesAreTimed
CHECK_DEADLOCK FALSE
