SPECIFICATION Spec
CONSTANTS
    Request = {r1, r2}
    PasswordBound = {}
    MaxFaults = 1
    Faults = {"close", "reset", "scheme", "bad"}
    MaxPayloads = 2
    WaitSeconds = {1}
SYMMETRY Symmetry
INVARIANTS RequestInv
CHECK_DEADLOCK FALSE
