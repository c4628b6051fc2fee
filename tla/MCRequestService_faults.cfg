SPECIFICATION Spec
CONSTANTS
    Request = {r1}
    PasswordBound = {}
    MaxFaults = 2
    Faults = {"close", "restart", "reset", "scheme", "pause", "bad", "slow", "drop", "error", "ack"}
    MaxPayloads = 1
    WaitSeconds = {1}
INVARIANTS NoStrandedRequest NoLostWakeUp WaitingIsAnswered IdsOfThisSession ExecutedOnce
CHECK_DEADLOCK FALSE
