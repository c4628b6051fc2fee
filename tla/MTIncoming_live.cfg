SPECIFICATION FairSpec
CONSTANTS
    Update = {u1}
    Answer = {a1}
    MaxUnacknowledged = 1
    FaultKinds = {"close", "replace", "session", "reject", "noise", "restart", "forget"}
    MaxBreaks = 1
    MaxQueue = 1
    MaxAsks = 5
PROPERTIES ConfirmationsArrive 
CHECK_DEADLOCK FALSE
