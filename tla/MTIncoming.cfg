SPECIFICATION Spec
CONSTANTS
    Update = {u1}
    Answer = {a1}
    MaxUnacknowledged = 1
    FaultKinds = {"close", "replace", "session", "reject", "noise", "restart", "forget"}
    MaxBreaks = 1
    MaxQueue = 2
    MaxAsks = 10
INVARIANTS TypeOK NoLostConfirmation HandledOnce ConfirmedIsSettled 
CHECK_DEADLOCK FALSE
