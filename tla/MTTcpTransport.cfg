SPECIFICATION FairSpec
CONSTANTS
    MaxConnections = 3
    MaxPings = 2
    FaultKinds = {"close", "network", "stop", "session", "restart", "block", "bad"}
    MaxFaults = 2
    MaxChatter = 1
INVARIANTS NoConnectionAfterStop OneLiveConnection ReconnectionIsDue ReconnectsAreSpaced UnprovenIsWatched UpdateWillEnd
PROPERTIES GetsConnected
CHECK_DEADLOCK FALSE
