SPECIFICATION FairSpec
CONSTANTS
    Roles = {"main", "token", "cdn"}
    Events = {"close", "work", "pause", "stop", "session", "scheme", "proxy", "token", "bad", "salts", "missing"}
    MaxEvents = 2
    MaxPings = 6
PROPERTIES WorkIsSent
CHECK_DEADLOCK FALSE
