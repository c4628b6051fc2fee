SPECIFICATION Spec
CONSTANTS
    Roles = {"main", "token", "cdn"}
    Events = {"close", "work", "pause", "stop", "session", "scheme", "proxy", "token",
              "bad", "seq", "newSession", "salts", "resync", "missing"}
    MaxEvents = 2
    MaxPings = 4
INVARIANTS FlagsAreAnswered QuietWhenTold NoForgottenWork KeyInHand
CHECK_DEADLOCK FALSE
