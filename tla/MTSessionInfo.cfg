SPECIFICATION Spec
CONSTANTS
    Quantum = 8
    MaxTime = 3
    MaxMessages = 4
    MaxSessions = 2
INVARIANTS TypeOK UniqueIds SeqNoFollowsIds ContainerAfterChildren LastIsLatest
CHECK_DEADLOCK FALSE
