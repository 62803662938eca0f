SPECIFICATION FairSpec
CONSTANTS
    t1 = t1
    t2 = t2
    t3 = t3
    Tasks <- MCTasks
    Order <- MCOrder
    Phases <- MCPhases
    Errors = {"exitcode", "limit", "crashed"}
    Deterministic = {"exitcode"}
    Transient = {"limit"}
    RateLimited = {"limit"}
    Retries = 3
    CBMax = 2
    MaxPhaseFails = 2
    MaxEpicFails = 2
    Budget = 3
INVARIANTS
    TypeOK
    SuccessMeansDone
    CancelStopsRetries
PROPERTIES
    NoStorm
    Settles
CHECK_DEADLOCK FALSE
