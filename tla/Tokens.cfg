SPECIFICATION LiveSpec
CONSTANTS
    Logins = {l1}
    Users = {u1, u2}
    NoUser = NoUser
    TTLs = {0, 1}
    MaxTime = 2
    MaxTokens = 2
    Budget = 1
CHECK_DEADLOCK FALSE
INVARIANTS
    TypeOK
    RunsForOwner
PROPERTIES
    RemovedForAReason
    EveryTokenPurged
    KeepsPromise
