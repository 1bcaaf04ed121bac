SPECIFICATION LiveSpec
CONSTANTS
    Keys = {u1}
    Workers = {w1}
    NoKey = NoKey
    LocalIds = {u1}
    NoId = NoId
    Foreign = Foreign
    Budgets <- ConvergeBudgets
    MaxLag = 1
CHECK_DEADLOCK FALSE
INVARIANTS
    TypeOK
    SyncedUserHasRights
PROPERTIES
    WriteKeepsUser
    UserGetsRights
