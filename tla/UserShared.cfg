SPECIFICATION Spec
CONSTANTS
    Keys = {u1, u2}
    Workers = {w1, w2}
    NoKey = NoKey
    LocalIds = {u1}
    NoId = NoId
    Foreign = Foreign
    Budgets <- SharedBudgets
    MaxLag = 1
CHECK_DEADLOCK FALSE
SYMMETRY WorkerSymmetry
INVARIANT
    SyncedUserHasRights
