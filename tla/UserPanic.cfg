SPECIFICATION Spec
CONSTANTS
    Keys = {u1}
    Workers = {w1}
    NoKey = NoKey
    LocalIds = {u1}
    NoId = NoId
    Foreign = Foreign
    Budgets <- OneUserBudgets
    MaxLag = 1
CHECK_DEADLOCK FALSE
INVARIANT
    WorkerSurvives
