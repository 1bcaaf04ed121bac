SPECIFICATION LiveSpec
CONSTANTS
    Keys = {"Dashboard"}
    Workers = {w1}
    NoKey = NoKey
    Replicas = {1}
    Foreign = Foreign
    Budgets <- RedeployBudgets
    MaxLag = 1
CHECK_DEADLOCK FALSE
PROPERTY
    BundleComplete
