SPECIFICATION LiveSpec
CONSTANTS
    Keys = {"Dashboard"}
    Workers = {w1}
    NoKey = NoKey
    Replicas = {1, 2}
    Foreign = Foreign
    Budgets <- ConvergeBudgets
    MaxLag = 1
CHECK_DEADLOCK FALSE
PROPERTIES
    DeploymentAppears
    ReplicasConverge
    StatusConverges
    NoOrphans
