SPECIFICATION Spec
CONSTANTS
    Keys = {"Dashboard", "Longhorn", "RancherVM"}
    Workers = {w1, w2}
    NoKey = NoKey
    Replicas = {1, 2}
    Foreign = Foreign
    Budgets <- SafetyBudgets
    MaxLag = 1
CHECK_DEADLOCK FALSE
SYMMETRY WorkerSymmetry
INVARIANTS
    TypeOK
    PrerequisitesFirst
    SyncInv
PROPERTIES
    StatusWriteKeepsSpec
    SeenForeignKept
